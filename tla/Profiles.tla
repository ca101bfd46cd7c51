-------------------------------- MODULE Profiles --------------------------------
(***************************************************************************)
(* The profile hand-off (src/server/profiles.rs) and the profile sessions  *)
(* that use it (src/server/ws.rs).                                         *)
(*                                                                         *)
(* The gateway drops a profile off and gets a token; a request with that   *)
(* token claims the profile, launches a browser seeded with it, serves its *)
(* client, captures the profile back and deposits it under the same token; *)
(* the gateway picks it up.  The store's operations are atomic (a mutex);  *)
(* between them requests run on tasks of their own, entries grow old, and  *)
(* browsers die.                                                           *)
(***************************************************************************)
EXTENDS Naturals, FiniteSets

CONSTANTS
    Tokens,         \* the tokens mint_token will return, each once
    NoToken,        \* the token of a request that has claimed none
    Requests,       \* WebSocket requests that name a profile token
    MaxPending      \* MAX_PENDING

ASSUME ProfilesAssumption ==
    /\ IsFiniteSet(Tokens)
    /\ NoToken \notin Tokens
    /\ MaxPending \in Nat

VARIABLES
    slot,       \* the store: the state of each token's entry
    age,        \* "fresh", "stale" after PROFILE_TTL, "old" after 24 hours
    result,     \* what was deposited under a token
    pickups,    \* history: how often a token was picked up
    stage,      \* how far each request is
    tok,        \* the token it claimed
    readOnly,   \* whether it asked for ?readOnly
    browser,    \* its browser: "down" is dead with its directory still there
    captured    \* what the capture returned

store    == <<slot, age, result, pickups>>
request  == <<stage, tok, readOnly, browser, captured>>
vars     == <<slot, age, result, pickups, stage, tok, readOnly, browser,
              captured>>

SlotStates == {"unminted", "pending", "inflight", "ready", "gone"}
Stages == {"idle", "launching", "upgrading", "seeding", "serving", "capturing",
           "killing", "depositing", "discarding", "over", "aborted"}
\* The stages in which profile_session runs and has not yet reported back.
Running == {"seeding", "serving", "capturing", "killing", "depositing"}

(* Every variable holds a value of its type; Slot::Ready carries a payload. *)
TypeOK ==
    /\ slot \in [Tokens -> SlotStates]
    /\ age \in [Tokens -> {"fresh", "stale", "old"}]
    /\ result \in [Tokens -> {"none", "full", "empty"}]
    /\ \A t \in Tokens : slot[t] = "ready" => result[t] # "none"
    /\ pickups \in [Tokens -> Nat]
    /\ stage \in [Requests -> Stages]
    /\ tok \in [Requests -> Tokens \cup {NoToken}]
    /\ readOnly \in [Requests -> BOOLEAN]
    /\ browser \in [Requests -> {"none", "up", "down", "gone"}]
    /\ captured \in [Requests -> {"none", "full", "empty"}]

Init ==
    /\ slot = [t \in Tokens |-> "unminted"]
    /\ age = [t \in Tokens |-> "fresh"]
    /\ result = [t \in Tokens |-> "none"]
    /\ pickups = [t \in Tokens |-> 0]
    /\ stage = [r \in Requests |-> "idle"]
    /\ tok = [r \in Requests |-> NoToken]
    /\ readOnly \in [Requests -> BOOLEAN]
    /\ browser = [r \in Requests |-> "none"]
    /\ captured = [r \in Requests |-> "none"]

-----------------------------------------------------------------------------
(* The store. *)

Entries(s) == {t \in Tokens : s[t] \in {"pending", "inflight", "ready"}}

(* Mutant of Swept: one age limit, whatever the slot holds. *)
SweptOneLimit ==
    [t \in Tokens |-> IF t \in Entries(slot) /\ age[t] # "fresh" THEN "gone" ELSE slot[t]]

(* sweep: a profile waiting or captured lives PROFILE_TTL, one in flight    *)
(* IN_FLIGHT_MAX_AGE.                                                       *)
Swept ==
    [t \in Tokens |->
        IF \/ slot[t] \in {"pending", "ready"} /\ age[t] # "fresh"
           \/ slot[t] = "inflight" /\ age[t] = "old"
        THEN "gone" ELSE slot[t]]

(* Time passes.  Only a session that runs that long, or was lost, leaves an *)
(* entry in flight for 24 hours.                                            *)
Elapse(t) ==
    /\ t \in Entries(slot)
    /\ \/ age[t] = "fresh" /\ age' = [age EXCEPT ![t] = "stale"]
       \/ /\ age[t] = "stale" /\ slot[t] = "inflight"
          /\ \E r \in Requests : tok[r] = t /\ stage[r] \in Running \cup {"aborted"}
          /\ age' = [age EXCEPT ![t] = "old"]
    /\ UNCHANGED <<slot, result, pickups>>
    /\ UNCHANGED request

(* drop_off: sweeps; refuses at the cap, or when no token can be minted. *)
DropOff(t) ==
    /\ slot[t] = "unminted"
    /\ \/ /\ Cardinality(Entries(Swept)) < MaxPending
          /\ slot' = [Swept EXCEPT ![t] = "pending"]
       \/ slot' = Swept
    /\ UNCHANGED <<age, result, pickups>>
    /\ UNCHANGED request

(* Mutant of PickUp: the entry stays. *)
PickUpCopies(t) ==
    /\ Swept[t] = "ready"
    /\ pickups' = [pickups EXCEPT ![t] = IF @ < 2 THEN @ + 1 ELSE @]
    /\ slot' = Swept
    /\ UNCHANGED <<age, result>>
    /\ UNCHANGED request

(* pick_up: sweeps; a ready entry is removed and returned. *)
PickUp(t) ==
    /\ slot[t] # "unminted"
    /\ \/ /\ Swept[t] = "ready"
          /\ slot' = [Swept EXCEPT ![t] = "gone"]
          /\ pickups' = [pickups EXCEPT ![t] = @ + 1]
       \/ /\ Swept[t] # "ready"
          /\ slot' = Swept
          /\ UNCHANGED pickups
    /\ UNCHANGED <<age, result>>
    /\ UNCHANGED request

(* finish_without_result: forgets the entry while it is in flight. *)
FinishWithoutResult(t) ==
    /\ slot' = IF slot[t] = "inflight" THEN [slot EXCEPT ![t] = "gone"] ELSE slot
    /\ UNCHANGED <<age, result, pickups>>

(* deposit_result: only an entry in flight becomes ready, with a new age. *)
DepositResult(t, what) ==
    /\ \/ /\ slot[t] = "inflight"
          /\ slot' = [slot EXCEPT ![t] = "ready"]
          /\ result' = [result EXCEPT ![t] = what]
          /\ age' = [age EXCEPT ![t] = "fresh"]
       \/ slot[t] # "inflight" /\ UNCHANGED <<slot, age, result>>
    /\ UNCHANGED pickups

-----------------------------------------------------------------------------
(* A request's way through serve_profile_session and profile_session. *)

Goto(r, from, to) ==
    /\ stage[r] = from
    /\ stage' = [stage EXCEPT ![r] = to]

(* ProfileStore::claim: sweeps; a pending entry goes in flight, any other   *)
(* token is refused with 404.                                               *)
ClaimProfile(r, t) ==
    /\ stage[r] = "idle"
    /\ \/ /\ Swept[t] = "pending"
          /\ slot' = [Swept EXCEPT ![t] = "inflight"]
          /\ age' = [age EXCEPT ![t] = "fresh"]
          /\ stage' = [stage EXCEPT ![r] = "launching"]
          /\ tok' = [tok EXCEPT ![r] = t]
       \/ /\ Swept[t] # "pending"
          /\ slot' = Swept
          /\ UNCHANGED <<age, stage, tok>>
    /\ UNCHANGED <<result, pickups, readOnly, browser, captured>>

(* create_seeded succeeded; the upgrade response is on its way. *)
Launched(r) ==
    /\ Goto(r, "launching", "upgrading")
    /\ browser' = [browser EXCEPT ![r] = "up"]
    /\ UNCHANGED <<tok, readOnly, captured>>
    /\ UNCHANGED store

(* create_seeded failed, after taking its directory down: the request is    *)
(* rejected and the store is not told.                                      *)
LaunchFailed(r) ==
    /\ Goto(r, "launching", "aborted")
    /\ UNCHANGED <<tok, readOnly, browser, captured>>
    /\ UNCHANGED store

(* The client went away during the launch and the handler's future is       *)
(* dropped: kill_on_drop ends the process, a provisioned directory stays.   *)
HandlerDropped(r) ==
    /\ Goto(r, "launching", "aborted")
    /\ \E left \in {"none", "down"} : browser' = [browser EXCEPT ![r] = left]
    /\ UNCHANGED <<tok, readOnly, captured>>
    /\ UNCHANGED store

(* The upgrade fails: the callback is dropped without being called, and the *)
(* ChromeSession it owns with it.                                           *)
UpgradeFailed(r) ==
    /\ Goto(r, "upgrading", "aborted")
    /\ browser' = [browser EXCEPT ![r] = "down"]
    /\ UNCHANGED <<tok, readOnly, captured>>
    /\ UNCHANGED store

Upgraded(r) ==
    /\ Goto(r, "upgrading", "seeding")
    /\ UNCHANGED <<tok, readOnly, browser, captured>>
    /\ UNCHANGED store

(* seed_profile: cookies, the page target and localStorage over the pipe. *)
Seeded(r) ==
    /\ browser[r] = "up"
    /\ Goto(r, "seeding", "serving")
    /\ UNCHANGED <<tok, readOnly, browser, captured>>
    /\ UNCHANGED store

(* Mutant of SeedFailed: the refused session does not release its entry. *)
SeedFailedSilently(r) ==
    /\ Goto(r, "seeding", "discarding")
    /\ UNCHANGED <<tok, readOnly, browser, captured>>
    /\ UNCHANGED store

(* A CDP call of the seeding failed: the client gets a 1011 close and the   *)
(* entry is released before the browser is destroyed.                       *)
SeedFailed(r) ==
    /\ Goto(r, "seeding", "discarding")
    /\ FinishWithoutResult(tok[r])
    /\ UNCHANGED <<tok, readOnly, browser, captured>>

(* serve_profile hands the pipe back: the client left, went idle or its     *)
(* resume window ended.  A failed write to a browser that died is reported  *)
(* as the client's end too.  Read-only sessions are discarded.              *)
ServedWithPipe(r) ==
    /\ \/ /\ readOnly[r]
          /\ Goto(r, "serving", "discarding")
          /\ FinishWithoutResult(tok[r])
       \/ /\ ~readOnly[r]
          /\ Goto(r, "serving", "capturing")
          /\ UNCHANGED store
    /\ UNCHANGED <<tok, readOnly, browser, captured>>

(* serve_profile returns nothing: the pipe ended first, which is a browser   *)
(* that died or one that lives and sent a frame too large; or shutdown.     *)
ServedWithoutPipe(r) ==
    /\ \/ /\ readOnly[r]
          /\ Goto(r, "serving", "discarding")
          /\ FinishWithoutResult(tok[r])
       \/ /\ ~readOnly[r]
          /\ Goto(r, "serving", "killing")
          /\ UNCHANGED store
    /\ UNCHANGED <<tok, readOnly, browser, captured>>

(* capture_cookies; a failure of any kind counts as no cookies. *)
Capture(r) ==
    /\ Goto(r, "capturing", "killing")
    /\ \/ browser[r] = "up" /\ captured' = [captured EXCEPT ![r] = "full"]
       \/ captured' = [captured EXCEPT ![r] = "empty"]
    /\ UNCHANGED <<tok, readOnly, browser>>
    /\ UNCHANGED store

(* destroy_capturing_native: kills the browser, packs the native layer from *)
(* its directory, removes the directory.                                    *)
KillCapturing(r) ==
    /\ Goto(r, "killing", "depositing")
    /\ browser' = [browser EXCEPT ![r] = "gone"]
    /\ UNCHANGED <<tok, readOnly, captured>>
    /\ UNCHANGED store

(* The last lines of profile_session. *)
Deposit(r) ==
    /\ Goto(r, "depositing", "over")
    /\ IF captured[r] # "none"
       THEN DepositResult(tok[r], captured[r])
       ELSE FinishWithoutResult(tok[r])
    /\ UNCHANGED <<tok, readOnly, browser, captured>>

(* factory.destroy of a session that reported back already. *)
Discard(r) ==
    /\ Goto(r, "discarding", "over")
    /\ browser' = [browser EXCEPT ![r] = "gone"]
    /\ UNCHANGED <<tok, readOnly, captured>>
    /\ UNCHANGED store

BrowserDies(r) ==
    /\ browser[r] = "up"
    /\ browser' = [browser EXCEPT ![r] = "down"]
    /\ UNCHANGED <<stage, tok, readOnly, captured>>
    /\ UNCHANGED store

Session(r) ==
    \/ \E t \in Tokens : ClaimProfile(r, t)
    \/ Launched(r) \/ LaunchFailed(r) \/ HandlerDropped(r)
    \/ UpgradeFailed(r) \/ Upgraded(r) \/ Seeded(r) \/ SeedFailed(r)
    \/ ServedWithPipe(r) \/ ServedWithoutPipe(r) \/ Capture(r)
    \/ KillCapturing(r) \/ Deposit(r) \/ Discard(r) \/ BrowserDies(r)

Next ==
    \/ \E t \in Tokens : Elapse(t) \/ DropOff(t) \/ PickUp(t)
    \/ \E r \in Requests : Session(r)

Spec == Init /\ [][Next]_vars

-----------------------------------------------------------------------------
(* What the hand-off promises. *)

(* A hand-off is one-shot at both ends: no two requests run on the same     *)
(* token, however claims, sweeps and deposits interleave, and what was      *)
(* captured is handed out once; and the store never holds more than its     *)
(* cap of profiles waiting, in flight and captured.                         *)
OneShot ==
    /\ TypeOK
    /\ \A r, q \in Requests : r # q /\ tok[r] # NoToken => tok[r] # tok[q]
    /\ \A t \in Tokens : pickups[t] <= 1
    /\ Cardinality(Entries(slot)) <= MaxPending

(* What can be picked up is final: the session it came from saves, has      *)
(* ended, and its browser is gone. A profile session that got as far as its *)
(* client releases its entry on every one of its ends; an entry left in     *)
(* flight is that of a session under way or of a request that never got     *)
(* there.                                                                   *)
EndsAreFinal ==
    \A t \in Tokens :
        /\ slot[t] = "ready" =>
              \E r \in Requests :
                  tok[r] = t /\ stage[r] = "over" /\ browser[r] = "gone" /\ ~readOnly[r]
        /\ slot[t] = "inflight" => \E r \in Requests : tok[r] = t /\ stage[r] # "over"
        /\ \A r \in Requests : stage[r] = "over" => browser[r] = "gone"

(* What one step may do to the store, and to a request under way. *)
EntryStep ==
    /\ \A t \in Tokens :
          \/ slot'[t] = slot[t]
          \/ slot[t] = "unminted" /\ slot'[t] = "pending"
          \/ slot[t] = "pending"  /\ slot'[t] \in {"inflight", "gone"}
          \/ slot[t] = "inflight" /\ slot'[t] \in {"ready", "gone"}
          \/ slot[t] = "ready"    /\ slot'[t] = "gone"
    /\ \A r \in Requests :
          /\ stage[r] \in Running /\ stage'[r] \in Running
          /\ slot[tok[r]] = "inflight" /\ slot'[tok[r]] # "inflight"
          => age[tok[r]] = "old"

(* An entry moves only forward, from pending through in flight to ready,    *)
(* and one that was picked up, released or swept never comes back, however  *)
(* late its session reports. CHANGELOG, 0.1.20: a session in progress keeps *)
(* its record once "any other profile session came or went": only its own   *)
(* end or 24 hours take it away.                                            *)
EntryLife == [][EntryStep]_vars

-----------------------------------------------------------------------------
(* The inductive invariant behind the proofs. *)

(* A request has a token exactly once it has claimed, no other request has  *)
(* it, and its entry never waits for a claim again.                         *)
TokenInv ==
    \A r \in Requests :
        /\ stage[r] = "idle" <=> tok[r] = NoToken
        /\ tok[r] # NoToken => slot[tok[r]] \notin {"unminted", "pending"}
        /\ \A q \in Requests : r # q /\ tok[r] # NoToken => tok[r] # tok[q]

(* An entry in flight has a request that will still report to it, or that   *)
(* never got to its client; one that is ready had one that saved.           *)
EntryInv ==
    \A t \in Tokens :
        /\ pickups[t] = 0 \/ (pickups[t] = 1 /\ slot[t] = "gone")
        /\ slot[t] = "inflight" =>
              \E r \in Requests : tok[r] = t /\ stage[r] \notin {"discarding", "over"}
        /\ slot[t] = "ready" =>
              \E r \in Requests : tok[r] = t /\ stage[r] = "over" /\ ~readOnly[r]

(* Only a session that saves is captured, and only a browser that is gone   *)
(* has its profile deposited.                                               *)
SessionInv ==
    \A r \in Requests :
        /\ stage[r] \in {"capturing", "killing", "depositing"} => ~readOnly[r]
        /\ stage[r] \in {"depositing", "over"} => browser[r] = "gone"

ProfilesInv ==
    /\ TypeOK /\ TokenInv /\ EntryInv /\ SessionInv
    /\ Cardinality(Entries(slot)) <= MaxPending
=============================================================================
