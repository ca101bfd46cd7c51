------------------------------- MODULE Server -------------------------------
(***************************************************************************)
(* The process around the sessions: configuration, the sweep of old        *)
(* session directories, admission of requests, single use, and shutdown    *)
(* (server.rs, server/ws.rs, server/http.rs, server/single_use.rs).        *)
(*                                                                         *)
(* The pool appears through the slots it has free and its queue; Pool has  *)
(* its detail. A request is a handler future, which axum drops when its    *)
(* client goes, then a WebSocket whose callback runs as a tracked task.    *)
(***************************************************************************)
EXTENDS Config, FiniteSets

CONSTANTS
    Requests,       \* requests of one run of the process
    Setups,         \* configuration files and environments to start with
    Credentials,    \* what requests carry: [query, bearer, origin]
    Loads,          \* sets of host limits exceeded at one time
    Measured,       \* ceilings that calibration may measure
    Estimate,       \* compute's ceiling before that
    MaxRuns,        \* starts of the process
    MaxStuck        \* trees that one run's sweeps cannot remove

ASSUME ServerAssumption ==
    /\ IsFiniteSet(Requests)
    /\ {} \in Loads /\ Loads \subseteq SUBSET {"cpu", "memory", "threads"}
    /\ Measured \subseteq Nat \ {0} /\ Estimate \in Nat \ {0} /\ MaxRuns \in Nat \ {0}

\* What serde reads from a file, and what the environment's numbers read as.
ASSUME SetupsAssumption ==
    \A s \in Setups :
        /\ \A k \in Switches \cap DOMAIN s.file : s.file[k] \in BOOLEAN
        /\ "max_sessions" \in DOMAIN s.file => s.file["max_sessions"] \in Nat \cup {Unset}
        /\ "max_sessions" \in DOMAIN s.env => s.env["max_sessions"] \in Nat \cup {Junk}

VARIABLES
    config,         \* the settings, whether they are valid, whether there is a token
    run,            \* which start this is
    phase,          \* how far serve has come
    dirs,           \* session directories on disk: <<run, owner>>
    toSweep,        \* listed by the sweep under way and not yet handled
    unswept,        \* those that the sweep of this start could not remove
    calibrating,    \* AppState.calibrating
    calibration,    \* the tracked task that measures, sizes the pool and opens it
    spent, finished,        \* SingleUse
    closed, max, lost,      \* the pool: closed, ceiling, slots lost for good
    blocked,        \* the factory's sandbox_blocked under requireSandbox
    warm,           \* the replenisher's browser
    cancelled,      \* AppState.cancel
    at, kind        \* each request: its stage, what it asks for

process == <<config, run, phase, toSweep, unswept, calibrating, calibration, max, cancelled>>
pool == <<closed, lost, warm, blocked>>
vars == <<process, pool, dirs, spent, finished, at, kind>>

Kinds == {"pool", "proxied", "profile", "upload"}
Owners == Requests \cup {"warm", "calibration"}
\* Stages in which hyper still has the connection, and axum::serve waits for it.
Connected == {"uploading", "checked", "relaying", "claiming", "queued", "launching",
              "answering"}
\* Stages in which the request has, or has had, a browser of its own.
WithBrowser == {"launching", "answering", "switching", "serving", "destroying",
                "dropping", "over", "cut"}
Ended == {"refused", "uploaded", "over", "cut"}
\* Stages of a request that took the one use, if it has not been refused since.
Taken == WithBrowser \cup {"relaying", "claiming", "queued"}

Dir(owner) == <<run, owner>>

(* Every variable holds a value of its type, and the settings in force are  *)
(* valid: single use has one slot and no calibration, whatever file and     *)
(* environment say together.                                                *)
TypeOK ==
    /\ run \in 1..MaxRuns
    /\ phase \in {"off", "failed", "sweeping", "serving", "closing", "draining",
                  "aborting", "lastSweep", "exit"}
    /\ UNION {dirs, toSweep, unswept} \subseteq (1..MaxRuns) \X Owners
    /\ {calibrating, spent, finished, closed, blocked, cancelled} \subseteq BOOLEAN
    /\ max \in Nat \ {0} /\ lost \in Nat
    /\ warm \in {"none", "launching", "ready", "destroying"}
    /\ calibration \in {"none", "measuring", "sized"}
    /\ at \in [Requests -> Connected \cup WithBrowser \cup Ended \cup {"idle"}]
    /\ kind \in [Requests -> Kinds]
    /\ phase \notin {"off", "failed"} =>
          /\ config.max_sessions # 0 /\ ~(config.require_sandbox /\ config.no_sandbox)
          /\ config.single_use => max = 1 /\ ~calibrating

-----------------------------------------------------------------------------
(* serve: start. *)

\* A process that has not started, whatever earlier ones left on disk.
Fresh ==
    [phase |-> "off", calibrating |-> FALSE, calibration |-> "none", spent |-> FALSE,
     finished |-> FALSE, closed |-> FALSE, max |-> 1, lost |-> 0, blocked |-> FALSE,
     warm |-> "none", cancelled |-> FALSE, at |-> [r \in Requests |-> "idle"],
     kind |-> [r \in Requests |-> "pool"]]

Init ==
    /\ \E s \in Setups :
          config = Over([valid |-> load(s.file, s.env), token |-> "token" \in DOMAIN s.env],
                        Loaded(s.file, s.env))
    /\ run = 1 /\ dirs = {} /\ toSweep = {} /\ unswept = {}
    /\ phase = Fresh.phase /\ calibrating = Fresh.calibrating
    /\ calibration = Fresh.calibration
    /\ spent = Fresh.spent /\ finished = Fresh.finished /\ closed = Fresh.closed
    /\ max = Fresh.max /\ lost = Fresh.lost /\ blocked = Fresh.blocked
    /\ warm = Fresh.warm /\ cancelled = Fresh.cancelled /\ at = Fresh.at
    /\ kind = Fresh.kind

\* resolve_capacity.
resolve_capacity == IF config.max_sessions # Unset THEN config.max_sessions ELSE Estimate

will_calibrate == config.max_sessions = Unset /\ config.calibrate

\* run_serve, and serve up to clean_stale's listing; bad settings end it.
Start ==
    /\ phase = "off"
    /\ IF config.valid THEN phase' = "sweeping" /\ toSweep' = dirs
       ELSE phase' = "failed" /\ UNCHANGED toSweep
    /\ UNCHANGED <<config, run, unswept, calibrating, calibration, max, cancelled, pool, dirs,
                   spent, finished, at, kind>>

\* No browser is found, the directory cannot be read, the port is taken.
StartFails ==
    /\ phase \in {"off", "sweeping"} /\ phase' = "failed"
    /\ UNCHANGED <<config, run, toSweep, unswept, calibrating, calibration, max, cancelled, pool, dirs,
                   spent, finished, at, kind>>

\* clean_stale, one entry; a tree that cannot be removed is skipped.
clean_stale(d) ==
    /\ phase \in {"sweeping", "lastSweep"} /\ d \in toSweep
    /\ toSweep' = toSweep \ {d}
    /\ \/ dirs' = dirs \ {d} /\ UNCHANGED unswept
       \/ Cardinality(unswept) < MaxStuck /\ unswept' = unswept \cup {d} /\ UNCHANGED dirs
    /\ UNCHANGED <<config, run, phase, calibrating, calibration, max, cancelled, pool, spent,
                   finished, at, kind>>

\* Mutant: the sweep goes on behind a server that already listens.
ListenBeforeSweep ==
    /\ phase = "sweeping" /\ phase' = "serving"
    /\ max' = resolve_capacity /\ calibrating' = FALSE /\ calibration' = "none"
    /\ UNCHANGED <<config, run, toSweep, unswept, cancelled, pool, dirs, spent, finished, at,
                   kind>>

\* serve: the state is built, the port is bound, calibration is spawned.
Listen ==
    /\ phase = "sweeping" /\ toSweep = {}
    /\ phase' = "serving"
    /\ max' = resolve_capacity
    /\ calibrating' = will_calibrate
    /\ calibration' = IF will_calibrate THEN "measuring" ELSE "none"
    /\ dirs' = IF will_calibrate THEN dirs \cup {<<run, "calibration">>} ELSE dirs
    /\ UNCHANGED <<config, run, toSweep, unswept, cancelled, pool, spent,
                   finished, at, kind>>

-----------------------------------------------------------------------------
(* Admission: check_auth, ws_handler, /pressure. *)

\* auth::authorized: the query parameter, when there is one, hides the header.
authorized(c) == c.query = "good" \/ (c.query = "none" /\ c.bearer = "good")

\* No Origin, so no web page, or a page of this machine.
tokenless_origin_allowed(origin) == origin \in {"none", "loopback"}

request_authorized(c) ==
    IF config.token THEN authorized(c) ELSE tokenless_origin_allowed(c.origin)

\* session_proxy_policy.
session_proxy_policy == config.proxy /\ ~config.sets_proxy

Holding == {"launching", "answering", "switching", "serving", "destroying", "dropping"}
Held(r) == at[r] \in Holding /\ kind[r] # "profile"
Running == lost + Cardinality({r \in Requests : Held(r)})
Queued == Cardinality({r \in Requests : at[r] = "queued"})

\* The sampler's gauge, against PressureConfig's limits: any load may be read
\* at any moment, and so may any use of the container's threads.
OverPressure(exceeded) == exceeded \cap {"cpu", "memory"} # {}
fits_a_session(exceeded) == "threads" \notin exceeded

\* ws_handler: the host as the handler finds it.
HostRefuses(exceeded) ==
    OverPressure(exceeded) \/ ~fits_a_session(exceeded) \/ calibrating

\* take_single_use.
SpendRefused == config.single_use /\ spent

\* acquire_slot: closed, or all slots taken and the queue full.
ClaimRefused == closed \/ (Running >= max /\ Queued >= config.max_queue)

\* gate and unavailable_reason, in their order.
unavailable_reason(exceeded) ==
    IF blocked THEN "sandbox"
    ELSE IF config.single_use /\ spent THEN "spent"
    ELSE IF closed THEN "draining"
    ELSE IF calibrating THEN "calibrating"
    ELSE IF ~fits_a_session(exceeded) THEN "threads"
    ELSE IF Running >= max /\ Queued >= config.max_queue THEN "full"
    ELSE IF "cpu" \in exceeded THEN "cpu"
    ELSE IF "memory" \in exceeded THEN "memory"
    ELSE ""

Become(r, stage) == at' = [at EXCEPT ![r] = stage]
\* A handler that ends drops its SpentGuard, on whatever path.
DropGuard == finished' = (finished \/ config.single_use)

\* ws_handler up to the calibration check; profile_drop_off for an upload.
Arrive(r) ==
    /\ phase = "serving" /\ at[r] = "idle"
    /\ \E k \in Kinds, c \in Credentials, exceeded \in Loads :
          /\ kind' = [kind EXCEPT ![r] = k]
          /\ Become(r, IF ~request_authorized(c) THEN "refused"
                       ELSE IF k = "upload" THEN "uploading"
                       ELSE IF k = "proxied" /\ ~session_proxy_policy THEN "refused"
                       ELSE IF HostRefuses(exceeded) THEN "refused"
                       ELSE "checked")
    /\ UNCHANGED <<process, pool, dirs, spent, finished>>

\* Mutant: asks whether the one session is over, not whether it is taken.
SpendUnlessFinished(r) ==
    /\ at[r] = "checked" /\ ~finished
    /\ spent' = (spent \/ config.single_use) /\ Become(r, "claiming")
    /\ UNCHANGED <<process, pool, dirs, finished, kind>>

\* try_spend, one compare-and-swap; then the relay, the profile or the claim.
Spend(r) ==
    /\ at[r] = "checked"
    /\ IF SpendRefused THEN Become(r, "refused") /\ UNCHANGED spent
       ELSE /\ spent' = (spent \/ config.single_use)
            /\ Become(r, IF kind[r] = "proxied" THEN "relaying" ELSE "claiming")
    /\ UNCHANGED <<process, pool, dirs, finished, kind>>

\* Mutant: the guard is forgotten where the relay cannot be started.
StartRelayKeepsGuard(r) ==
    /\ at[r] = "relaying" /\ at' \in {[at EXCEPT ![r] = s] : s \in {"claiming", "refused"}}
    /\ UNCHANGED <<process, pool, dirs, spent, finished, kind>>

\* Relay::start, which resolves the upstream's name.
StartRelay(r) ==
    /\ at[r] = "relaying"
    /\ \/ Become(r, "claiming") /\ UNCHANGED finished
       \/ Become(r, "refused") /\ DropGuard
    /\ UNCHANGED <<process, pool, dirs, spent, kind>>

\* A slot for a pool claim; a profile session asks nothing of the pool.
HasSlot(r) == kind[r] = "profile" \/ (~closed /\ Running < max)

Launch(r) == Become(r, "launching") /\ dirs' = dirs \cup {Dir(r)}

\* Pool::claim: a warm browser that lives; one that died is destroyed in the
\* background and, as without one, a browser is launched.
ClaimWarm(r) ==
    /\ at[r] = "claiming" /\ kind[r] = "pool" /\ warm = "ready" /\ HasSlot(r)
    /\ \/ /\ Become(r, "answering") /\ warm' = "none"
          /\ dirs' = (dirs \ {Dir("warm")}) \cup {Dir(r)}
       \/ Launch(r) /\ warm' = "destroying"
    /\ UNCHANGED <<process, closed, lost, blocked, spent, finished, kind>>

\* Pool::claim without stock, claim_with, and serve_profile_session.
ClaimLaunch(r) ==
    /\ at[r] = "claiming" /\ HasSlot(r)
    /\ kind[r] = "pool" => warm # "ready"
    /\ Launch(r)
    /\ UNCHANGED <<process, pool, spent, finished, kind>>

\* acquire_slot waits; serve_profile_session does not know the token.
ClaimWaits(r) ==
    /\ at[r] = "claiming" /\ ~HasSlot(r) /\ ~ClaimRefused
    /\ Become(r, "queued")
    /\ UNCHANGED <<process, pool, dirs, spent, finished, kind>>

ClaimFails(r) ==
    /\ at[r] = "claiming"
    /\ IF kind[r] = "profile" THEN TRUE ELSE ClaimRefused
    /\ Become(r, "refused") /\ DropGuard
    /\ UNCHANGED <<process, pool, dirs, spent, kind>>

\* acquire_slot, for a queued claim: a slot, the queue timeout, or close.
LeaveQueue(r) ==
    /\ at[r] = "queued"
    /\ \/ HasSlot(r) /\ Launch(r) /\ UNCHANGED finished
       \/ Become(r, "refused") /\ DropGuard /\ UNCHANGED dirs
    /\ UNCHANGED <<process, pool, spent, kind>>

\* The launch ends: the handler answers with the upgrade, or refuses. Under
\* requireSandbox a launch may find the sandbox blocked, and then all do.
Launched(r) ==
    /\ at[r] = "launching"
    /\ \/ ~blocked /\ Become(r, "answering") /\ UNCHANGED <<dirs, blocked, finished>>
       \/ /\ blocked' \in {blocked, config.require_sandbox}
          /\ Become(r, "refused") /\ dirs' = dirs \ {Dir(r)} /\ DropGuard
    /\ UNCHANGED <<process, closed, lost, warm, spent, kind>>

\* The client goes. A handler's future is dropped where it waits, and what a
\* launch had made stays; a session that was to be upgraded is destroyed in
\* the background if it is the pool's, and left if it is a profile's.
ClientGone(r) ==
    /\ at[r] \in {"uploading", "relaying", "queued", "launching", "answering"}
    /\ IF at[r] = "uploading" THEN UNCHANGED finished ELSE DropGuard
    /\ Become(r, CASE at[r] = "launching" -> "over"
                   [] at[r] = "answering" -> IF kind[r] = "profile" THEN "over" ELSE "dropping"
                   [] OTHER -> "refused")
    /\ lost' = IF at[r] = "launching" /\ kind[r] # "profile" THEN lost + 1 ELSE lost
    /\ UNCHANGED <<process, closed, warm, blocked, dirs, spent, kind>>

\* profile_drop_off has its body, however long that took.
Uploaded(r) ==
    /\ at[r] = "uploading" /\ Become(r, "uploaded")
    /\ UNCHANGED <<process, pool, dirs, spent, finished, kind>>

-----------------------------------------------------------------------------
(* Sessions: on_upgrade's callback and the task it tracks. *)

\* The 101 is out: hyper's connection task ends and hands the socket over.
Switched(r) ==
    /\ at[r] = "answering" /\ Become(r, "switching")
    /\ UNCHANGED <<process, pool, dirs, spent, finished, kind>>

\* The callback runs: from here on the tracker knows of the session.
track_future(r) ==
    /\ at[r] = "switching" /\ phase # "exit" /\ Become(r, "serving")
    /\ UNCHANGED <<process, pool, dirs, spent, finished, kind>>

\* The bridge or the resume window ends, or the drain deadline cancels it.
SessionEnds(r) ==
    /\ at[r] = "serving" /\ phase # "exit" /\ Become(r, "destroying")
    /\ UNCHANGED <<process, pool, dirs, spent, finished, kind>>

\* destroy, then drop(spent_guard); for a claim that was dropped, destroy.
Destroyed(r) ==
    /\ at[r] \in {"destroying", "dropping"} /\ phase # "exit"
    /\ Become(r, "over") /\ dirs' = dirs \ {Dir(r)}
    /\ IF at[r] = "destroying" THEN DropGuard ELSE UNCHANGED finished
    /\ UNCHANGED <<process, pool, spent, kind>>

\* spawn_calibration's task: measure, size the pool ...
CalibrationSizes ==
    /\ calibration = "measuring" /\ phase \notin {"off", "exit"}
    /\ calibration' = "sized" /\ max' \in Measured
    /\ dirs' = dirs \ {Dir("calibration")}
    /\ UNCHANGED <<config, run, phase, toSweep, unswept, calibrating, cancelled, pool, spent,
                   finished, at, kind>>

\* Mutant: the flag is cleared before the pool has its ceiling.
CalibrationOpensFirst ==
    /\ calibration # "none" /\ phase \notin {"off", "exit"}
    /\ calibrating' = FALSE
    /\ calibration' = IF calibration = "sized" THEN "none" ELSE calibration
    /\ UNCHANGED <<config, run, phase, toSweep, unswept, max, cancelled, pool, dirs, spent,
                   finished, at, kind>>

\* ... and only then open it.
CalibrationOpens ==
    /\ calibration = "sized" /\ phase \notin {"off", "exit"}
    /\ calibrating' = FALSE /\ calibration' = "none"
    /\ UNCHANGED <<config, run, phase, toSweep, unswept, max, cancelled, pool, dirs, spent,
                   finished, at, kind>>

\* The replenisher launches one browser, keeps it, or destroys it after close.
Replenish ==
    /\ phase \notin {"off", "failed", "sweeping", "exit"}
    /\ \/ /\ warm = "none" /\ ~closed /\ config.min_ready > 0
          /\ warm' = "launching" /\ dirs' = dirs \cup {Dir("warm")}
       \/ /\ warm = "launching"
          /\ warm' = IF closed THEN "destroying" ELSE "ready"
          /\ UNCHANGED dirs
       \/ /\ warm = "destroying" /\ warm' = "none" /\ dirs' = dirs \ {Dir("warm")}
    /\ UNCHANGED <<process, closed, lost, blocked, spent, finished, at, kind>>

-----------------------------------------------------------------------------
(* serve: shutdown. *)

\* wait_for_shutdown returns and the pool is closed: on a signal at any time.
Shutdown ==
    /\ phase = "serving"
    /\ phase' = "closing" /\ closed' = TRUE
    /\ warm' = IF warm = "ready" THEN "destroying" ELSE warm
    /\ UNCHANGED <<config, run, toSweep, unswept, calibrating, calibration, max, cancelled,
                   lost, blocked, dirs, spent, finished, at, kind>>

\* The same, when the one session's guard is dropped.
SingleUseFinished == finished /\ Shutdown

Phase(from, to) ==
    /\ phase = from /\ phase' = to
    /\ UNCHANGED <<config, run, unswept, calibrating, calibration, max, pool, spent, finished,
                   kind>>

\* axum::serve returns once no connection is open.
ServeReturns ==
    /\ Phase("closing", "draining")
    /\ \A r \in Requests : at[r] \notin Connected
    /\ UNCHANGED <<toSweep, cancelled, dirs, at>>

\* Mutant: sessions are spawned without the tracker.
TrackedCalibration == calibration # "none"

Tracked ==
    calibration # "none" \/ \E r \in Requests : at[r] \in {"serving", "destroying"}

\* tracker.wait resolves; clean_stale lists what is there.
Drained ==
    /\ Phase("draining", "lastSweep") /\ ~Tracked
    /\ toSweep' = dirs /\ UNCHANGED <<cancelled, dirs, at>>

\* The drain deadline, with its cancel.
DrainDeadline ==
    /\ Phase("draining", "aborting") /\ Tracked
    /\ cancelled' = TRUE /\ UNCHANGED <<toSweep, dirs, at>>

\* FORCE_ABORT_BUDGET: all tasks are done, or it is over.
ForceAbort ==
    /\ Phase("aborting", "lastSweep")
    /\ toSweep' = dirs /\ UNCHANGED <<cancelled, dirs, at>>

\* serve returns, and the runtime drops every task that is left.
Exit ==
    /\ Phase("lastSweep", "exit") /\ toSweep = {}
    /\ at' = [r \in Requests |-> IF at[r] \in Ended \cup {"idle"} THEN at[r] ELSE "cut"]
    /\ UNCHANGED <<toSweep, cancelled, dirs>>

\* The process is gone, by its own exit or a crash, and starts once more.
Restart ==
    /\ phase # "off" /\ run < MaxRuns
    /\ run' = run + 1 /\ toSweep' = {} /\ unswept' = {}
    /\ phase' = Fresh.phase /\ calibrating' = Fresh.calibrating
    /\ calibration' = Fresh.calibration /\ spent' = Fresh.spent
    /\ finished' = Fresh.finished /\ closed' = Fresh.closed /\ max' = Fresh.max
    /\ lost' = Fresh.lost /\ blocked' = Fresh.blocked /\ warm' = Fresh.warm
    /\ cancelled' = Fresh.cancelled /\ at' = Fresh.at /\ kind' = Fresh.kind
    /\ UNCHANGED <<config, dirs>>

-----------------------------------------------------------------------------
Step(r) ==
    \/ Spend(r) \/ StartRelay(r) \/ ClaimWarm(r) \/ ClaimLaunch(r) \/ ClaimWaits(r)
    \/ ClaimFails(r) \/ LeaveQueue(r) \/ Launched(r) \/ Switched(r) \/ track_future(r)
    \/ Destroyed(r)

Lifecycle ==
    \/ Start \/ StartFails \/ (\E d \in toSweep : clean_stale(d)) \/ Listen
    \/ CalibrationSizes \/ CalibrationOpens \/ SingleUseFinished \/ ServeReturns \/ Drained \/ DrainDeadline \/ ForceAbort \/ Exit

Next ==
    \/ Lifecycle \/ Replenish \/ Shutdown \/ Restart
    \/ \E r \in Requests :
          Arrive(r) \/ Step(r) \/ ClientGone(r) \/ Uploaded(r) \/ SessionEnds(r)

Spec == Init /\ [][Next]_vars

\* Tasks are polled, timers fire, launches and destroys have budgets; a
\* session ends by itself only once it is cancelled. Nothing of the clients.
FairSpec ==
    /\ Spec /\ WF_vars(Lifecycle)
    /\ \A r \in Requests : WF_vars(Step(r)) /\ WF_vars(cancelled /\ SessionEnds(r))

-----------------------------------------------------------------------------
(* What the process promises. *)

(* AppState.calibrating: the server "refuses sessions and reports not-ready *)
(* so calibration has the host to itself. Cleared once the ceiling is set": *)
(* while it is set no request is past its check, and so no session runs,    *)
(* waits or has cost a slot when the ceiling is changed.  The slots taken   *)
(* are never more than the ceiling, also when the measured one is lower     *)
(* than the estimate, and whatever is lost with clients that go.            *)
CeilingInForce ==
    /\ Running <= max
    /\ calibrating => \A r \in Requests : at[r] \notin Taken \cup {"checked"}

(* take_single_use: "two racing requests can never both be served", also    *)
(* when the first is refused after it took the one use.                     *)
ServesOne ==
    config.single_use =>
        Cardinality({r \in Requests : at[r] \in WithBrowser}) <= 1

(* serve: "live sessions get drainTimeoutMs, stragglers are cancelled": the *)
(* last sweep and the exit come before the deadline only when no request is *)
(* open and no session runs but one whose callback has not run yet.         *)
DrainHonoured ==
    [][phase' = "lastSweep" /\ phase # "lastSweep" =>
          cancelled \/ \A r \in Requests :
                          at[r] \in Ended \cup {"idle", "switching", "dropping"}]_vars

(* clean_stale: what crashed or exited runs left on disk is gone before the *)
(* first session of this run is made, except a tree that cannot be removed. *)
StaleGone ==
    phase \notin {"off", "failed", "sweeping"} =>
        \A d \in dirs : d[1] = run \/ d \in unswept

(* A process that was told to stop, or whose one use is taken, ends, also   *)
(* when the request that took it is refused or dropped at any later point.  *)
(* A client that stays, and an upload that never completes, may hold it.    *)
ProcessEnds ==
    (phase = "closing" \/ spent) ~>
        \/ phase \in {"exit", "off"}
        \/ [](\E r \in Requests :
                at[r] = "uploading" \/ (phase = "serving" /\ at[r] = "serving"))

-----------------------------------------------------------------------------
(* The inductive invariant behind TypeOK, CeilingInForce, ServesOne,        *)
(* StaleGone and DrainHonoured.                                             *)

\* What load makes of any file and environment.
ConfigInv ==
    /\ {config.single_use, config.calibrate, config.require_sandbox} \subseteq BOOLEAN
    /\ config.single_use => config.max_sessions = 1 /\ ~config.calibrate
    /\ config.valid => /\ config.max_sessions \in (Nat \ {0}) \cup {Unset}
                       /\ ~(config.require_sandbox /\ config.no_sandbox)

\* What is settled in each phase of serve.
PhaseInv ==
    /\ phase \notin {"off", "failed"} => config.valid
    /\ phase \in {"off", "failed", "sweeping"} => ~calibrating /\ max = 1
    /\ phase \in {"draining", "aborting", "lastSweep", "exit"} =>
          \A r \in Requests : at[r] \notin Connected
    /\ phase = "aborting" => cancelled

UseInv ==
    config.single_use =>
        \A r, q \in Requests :
            at[r] \in Taken => spent /\ (at[q] \in Taken => q = r)

\* The sweep under way has listed what it has not yet handled.
SweepInv ==
    phase = "sweeping" =>
        \A d \in dirs : d[1] = run \/ d \in unswept \/ d \in toSweep

\* No request is let in before the ceiling in force is the one to stay.
SizeInv ==
    /\ calibrating <=> calibration # "none"
    /\ calibrating \/ phase \in {"off", "failed", "sweeping"} =>
          lost = 0 /\ \A r \in Requests : at[r] \notin Taken \cup {"checked"}

ServerInv ==
    /\ TypeOK /\ ConfigInv /\ PhaseInv /\ UseInv /\ SweepInv /\ SizeInv
    /\ StaleGone /\ CeilingInForce
=============================================================================
