--------------------------------- MODULE Resume ---------------------------------
(***************************************************************************)
(* The resume window (src/server/resume.rs) and the requests that resume a *)
(* session (resume_session in src/server/ws.rs).                           *)
(*                                                                         *)
(* A session's task bridges a client; when the connection breaks it parks: *)
(* it makes a channel for one socket, lists the sender under its token and *)
(* waits for a socket, the end of the window, shutdown, or the pipe's end. *)
(* A request with the token takes the sender out of the registry and sends *)
(* its socket once its upgrade is done.  Tasks and requests interleave at  *)
(* every await and between the registry's lock and the channel.            *)
(***************************************************************************)
EXTENDS Naturals

CONSTANTS
    Sessions,   \* resumable sessions, each with a token of its own
    Clients,    \* the requests that try to resume a session
    NoClient

ASSUME ResumeAssumption == NoClient \notin Clients

VARIABLES
    task,       \* where the session's task is
    cause,      \* the Parked value its wait ended with
    park,       \* how often it parked: names the channel of this park
    listed,     \* the registry: the park whose sender is listed, 0 for none
    inbox,      \* the channel's one place
    next,       \* next_socket: the client taken from the channel
    elapsed,    \* the deadline of this park has passed
    result,     \* what serve returned: the pipe or nothing
    pipe,       \* whether the browser's end of the pipe is "open" or "failed"
    handler,    \* where each resuming request is
    holds,      \* the session and park whose sender it took
    cancelled   \* AppState::cancel

vars == <<task, cause, park, listed, inbox, next, elapsed, result, pipe,
          handler, holds, cancelled>>
requests == <<handler, holds>>

NoHold == [session |-> "none", park |-> 0]

(* Every variable holds a value of its type; Parked::Resumed has a socket. *)
TypeOK ==
    /\ task \in [Sessions -> {"bridging", "parked", "woken", "cleaning", "over"}]
    /\ cause \in [Sessions -> {"none", "resumed", "expired", "gone"}]
    /\ park \in [Sessions -> Nat]
    /\ listed \in [Sessions -> Nat]
    /\ inbox \in [Sessions -> Clients \cup {NoClient}]
    /\ next \in [Sessions -> Clients \cup {NoClient}]
    /\ \A s \in Sessions :
          task[s] \in {"woken", "cleaning"} /\ cause[s] = "resumed" => next[s] \in Clients
    /\ elapsed \in [Sessions -> BOOLEAN]
    /\ result \in [Sessions -> {"none", "pipe", "nothing"}]
    /\ pipe \in [Sessions -> {"open", "failed"}]
    /\ handler \in [Clients -> {"idle", "upgrading", "sent", "refused", "failed",
                                "late", "dropped"}]
    /\ holds \in [Clients -> {NoHold} \cup [session : Sessions, park : Nat]]
    /\ cancelled \in BOOLEAN

Init ==
    /\ task = [s \in Sessions |-> "bridging"]
    /\ cause = [s \in Sessions |-> "none"]
    /\ park = [s \in Sessions |-> 0]
    /\ listed = [s \in Sessions |-> 0]
    /\ inbox = [s \in Sessions |-> NoClient]
    /\ next = [s \in Sessions |-> NoClient]
    /\ elapsed = [s \in Sessions |-> FALSE]
    /\ result = [s \in Sessions |-> "none"]
    /\ pipe = [s \in Sessions |-> "open"]
    /\ handler = [c \in Clients |-> "idle"]
    /\ holds = [c \in Clients |-> NoHold]
    /\ cancelled = FALSE

-----------------------------------------------------------------------------
(* The session's task: serve. *)

Ends(s, what) ==
    /\ task' = [task EXCEPT ![s] = "over"]
    /\ result' = [result EXCEPT ![s] = what]

(* BridgeEnd::ClientGone: the task makes a channel and lists its sender. *)
Park(s) ==
    /\ task[s] = "bridging"
    /\ task' = [task EXCEPT ![s] = "parked"]
    /\ park' = [park EXCEPT ![s] = @ + 1]
    /\ listed' = [listed EXCEPT ![s] = park[s] + 1]
    /\ inbox' = [inbox EXCEPT ![s] = NoClient]
    /\ elapsed' = [elapsed EXCEPT ![s] = FALSE]
    /\ UNCHANGED <<cause, next, result, pipe, cancelled>>
    /\ UNCHANGED requests

(* BridgeEnd::ClientFinished or IdleTimeout: over, the pipe is returned. *)
Finish(s) ==
    /\ task[s] = "bridging"
    /\ Ends(s, "pipe")
    /\ UNCHANGED <<cause, park, listed, inbox, next, elapsed, pipe, cancelled>>
    /\ UNCHANGED requests

(* BridgeEnd::BrowserGone, or the select's cancel arm. *)
BridgeLost(s) ==
    /\ task[s] = "bridging"
    /\ pipe[s] = "failed" \/ cancelled
    /\ Ends(s, "nothing")
    /\ UNCHANGED <<cause, park, listed, inbox, next, elapsed, pipe, cancelled>>
    /\ UNCHANGED requests

SenderAlive(s) ==
    \/ listed[s] = park[s]
    \/ \E c \in Clients : handler[c] = "upgrading"
                          /\ holds[c] = [session |-> s, park |-> park[s]]

Wakes(s, why) ==
    /\ task[s] = "parked"
    /\ task' = [task EXCEPT ![s] = "woken"]
    /\ cause' = [cause EXCEPT ![s] = why]
    /\ UNCHANGED <<park, listed, elapsed, result, pipe, cancelled>>
    /\ UNCHANGED requests

(* incoming.recv() returns a socket. *)
WakeResumed(s) ==
    /\ inbox[s] # NoClient
    /\ Wakes(s, "resumed")
    /\ next' = [next EXCEPT ![s] = inbox[s]]
    /\ inbox' = [inbox EXCEPT ![s] = NoClient]

(* incoming.recv() returns None: no socket and no sender left. *)
WakeClosed(s) ==
    /\ inbox[s] = NoClient /\ ~SenderAlive(s)
    /\ Wakes(s, "expired")
    /\ UNCHANGED <<inbox, next>>

(* Mutant of WakeDeadline: a claimed park waits for its client. *)
WakeDeadlineUnclaimed(s) ==
    /\ elapsed[s] /\ listed[s] # 0
    /\ Wakes(s, "expired")
    /\ UNCHANGED <<inbox, next>>

(* The sleep of registry.window is over. *)
WakeDeadline(s) ==
    /\ elapsed[s]
    /\ Wakes(s, "expired")
    /\ UNCHANGED <<inbox, next>>

(* cancel, or the reader fails. *)
WakeLost(s) ==
    /\ pipe[s] = "failed" \/ cancelled
    /\ Wakes(s, "gone")
    /\ UNCHANGED <<inbox, next>>

(* A socket left in the channel is dropped with its receiver. *)
DropInbox(s) ==
    /\ inbox' = [inbox EXCEPT ![s] = NoClient]
    /\ handler' = [c \in Clients |-> IF c = inbox[s] THEN "dropped" ELSE handler[c]]

(* unpark, and the match on what woke the task. *)
Unpark(s) ==
    /\ task[s] = "woken"
    /\ listed' = [listed EXCEPT ![s] = 0]
    /\ \/ /\ cause[s] = "resumed"
          /\ task' = [task EXCEPT ![s] = "cleaning"]
          /\ UNCHANGED <<result, inbox, handler>>
       \/ cause[s] = "expired" /\ Ends(s, "pipe") /\ DropInbox(s)
       \/ cause[s] = "gone" /\ Ends(s, "nothing") /\ DropInbox(s)
    /\ UNCHANGED <<cause, park, next, elapsed, pipe, holds, cancelled>>

(* clean_slate, whose calls each end within a timeout of their own and do   *)
(* not look at shutdown; then the new client is bridged.                    *)
CleanSlate(s) ==
    /\ task[s] = "cleaning"
    /\ task' = [task EXCEPT ![s] = "bridging"]
    /\ next' = [next EXCEPT ![s] = NoClient]
    /\ DropInbox(s)
    /\ UNCHANGED <<cause, park, listed, elapsed, result, pipe, holds, cancelled>>

-----------------------------------------------------------------------------
(* The requests: resume_session. *)

session == <<task, cause, park, inbox, next, elapsed, result, pipe>>

(* Mutant of ClaimSession: the sender is cloned instead of removed. *)
ClaimSessionCopies(c, s) ==
    /\ handler[c] = "idle"
    /\ listed[s] # 0
    /\ handler' = [handler EXCEPT ![c] = "upgrading"]
    /\ holds' = [holds EXCEPT ![c] = [session |-> s, park |-> listed[s]]]
    /\ UNCHANGED <<listed, cancelled>>
    /\ UNCHANGED session

(* ResumeRegistry::claim: the sender leaves the registry; 404 without one. *)
ClaimSession(c, s) ==
    /\ handler[c] = "idle"
    /\ \/ /\ listed[s] # 0
          /\ handler' = [handler EXCEPT ![c] = "upgrading"]
          /\ holds' = [holds EXCEPT ![c] = [session |-> s, park |-> listed[s]]]
          /\ listed' = [listed EXCEPT ![s] = 0]
       \/ /\ listed[s] = 0
          /\ handler' = [handler EXCEPT ![c] = "refused"]
          /\ UNCHANGED <<holds, listed>>
    /\ UNCHANGED cancelled
    /\ UNCHANGED session

(* The upgrade fails: its callback, which owns the sender, is dropped. *)
UpgradeFails(c) ==
    /\ handler[c] = "upgrading"
    /\ handler' = [handler EXCEPT ![c] = "failed"]
    /\ UNCHANGED <<listed, holds, cancelled>>
    /\ UNCHANGED session

ReceiverAlive(h) ==
    park[h.session] = h.park /\ task[h.session] \in {"parked", "woken", "cleaning"}

(* Mutant of Deliver: the send is given up while the session waits. *)
DeliverGivesUp(c) ==
    /\ handler[c] = "upgrading"
    /\ handler' = [handler EXCEPT ![c] = "late"]
    /\ UNCHANGED <<holds, listed, cancelled>>
    /\ UNCHANGED session

(* handoff.send: to the receiver, or the client gets a 1011 close. *)
Deliver(c) ==
    LET h == holds[c] IN
    /\ handler[c] = "upgrading"
    /\ \/ /\ ReceiverAlive(h) /\ inbox[h.session] = NoClient
          /\ inbox' = [inbox EXCEPT ![h.session] = c]
          /\ handler' = [handler EXCEPT ![c] = "sent"]
       \/ /\ ~ReceiverAlive(h)
          /\ handler' = [handler EXCEPT ![c] = "late"]
          /\ UNCHANGED inbox
    /\ UNCHANGED <<task, cause, park, listed, next, elapsed, result, pipe,
                   holds, cancelled>>

-----------------------------------------------------------------------------
(* Time, the browser and shutdown. *)

WindowElapses(s) ==
    /\ task[s] = "parked" /\ ~elapsed[s]
    /\ elapsed' = [elapsed EXCEPT ![s] = TRUE]
    /\ UNCHANGED <<task, cause, park, listed, inbox, next, result, pipe, cancelled>>
    /\ UNCHANGED requests

(* The browser exits, or sends a message over the cap: recv_raw fails. *)
PipeFails(s) ==
    /\ pipe[s] = "open" /\ task[s] # "over"
    /\ pipe' = [pipe EXCEPT ![s] = "failed"]
    /\ UNCHANGED <<task, cause, park, listed, inbox, next, elapsed, result, cancelled>>
    /\ UNCHANGED requests

Cancel ==
    /\ ~cancelled
    /\ cancelled' = TRUE
    /\ UNCHANGED listed
    /\ UNCHANGED session
    /\ UNCHANGED requests

Wake(s) == WakeResumed(s) \/ WakeClosed(s) \/ WakeDeadline(s) \/ WakeLost(s)

Next ==
    \/ \E s \in Sessions :
          \/ Park(s) \/ Finish(s) \/ BridgeLost(s) \/ Wake(s) \/ Unpark(s)
          \/ CleanSlate(s) \/ WindowElapses(s) \/ PipeFails(s)
    \/ \E c \in Clients :
          (\E s \in Sessions : ClaimSession(c, s)) \/ UpgradeFails(c) \/ Deliver(c)
    \/ Cancel

Spec == Init /\ [][Next]_vars

(* A task that is ready runs, timers fire, every cleanup call times out.    *)
(* Nothing is assumed of clients: an upgrade may hang for good.             *)
Fairness ==
    \A s \in Sessions : /\ WF_vars(Wake(s)) /\ WF_vars(Unpark(s))
                        /\ WF_vars(CleanSlate(s)) /\ WF_vars(WindowElapses(s))
                        /\ WF_vars(BridgeLost(s))

FairSpec == Spec /\ Fairness

-----------------------------------------------------------------------------
(* What the resume window promises. *)

Holder(c, s) ==
    handler[c] = "upgrading" /\ holds[c] = [session |-> s, park |-> park[s]]

(* "A session is listed only while it is waiting for a client", and a park  *)
(* has one hand-off: its sender is in the registry, or with one request, or *)
(* used, whichever of claim, deadline and unpark comes first, so two        *)
(* clients never get the same browser.                                      *)
OneHandOff ==
    /\ TypeOK
    /\ \A s \in Sessions :
          /\ listed[s] # 0 => listed[s] = park[s] /\ task[s] \in {"parked", "woken"}
          /\ \A c, d \in Clients : Holder(c, s) /\ Holder(d, s) => c = d
          /\ \A c \in Clients : Holder(c, s) =>
                listed[s] = 0 /\ inbox[s] = NoClient /\ next[s] = NoClient
          /\ listed[s] # 0 => inbox[s] = NoClient /\ next[s] = NoClient
          /\ inbox[s] = NoClient \/ next[s] = NoClient

(* A request that took a session's sender and had its upgrade through loses *)
(* the browser only to the end of that session; and the wait of a session   *)
(* expires with its window, or with the request that took its sender and    *)
(* failed.                                                                  *)
LateOnlyAtEnd ==
    /\ \A c \in Clients : handler[c] \in {"late", "dropped"} => task[holds[c].session] = "over"
    /\ \A s \in Sessions : task[s] = "woken" /\ cause[s] = "expired" =>
          \/ elapsed[s]
          \/ \E c \in Clients :
                handler[c] = "failed" /\ holds[c] = [session |-> s, park |-> park[s]]

(* A parked browser is never held for good, whatever became of the request  *)
(* that took its sender; and shutdown ends every session, whether it is     *)
(* bridged, parked or being cleaned.                                        *)
SessionsEnd ==
    \A s \in Sessions : /\ task[s] = "parked" ~> task[s] \in {"bridging", "over"}
                        /\ cancelled ~> task[s] = "over"

-----------------------------------------------------------------------------
(* The inductive invariant behind the proofs. *)

(* A request that got past the registry holds the sender of some session's  *)
(* park; while it upgrades, that park is the session's last, and the        *)
(* session has not gone on to serve another client.                         *)
HoldInv ==
    \A c \in Clients :
        /\ handler[c] \notin {"idle", "refused"} => holds[c] \in [session : Sessions, park : Nat]
        /\ handler[c] = "upgrading" =>
              /\ holds[c].park = park[holds[c].session]
              /\ task[holds[c].session] \in {"parked", "woken", "over"}

(* The socket in a channel came from a request that held its sender, and a  *)
(* socket is taken from it only by the task that was woken by it.           *)
SocketInv ==
    \A s \in Sessions :
        /\ inbox[s] # NoClient => handler[inbox[s]] = "sent" /\ holds[inbox[s]].session = s
        /\ next[s] # NoClient => task[s] \in {"woken", "cleaning"} /\ cause[s] = "resumed"
        /\ task[s] = "cleaning" => next[s] # NoClient

(* The sender of a parked session is listed, with a request, used, or was   *)
(* dropped by a request whose upgrade failed.                               *)
SenderInv ==
    \A s \in Sessions : task[s] = "parked" =>
        \/ listed[s] = park[s] \/ inbox[s] # NoClient
        \/ \E c \in Clients : /\ handler[c] \in {"upgrading", "failed"}
                               /\ holds[c] = [session |-> s, park |-> park[s]]

ResumeInv == OneHandOff /\ HoldInv /\ SocketInv /\ SenderInv /\ LateOnlyAtEnd
=============================================================================
