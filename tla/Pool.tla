---------------------------------- MODULE Pool ----------------------------------
(***************************************************************************)
(* The warm pool of browser sessions (src/pool.rs).                        *)
(*                                                                         *)
(* A claim first takes a slot from a fair counting semaphore, waiting in a *)
(* bounded and timed queue when none is free; with the slot in hand it     *)
(* takes a warm session, or launches one of its own.  The slot comes back  *)
(* after the session has been destroyed.  A background task, the           *)
(* replenisher, keeps the warm stock at its floor.  Claims run on different*)
(* threads and their futures can be dropped at any await (the HTTP server  *)
(* drops a handler whose client went away); every action below is a stretch*)
(* of code between two points where another task can be observed.          *)
(*                                                                         *)
(* Sessions are numbered in the order in which their launches complete.    *)
(* Only the replenisher appends to the warm deque, one session at a time   *)
(* in launch order, so the deque is the set of its members and its front   *)
(* is the least of them.                                                   *)
(***************************************************************************)
EXTENDS Naturals, FiniteSets, Sequences, SequencesExt

CONSTANTS
    Claimers,       \* the tasks that claim sessions, one claim at a time
    MinReady,       \* PoolOptions::min_ready
    StartSessions,  \* PoolOptions::max_sessions, the ceiling at boot
    MaxQueue,       \* PoolOptions::max_queue
    Targets,        \* ceilings the boot calibration may measure
    CancelAt,       \* the awaits of a claim at which its future may be dropped
    MaxCreated      \* bound: launches that succeed in one behaviour

ASSUME PoolAssumption ==
    /\ IsFiniteSet(Claimers)
    /\ MinReady \in Nat
    /\ StartSessions \in Nat \ {0}
    /\ MaxQueue \in Nat
    /\ Targets \subseteq Nat
    /\ CancelAt \subseteq {"queued", "launching"}
    /\ MaxCreated \in Nat

VARIABLES
    \* the semaphore
    permits,        \* permits neither taken nor assigned to a waiter
    queue,          \* waiters that have been assigned nothing yet, oldest first
    closed,         \* Semaphore::is_closed
    \* the rest of Inner
    maxSessions,    \* the live ceiling
    waiting,        \* the counter behind CounterGuard
    warm,           \* the warm deque
    notified,       \* the permit stored in the `replenish` Notify
    \* one claim per claimer
    pc,             \* where the claim is
    held,           \* the session it holds, 0 for none
    \* the replenisher
    rep,            \* where the replenisher is
    repSession,     \* the session it just launched, 0 for none
    repWarm,        \* the stock it read before deciding
    culled,         \* the sessions it is destroying one after the other
    \* sessions
    created,        \* launches that have completed
    alive,          \* sessions whose browser is running
    dropped,        \* claims dropped by their owner: destroy_session running
    stale,          \* sessions being destroyed in the background, no slot owed
    gone,           \* sessions whose destroy completed
    \* the server around the pool
    closer,         \* progress of Pool::close
    calibration,    \* progress of the boot calibration task
    leaked          \* history: slots whose claim was dropped during its launch

semaphore == <<permits, queue, closed>>
claims    == <<pc, held>>
repVars   == <<rep, repSession, repWarm, culled>>
sessions  == <<created, alive, dropped, stale, gone>>
server    == <<closer, calibration, leaked>>
vars == <<permits, queue, closed, maxSessions, waiting, warm, notified, pc, held,
          rep, repSession, repWarm, culled, created, alive, dropped, stale, gone,
          closer, calibration, leaked>>

Ids == 1..MaxCreated

WaiterPC == {"full", "counted", "queued", "granted"}
HolderPC == {"granted", "slot", "launching", "claimed", "destroying"}
AcceptedPC == {"counted", "queued", "granted"}
ClaimPC  == {"idle", "missed"} \cup WaiterPC \cup HolderPC
RepPC    == {"check", "cull", "culling", "decide", "wait", "create",
             "created", "push", "discard", "backoff", "done"}

TypeOK ==
    /\ permits \in Nat
    /\ queue \in Seq(Claimers)
    /\ closed \in BOOLEAN
    /\ maxSessions \in Nat \ {0}
    /\ waiting \in Nat
    /\ warm \subseteq Ids
    /\ notified \in BOOLEAN
    /\ pc \in [Claimers -> ClaimPC]
    /\ held \in [Claimers -> 0..MaxCreated]
    /\ rep \in RepPC
    /\ repSession \in 0..MaxCreated
    /\ repWarm \in Nat
    /\ culled \subseteq Ids
    /\ created \in 0..MaxCreated
    /\ alive \subseteq Ids
    /\ dropped \subseteq Ids
    /\ stale \subseteq Ids
    /\ gone \subseteq Ids
    /\ closer \in {"open", "closing", "closed"}
    /\ calibration \in {"running", "resized", "done"}
    /\ leaked \in Nat

Init ==
    /\ permits = StartSessions
    /\ queue = <<>>
    /\ closed = FALSE
    /\ maxSessions = StartSessions
    /\ waiting = 0
    /\ warm = {}
    /\ notified = FALSE
    /\ pc = [c \in Claimers |-> "idle"]
    /\ held = [c \in Claimers |-> 0]
    /\ rep = "check"
    /\ repSession = 0
    /\ repWarm = 0
    /\ culled = {}
    /\ created = 0
    /\ alive = {}
    /\ dropped = {}
    /\ stale = {}
    /\ gone = {}
    /\ closer = "open"
    /\ calibration \in {"running", "done"}
    /\ leaked = 0

-----------------------------------------------------------------------------
(* Helpers. *)

SaturatingSub(a, b) == IF a > b THEN a - b ELSE 0

IsFront(i, S) == i \in S /\ \A j \in S : i <= j

(* The claims that are at one of the points P, with their positions in f. *)
Where(f, P) == {c \in Claimers : f[c] \in P}

Step(c, from, to) ==
    /\ pc[c] = from
    /\ pc' = [pc EXCEPT ![c] = to]

(* Semaphore::add_permits(1) in a step that also moves the claims to       *)
(* `moved`: the permit is assigned to the oldest waiter when there is one. *)
AddPermit(moved) ==
    IF queue = <<>>
    THEN /\ permits' = permits + 1
         /\ pc' = moved
         /\ UNCHANGED queue
    ELSE /\ pc' = [moved EXCEPT ![Head(queue)] = "granted"]
         /\ queue' = Tail(queue)
         /\ UNCHANGED permits

-----------------------------------------------------------------------------
(* acquire_slot: try_acquire, then the bounded and timed queue. *)

(* try_acquire.  On a closed semaphore the claim fails and nothing changes. *)
(* No claim is let in while the boot calibration runs.                      *)
TryAcquire(c) ==
    /\ calibration = "done"
    /\ ~closed
    /\ permits > 0
    /\ Step(c, "idle", "slot")
    /\ permits' = permits - 1
    /\ UNCHANGED <<queue, closed, maxSessions, waiting, warm, notified, held>>
    /\ UNCHANGED <<repVars, sessions, server>>

TryAcquireNoPermits(c) ==
    /\ calibration = "done"
    /\ ~closed
    /\ permits = 0
    /\ Step(c, "idle", "missed")
    /\ UNCHANGED <<semaphore, maxSessions, waiting, warm, notified, held>>
    /\ UNCHANGED <<repVars, sessions, server>>

(* fetch_add on the waiting counter, and the comparison with max_queue. *)
CountIn(c) ==
    /\ Step(c, "missed", IF waiting + 1 > MaxQueue THEN "full" ELSE "counted")
    /\ waiting' = waiting + 1
    /\ UNCHANGED <<semaphore, maxSessions, warm, notified, held>>
    /\ UNCHANGED <<repVars, sessions, server>>

(* QueueFull: the guard takes the claim off the counter again. *)
QueueFull(c) ==
    /\ Step(c, "full", "idle")
    /\ waiting' = waiting - 1
    /\ UNCHANGED <<semaphore, maxSessions, warm, notified, held>>
    /\ UNCHANGED <<repVars, sessions, server>>

(* The first poll of Semaphore::acquire. *)
Enqueue(c) ==
    /\ \/ /\ closed
          /\ Step(c, "counted", "idle")
          /\ waiting' = waiting - 1
          /\ UNCHANGED <<permits, queue>>
       \/ /\ ~closed
          /\ permits > 0
          /\ Step(c, "counted", "slot")
          /\ permits' = permits - 1
          /\ waiting' = waiting - 1
          /\ UNCHANGED queue
       \/ /\ ~closed
          /\ permits = 0
          /\ Step(c, "counted", "queued")
          /\ queue' = Append(queue, c)
          /\ UNCHANGED <<permits, waiting>>
    /\ UNCHANGED <<closed, maxSessions, warm, notified, held>>
    /\ UNCHANGED <<repVars, sessions, server>>

(* A waiter leaves the line empty-handed: its queue_timeout elapsed, or its *)
(* future was dropped.  It is not in `queue` once the semaphore is closed.  *)
LeaveQueue(c) ==
    /\ Step(c, "queued", "idle")
    /\ waiting' = waiting - 1
    /\ \/ \E i \in 1..Len(queue) : queue[i] = c /\ queue' = RemoveAt(queue, i)
       \/ (\A i \in 1..Len(queue) : queue[i] # c) /\ UNCHANGED queue
    /\ UNCHANGED <<permits, closed, maxSessions, warm, notified, held>>
    /\ UNCHANGED <<repVars, sessions, server>>

QueueTimeout(c) == LeaveQueue(c)

CancelQueued(c) == "queued" \in CancelAt /\ LeaveQueue(c)

(* A waiter polled after close sees Closed. *)
SeeClosed(c) == closed /\ LeaveQueue(c)

(* Mutant of PollGranted: the waiter that got its slot stays counted. *)
PollGrantedStillCounted(c) ==
    /\ ~closed
    /\ Step(c, "granted", "slot")
    /\ UNCHANGED <<semaphore, maxSessions, waiting, warm, notified, held>>
    /\ UNCHANGED <<repVars, sessions, server>>

(* The waiter that was assigned a permit is polled: it takes the slot, or,  *)
(* when the semaphore was closed meanwhile, fails and gives the permit back.*)
(* tokio's timeout polls the acquire before it looks at the clock.          *)
PollGranted(c) ==
    /\ waiting' = waiting - 1
    /\ \/ ~closed /\ Step(c, "granted", "slot") /\ UNCHANGED <<permits, queue>>
       \/ /\ closed
          /\ pc[c] = "granted"
          /\ AddPermit([pc EXCEPT ![c] = "idle"])
    /\ UNCHANGED <<closed, maxSessions, warm, notified, held>>
    /\ UNCHANGED <<repVars, sessions, server>>

(* The future is dropped after the permit was assigned and before the poll: *)
(* the permit goes to the next waiter.                                      *)
CancelGranted(c) ==
    /\ "queued" \in CancelAt
    /\ pc[c] = "granted"
    /\ waiting' = waiting - 1
    /\ AddPermit([pc EXCEPT ![c] = "idle"])
    /\ UNCHANGED <<closed, maxSessions, warm, notified, held>>
    /\ UNCHANGED <<repVars, sessions, server>>

-----------------------------------------------------------------------------
(* claim and claim_with, once the slot is held. *)

(* Mutant of PopWarm: the front of the deque is read and left in place. *)
PopWarmPeeks(c) ==
    /\ pc[c] = "slot"
    /\ \E i \in warm \cap alive :
          /\ IsFront(i, warm)
          /\ pc' = [pc EXCEPT ![c] = "claimed"]
          /\ held' = [held EXCEPT ![c] = i]
    /\ notified' = TRUE
    /\ UNCHANGED <<semaphore, maxSessions, waiting, warm>>
    /\ UNCHANGED <<repVars, sessions, server>>

(* pop_warm, the liveness check and the hand-out of a live warm session; a  *)
(* dead one is destroyed in the background and the loop goes on.            *)
PopWarm(c) ==
    /\ pc[c] = "slot"
    /\ \E i \in warm :
          /\ IsFront(i, warm)
          /\ warm' = warm \ {i}
          /\ \/ /\ i \in alive
                /\ pc' = [pc EXCEPT ![c] = "claimed"]
                /\ held' = [held EXCEPT ![c] = i]
                /\ UNCHANGED stale
             \/ /\ i \notin alive
                /\ stale' = stale \cup {i}
                /\ UNCHANGED <<pc, held>>
    /\ notified' = TRUE
    /\ UNCHANGED <<semaphore, maxSessions, waiting>>
    /\ UNCHANGED <<created, alive, dropped, gone>>
    /\ UNCHANGED <<repVars, server>>

(* No warm session: claim launches one inline. *)
LaunchInline(c) ==
    /\ warm = {}
    /\ Step(c, "slot", "launching")
    /\ notified' = TRUE
    /\ UNCHANGED <<semaphore, maxSessions, waiting, warm, held>>
    /\ UNCHANGED <<repVars, sessions, server>>

(* claim_with: a launch of the caller's own, whatever the stock. *)
LaunchOwn(c) ==
    /\ Step(c, "slot", "launching")
    /\ UNCHANGED <<semaphore, maxSessions, waiting, warm, notified, held>>
    /\ UNCHANGED <<repVars, sessions, server>>

(* hand_out of a launch that succeeded. *)
HandOut(c) ==
    /\ created < MaxCreated
    /\ Step(c, "launching", "claimed")
    /\ created' = created + 1
    /\ held' = [held EXCEPT ![c] = created']
    /\ alive' = alive \cup {created'}
    /\ UNCHANGED <<semaphore, maxSessions, waiting, warm, notified>>
    /\ UNCHANGED <<dropped, stale, gone>>
    /\ UNCHANGED <<repVars, server>>

(* Mutant of LaunchFailed: the error path returns without add_permits. *)
LaunchFailedKeepsSlot(c) ==
    /\ Step(c, "launching", "idle")
    /\ UNCHANGED <<semaphore, maxSessions, waiting, warm, notified, held>>
    /\ UNCHANGED <<repVars, sessions, server>>

(* hand_out of a launch that failed: the slot is given back. *)
LaunchFailed(c) ==
    /\ pc[c] = "launching"
    /\ AddPermit([pc EXCEPT ![c] = "idle"])
    /\ UNCHANGED <<closed, maxSessions, waiting, warm, notified, held>>
    /\ UNCHANGED <<repVars, sessions, server>>

(* The future is dropped while it awaits the launch.  The permit was        *)
(* forgotten in acquire_slot and no Claimed exists yet to give it back.     *)
CancelLaunch(c) ==
    /\ "launching" \in CancelAt
    /\ Step(c, "launching", "idle")
    /\ leaked' = leaked + 1
    /\ UNCHANGED <<semaphore, maxSessions, waiting, warm, notified, held>>
    /\ UNCHANGED <<closer, calibration>>
    /\ UNCHANGED <<repVars, sessions>>

(* Pool::destroy: the session is torn down, then its slot comes back. *)
Destroy(c) ==
    /\ Step(c, "claimed", "destroying")
    /\ UNCHANGED <<semaphore, maxSessions, waiting, warm, notified, held>>
    /\ UNCHANGED <<repVars, sessions, server>>

(* Mutant of DestroySession: the slot does not come back. *)
DestroySessionKeepsSlot(c) ==
    /\ Step(c, "destroying", "idle")
    /\ held' = [held EXCEPT ![c] = 0]
    /\ gone' = gone \cup {held[c]}
    /\ alive' = alive \ {held[c]}
    /\ notified' = TRUE
    /\ UNCHANGED <<semaphore, maxSessions, waiting, warm, created, dropped, stale>>
    /\ UNCHANGED <<repVars, server>>

(* Mutant of DestroySession: the slot comes back with the teardown left to  *)
(* a background task.                                                       *)
DestroySessionDetached(c) ==
    /\ pc[c] = "destroying"
    /\ AddPermit([pc EXCEPT ![c] = "idle"])
    /\ held' = [held EXCEPT ![c] = 0]
    /\ stale' = stale \cup {held[c]}
    /\ notified' = TRUE
    /\ UNCHANGED <<closed, maxSessions, waiting, warm, created, alive, dropped, gone>>
    /\ UNCHANGED <<repVars, server>>

(* destroy_session after the teardown: the slot comes back, the replenisher *)
(* is notified.                                                             *)
DestroySession(c) ==
    /\ pc[c] = "destroying"
    /\ AddPermit([pc EXCEPT ![c] = "idle"])
    /\ held' = [held EXCEPT ![c] = 0]
    /\ gone' = gone \cup {held[c]}
    /\ alive' = alive \ {held[c]}
    /\ notified' = TRUE
    /\ UNCHANGED <<closed, maxSessions, waiting, warm, created, dropped, stale>>
    /\ UNCHANGED <<repVars, server>>

(* Claimed::drop without a destroy: destroy_session runs in the background. *)
DropClaimed(c) ==
    /\ Step(c, "claimed", "idle")
    /\ dropped' = dropped \cup {held[c]}
    /\ held' = [held EXCEPT ![c] = 0]
    /\ UNCHANGED <<semaphore, maxSessions, waiting, warm, notified>>
    /\ UNCHANGED <<created, alive, stale, gone>>
    /\ UNCHANGED <<repVars, server>>

DestroyDropped(i) ==
    /\ i \in dropped
    /\ dropped' = dropped \ {i}
    /\ gone' = gone \cup {i}
    /\ alive' = alive \ {i}
    /\ AddPermit(pc)
    /\ notified' = TRUE
    /\ UNCHANGED <<closed, maxSessions, waiting, warm, held, created, stale>>
    /\ UNCHANGED <<repVars, server>>

(* A background factory.destroy of a session that holds no slot. *)
DestroyStale(i) ==
    /\ i \in stale
    /\ stale' = stale \ {i}
    /\ gone' = gone \cup {i}
    /\ alive' = alive \ {i}
    /\ UNCHANGED <<semaphore, maxSessions, waiting, warm, notified, claims>>
    /\ UNCHANGED <<created, dropped>>
    /\ UNCHANGED <<repVars, server>>

-----------------------------------------------------------------------------
(* The replenisher. *)

RepGoto(from, to) == rep = from /\ rep' = to

(* Mutant of RepCheck: the loop does not look at the semaphore. *)
RepCheckNeverEnds ==
    /\ RepGoto("check", "cull")
    /\ UNCHANGED <<semaphore, maxSessions, waiting, warm, notified, claims>>
    /\ UNCHANGED <<repSession, repWarm, culled>>
    /\ UNCHANGED <<sessions, server>>

(* The head of the loop: a closed pool ends the task. *)
RepCheck ==
    /\ RepGoto("check", IF closed THEN "done" ELSE "cull")
    /\ UNCHANGED <<semaphore, maxSessions, waiting, warm, notified, claims>>
    /\ UNCHANGED <<repSession, repWarm, culled>>
    /\ UNCHANGED <<sessions, server>>

(* What one pass of cull_warm removes, the entries up to `idle` being past  *)
(* warm_idle and those up to `old` past warm_max_age (ages fall from the    *)
(* front of the deque to its back): the dead, the too old, and the idle     *)
(* ones that already have min_ready kept entries in front of them.          *)
Expired(idle, old) ==
    LET fit == {i \in warm : i \in alive /\ i > old}
    IN  (warm \ fit) \cup
        {i \in fit : i <= idle /\ Cardinality({j \in fit : j < i}) >= MinReady}

RepCull ==
    /\ RepGoto("cull", "culling")
    /\ \E idle, old \in 0..created :
          /\ warm' = warm \ Expired(idle, old)
          /\ culled' = Expired(idle, old)
    /\ UNCHANGED <<semaphore, maxSessions, waiting, notified, claims>>
    /\ UNCHANGED <<repSession, repWarm>>
    /\ UNCHANGED <<sessions, server>>

RepDestroyCulled ==
    /\ rep = "culling"
    /\ \E i \in culled :
          /\ IsFront(i, culled)
          /\ culled' = culled \ {i}
          /\ gone' = gone \cup {i}
          /\ alive' = alive \ {i}
    /\ UNCHANGED <<semaphore, maxSessions, waiting, warm, notified, claims>>
    /\ UNCHANGED <<rep, repSession, repWarm>>
    /\ UNCHANGED <<created, dropped, stale>>
    /\ UNCHANGED server

(* Reads the length of the stock, then, in RepDecide, the permits: claims   *)
(* and destroys can come between the two reads.  The counter of launches    *)
(* under way is the replenisher's own and is 0 here.                        *)
RepMeasure ==
    /\ culled = {}
    /\ RepGoto("culling", "decide")
    /\ repWarm' = Cardinality(warm)
    /\ UNCHANGED <<semaphore, maxSessions, waiting, warm, notified, claims>>
    /\ UNCHANGED <<repSession, culled>>
    /\ UNCHANGED <<sessions, server>>

(* How many sessions to launch: the floor's shortfall, within the headroom  *)
(* the ceiling leaves.                                                      *)
Wanted ==
    LET active   == SaturatingSub(maxSessions, permits)
        headroom == SaturatingSub(maxSessions, active + repWarm)
        short    == SaturatingSub(MinReady, repWarm)
    IN  IF short < headroom THEN short ELSE headroom

RepDecide ==
    /\ RepGoto("decide", IF Wanted = 0 THEN "wait" ELSE "create")
    /\ repWarm' = 0
    /\ UNCHANGED <<semaphore, maxSessions, waiting, warm, notified, claims>>
    /\ UNCHANGED <<repSession, culled>>
    /\ UNCHANGED <<sessions, server>>

(* A notification, or the tick, ends the wait. *)
RepWake ==
    /\ RepGoto("wait", "check")
    /\ notified' = FALSE
    /\ UNCHANGED <<semaphore, maxSessions, waiting, warm, claims>>
    /\ UNCHANGED <<repSession, repWarm, culled>>
    /\ UNCHANGED <<sessions, server>>

RepCreated ==
    /\ created < MaxCreated
    /\ RepGoto("create", "created")
    /\ created' = created + 1
    /\ repSession' = created'
    /\ alive' = alive \cup {created'}
    /\ UNCHANGED <<semaphore, maxSessions, waiting, warm, notified, claims>>
    /\ UNCHANGED <<repWarm, culled>>
    /\ UNCHANGED <<dropped, stale, gone>>
    /\ UNCHANGED server

RepCreateFailed ==
    /\ RepGoto("create", "backoff")
    /\ UNCHANGED <<semaphore, maxSessions, waiting, warm, notified, claims>>
    /\ UNCHANGED <<repSession, repWarm, culled>>
    /\ UNCHANGED <<sessions, server>>

RepBackoff ==
    /\ RepGoto("backoff", "check")
    /\ UNCHANGED <<semaphore, maxSessions, waiting, warm, notified, claims>>
    /\ UNCHANGED <<repSession, repWarm, culled>>
    /\ UNCHANGED <<sessions, server>>

(* is_closed after the launch.  The push that follows an answer of "open"   *)
(* is a step of its own: close may run in between.                          *)
RepRecheck ==
    /\ RepGoto("created", IF closed THEN "discard" ELSE "push")
    /\ UNCHANGED <<semaphore, maxSessions, waiting, warm, notified, claims>>
    /\ UNCHANGED <<repSession, repWarm, culled>>
    /\ UNCHANGED <<sessions, server>>

RepPush ==
    /\ RepGoto("push", "check")
    /\ warm' = warm \cup {repSession}
    /\ repSession' = 0
    /\ UNCHANGED <<semaphore, maxSessions, waiting, notified, claims>>
    /\ UNCHANGED <<repWarm, culled>>
    /\ UNCHANGED <<sessions, server>>

RepDiscard ==
    /\ RepGoto("discard", "done")
    /\ gone' = gone \cup {repSession}
    /\ alive' = alive \ {repSession}
    /\ repSession' = 0
    /\ UNCHANGED <<semaphore, maxSessions, waiting, warm, notified, claims>>
    /\ UNCHANGED <<repWarm, culled>>
    /\ UNCHANGED <<created, dropped, stale>>
    /\ UNCHANGED server

Replenisher ==
    \/ RepCheck \/ RepCull \/ RepDestroyCulled \/ RepMeasure \/ RepDecide
    \/ RepWake \/ RepCreated \/ RepCreateFailed \/ RepBackoff \/ RepRecheck
    \/ RepPush \/ RepDiscard

-----------------------------------------------------------------------------
(* Pool::close, the boot calibration, and browsers that die. *)

(* Semaphore::close: the waiters are taken off the list and woken. *)
CloseSemaphore ==
    /\ closer = "open"
    /\ closer' = "closing"
    /\ closed' = TRUE
    /\ queue' = <<>>
    /\ UNCHANGED <<permits, maxSessions, waiting, warm, notified, claims>>
    /\ UNCHANGED <<calibration, leaked>>
    /\ UNCHANGED <<repVars, sessions>>

(* The stock is drained into background destroys. *)
DrainWarm ==
    /\ closer = "closing"
    /\ closer' = "closed"
    /\ stale' = stale \cup warm
    /\ warm' = {}
    /\ notified' = TRUE
    /\ UNCHANGED <<semaphore, maxSessions, waiting, claims>>
    /\ UNCHANGED <<created, alive, dropped, gone>>
    /\ UNCHANGED <<calibration, leaked>>
    /\ UNCHANGED repVars

(* set_max_sessions with the measured ceiling, floored at 1.  Shrinking     *)
(* forgets permits only as far as they are free.  Ceiling and permits change*)
(* in one step: no claim is let in yet, and between the two changes the     *)
(* replenisher would compute a headroom it also computes before or after.   *)
SetMaxSessions(measured) ==
    /\ calibration = "running"
    /\ calibration' = "resized"
    /\ LET target == IF measured > 1 THEN measured ELSE 1
       IN  /\ maxSessions' = target
           /\ permits' = IF target > maxSessions
                         THEN permits + (target - maxSessions)
                         ELSE SaturatingSub(permits, maxSessions - target)
    /\ UNCHANGED <<queue, closed, waiting, warm, notified, claims>>
    /\ UNCHANGED <<closer, leaked>>
    /\ UNCHANGED <<repVars, sessions>>

(* calibrating.store(false): sessions are let in from here on. *)
EndCalibration ==
    /\ calibration = "resized"
    /\ calibration' = "done"
    /\ UNCHANGED <<semaphore, maxSessions, waiting, warm, notified, claims>>
    /\ UNCHANGED <<closer, leaked>>
    /\ UNCHANGED <<repVars, sessions>>

(* A browser process may die at any time. *)
BrowserDies(i) ==
    /\ i \in alive
    /\ alive' = alive \ {i}
    /\ UNCHANGED <<semaphore, maxSessions, waiting, warm, notified, claims>>
    /\ UNCHANGED <<created, dropped, stale, gone>>
    /\ UNCHANGED <<repVars, server>>

(* Everything has stopped: the pool is closed and no task is left. *)
Drained ==
    /\ closer = "closed"
    /\ rep = "done"
    /\ \A c \in Claimers : pc[c] = "idle"
    /\ dropped = {} /\ stale = {}
    /\ UNCHANGED vars

Claim(c) ==
    \/ TryAcquire(c) \/ TryAcquireNoPermits(c) \/ CountIn(c) \/ QueueFull(c)
    \/ Enqueue(c) \/ QueueTimeout(c) \/ CancelQueued(c) \/ SeeClosed(c)
    \/ PollGranted(c) \/ CancelGranted(c) \/ PopWarm(c) \/ LaunchInline(c)
    \/ LaunchOwn(c) \/ HandOut(c) \/ LaunchFailed(c) \/ CancelLaunch(c)
    \/ Destroy(c) \/ DestroySession(c) \/ DropClaimed(c)

Next ==
    \/ \E c \in Claimers : Claim(c)
    \/ \E i \in Ids : DestroyDropped(i) \/ DestroyStale(i) \/ BrowserDies(i)
    \/ Replenisher
    \/ CloseSemaphore
    \/ DrainWarm
    \/ \E t \in Targets : SetMaxSessions(t)
    \/ EndCalibration
    \/ Drained

Spec == Init /\ [][Next]_vars

(* The fairness the runtime gives.  A claim that can move is polled again;  *)
(* launches and teardowns are bounded by timeouts; and, as an assumption on *)
(* clients, a claimed session is some day over.  Nothing is assumed of the  *)
(* queue timer, of new claims, of cancellations or of browsers dying.       *)
Progress(c) ==
    \/ CountIn(c) \/ QueueFull(c) \/ Enqueue(c) \/ SeeClosed(c) \/ PollGranted(c)
    \/ PopWarm(c) \/ LaunchInline(c) \/ HandOut(c) \/ LaunchFailed(c)
    \/ Destroy(c) \/ DropClaimed(c) \/ DestroySession(c)

Fairness ==
    /\ \A c \in Claimers : WF_vars(Progress(c))
    /\ \A i \in Ids : WF_vars(DestroyDropped(i)) /\ WF_vars(DestroyStale(i))
    /\ WF_vars(Replenisher)
    /\ WF_vars(DrainWarm)

FairSpec == Spec /\ Fairness

-----------------------------------------------------------------------------
(* What the pool promises. *)

(* Every slot of the ceiling is free, assigned or forgotten by a claim that *)
(* still owes it, owed by the destroy of a dropped claim, or was lost to a  *)
(* claim dropped during its launch: no path of claim, claim_with, destroy,  *)
(* drop, timeout, cancellation, close or set_max_sessions returns a permit  *)
(* twice or forgets one elsewhere.                                          *)
SlotsConserved ==
    permits + Cardinality(Where(pc, HolderPC)) + Cardinality(dropped) + leaked = maxSessions

(* Claimed sessions, including those whose destroy is still running, never  *)
(* exceed the ceiling: a slot is free only after its browser is gone.       *)
CapacityBound ==
    Cardinality(Where(pc, {"claimed", "destroying"}))
        + Cardinality(dropped) <= maxSessions

Handed == {held[c] : c \in Claimers} \ {0}

(* A launched session is always in exactly one place (the stock, one claim, *)
(* the replenisher's hands, one destroy under way, destroyed): it is never  *)
(* given to two claims, destroyed twice or forgotten.                       *)
SessionsPartitioned ==
    LET inHand == {repSession} \ {0}
    IN  /\ warm \cup Handed \cup inHand \cup culled \cup stale \cup dropped \cup gone
             = 1..created
        /\ warm \cap (Handed \cup inHand \cup culled \cup stale \cup dropped \cup gone) = {}
        /\ Handed \cap (inHand \cup culled \cup stale \cup dropped \cup gone) = {}
        /\ inHand \cap (culled \cup stale \cup dropped \cup gone) = {}
        /\ culled \cap (stale \cup dropped \cup gone) = {}
        /\ stale \cap (dropped \cup gone) = {}
        /\ dropped \cap gone = {}
        /\ \A c, d \in Claimers : c # d /\ held[c] # 0 => held[c] # held[d]

(* However claims race on the counter, no more than max_queue of them wait  *)
(* for a slot at a time.                                                    *)
QueueBound ==
    Cardinality(Where(pc, AcceptedPC)) <= MaxQueue

(* The replenisher's unsynchronised reads never make it overfill the stock: *)
(* with the session it is launching, the stock is at most min_ready.        *)
WarmBound ==
    Cardinality(warm) + (IF rep \in {"create", "created", "push"} THEN 1 ELSE 0)
        <= MinReady

(* Once no claim is under way and no dropped session is being destroyed,    *)
(* all the slots of the ceiling are free again: what tests/pool_props.rs    *)
(* checks as "capacity was lost".                                           *)
CapacityRestored ==
    (\A c \in Claimers : pc[c] = "idle") /\ dropped = {} => permits = maxSessions

(* A claim in the queue gets its slot, or leaves, even if its timer never   *)
(* fires: permits that come back reach the waiters.                         *)
QueuedServed == \A c \in Claimers : pc[c] = "queued" ~> pc[c] # "queued"

(* After close every task of the pool ends, nobody is counted as waiting    *)
(* and every slot that was not lost is back.                                *)
CloseCompletes ==
    closed ~> /\ rep = "done"
              /\ \A c \in Claimers : pc[c] = "idle"
              /\ dropped = {} /\ stale = {}
              /\ waiting = 0
              /\ permits + leaked = maxSessions

-----------------------------------------------------------------------------
(* The inductive invariant behind the proofs. *)

(* The semaphore's list holds distinct claims that are waiting. *)
QueueInv ==
    /\ \A k \in 1..Len(queue) : pc[queue[k]] = "queued"
    /\ \A k, l \in 1..Len(queue) : queue[k] = queue[l] => k = l

(* A claim has a session exactly while it is claimed or being destroyed,    *)
(* the replenisher exactly between its launch and its push or discard.      *)
OwnerInv ==
    /\ \A c \in Claimers : held[c] # 0 <=> pc[c] \in {"claimed", "destroying"}
    /\ repSession # 0 <=> rep \in {"created", "push", "discard"}
    /\ culled # {} => rep = "culling"

(* The stock the replenisher read is not smaller than the stock now.        *)
StockInv == rep = "decide" => Cardinality(warm) <= repWarm

(* While the calibration runs no claim has been let in. *)
CalibrationInv ==
    calibration # "done" =>
        /\ \A c \in Claimers : pc[c] = "idle"
        /\ dropped = {}
        /\ leaked = 0

(* The counter behind CounterGuard counts the claims inside the guard. *)
WaitingInv == waiting = Cardinality(Where(pc, WaiterPC))

(* All of it: the strengthening under which the promises above are          *)
(* inductive.  It relates the queue, the waiting counter, the slots, the    *)
(* owners of sessions and the replenisher's stale reads.                    *)
PoolInv ==
    /\ TypeOK
    /\ QueueInv
    /\ OwnerInv
    /\ StockInv
    /\ CalibrationInv
    /\ WaitingInv
    /\ SlotsConserved
    /\ SessionsPartitioned
    /\ QueueBound
    /\ WarmBound
=============================================================================
