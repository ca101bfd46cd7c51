----------------------------- MODULE Calibrate -----------------------------
(***************************************************************************)
(* Calibration at boot (calibrate.rs): recording sessions are started one  *)
(* by one until one fails, memory runs short or RAMP_CAP is reached; they  *)
(* are held together, those that still record are counted, all are         *)
(* destroyed, and the ceiling is derived. Each session has a task that     *)
(* takes the frames of its browser's screencast and acknowledges them.     *)
(***************************************************************************)
EXTENDS Capacity

CONSTANTS
    RAMP_CAP,           \* 12 in the code
    Hosts,              \* [limits, base, beside, metered, linux]
    Browsers,           \* a sequence of [footprint, procs]: what a browser costs,
                        \* and the processes of the host; its own has pid 1
    Window              \* frames that a browser sends before it waits for an ack

ASSUME CalibrateAssumption == RAMP_CAP \in Nat \ {0} /\ Window \in Nat \ {0}

\* What probe_host reads; what others use all along, and what the browsers of
\* the replenisher and of the template, which start next to calibrate, use at
\* times; whether what is used can always be read; what a browser costs.
ASSUME HostsAssumption ==
    /\ Hosts \subseteq [limits : [mem : Nat \cup {Unlimited}, pids : Nat \cup {Unlimited},
                                 cpus : Nat],
                       base : Nat, beside : SUBSET Nat, metered : BOOLEAN, linux : BOOLEAN]
    /\ 0 \notin DOMAIN Browsers
    /\ \A b \in DOMAIN Browsers :
          Browsers[b].footprint \in [bytes : Nat \ {0}, threads : Nat \ {0}]

\* measure_footprint finds what a browser costs, however deep its processes are
\* and whatever runs beside them.
ASSUME MeasureAssumption ==
    \A b \in DOMAIN Browsers : measure_footprint(Browsers[b].procs, 1) = Browsers[b].footprint

Sessions == 1..RAMP_CAP

VARIABLES
    host, beside,       \* and what is used next to calibrate at the moment
    stage, n, stop,     \* where calibrate is; the ramp's step, and why it ended
    held,               \* the HeldSessions
    footprint, ceiling,
    procs, browser,     \* each browser: which of Browsers it is; whether it lives
    inflight, pipe,     \* its frames without an ack; what it wrote to its pipe
    ack,                \* an ack is on its way to it
    task,               \* drain_frames
    advanced            \* frames counted since count_recording's first look

calVars == <<host, beside, stage, n, stop, held, footprint, ceiling,
             procs, browser, inflight, pipe, ack, task, advanced>>
ramp == <<n, stop, held, footprint, ceiling>>
cast == <<inflight, pipe, ack, task, advanced>>

(* Every variable holds a value of its type; a browser is alive only while  *)
(* calibrate holds it or sets it up, whichever step failed; and a session's *)
(* task is the only one that awaits an ack.                                 *)
CalTypeOK ==
    /\ host \in Hosts /\ beside \in host.beside
    /\ stage \in {"create", "setup", "frame", "settle", "hold", "probe", "destroy", "done"}
    /\ stop \in {"LaunchFailed", "MemoryLine", "Cap"} /\ n \in Sessions
    /\ held \subseteq 1..n
    /\ task \in [Sessions -> {"none", "recv", "acking", "ended"}]
    /\ inflight \in [Sessions -> 0..Window]
    /\ \A s \in Sessions :
          /\ browser[s] = "up" => s \in held \/ (s = n /\ stage \in {"setup", "frame"})
          /\ ack[s] => task[s] = "acking"

-----------------------------------------------------------------------------
CalInit ==
    /\ host \in Hosts /\ beside \in host.beside
    /\ stage = "create" /\ n = 1 /\ stop = "Cap" /\ held = {}
    /\ footprint = NoFootprint /\ ceiling = [max_sessions |-> 0, bound_by |-> "none"]
    /\ procs = [s \in Sessions |-> 0]
    /\ browser = [s \in Sessions |-> "none"]
    /\ inflight = [s \in Sessions |-> 0] /\ pipe = [s \in Sessions |-> <<>>]
    /\ ack = [s \in Sessions |-> FALSE]
    /\ task = [s \in Sessions |-> "none"] /\ advanced = [s \in Sessions |-> FALSE]

-----------------------------------------------------------------------------
(* The ramp: spawn_recording_session. *)

RampFails ==
    /\ stop' = "LaunchFailed" /\ stage' = "hold"
    /\ UNCHANGED <<n, held, footprint, ceiling>>

\* factory.create.
create ==
    /\ stage = "create"
    /\ \/ /\ \E table \in DOMAIN Browsers : procs' = [procs EXCEPT ![n] = table]
          /\ browser' = [browser EXCEPT ![n] = "up"]
          /\ stage' = "setup" /\ UNCHANGED ramp
       \/ RampFails /\ UNCHANGED <<procs, browser>>
    /\ UNCHANGED <<host, beside, cast>>

\* setup_recording's calls, each answered: the screencast is on.
setup_recording ==
    /\ stage = "setup" /\ browser[n] = "up"
    /\ stage' = "frame"
    /\ UNCHANGED <<host, beside, ramp, procs, browser, cast>>

Started ==
    /\ held' = held \cup {n} /\ task' = [task EXCEPT ![n] = "recv"]
    /\ stage' = "settle"
    /\ UNCHANGED <<n, stop, footprint, ceiling>>

\* wait_first_frame takes the frame and does not acknowledge it.
wait_first_frame ==
    /\ stage = "frame" /\ pipe[n] # <<>>
    /\ pipe' = [pipe EXCEPT ![n] = Tail(@)] /\ Started
    /\ UNCHANGED <<host, beside, procs, browser, inflight, ack, advanced>>

\* Mutant: a session that does not record is left to its own.
SetupFailsAlive ==
    /\ stage \in {"setup", "frame"}
    /\ RampFails /\ UNCHANGED <<host, beside, procs, browser, cast>>

\* A call is refused or the pipe ends, and the browser is destroyed.
SetupFails ==
    /\ stage \in {"setup", "frame"}
    /\ browser' = [browser EXCEPT ![n] = "gone"]
    /\ RampFails /\ UNCHANGED <<host, beside, procs, cast>>

\* Mutant: the timeout is put around the calls and not around the wait.
CallsTimeout == stage = "setup" /\ SetupFails

\* FIRST_FRAME_TIMEOUT, of which the calls before it know nothing.
FirstFrameTimeout == stage = "frame" /\ SetupFails

OwnBytes(s) == IF procs[s] = 0 THEN 0 ELSE Browsers[procs[s]].footprint.bytes
OwnThreads(s) == IF procs[s] = 0 THEN 0 ELSE Browsers[procs[s]].footprint.threads

\* The sum of w over the sessions, on top of a base.
SumOver(base, w) ==
    LET UpTo[s \in 0..RAMP_CAP] == IF s = 0 THEN base ELSE UpTo[s - 1] + w[s]
    IN  UpTo[RAMP_CAP]

Load(s) == IF browser[s] = "up" THEN OwnBytes(s) ELSE 0

OwnUse == SumOver(host.base, [s \in Sessions |-> Load(s)])

\* current_memory_used_bytes, when it can be read.
Used == OwnUse + beside

\* Mutant: the safety line is drawn at 95 hundredths.
crossed_memory_line_late(read) ==
    read /\ host.limits.mem # Unlimited /\ Used >= (host.limits.mem \div 100) * 95

\* A limit or a use that cannot be read is no line.
crossed_memory_line(read) ==
    read /\ host.limits.mem # Unlimited /\ Used >= (host.limits.mem \div 100) * 85

max_footprint(a, b) ==
    [bytes |-> Max({a.bytes, b.bytes}), threads |-> Max({a.threads, b.threads})]

\* The end of a step of the ramp, after SETTLE. A browser that is gone, and a
\* host without /proc, show no processes.
Settled ==
    /\ stage = "settle"
    /\ footprint' = max_footprint(footprint, IF host.linux /\ browser[n] = "up"
                                             THEN Browsers[procs[n]].footprint ELSE NoFootprint)
    /\ \E read \in BOOLEAN :
          /\ host.metered => read
          /\ \/ /\ crossed_memory_line(read)
                /\ stop' = "MemoryLine" /\ stage' = "hold" /\ n' = n
             \/ /\ ~crossed_memory_line(read) /\ n < RAMP_CAP
                /\ n' = n + 1 /\ stage' = "create" /\ stop' = stop
             \/ /\ ~crossed_memory_line(read) /\ n = RAMP_CAP
                /\ stage' = "hold" /\ UNCHANGED <<n, stop>>
    /\ UNCHANGED <<host, beside, held, ceiling, procs, browser, cast>>

-----------------------------------------------------------------------------
(* The hold and the end. *)

\* SUSTAIN_HOLD, long enough for a task to read what a dead browser left;
\* count_recording's first look at the counters.
HoldEnds ==
    /\ stage = "hold" /\ stage' = "probe"
    /\ \A s \in held : browser[s] = "gone" => pipe[s] = <<>>
    /\ advanced' = [s \in Sessions |-> FALSE]
    /\ UNCHANGED <<host, beside, ramp, procs, browser, inflight, pipe, ack, task>>

derive_ceiling(sustained, clean_cap) ==
    LET modeled == compute(host.limits, footprint)
    IN  IF clean_cap
        THEN [modeled EXCEPT !.max_sessions = Max({@, sustained, 1})]
        ELSE [max_sessions |-> Max({sustained, 1}), bound_by |-> "measured"]

\* count_recording after RECORD_PROBE; what is derived from it at the end.
count_recording ==
    /\ stage = "probe" /\ stage' = "destroy"
    /\ LET sustained == Cardinality({s \in held : advanced[s]}) IN
          ceiling' = derive_ceiling(sustained, stop = "Cap" /\ sustained = Cardinality(held))
    /\ UNCHANGED <<host, beside, n, stop, held, footprint, procs, browser, cast>>

\* One turn of the loop over held: cancel, destroy.
destroy ==
    /\ stage = "destroy"
    /\ IF held = {} THEN stage' = "done" /\ UNCHANGED <<held, browser>>
       ELSE /\ held' = held \ {Min(held)} /\ UNCHANGED stage
            /\ browser' = [browser EXCEPT ![Min(held)] = "gone"]
    /\ UNCHANGED <<host, beside, n, stop, footprint, ceiling, procs, cast>>

-----------------------------------------------------------------------------
(* drain_frames: the task of a session. *)

Cancelled(s) == stage \in {"destroy", "done"} /\ s \notin held

\* Mutant: a frame that does not say its session is counted, not acknowledged.
drain_frames_silent(s) ==
    /\ task[s] = "recv" /\ pipe[s] # <<>>
    /\ pipe' = [pipe EXCEPT ![s] = Tail(@)]
    /\ advanced' = [advanced EXCEPT ![s] = TRUE]
    /\ UNCHANGED <<host, beside, stage, ramp, procs, browser, inflight, ack, task>>

\* recv: a frame is counted and an ack is sent; the reply to it is awaited by
\* call_on, which passes over what comes before.
drain_frames(s) ==
    /\ task[s] = "recv" /\ pipe[s] # <<>>
    /\ pipe' = [pipe EXCEPT ![s] = Tail(@)]
    /\ IF Head(pipe[s]) = "frame"
       THEN /\ advanced' = [advanced EXCEPT ![s] = TRUE]
            /\ task' = [task EXCEPT ![s] = "acking"] /\ ack' = [ack EXCEPT ![s] = TRUE]
       ELSE UNCHANGED <<advanced, task, ack>>
    /\ UNCHANGED <<host, beside, stage, ramp, procs, browser, inflight>>

call_on(s) ==
    /\ task[s] = "acking" /\ pipe[s] # <<>>
    /\ pipe' = [pipe EXCEPT ![s] = Tail(@)]
    /\ task' = (IF Head(pipe[s]) = "reply" THEN [task EXCEPT ![s] = "recv"] ELSE task)
    /\ UNCHANGED <<host, beside, stage, ramp, procs, browser, inflight, ack, advanced>>

\* The token, looked at in recv alone; the end of the pipe, once it is read.
TaskEnds(s) ==
    /\ \/ task[s] = "recv" /\ (Cancelled(s) \/ (browser[s] = "gone" /\ pipe[s] = <<>>))
       \/ task[s] = "acking" /\ browser[s] = "gone" /\ pipe[s] = <<>>
    /\ task' = [task EXCEPT ![s] = "ended"] /\ ack' = [ack EXCEPT ![s] = FALSE]
    /\ UNCHANGED <<host, beside, stage, ramp, procs, browser, inflight, pipe, advanced>>

-----------------------------------------------------------------------------
(* The browser: it paints, it answers an ack before it sends another frame,  *)
(* and it may be killed.                                                     *)

Casting(s) == browser[s] = "up" /\ (s \in held \/ (s = n /\ stage = "frame"))

Frame(s) ==
    /\ Casting(s) /\ inflight[s] < Window
    /\ inflight' = [inflight EXCEPT ![s] = @ + 1]
    /\ pipe' = [pipe EXCEPT ![s] = Append(@, "frame")]
    /\ UNCHANGED <<host, beside, stage, ramp, procs, browser, ack, task, advanced>>

Acked(s) ==
    /\ browser[s] = "up" /\ ack[s]
    /\ ack' = [ack EXCEPT ![s] = FALSE]
    /\ inflight' = [inflight EXCEPT ![s] = @ - 1]
    /\ pipe' = [pipe EXCEPT ![s] = Append(@, "reply")]
    /\ UNCHANGED <<host, beside, stage, ramp, procs, browser, task, advanced>>

Killed(s) ==
    /\ browser[s] = "up" /\ browser' = [browser EXCEPT ![s] = "gone"]
    /\ UNCHANGED <<host, beside, stage, ramp, procs, cast>>

\* The replenisher's browsers and the template's start and end, at any moment.
Beside == beside' \in host.beside /\ UNCHANGED <<host, stage, ramp, procs, browser, cast>>

-----------------------------------------------------------------------------
Own ==
    \/ create \/ wait_first_frame \/ FirstFrameTimeout \/ Settled \/ HoldEnds
    \/ count_recording \/ destroy
    \/ (stage = "setup" /\ browser[n] = "gone" /\ SetupFails)

Task(s) == drain_frames(s) \/ call_on(s) \/ TaskEnds(s)
Answers(s) == Frame(s) \/ Acked(s)

CalNext ==
    \/ Own \/ setup_recording \/ SetupFails \/ Beside
    \/ \E s \in Sessions : Task(s) \/ Answers(s) \/ Killed(s)

CalSpec == CalInit /\ [][CalNext]_calVars

\* The runtime polls calibrate and the tasks; browsers owe nothing.
FairCalSpec == CalSpec /\ WF_calVars(Own) /\ \A s \in Sessions : WF_calVars(Task(s))

-----------------------------------------------------------------------------
(* What calibration promises. *)

Dearest == IF host.linux THEN [bytes |-> Max({OwnBytes(s) : s \in 1..n}),
                               threads |-> Max({OwnThreads(s) : s \in 1..n})]
           ELSE SESSION_ESTIMATE

\* Whether the host holds m sessions of the dearest kind, with a fifth to spare.
Holds(m) ==
    /\ m <= AUTO_CEILING /\ m <= 2 * Max({host.limits.cpus, 1})
    /\ host.limits.mem # Unlimited => m * Dearest.bytes <= (host.limits.mem \div 5) * 4
    /\ host.limits.pids # Unlimited => m * Dearest.threads <= (host.limits.pids \div 5) * 4

(* derive_ceiling: a ceiling beyond the sessions that were seen to record   *)
(* to the end of the hold is given only when all of RAMP_CAP did, and is    *)
(* then one that the host holds and the largest such; a ceiling is never    *)
(* zero.                                                                    *)
CeilingHolds ==
    LET m == ceiling.max_sessions
        recorded == Cardinality({s \in Sessions : advanced[s]})
    IN  ceiling.bound_by # "none" =>
            /\ m >= 1
            /\ ceiling.bound_by = "measured" => m <= Max({recorded, 1})
            /\ ceiling.bound_by # "measured" =>
                  /\ recorded = RAMP_CAP
                  /\ m > RAMP_CAP => Holds(m)
                  /\ ~Holds(m + 1)

Line == (host.limits.mem \div 100) * 85

(* calibrate.rs:15-18, "backs off before pressure ... so calibration cannot *)
(* drive the host into an OOM": it does not, on a host that is below the    *)
(* line to begin with and whose use can be read, as long as one session of  *)
(* calibrate's and whatever runs beside it need less than what the line     *)
(* leaves free. Neither the line nor the hold knows of what the replenisher *)
(* and the template launch meanwhile: they are within that room or nothing  *)
(* holds.                                                                   *)
NoOom ==
    /\ host.limits.mem # Unlimited /\ host.metered /\ host.base < Line
    /\ \A s \in Sessions, b \in host.beside : OwnBytes(s) + b <= host.limits.mem - Line
    => Used <= host.limits.mem

(* "an unacked stream stalls": a held session whose browser lives is never  *)
(* one that waits for an ack while its task waits for a frame, although the *)
(* first frame is not acknowledged and frames are passed over.              *)
NeverStalls ==
    \A s \in held :
        ~(browser[s] = "up" /\ inflight[s] = Window /\ pipe[s] = <<>>
            /\ ~ack[s] /\ task[s] = "recv")

(* Calibration ends and leaves no task behind, whatever its browsers do,    *)
(* unless one neither answers a call of setup_recording nor dies.           *)
CalibrateReturns ==
    \/ <>[](stage = "done" /\ \A s \in Sessions : task[s] \in {"none", "ended"})
    \/ <>[](stage = "setup")
=============================================================================
