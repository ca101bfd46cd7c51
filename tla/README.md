# browserserve in TLA+

browserserve is a server that lends Chrome browsers to clients: a client opens a
WebSocket, gets a freshly launched Chrome of its own, drives it with CDP messages
and loses it, with its files, when it disconnects. This directory holds TLA+
models of the parts of the server whose correctness depends on interleavings,
failures, timeouts and ordering, the TLC runs that check them on small instances,
and TLAPS proofs of nearly all of their safety properties for every value of the
parameters.

Paths such as `pool.rs` are under `src/src/` of the repository; `PROJECT.json`
maps every definition to the lines it models.

Contents: [the system](#the-system) · [modules](#modules-and-the-code) ·
[runs](#runs) · [bounds](#bounds) · [fairness](#fairness) · [proofs](#proofs) ·
[disagreements](#where-code-and-documentation-disagree) ·
[not modelled](#not-modelled) · [plan](#plan)

## The system

One process on tokio's multi-threaded runtime. Requests are tasks; a task's future
can be dropped at any `await` (axum drops a handler whose client disconnects).

| component | state | operations | interacts with |
|---|---|---|---|
| warm pool (`pool.rs`) | fair semaphore, `waiting` counter, warm deque, live ceiling, `Notify` | `claim`, `claim_with`, `destroy`, drop of `Claimed`, `close`, `set_max_sessions`, the replenisher task | calls the factory; called by the WebSocket handlers, calibration and shutdown |
| browser factory (`factory.rs`, `chrome/launch.rs`, `chrome/kill.rs`, `session_dirs.rs`, `linux/`) | three shared flags (sandbox off, sandbox blocked, leaf refused); per session a process group, a directory, a cgroup leaf, a monitor | `create`, `create_seeded`, `create_proxied`, `destroy`, `destroy_capturing_native` | kernel, Chrome |
| profile hand-off (`server/profiles.rs`) and sessions (`server/ws.rs`) | a store of at most 256 entries, each pending, in flight or ready; a sweep by age | `drop_off`, `claim`, `deposit_result`, `finish_without_result`, `pick_up`; seed, serve, capture, deposit | HTTP gateway, factory, bridge |
| resume window (`server/resume.rs`, `resume_session` in `server/ws.rs`) | a registry from token to a one-place channel | park, claim, hand off, expire, clean slate | bridge, shutdown |
| bridge (`bridge.rs`, `chrome/pipe.rs`) | two pumps in one `select!`, the reader's buffer | forward, idle timeout, close | client socket, browser pipe |
| admission (`server/ws.rs`, `server/http.rs`, `server/auth.rs`, `pressure.rs`) | reads of pressure, threads, calibration, sandbox, pool | `ws_handler`, `profile_drop_off`, `/pressure` | pool, single use |
| start, drain, shutdown, single use (`server.rs`, `main.rs`, `server/single_use.rs`) | cancellation tokens, task tracker, spent and finished | sweep, serve, drain, cancel, force abort, last sweep | everything |
| configuration (`config.rs`) | none | file over defaults, environment over file, validation | everything |
| capacity and calibration (`capacity.rs`, `calibrate.rs`, `rss.rs`) | the held recording sessions, one frame task each | `compute`, `tree_sum`, `calibrate`, `derive_ceiling` | factory, the pool's ceiling |
| session proxy relay (`proxy/`) | listener, permits, connections | accept, read a head, dial, CONNECT or SOCKS handshake, forward, copy, drop | browser, upstream proxy |
| CDP client (`chrome/client.rs`, `profile/cdp.rs`), profile formats (`profile/`) | next message id, the pipe | send, await by id, seed, clean slate, capture; conversions | browser, bridge |

What makes it hard, and what correctness means, by component:

* **Pool.** Claims, a background replenisher, background destroys and `close` share
  counters and a deque through short critical sections. A slot must neither be lost
  nor doubled whichever path ends a claim; a session has one owner; the queue and
  the stock keep their bounds; returned slots reach waiters; `close` ends everything.
* **Factory.** Concurrent launches discover restrictions of the host and switch
  features off for each other. `requireSandbox` must hold through that; a recognised
  restriction must not fail a launch; a failed launch and a destroyed session leave
  nothing behind; a memory cap is always enforced by something; both always end.
* **Profiles.** Each of the five ways a session ends must release or fulfil its
  entry; a token is used once; a result is offered only when final.
* **Resume.** A token claimed, an upgrade under way, a window running out and a
  shutdown race: a parked browser goes to one client, never to a stale park, and is
  never held for good.
* **Bridge.** Whichever pump ends first, the other is dropped in mid-message; full
  pipes and sockets block; messages must stay whole and in order, and a silent or
  departed client must end the session.

* **Process.** Requests race for one use, for slots and for the sandbox's verdict while the
  process starts, calibrates, drains, is cancelled or crashes. Nothing may run
  while calibration sizes the pool; one use serves one; a live session is drained before it is cut; a restart
  starts clean; a process told to stop stops.
* **CDP.** One pipe carries the server's own commands, then a client's, then the server's again;
  replies come whenever the browser likes. The profile must arrive in the browser, come back from
  it, and no reply may be taken for another's.
* **Relay.** A proxy of the client's choice and a browser on the other side, each silent or gone at
  any moment: no reserved address is dialled, the login stays with the proxy, one answer per
  request, and dropping the relay ends everything.
* **Calibration.** Browsers of unknown cost are added until the host is nearly full, under a
  flow control that stalls when an ack is missed; the result must be a ceiling the host holds.

`PROJECT.json` lists these as hazards, each at its line, with the properties that
watch it.

## Modules and the code

**`Pool`** (`pool.rs`). Variables are the fields of `Inner` and of tokio's
semaphore (free permits, FIFO queue, closed), the program counter and session of
each claim, the replenisher's program counter and locals, and where each launched
session is. An action is a stretch of code between two points where other tasks can
be observed, so `acquire_slot` is seven actions (try, count in, compare, enqueue,
timeout, closed, polled) and the replenisher eleven. A dropped future is `CancelQueued`,
`CancelGranted` (a permit assigned but not polled goes on to the next waiter) or
`CancelLaunch`; the constant `CancelAt` says at which awaits. Sessions are numbered
by completed launches; only the replenisher pushes, so the deque is a set whose front
is its least member. The semaphore and `Notify` are external and modelled from their
use. `leaked` is a history variable that counts slots lost by `CancelLaunch`.

**`SessionLife`** is the abstract promise: a session is launched, serves at most one
claim, ends once, and no more than a ceiling's worth serve or owe a slot. **`PoolLife`**
gives the refinement mapping; `ImplementsLife` says that `Pool` implements it.

**`Factory`** (`factory.rs`, `chrome/launch.rs`, `chrome/kill.rs`, `session_dirs.rs`,
`linux/cgroup.rs`). The host and configuration are chosen in `Init` from `Hosts`;
flags are the three atomics of `FactoryInner`. A launch goes through provision, leaf,
`launch_browser` (which reads the sandbox flag twice: `EnterLaunchBrowser`, `Spawn`),
up to two attempts per call and two calls, to a session or to cleanup. A process group
is its leader, the direct child, and whether anything it forked still runs (`Forks`,
`LeaderExits`, `KidsExit` are external). A leaf whose `memory.max` could not be written is a leaf all the same
(`limited` says which it is; `writes`, of the host, whether that write always works). `AttemptFails` chooses what the error reveals:
the stderr tail is filled by another task and may lag, so a sandbox or leaf failure may
go unrecognised. Where leaves are made follows from what the probe finds (`probe_cgroup`,
`prepare_cgroup_base`). One launch may be that of `prepare_template` (`Warms`), which takes no leaf and
no monitor, tears its browser down and seals its directory (`Seal`). Teardown is the leaf's kill, protocol close, SIGTERM, SIGKILL and the
removal of the directory. Swapping `sandbox_blocked` and storing
`sandbox_disabled` is one step: the first is read only under `requireSandbox`, where the
second is not written.

**`Profiles`** (`server/profiles.rs`, the profile part of `server/ws.rs`). The store
is a function from tokens to entry states; every store operation first sweeps (`Swept`),
as `sweep` does, with ages fresh, older than the two-minute limit, and older than 24 hours.
A request runs through the stages of `serve_profile_session` and `profile_session`.
Payloads are abstracted to whether the captured cookies are there.

**`Resume`** (`server/resume.rs`, `resume_session`). A session's task bridges, parks
(numbered, since each park has a channel of its own), wakes for one of four reasons,
unparks, cleans and bridges again; a request claims, upgrades and delivers.

**`Bridge`** (`bridge.rs`, `chrome/pipe.rs`). Messages are numbers; on the pipe a
message is two chunks, its body and the terminator, because `send_raw` writes them in
two awaits. Pipes and sockets have room for a few. `up` and `down` are the pumps'
program counters.

`Profiles`, `Resume` and `Bridge` meet at the value a bridge ends with: `Resume` and
`Profiles` take every end `Bridge` can produce as an input.

**`Config`** (`config.rs`). Settings are records; `load` lays file over defaults and environment over
file, applies what single use implies, and validates. **`Server`** (`server.rs`, `main.rs`,
`server/ws.rs`, `server/http.rs`, `server/auth.rs`, `server/single_use.rs`, `session_dirs.rs`) extends it:
the process goes off, sweeping, serving, closing, draining, aborting, last sweep, exit, and may crash anywhere and be
started again on the same directories. A request is of one of four kinds and has a stage for every await
of its handler, so that its future can be dropped there; after the upgrade its callback is a task of its
own, tracked only from its first poll (`Switched`, `track_future`). The pool appears through its free
slots and queue; its detail is `Pool`'s. Calibration is a tracked task that measures, sizes the pool and then opens the server
(`CalibrationSizes`, `CalibrationOpens`). Host load is any of `Loads` whenever it is read.

**`ProfileData`** (`profile/`): which cookies, localStorage rows and files survive which conversion.
**`ProfileCdp`** (`chrome/client.rs`, `profile/cdp.rs`, `profile_session`, `clean_slate`): the commands a stage
has still to send are its plan; the browser (external) takes commands in order and answers each when it
likes; an id is what correlates them. `mistaken`, `staleLoad` and `changed` are history variables.
Each of the three readings of a capture (the cookies, the localStorage store, the packing of files) may fail, which the code turns
into an empty part; `captured` remembers which were answered, opened and packed.

**`Proxy`** (`proxy/upstream.rs`, `proxy/address.rs`, `proxy/head.rs`): the parsing of an upstream, the reserved
ranges, and which headers pass. **`Relay`** (`proxy/relay.rs`, `proxy/dial.rs`, `proxy/socks.rs`): the listener,
its permits, and each connection from head to dial, handshake, answer, copy and end; what was written to
each side is kept.

**`Capacity`** (`capacity.rs`, `rss.rs`): the ceiling from limits and cost, and the cost of a process tree.
**`Calibrate`** (`calibrate.rs`): the ramp, the hold, the count and the teardown, with a frame task per
session and a browser that sends at most `Window` frames without an ack. `beside` is what the replenisher's browsers and the
template's use meanwhile, any value of the host's set at any moment; a host's use may be unreadable (`metered`), and then there is no line. `MeasureAssumption`, which TLC
evaluates, ties `tree_sum` over a table of processes to the cost the model uses. What a screencast's window is, is Chrome's affair: the browser is
taken to answer `startScreencast` before its first frame and an ack before it sends another frame. `StreamsGoOn` shows that two frames in
flight are then enough; with a window of one, or of two and a frame that overtakes the reply to `startScreencast`, the unacknowledged first
frame would stall the stream.

## Runs

Passing:

| run | shows |
|---|---|
| `pool_safety` | Three claims, a resize, a queue of one, cancellation at both awaits, dying browsers, a close. `SlotsConserved`: permits, holders, owed slots and leaked slots always add up to the ceiling. `SessionsPartitioned`: each launched session is in exactly one place. `PoolInv`, the inductive invariant of the proofs, which includes the bounds on capacity, queue and stock. `ImplementsLife`: every step is one of `SessionLife`. |
| `pool_liveness` | `QueuedServed`: a queued claim leaves the queue. `CloseCompletes`: after `close` every task ends. |
| `factory_launches` | Two launches, one of them the template's on some hosts, on 34 kinds of host. `SandboxKept`, `RecognisedIsRecovered`, `NothingLeft` (of a failed launch and of a destroyed session), `CapCovered`: a memory cap is enforced by a limited leaf or by the monitor, except in a leaf on a host where the limit's write can fail; and the liveness property `LaunchAndDestroyEnd`. |
| `profiles_handoff` | Two requests, three tokens, a store of two. `OneShot` at both ends and bounded; `EndsAreFinal`: what is offered is final and every end of a session that got to its client releases its entry; `EntryLife`: entries only move forward, and a session under way keeps its own. |
| `resume_window` | Two sessions, two requests. `OneHandOff`: a park has one sender, in one place, listed only while it waits. `LateOnlyAtEnd`: an upgraded client loses the browser only to the session's end, and a wait expires only with its window or its claimant. `SessionsEnd`: parks end, and shutdown ends all. |
| `bridge_pumps` | Four messages up, three down, the last too large. `MessagesWhole`: whole, once, in order, both ways, and all written before a deliberate end. `BridgeEnds`: a silent or departed client ends the bridge. |
| `server` | Two requests of every kind, six configurations, two starts. `TypeOK` (with the validity of the settings in force), `CeilingInForce`: while the server calibrates no request is past its check, so the ceiling changes on an idle pool, and the slots taken never exceed it. `ServesOne`, `StaleGone`, `DrainHonoured`, `ProcessEnds`. |
| `cdp` | Four profiles, a resume, a fault, a client's command. `SeededWhole`: the browser has the profile before the client does. `BatchAccepted`: no cookie makes the browser refuse the batch. `CaptureWhole`: each part of what is deposited (cookies, localStorage, files) is what the browser had, where its reading did not fail. `OwnReplies`: seeding and cleaning never take a client's reply. `SessionEnds`. |
| `relay` | Three connections, two permits, six upstreams, 206 addresses at the ends of the reserved ranges of IPv4, the same inside IPv6, and at the ends of IPv6's own. `TypeOK` (with the accounting of permits), `PublicOnly`, `LoginKept`, `OneAnswer`, `DropCloses`. |
| `calibration` | Two sessions, seven hosts, two kinds of browser. `CalTypeOK` (with the ownership of browsers), `CeilingHolds`: a ceiling beyond what was seen to record is given only if all did, is one the host holds, and the largest such. `NoOom`: memory stays within its limit, as long as what the replenisher and the template launch beside the ramp fits above the safety line. `NeverStalls`, `CalibrateReturns`. |

Runs that exhibit a disagreement (each has an entry under "findings"):

| run | shows |
|---|---|
| `pool_cancelled_launch` | A claim dropped while its browser launches loses its slot until restart. |
| `cdp_stale_reply` | The capture numbers its commands from 1 on a pipe the client has used: a late reply to the client's command 1 is taken for the cookies. |

Every property of a passing run has a mutant: a plausible bug in a mapped definition
under which TLC finds that property violated.

## Bounds

* Pool: three claims make a holder, a queued one and one refused by a queue of one, or a
  permit assigned to a waiter that is dropped with another behind it. Two launches per behaviour
  (`MaxCreated`) let a warm and an inline launch overlap; a session's number matters only
  for order and ownership, and the proofs cover any number. `Targets` {0, 1, 3} around
  the initial 2 resizes down, to zero (kept as one) and up. Liveness is checked with two
  claims on one or two slots, without symmetry.
* Factory: two launches are enough for one to change a flag between any two steps of the
  other; a third would only repeat it. Hosts with a template, and hosts whose leaves are below the own
  cgroup, are taken only where these make a difference (`AllHosts`). Each launch is used once: slots of the pool do not
  reach into the factory. The memory cap is on; off, `CapCovered` is empty.
* Profiles: three tokens on two places make a full store; two requests make every race on
  a token. Ages have the three classes that the sweep tells apart.
* Resume: two requests let a session be parked three times, so a stale sender meets a
  later park. A park takes a new client each time, so the state space is finite by itself.
* Bridge: a pipe of two chunks is full after one message, so a third finds the pump
  waiting at the body and at the terminator; a socket of one blocks on the second message.
* Server: two requests on one or two slots make a holder and one that waits or is refused; two starts
  (`MaxRuns`) make a crash and a recovery; one tree per start that cannot be removed (`MaxStuck`). The
  configurations are the defaults, single use against a file that says otherwise, a required sandbox with a token, and three
  that must not start.
* ProfileCdp: `MaxPolls` commands while the browser has no page, one command of a client (`MaxClient`) whose
  reply may come in any later stage, one resume, one fault (a refused command or the browser's death). A
  clean slate's first id is 2,000,000,000 in the code and 20 here; only that it is beyond the client's matters.
* Relay: three connections on two permits let one be refused. Ranges are checked at both sides of
  each end, since the tests of `blocked_v4` are comparisons of octets.
* Calibrate: `RAMP_CAP` is 12 in the code and 2 here: one session that is held while the next is set up.
  Hosts are bound by memory, threads, cores or nothing, and two start just below the safety line, so that
  one session stays under it and another does not. Memory is counted in small units.

Deadlock checking is off where every task may be over (all but the pool);
in `Pool` the state in which all is closed and drained has an explicit stuttering step.

## Fairness

Only for steps the server itself takes: a task that is ready is polled, a timer that is
not restarted fires, and calls with a timeout end. `Pool`: claims past the queue progress,
background destroys and the replenisher run (each launch and teardown has a time budget,
which `Factory`'s `LaunchAndDestroyEnd` shows end). `Factory`: launch and teardown steps, all of which are
bounded by the launch timeout, the close budget, the grace and the reap budget; nothing of
the browser. `Resume`: wake-ups, unpark, the window's timer, `clean_slate` (every call has a
timeout); nothing of clients, whose upgrade may hang for good. `Bridge`: both pumps and the
idle timer; nothing of the browser or the client, who may stop reading without leaving. That is
why `BridgeEnds` names the one case in which the bridge stays: a write or a
close that its reader never takes. `Server`: the process's own sequence, the steps of handlers and
tasks, and the end of a session that was cancelled; no session ends by itself, and an upload may
take for ever. `ProfileCdp`: the task reads what is there, sends, and its timers fire; nothing of the browser.
`Relay`: the connection's own steps and the dial's timer; nothing of the browser and the upstream proxy.
`Calibrate`: the ramp and the frame tasks; browsers owe nothing. `HoldEnds` takes the 12 seconds of the hold to be
enough for a task to read what a dead browser had written.

## Proofs

What a run checks on a small instance, a theorem states for every value of the constants. Each module
with theorems extends the module it is about, and `ServerProofs`, after the server's, has those of the calibration that the server
runs at boot; the inductive invariant of a component (`PoolInv`,
`FactoryInv`, ...) is a conjunction of named parts at the end of the component's own module, or, for `ProfileCdp` and `Calibrate`, at the head
of its proofs. Each was
checked with TLC on the component's run before it was proved; `PoolInv` still is a property of a run.
Every proof has the same shape: the initial states satisfy the invariant, each action keeps each part of it that it
can disturb, and the promise follows from it.

| module | theorem | statement |
|---|---|---|
| `PoolProofs` | `PoolInvariant` | `Spec => []PoolInv` |
| | `TypeCorrect` | `Spec => []TypeOK` of `Pool`; the unsigned `waiting` counter never wraps |
| | `SlotAccounting`, `Capacity` | `Spec => []SlotsConserved`, `Spec => []CapacityBound` |
| | `OneOwner` | `Spec => []SessionsPartitioned` |
| | `BoundedQueue`, `BoundedStock` | `Spec => []QueueBound`, `Spec => []WarmBound` |
| | `PoolImplementsLife` | `Spec => ImplementsLife`: the refinement of `SessionLife` |
| `FactoryProofs` | `FactoryInvariant` | `Spec => []FactoryInv` |
| | `SandboxIsKept`, `RecoversWhatItRecognises` | `Spec => []SandboxKept`, `Spec => []RecognisedIsRecovered` |
| | `LeavesNothing`, `CapIsCovered` | `Spec => []NothingLeft`, `Spec => []CapCovered` |
| `ProfilesProofs` | `ProfilesInvariant` | `Spec => []ProfilesInv` |
| | `HandOffIsOneShot`, `ReportsAreFinal` | `Spec => []OneShot`, `Spec => []EndsAreFinal` |
| | `EntriesLiveForward` | `Spec => EntryLife`, an action property |
| `ResumeProofs` | `ResumeInvariant` | `Spec => []ResumeInv` |
| | `HandsOffOnce`, `LateOnlyThen` | `Spec => []OneHandOff`, `Spec => []LateOnlyAtEnd` |
| `BridgeProofs` | `BridgeInvariant`, `MessagesArriveWhole` | `Spec => []BridgeInv`, `Spec => []MessagesWhole` |
| `ServerProofs` | `ServerInvariant`, `SettingsHold` | `Spec => []ServerInv`, `Spec => []TypeOK` |
| | `ServesOneRequest`, `StaleIsGone`, `CeilingIsInForce` | `Spec => []ServesOne`, `[]StaleGone`, `[]CeilingInForce` |
| | `DrainIsHonoured` | `Spec => DrainHonoured`, an action property |
| | `CalibrateInvariant`, `NoSessionLeft` | `CalSpec => []CalInv`, `CalSpec => []CalTypeOK` of `Calibrate` |
| | `CeilingIsHeld`, `MemoryIsKept` | `CalSpec => []CeilingHolds`, `[]NoOom` |
| | `StreamsGoOn` | `CalSpec => []NeverStalls`, for a `Window` of at least two |
| `RelayProofs` | `RelayInvariant`, `PermitsAccounted` | `Spec => []RelayInv`, `Spec => []TypeOK` |
| | `LoginStaysWithProxy`, `AnswersOnce`, `DialsPublicOnly` | `Spec => []LoginKept`, `[]OneAnswer`, `[]PublicOnly` |
| `ProfileCdpProofs` | `CdpInvariant` | `Spec => []Inv`, with `CdpInv` and the shapes of its data |
| | `RepliesAreOwn`, `BatchIsAccepted` | `Spec => []OwnReplies`, `Spec => []BatchAccepted` |
| | `SeedsWhole`, `CapturesWhole` | `Spec => []SeededWhole`, `Spec => []CaptureWhole` |

### Assumptions

All are named, in the module that declares the constants, and TLC evaluates them on the runs.

* `PoolAssumption`, `ProfilesAssumption`, `BridgeAssumption`, `ServerAssumption`: what is counted is finite, what is a number is
  one, and pipes, sockets and ceilings have room for at least one. `ResumeAssumption`: the mark for "no client" is not a client.
* `HostAssumption`: a host is a record of the facts the factory looks at, and `validate` has refused a sandbox that is both
  required and disabled (`config.rs`; `Config` models it, and `SettingsHold` proves it of what `load` accepts). Only below a base given by
  `BROWSERSERVE_CGROUP_BASE` can a host's leaves be ones whose limits are always written.
* `ConfigAssumption`, `SetupsAssumption`: `Unset` is not a number, and the switches and `max_sessions` in a file and in the environment are what serde and
  `parse` can return. Nothing is assumed about which of them are given, so `SettingsHold` covers every combination.
* `RelayAssumption`: heads are of the type `parse_request` makes of them, addresses are addresses, and the marks for what the relay
  itself writes (`Written`) are not used as names of headers. The last is about the encoding: the model keeps pieces of text and not bytes.
* `CdpAssumption`: the clean slate's first id is above every id that a client uses, and not the first (`CLEANUP_FIRST_ID`, `server/resume.rs`).
  `PayloadsAssumption`: a payload's cookies and texts are of the types that serde makes, in which a localStorage text is a Rust string, and
  Chrome compresses in one of the three ways `decompress` knows. `CapturedAssumption`: an origin has one entry, and the files are those of the native stores, as in
  every payload that a capture made. With two entries for an origin the second script would clear what the first wrote (`restore_script`); nothing in
  `drop_off` refuses such a payload, so `SeedsWhole` is about captured profiles.

* `CapacityAssumption`, `CalibrateAssumption`, `HostsAssumption`: the estimate and the costs of browsers are positive, limits are numbers or not set, and 0, which
  stands for "no browser", names none of them; a host says what may run beside the ramp. `MeasureAssumption`: `measure_footprint` finds a browser's cost in its table of processes. TLC evaluates it on the tables
  of the run; for other tables it is taken as what `tree_sum` is for.

### Why the invariants are what they are

**Pool.** None of the promises is inductive alone. A permit moves between the semaphore, a waiter that
has been assigned it, and a claim; so `SlotsConserved` needs to know that exactly the claims in the
queue are at `"queued"` and each once (`QueueInv`), that the counter equals the claims that are
counted (`WaitingInv`), and that nothing is out while calibration resizes the semaphore
(`CalibrationInv`, which the server sees to: `CeilingInForce`). Ownership needs that a claim holds a session exactly from hand-out to the end of
its destroy, and the replenisher from launch to push or discard (`OwnerInv`). The stock's bound needs
that what the replenisher read is still an upper bound when it decides, since others only take
(`StockInv`). The induction step is four lemmas: `CountStep` (counters and slots), `PlaceStep` (where
sessions are), `StockStep` and `TypeStep`. They rest on what moving one claim does to the number of
claims at a set of points (`WhereMove`), what returning a permit does with and without a queue
(`AddPermitLemma`, `ReleaseLemma`), and what leaving the middle of the queue does (`RemoveAtLemma`,
`LeaveQueueLemma`). `PoolInv` contains the other six statements.

**The refinement.** `PoolLife` maps each session number to a stage of `SessionLife` by where the pool
has it. `StageReading` and `PlaceStage` read the mapping session by session, which needs that a session is in
one place only (`SessionsPartitioned`). A hand-out is a step of `SessionLife` only if there is
room under its ceiling: `RoomForOne` counts the claims and the teardowns that owe a slot, and it is `SlotsConserved` that
leaves one. `ClaimLife`, `ReplenisherLife`, `TornDown` and `LeaveStock` do the actions that move a session; in
all others `StageSame` makes the step invisible.

**Factory.** `sandbox_disabled` is read twice per launch, and others store it in between. What is true is that it never goes
back, so a process that got the sandbox was also read as sandboxed on a first attempt (`SandboxInv`), and the retry is
still there when a sandbox failure is recognised (`FailureInv`). That nothing is left needs that nothing runs between attempts
and on the error paths (`QuietInv`), and what a kill through the leaf has done when the later steps run (`LeafInv`). The template is
the warmer's, who is done with its directory (`TemplateInv`).

**Profiles.** A token belongs to one request from its claim on, and its entry never waits for a claim again (`TokenInv`); an entry in flight
has a request that will still report, a ready one had one that saved (`EntryInv`); only a session that saves captures, and a
deposit comes after the browser is gone (`SessionInv`). The cap needs that a sweep only removes entries (`SweptFacts`, `EntriesShrink`,
`EntriesGrow`).

**Resume.** A request that upgrades holds the sender of the session's last park, and the session has not moved on
to another client (`HoldInv`); a socket in a channel came from such a request, and only the task it woke takes it (`SocketInv`); the sender of a
parked session is listed, held, used, or was dropped with a failed upgrade (`SenderInv`).

**Bridge.** The promise is about what was delivered; the invariant is about the whole stream. With `Chunk(n)` the n-th chunk of
a side that writes whole messages in order, what the browser has not read yet is exactly the chunks from `Read + 1` on, up to where
the pump is in its message (`UpInv`), and likewise down (`DownInv`), until a message over the cap stops the reader. A deliberate close comes after all messages since
the client's own inbox is in order with its end last (`InboxInv`).

**Server.** `ConfigInv` is what `load` makes of any file and environment (`LoadedFacts`), `PhaseInv` what is settled in each phase, and
`UseInv` that the one use is taken by a single request at every stage up to the browser, also while it queues or its relay starts, where `ServesOne` does
not count it yet. `SweepInv` relates the directories on disk to the sweep's list, and `SizeInv` says that no
request is past its check, and no slot is lost, before the ceiling is the one to stay. The many steps of requests are one kind of step, in
which nothing but the request and the counters moves (`RequestActs`, `RequestKeeps`); those of the process are taken one by one.

**Relay.** Permits and live connections add up because each action moves one connection (`LiveMove`, `PermitMove`). That the client is told one thing needs that it
was told nothing before the tunnel or the response began, and the target got nothing before the handshake was over (`SilenceInv`). `PublicOnly` needs no state: it is
`ReservedBlocked`, `ReservedBlocked6` and `NativeBlocked`, which compare the networks as the documentation lists them with the code's octet and
segment tests for every address, and not only those of the run.

**Calibrate.** A browser of unknown cost is safe to add only while the sum of all that live is below the line: `LoadInv` has calibration's own sum below the line whenever a browser is about
to be launched, and at all times low enough that whatever may run beside it still fits. The sum is a recursive function over the sessions. `SumSteps` shows that the function it chooses exists and obeys its recursion,
`SumOfChange` that it changes by what one session adds or gives back; both argue by the least number for which the claim fails (`LeastNumber`, from the well-founded order of the
naturals), so that no induction rule has to be instantiated. `ComputeIsLargest` and `DerivedCeiling` say what the minimum of quotients is: the largest number that fits,
by `QuotientRoom`. That this is the largest for the *dearest* session needs that the measured cost is that of some browser and covers every one that has lived on
(`MeterInv`); one that was dead when it was measured left nothing to read by the time the counters are looked at, so it cannot be among those that record, and a
ceiling from the model is not derived (`CeilingCounted`). `RampInv` and `LivesInv` say who is held at which stage and that whoever records was launched.
`FlowInv` is about the stream: a task that waits for a frame has all but fewer than `Window` of the frames in flight still to read; one that waits for a reply has that reply in
its pipe, or an ack on its way, and the frames before the reply are those that it will pass over.

**ProfileCdp.** What the seeding has done must be read off what it has still to do: `Done` is how many commands of `apply_local_storage` are
completed, and `Written(v)` the rows that the scripts among its first v write (`WrittenSame`, `WrittenMore`: a script adds exactly its origin's rows, since
origins are distinct). `PlanInv` says that a plan is a rest of the stage's list, `IdInv` and `UniqueInv` whose ids are on their way and that none is there twice while the
server has the pipe alone, `SentInv` that the command in the pipe is the awaited one. Then a reply under the awaited id has that command's
effect behind it (`ReplyInv`), so that cookies (`CookieInv`) and rows (`RowInv`) are as far as the plan; a load ends the wait of the navigation it belongs to, unless
`staleLoad` (`LoadInv`). From the hand-over on the browser keeps what it got until a client changes it (`KeptInv`). The capture numbers from 1 again; that no earlier reply of
the *server's* can pass for its cookies is `FirstInv`, where the id 1 is accounted for from the first command of the seeding on. Each part needs others, so they are proved
together: one lemma per part (`PlanStep`, `IdStep`, ..., `CaptureStep`) from all of them. `CookieFacts` is the conversion: each parameter is accepted, and Chrome makes
of it the cookie it came from.

### Model-checked only

* All liveness (`QueuedServed`, `CloseCompletes`, `LaunchAndDestroyEnd`, `SessionsEnd`, `BridgeEnds`, `ProcessEnds`, `SessionEnds`, `DropCloses`,
  `CalibrateReturns`): fairness and `ENABLED` are out of the prover's reach.
* What `tree_sum` computes for every process table (`MeasureAssumption` above).
* The two runs that exhibit a disagreement.

Every invariant and every action property of a passing run is stated by a theorem.

## Where code and documentation disagree

Besides the two runs above, these came up while modelling. The models follow the code; where a
property would fail for one of them, it carries the exception named here.

Sessions and the pool:

* `close` between the replenisher's `is_closed` check and its push (`pool.rs:411-422`) leaves a warm browser in the
  stock after the replenisher has ended (`pool.rs:309-310`: "Warm stock is destroyed in the background"). `CloseCompletes` is about tasks.
* A profile request whose launch or upgrade fails leaves its entry in flight until the 24 hour sweep (`server/ws.rs:207-217`;
  `CHANGELOG.md:44`: sessions that end without a capture "release theirs"). `EndsAreFinal` is about sessions that got to their client.
* A capture that failed is deposited as an empty one: `capture_cookies` (`server/ws.rs:491`), a localStorage store that cannot be opened or has one
  unreadable row (`profile/localstorage.rs:42-50`, 124-133), the packing of files and the task that does it (`factory.rs:520`, 529) each give an empty
  default (`server/ws.rs:506-507`: a browser that died "must not overwrite the gateway's stored profile with nothing"). The model
  deposits it so, and `CaptureWhole` is about the parts whose reading did not fail.
* A resuming request whose upgrade fails ends the parked session at once (`server/resume.rs:121`; `README.md:253`). `LateOnlyAtEnd` names it.
* A send to the client that fails while a message to the browser is half written hands the pipe on in the middle of that
  message (`bridge.rs:66-68`, `chrome/pipe.rs:41-42`: "the pipe stays reassemblable"). `MessagesWhole` promises a boundary for a deliberate end.
* Profile sessions are resumable (`config.rs:100-101` says of `resumeWindowMs`: "Not applied to profile sessions"), and they
  are launched outside the pool, so that neither its ceiling nor its `close` concerns them.
* The ceiling bounds claimed sessions (`pool.rs:37`), not browsers, of which more can run while
  a warm launch overlaps a claim's own (`README.md:246`: "Hard ceiling of concurrent browsers").
* A profile session that lasts 24 hours loses its entry to the next sweep (`server/profiles.rs:25-26`:
  "A running session keeps its entry however long it lasts"). `EntryLife` carries that exception.
* A session owned by an upgrade that fails, or a launch whose caller is dropped, leaves its directory (and leaf) until the
  next sweep of the data directory (`README.md:37`).
* A message over the frame cap from a live browser ends the bridge as `BrowserGone` (`bridge.rs:36`:
  "The browser side closed first").
* Pings restart the idle timer (`bridge.rs:17-19` speaks of CDP messages); a browser that stops reading
  under a write, or a client that stops reading under the 1013 close, holds the bridge. `BridgeEnds`
  carries these exceptions.
* Without `cgroup.kill`, a helper that ignores SIGTERM survives a browser that obeys it: `teardown`
  sends SIGKILL only if the direct child stays up (`chrome/kill.rs:56-61`; `factory.rs:513-514` calls the
  tree dead, `README.md:37` says the whole tree is killed). On such a kernel the leaf is also left, since
  it is removed before the processes are gone. `NothingLeft` promises the whole tree only with `cgroup.kill`.
* A blocked sandbox or a refused leaf whose stderr lines are read late, or a refused leaf noticed through the
  broken pipe, is not recognised, and that launch fails without the fall-back (`factory.rs:266`:
  "auto-recovering"). `RecognisedIsRecovered` is about recognised failures.

* A leaf whose `memory.max` cannot be written is kept, which is only logged (`factory.rs:548-552`), and no monitor is started for a session that has
  a leaf (`factory.rs:589`), though 587-588 say: poll "whenever a cap was requested but no working cgroup hard cap is in place". Such a
  session runs under a cap that nothing enforces. `CapCovered` excepts leaves on hosts where that write can fail.
* Without `BROWSERSERVE_CGROUP_BASE`, the probe tries a leaf right below the own cgroup (`linux/probe.rs:49`), and sessions get theirs
  below a `browserserve` directory (`factory.rs:631-632`) to which no controller is given (`enable_memory_controller` is never called):
  `memory.max` cannot be written there: with that base every session's leaf is one of those.
* A template whose directory could not be stripped is sealed all the same: `move_ok` (`factory.rs:226-232`) is about the blocking task, not
  about what it returned (`template.rs:3-5`: "stripped of per-instance singleton state"). A clone that fails half way is used as it is
  ("falling back to empty dir"), since `provision_plain` makes the same directory. The template's browser has no leaf, so helpers may
  outlive it while sessions clone its files. `template_footprint` is read (`server.rs:236`) before the task that measures it is spawned, so the
  ceiling at start is never a measured one.

The process:

* A request that was answered with 101 and whose callback has not been polled when `axum::serve` returns is not tracked: its session is cut
  at the exit although `drainTimeoutMs` has not passed (`server.rs:98-99`, 205). `DrainHonoured` excepts `"switching"`.
* The drain deadline starts only once every open connection is closed (`server.rs:196-214`): an upload that never completes holds
  the process. `ProcessEnds` names it.
* `clean_stale` is documented as "Call only at startup" (`session_dirs.rs:63`) and is also called at shutdown.
* A claim that waited in the queue is served whatever load and threads are by then: the handler reads them once, before it (`server/ws.rs:106-141`).
* `/pressure` gives a blocked sandbox as the reason "a new session would be refused right now" (`server/http.rs:111-112`), and the handler
  never asks about it: a warm browser is served all the same (`server/ws.rs:85-190`).
* `/ready` looks at neither load nor threads, which `/pressure` and the handler do.

CDP, relay and calibration:

* `navigate_stub` takes the first `loadEventFired` for its own and does not look at the reply to `Page.navigate`: the localStorage of an
  origin may be written into another document and lost. It has no timeout. `SeededWhole` excepts it (`staleLoad`).
* Replies to the last commands of seeding may reach the client. A second clean slate numbers from the same first id again.
* `capture_cookies` has no timeout: a browser that lives and does not answer holds a profile session until the force abort.
* The relay turns a target's own 401 into its 502 "proxy login failed" (`proxy/relay.rs:227`). Reading a client's head and awaiting a response
  have no timeout, so idle connections keep their permits until the relay is dropped.
* "so calibration cannot drive the host into an OOM" (`calibrate.rs:15-17`) holds where the host's use can be read and starts below the safety line, and one session
  and what is launched beside it cost no more together than the 15 % above the line; these are `NoOom`'s conditions. The last matters because the replenisher
  (`pool.rs:405-406`, started at `server.rs:136`) and `prepare_template` (`server.rs:184-187`) launch browsers after the ramp's check and during the
  hold, although "calibration has the host to itself" (`server.rs:60-62`).
* The calls of `setup_recording` have no timeout: a browser that does not answer keeps the server not ready until shutdown; `CalibrateReturns`
  names it. `drain_frames` awaits each ack's reply with a call that passes over frames, which are then neither counted nor acknowledged.

## Not modelled

Flags, preferences and the discovery of the executable: text put together once per launch, or a search of known paths, without state.
Logging. The commands `check` and `doctor`, which launch one browser and report. Bodies of the probes and the wording of errors.
The bytes of encodings: what a conversion keeps or drops is modelled, not how it is written. cpu and pids limits of a leaf.
Functions that no session calls (`capture_local_storage`, `candidate_origins`, `snapshot_native`, `seed_native`). Everything outside the process
(Chrome, the kernel, tokio's primitives, clients, proxies) is external and modelled from how the code uses it.

## Plan

Done: `Pool` with `SessionLife`/`PoolLife`, `Profiles`, `Resume`, `Bridge`, `Factory`, `Config` and `Server`, `ProfileData` and
`ProfileCdp`, `Proxy` and `Relay`, `Capacity` and `Calibrate`; the proofs above.

Left, each of them beyond what is modelled: frames that overtake the reply to `startScreencast`, with the window that they need; a
proof of what `tree_sum` computes, by the least-number argument that `SumSteps` uses; the flags and the discovery of the executable as functions.
