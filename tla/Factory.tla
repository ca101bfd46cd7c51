--------------------------------- MODULE Factory ---------------------------------
(***************************************************************************)
(* Launching and destroying browsers (src/factory.rs, src/chrome/launch.rs,*)
(* src/chrome/kill.rs, src/session_dirs.rs, src/linux/cgroup.rs).          *)
(*                                                                         *)
(* Launches run concurrently and share three flags of FactoryInner: the    *)
(* sandbox is switched off for all of them when one finds that the host    *)
(* blocks it, and so are cgroup leaves.  A launch owns a directory, maybe  *)
(* a leaf, and a process group: the leader, which is the direct child, and *)
(* whatever the browser forks.                                             *)
(***************************************************************************)
EXTENDS Naturals

CONSTANTS
    Launches,   \* calls of create, create_seeded or create_proxied
    Warmer,     \* the launch that is prepare_template's, if there is one
    Hosts       \* the hosts and configurations to consider

(* require, noSandbox: chrome.requireSandbox and chrome.noSandbox;          *)
(* blocksSandbox: Chromium's sandbox cannot start here; base: where leaves  *)
(* are made, if the cgroup tier is active; refusesLeaf: joining a leaf is   *)
(* refused all the same; cgroupKill: leaves have cgroup.kill; cap:          *)
(* session.memoryMaxMb > 0; writes: memory.max can be written in the leaf   *)
(* of a session, whenever it is; warm: pool.minReady > 0, so that a         *)
(* template is prepared.                                                    *)
HostType == [require : BOOLEAN, noSandbox : BOOLEAN, blocksSandbox : BOOLEAN,
             base : {"none", "explicit", "own"}, refusesLeaf : BOOLEAN, cgroupKill : BOOLEAN,
             cap : BOOLEAN, writes : BOOLEAN, warm : BOOLEAN]

(* What the probe finds.  explicit: BROWSERSERVE_CGROUP_BASE names a        *)
(* directory; member, memory: the own cgroup can be told and has the memory *)
(* controller; creates, writable, joins: a leaf can be made, its memory.max *)
(* written, and a process moved into it; kill: it has cgroup.kill.          *)
Kernel == [explicit : BOOLEAN, member : BOOLEAN, memory : BOOLEAN, creates : BOOLEAN,
           writable : BOOLEAN, joins : BOOLEAN, kill : BOOLEAN]

(* Whether MemCapTier::Cgroup is active. *)
probe_cgroup(k) ==
    (k.explicit \/ (k.member /\ k.memory)) /\ k.creates /\ k.writable /\ k.joins

(* Where the leaves of sessions are made: in the directory that is named,   *)
(* or in one made below the own cgroup, to which no controller is given.    *)
prepare_cgroup_base(k) ==
    IF ~probe_cgroup(k) THEN "none" ELSE IF k.explicit THEN "explicit" ELSE "own"

(* validate (src/config.rs) rejects requireSandbox with noSandbox; a leaf   *)
(* without the memory controller has no memory.max.                         *)
ASSUME HostAssumption ==
    /\ Hosts \subseteq HostType
    /\ \A h \in Hosts : ~(h.require /\ h.noSandbox) /\ (h.writes => h.base = "explicit")

VARIABLES
    host,               \* which of Hosts this is
    sandbox_disabled, sandbox_blocked, leaf_enter_blocked,
    step,               \* where the launch or the session's end is
    sandboxed,          \* launch_browser's local variable
    no_sandbox,         \* LaunchSpec::no_sandbox of its last attempt
    again,              \* launch_browser is at its second launch
    failure,            \* what its last attempt's error tells
    dir,                \* the session directory
    leaf,               \* the cgroup leaf; "left" when it could not be removed
    limited,            \* its memory.max was written
    leader,             \* the direct child
    kids,               \* processes the browser forked that still run
    watched,            \* the soft cap's monitor runs
    template            \* template_dir and what it holds

flags == <<sandbox_disabled, sandbox_blocked, leaf_enter_blocked>>
local == <<sandboxed, no_sandbox, again, failure>>
leaves == <<leaf, limited>>
processes == <<leader, kids>>
vars == <<host, flags, step, local, dir, leaves, processes, watched, template>>

Launching == {"new", "provisioned", "enter", "spec", "starting", "judged", "result"}
Ending == {"killing", "closing", "terming", "clearing", "sealed"}
Over == {"failed", "gone", "dropped", "unprovisioned"}

(* Every variable holds a value of its type, nothing runs before it is      *)
(* spawned, and the sandbox is off only for a reason sandbox_state reports. *)
TypeOK ==
    /\ host \in Hosts
    /\ {sandbox_disabled, sandbox_blocked, leaf_enter_blocked} \subseteq BOOLEAN
    /\ step \in [Launches -> Launching \cup Ending \cup Over \cup {"serving", "removing"}]
    /\ sandboxed \in [Launches -> BOOLEAN] /\ no_sandbox \in [Launches -> BOOLEAN]
    /\ again \in [Launches -> BOOLEAN]
    /\ failure \in [Launches -> {"none", "sandbox", "leaf", "other"}]
    /\ dir \in [Launches -> {"none", "made", "removed"}]
    /\ leaf \in [Launches -> {"none", "made", "left", "removed"}]
    /\ limited \in [Launches -> BOOLEAN]
    /\ leader \in [Launches -> {"none", "up", "exited", "reaped"}]
    /\ kids \in [Launches -> BOOLEAN] /\ watched \in [Launches -> BOOLEAN]
    /\ template \in {"none", "stripped", "unstripped"}
    /\ \A l \in Launches : leader[l] = "none" => ~kids[l] /\ ~watched[l]
    /\ sandbox_disabled => host.noSandbox \/ sandbox_blocked

(* ChromeFactory::new, and launches not yet under way. *)
Init ==
    /\ host \in Hosts
    /\ sandbox_disabled = host.noSandbox
    /\ sandbox_blocked = FALSE
    /\ leaf_enter_blocked = FALSE
    /\ step = [l \in Launches |-> "new"]
    /\ sandboxed = [l \in Launches |-> FALSE]
    /\ no_sandbox = [l \in Launches |-> FALSE]
    /\ again = [l \in Launches |-> FALSE]
    /\ failure = [l \in Launches |-> "none"]
    /\ dir = [l \in Launches |-> "none"]
    /\ leaf = [l \in Launches |-> "none"]
    /\ limited = [l \in Launches |-> FALSE]
    /\ leader = [l \in Launches |-> "none"]
    /\ kids = [l \in Launches |-> FALSE]
    /\ watched = [l \in Launches |-> FALSE]
    /\ template = "none"

Warms(l) == host.warm /\ l = Warmer

Goes(l, from, to) ==
    /\ step[l] = from
    /\ step' = [step EXCEPT ![l] = to]
    /\ UNCHANGED <<host, template>>

-----------------------------------------------------------------------------
(* Directory and leaf. *)

(* provision_dirs: a clone of the template, or what provision_plain makes,  *)
(* where a clone that failed half way is left as it is.  prepare_template   *)
(* takes the latter.                                                        *)
Provision(l) ==
    /\ Goes(l, "new", "provisioned")
    /\ dir' = [dir EXCEPT ![l] = "made"]
    /\ UNCHANGED <<flags, local, leaves, processes, watched>>

(* provision_plain fails, maybe with part of the tree made. *)
ProvisionFails(l) ==
    /\ Goes(l, "new", "unprovisioned")
    /\ \E d \in {"none", "made"} : dir' = [dir EXCEPT ![l] = d]
    /\ UNCHANGED <<flags, local, leaves, processes, watched>>

(* create_seeded: the profile's files cannot be written. *)
SeedFails(l) ==
    /\ ~Warms(l)
    /\ Goes(l, "provisioned", "clearing")
    /\ failure' = [failure EXCEPT ![l] = "other"]
    /\ UNCHANGED <<flags, sandboxed, no_sandbox, again, dir, leaves, processes, watched>>

(* prepare_leaf: none if the tier is off, a leaf was refused before, or it  *)
(* cannot be made, and for the template.  A limit it cannot write is logged *)
(* and the leaf kept.                                                       *)
PrepareLeaf(l) ==
    /\ Goes(l, "provisioned", "enter")
    /\ \E made \in {"none", "made"}, written \in BOOLEAN :
          /\ made = "made" => host.base # "none" /\ ~leaf_enter_blocked /\ ~Warms(l)
          /\ written => made = "made" /\ host.cap /\ host.base = "explicit"
          /\ made = "made" /\ host.cap /\ host.writes => written
          /\ leaf' = [leaf EXCEPT ![l] = made]
          /\ limited' = [limited EXCEPT ![l] = written]
    /\ UNCHANGED <<flags, local, dir, processes, watched>>

-----------------------------------------------------------------------------
(* launch_browser and launch. *)

(* The flag is read once to judge a failure by ... *)
EnterLaunchBrowser(l) ==
    /\ Goes(l, "enter", "spec")
    /\ sandboxed' = [sandboxed EXCEPT ![l] = ~sandbox_disabled]
    /\ again' = [again EXCEPT ![l] = FALSE]
    /\ UNCHANGED <<flags, no_sandbox, failure, dir, leaves, processes, watched>>

(* ... and again by launch_spec, for the flags of the process it spawns. *)
Spawn(l) ==
    /\ Goes(l, "spec", "starting")
    /\ no_sandbox' = [no_sandbox EXCEPT ![l] = sandbox_disabled]
    /\ leader' = [leader EXCEPT ![l] = "up"]
    /\ UNCHANGED <<flags, sandboxed, again, failure, dir, leaves, kids, watched>>

(* Pipes, descriptors or the process cannot be had. *)
SpawnFails(l) ==
    /\ Goes(l, "spec", "judged")
    /\ failure' = [failure EXCEPT ![l] = "other"]
    /\ UNCHANGED <<flags, sandboxed, no_sandbox, again, dir, leaves, processes, watched>>

(* What stops the process before its browser is ready, if anything does. *)
Refused(l) == leaf[l] = "made" /\ host.refusesLeaf
Blocked(l) == ~Refused(l) /\ ~no_sandbox[l] /\ host.blocksSandbox

(* Mutant of Ready: the tier decides on the monitor, not the leaf in use. *)
ReadyByTier(l) ==
    /\ Goes(l, "starting", IF Warms(l) THEN "closing" ELSE "serving")
    /\ leader[l] = "up" /\ ~Refused(l) /\ ~Blocked(l)
    /\ failure' = [failure EXCEPT ![l] = "none"]
    /\ watched' = [watched EXCEPT ![l] = host.cap /\ host.base = "none" /\ ~Warms(l)]
    /\ UNCHANGED <<flags, sandboxed, no_sandbox, again, dir, leaves, processes>>

(* The probe is answered; launch_session starts the monitor it needs, and   *)
(* prepare_template goes on to teardown.                                    *)
Ready(l) ==
    /\ Goes(l, "starting", IF Warms(l) THEN "closing" ELSE "serving")
    /\ leader[l] = "up" /\ ~Refused(l) /\ ~Blocked(l)
    /\ failure' = [failure EXCEPT ![l] = "none"]
    /\ watched' = [watched EXCEPT ![l] = host.cap /\ leaf[l] = "none" /\ ~Warms(l)]
    /\ UNCHANGED <<flags, sandboxed, no_sandbox, again, dir, leaves, processes>>

(* An exit, a broken pipe or the launch timeout.  abort kills the group and *)
(* waits; the error carries what the stderr task has read by then, which    *)
(* may not be all, so that a blocked sandbox or a refused leaf can look     *)
(* like any other failure, as a refused leaf does if the pipe breaks first. *)
AttemptFails(l) ==
    /\ Goes(l, "starting", "judged")
    /\ \E why \in {"sandbox", "leaf", "other"} :
          /\ why = "sandbox" => Blocked(l)
          /\ why = "leaf" => Refused(l)
          /\ failure' = [failure EXCEPT ![l] = why]
    /\ leader' = [leader EXCEPT ![l] = "reaped"]
    /\ kids' = [kids EXCEPT ![l] = FALSE]
    /\ UNCHANGED <<flags, sandboxed, no_sandbox, again, dir, leaves, watched>>

SandboxFailure(l) == sandboxed[l] /\ failure[l] = "sandbox" /\ ~again[l]

(* Mutant of SandboxFallback: the sandbox is given up before the check. *)
SandboxFallbackFirst(l) ==
    /\ SandboxFailure(l)
    /\ sandbox_blocked' = TRUE
    /\ sandbox_disabled' = TRUE
    /\ \/ host.require /\ Goes(l, "judged", "result") /\ UNCHANGED again
       \/ /\ ~host.require /\ Goes(l, "judged", "spec")
          /\ again' = [again EXCEPT ![l] = TRUE]
    /\ UNCHANGED <<leaf_enter_blocked, sandboxed, no_sandbox, failure, dir, leaves,
                   processes, watched>>

(* Mutant of SandboxFallback: only the first launch to fail tries again. *)
SandboxFallbackOnce(l) ==
    /\ SandboxFailure(l)
    /\ sandbox_blocked' = TRUE
    /\ \/ /\ host.require \/ sandbox_blocked
          /\ Goes(l, "judged", "result") /\ UNCHANGED <<sandbox_disabled, again>>
       \/ /\ ~host.require /\ ~sandbox_blocked
          /\ Goes(l, "judged", "spec")
          /\ sandbox_disabled' = TRUE
          /\ again' = [again EXCEPT ![l] = TRUE]
    /\ UNCHANGED <<leaf_enter_blocked, sandboxed, no_sandbox, failure, dir, leaves,
                   processes, watched>>

(* The host blocks the sandbox: refuse, or switch it off and launch again. *)
SandboxFallback(l) ==
    /\ SandboxFailure(l)
    /\ sandbox_blocked' = TRUE
    /\ \/ /\ host.require
          /\ Goes(l, "judged", "result") /\ UNCHANGED <<sandbox_disabled, again>>
       \/ /\ ~host.require
          /\ Goes(l, "judged", "spec")
          /\ sandbox_disabled' = TRUE
          /\ again' = [again EXCEPT ![l] = TRUE]
    /\ UNCHANGED <<leaf_enter_blocked, sandboxed, no_sandbox, failure, dir, leaves,
                   processes, watched>>

(* Any other error is launch_browser's result. *)
PassOn(l) ==
    /\ ~SandboxFailure(l)
    /\ Goes(l, "judged", "result")
    /\ UNCHANGED <<flags, local, dir, leaves, processes, watched>>

-----------------------------------------------------------------------------
(* launch_session, from launch_browser's error. *)

LeafFailure(l) == leaf[l] # "none" /\ failure[l] = "leaf"

(* is_cgroup_enter_failure: no leaves any more, and launch without one. *)
LeafFallback(l) ==
    /\ LeafFailure(l)
    /\ Goes(l, "result", "enter")
    /\ leaf_enter_blocked' = TRUE
    /\ leaf' = [leaf EXCEPT ![l] = "none"]
    /\ limited' = [limited EXCEPT ![l] = FALSE]
    /\ UNCHANGED <<sandbox_disabled, sandbox_blocked, local, dir, processes, watched>>

(* The launch failed: the leaf goes, then the directory. *)
GiveUp(l) ==
    /\ ~LeafFailure(l)
    /\ Goes(l, "result", "clearing")
    /\ leaf' = [leaf EXCEPT ![l] = "none"]
    /\ limited' = [limited EXCEPT ![l] = FALSE]
    /\ UNCHANGED <<flags, local, dir, processes, watched>>

(* The caller is dropped at an await of create: kill_on_drop kills the      *)
(* direct child; the directory and the leaf have no owner any more.         *)
Dropped(l) ==
    /\ ~Warms(l)
    /\ \E from \in {"provisioned", "spec", "starting", "clearing"} : Goes(l, from, "dropped")
    /\ leader' = [leader EXCEPT ![l] = IF @ = "none" THEN @ ELSE "reaped"]
    /\ UNCHANGED <<flags, local, dir, leaves, kids, watched>>

-----------------------------------------------------------------------------
(* kill_session and teardown. *)

(* The monitor stops first. *)
StartDestroy(l) ==
    /\ Goes(l, "serving", "killing")
    /\ watched' = [watched EXCEPT ![l] = FALSE]
    /\ UNCHANGED <<flags, local, dir, leaves, processes>>

(* is_alive: a child that has exited is reaped, here or in teardown. *)
IsAlive(l) ==
    /\ step[l] = "serving" /\ leader[l] = "exited"
    /\ leader' = [leader EXCEPT ![l] = "reaped"]
    /\ UNCHANGED <<host, flags, step, local, dir, leaves, kids, watched, template>>

(* Mutant of KillLeaf: the directory of the leaf is removed, nothing killed. *)
KillLeafGently(l) ==
    /\ Goes(l, "killing", "closing")
    /\ leaf' = [leaf EXCEPT ![l] = IF @ = "none" THEN @ ELSE
                                   IF leader[l] = "up" \/ kids[l] THEN "left" ELSE "removed"]
    /\ UNCHANGED <<flags, local, dir, limited, processes, watched>>

(* kill_and_remove: cgroup.kill if the kernel has it, then rmdir, which     *)
(* fails for good while something in the leaf still runs.                   *)
KillLeaf(l) ==
    LET kill == leaf[l] = "made" /\ host.cgroupKill IN
    /\ Goes(l, "killing", "closing")
    /\ leader' = [leader EXCEPT ![l] = IF kill /\ @ = "up" THEN "exited" ELSE @]
    /\ kids' = [kids EXCEPT ![l] = @ /\ ~kill]
    /\ leaf' = [leaf EXCEPT ![l] = IF @ = "none" THEN @ ELSE
                                   IF leader'[l] = "up" \/ kids'[l] THEN "left" ELSE "removed"]
    /\ UNCHANGED <<flags, local, dir, limited, watched>>

(* SIGTERM to the group: what the browser forked may ignore it. *)
Termed(l) == \E left \in BOOLEAN : kids' = [kids EXCEPT ![l] = @ /\ left]

(* The pipe was still there, and the browser exits from Browser.close. *)
Closed(l) ==
    /\ leader[l] # "up"
    /\ Goes(l, "closing", "removing")
    /\ leader' = [leader EXCEPT ![l] = "reaped"]
    /\ Termed(l)
    /\ UNCHANGED <<flags, local, dir, leaves, watched>>

(* It does not in time, or the pipe was taken for a client. *)
Term(l) ==
    /\ Goes(l, "closing", "terming")
    /\ Termed(l)
    /\ UNCHANGED <<flags, local, dir, leaves, leader, watched>>

(* The direct child ends within kill_grace. *)
TermReaped(l) ==
    /\ leader[l] # "up"
    /\ Goes(l, "terming", "removing")
    /\ leader' = [leader EXCEPT ![l] = "reaped"]
    /\ UNCHANGED <<flags, local, dir, leaves, kids, watched>>

(* Mutant of Kill: no escalation, a browser that stays up is waited for. *)
KillNever(l) ==
    /\ leader[l] = "exited"
    /\ Goes(l, "terming", "removing")
    /\ leader' = [leader EXCEPT ![l] = "reaped"]
    /\ UNCHANGED <<flags, local, dir, leaves, kids, watched>>

(* It does not: SIGKILL to the group. *)
Kill(l) ==
    /\ leader[l] = "up"
    /\ Goes(l, "terming", "removing")
    /\ leader' = [leader EXCEPT ![l] = "reaped"]
    /\ kids' = [kids EXCEPT ![l] = FALSE]
    /\ UNCHANGED <<flags, local, dir, leaves, watched>>

(* prepare_template: the directory is stripped of its browser's locks and   *)
(* caches and moved; whether it was stripped is not asked (move_ok is about *)
(* the blocking task and not about what it returns).                        *)
Seal(l) ==
    /\ Warms(l) /\ step[l] = "removing"
    /\ step' = [step EXCEPT ![l] = "sealed"]
    /\ template' \in {"none", "stripped", "unstripped"}
    /\ UNCHANGED <<host, flags, local, dir, leaves, processes, watched>>

(* SessionDirs::teardown, its retries included: it fails only while         *)
(* something still writes there.                                            *)
RemoveDir(l) ==
    /\ \/ ~Warms(l) /\ Goes(l, "removing", "gone")
       \/ Goes(l, "sealed", "gone") \/ Goes(l, "clearing", "failed")
    /\ \E d \in {"made", "removed"} :
          /\ d = "made" => kids[l]
          /\ dir' = [dir EXCEPT ![l] = d]
    /\ UNCHANGED <<flags, local, leaves, processes, watched>>

-----------------------------------------------------------------------------
(* The browser, and the monitor. *)

(* A browser that was started may fork while it runs. *)
Forks(l) ==
    /\ leader[l] = "up" /\ ~Refused(l) /\ ~kids[l]
    /\ kids' = [kids EXCEPT ![l] = TRUE]
    /\ UNCHANGED <<host, flags, step, local, dir, leaves, leader, watched, template>>

LeaderExits(l) ==
    /\ leader[l] = "up"
    /\ leader' = [leader EXCEPT ![l] = "exited"]
    /\ UNCHANGED <<host, flags, step, local, dir, leaves, kids, watched, template>>

KidsExit(l) ==
    /\ kids[l]
    /\ kids' = [kids EXCEPT ![l] = FALSE]
    /\ UNCHANGED <<host, flags, step, local, dir, leaves, leader, watched, template>>

(* spawn_soft_cap: over the cap, the group is killed; or the tree is gone. *)
SoftCapEnds(l) ==
    /\ watched[l]
    /\ watched' = [watched EXCEPT ![l] = FALSE]
    /\ \/ leader[l] = "up" /\ leader' = [leader EXCEPT ![l] = "exited"]
                           /\ kids' = [kids EXCEPT ![l] = FALSE]
       \/ leader[l] # "up" /\ UNCHANGED processes
    /\ UNCHANGED <<host, flags, step, local, dir, leaves, template>>

(* A failed attempt's error path, once its process is gone. *)
Judge(l) == SandboxFallback(l) \/ PassOn(l) \/ LeafFallback(l) \/ GiveUp(l)

Launch(l) ==
    \/ Provision(l) \/ ProvisionFails(l) \/ SeedFails(l) \/ PrepareLeaf(l)
    \/ EnterLaunchBrowser(l) \/ Spawn(l) \/ SpawnFails(l) \/ Ready(l) \/ AttemptFails(l)
    \/ Judge(l)

Destroy(l) ==
    KillLeaf(l) \/ Closed(l) \/ Term(l) \/ TermReaped(l) \/ Kill(l)
    \/ Seal(l) \/ RemoveDir(l)

Next ==
    \E l \in Launches :
        \/ Launch(l) \/ Dropped(l) \/ IsAlive(l) \/ StartDestroy(l) \/ Destroy(l)
        \/ Forks(l) \/ LeaderExits(l) \/ KidsExit(l) \/ SoftCapEnds(l)

Spec == Init /\ [][Next]_vars

(* The factory's tasks are polled, and each of their waits has a timeout:   *)
(* the launch's, the close's, the grace and the reap budget.                *)
Fairness == \A l \in Launches : WF_vars(Launch(l)) /\ WF_vars(Destroy(l))

FairSpec == Spec /\ Fairness

-----------------------------------------------------------------------------
(* What the factory promises. *)

(* "Under requireSandbox the sandbox failure is recorded and propagated     *)
(* unchanged": no process of any launch ever runs without the sandbox,      *)
(* whatever other launches find out meanwhile; and it is off only for a     *)
(* reason that sandbox_state reports.                                       *)
SandboxKept ==
    /\ TypeOK
    /\ host.require => \A l \in Launches : leader[l] # "none" => ~no_sandbox[l]

(* "auto-recovering from a blocked host sandbox", and likewise from leaves  *)
(* that cannot be joined: a launch that recognises either never fails for   *)
(* it, also when several find out at once, except as requireSandbox asks.   *)
RecognisedIsRecovered ==
    \A l \in Launches : step[l] \in {"clearing", "failed"} =>
        failure[l] = "other" \/ (failure[l] = "sandbox" /\ host.require)

(* "On any failure the spawned process group is killed and the direct child *)
(* reaped before the error is returned", and launch_session removes what it *)
(* made. "cgroup.kill (when present) SIGKILLs the whole subtree             *)
(* atomically": a session that was born in a leaf is destroyed whole before *)
(* its files are read or removed; on other hosts the direct child is, as it *)
(* is before a template is made of its files.                               *)
NothingLeft ==
    \A l \in Launches :
        /\ step[l] = "failed" =>
              /\ leader[l] \in {"none", "reaped"} /\ ~kids[l]
              /\ leaf[l] = "none" /\ dir[l] = "removed"
        /\ step[l] \in {"removing", "sealed", "gone"} \/ (Warms(l) /\ template # "none") =>
              /\ leader[l] = "reaped"
              /\ host.cgroupKill /\ leaf[l] # "none" =>
                    /\ ~kids[l] /\ leaf[l] = "removed"
                    /\ step[l] = "gone" => dir[l] = "removed"

(* A session that is served under a cap is in a leaf whose memory.max was   *)
(* written, or has a monitor, for as long as its browser runs: also after   *)
(* the fall-back that takes its leaf away, and when no leaf could be made.  *)
(* Excepted are leaves on a host where the write can fail.                  *)
CapCovered ==
    \A l \in Launches :
        host.cap /\ step[l] = "serving" /\ leader[l] = "up" =>
            \/ leaf[l] = "made" /\ limited[l]
            \/ watched[l]
            \/ leaf[l] = "made" /\ ~host.writes

(* Every launch and every destruction ends, whatever the browser does: two  *)
(* fallbacks at most, and a kill for a browser that will not go.            *)
LaunchAndDestroyEnd ==
    \A l \in Launches : step[l] \notin Over \cup {"serving"}
                           ~> step[l] \in Over \cup {"serving"}

-----------------------------------------------------------------------------
(* The inductive invariant behind the proofs. *)

(* The two reads of sandbox_disabled: a process that got the sandbox was    *)
(* read as sandboxed before, since the flag is never taken back.            *)
SandboxInv ==
    /\ host.require => ~sandbox_disabled /\ \A l \in Launches : ~no_sandbox[l]
    /\ \A l \in Launches :
          /\ step[l] = "spec" /\ ~sandbox_disabled => sandboxed[l] /\ ~again[l]
          /\ step[l] = "starting" /\ ~no_sandbox[l] => sandboxed[l] /\ ~again[l]

(* So a sandbox failure is found while it can still be recovered from, and  *)
(* a leaf failure by a launch that has a leaf.                              *)
FailureInv ==
    \A l \in Launches :
        /\ step[l] = "judged" =>
              failure[l] # "none" /\ (failure[l] = "sandbox" => sandboxed[l] /\ ~again[l])
        /\ step[l] \in {"judged", "result"} /\ failure[l] = "leaf" => leaf[l] = "made"
        /\ step[l] = "result" =>
              failure[l] \in {"leaf", "other"} \/ (failure[l] = "sandbox" /\ host.require)

(* Between attempts, and on the error paths, nothing runs; the monitor      *)
(* starts with a session that is served.                                    *)
QuietInv ==
    \A l \in Launches :
        /\ step[l] \in {"new", "provisioned", "enter", "spec", "judged", "result", "clearing",
                        "failed", "unprovisioned"} =>
              leader[l] \in {"none", "reaped"} /\ ~kids[l]
        /\ step[l] # "serving" => ~watched[l]

(* Where a leaf may be, and what a kill of it leaves. *)
LeafInv ==
    \A l \in Launches :
        /\ step[l] \in {"new", "provisioned", "clearing", "failed"} \/ Warms(l) => leaf[l] = "none"
        /\ step[l] \in Launching \cup {"serving", "killing"} => leaf[l] \in {"none", "made"}
        /\ leaf[l] # "none" => host.base # "none"
        /\ leaf[l] = "made" /\ host.cap /\ host.writes => limited[l]
        /\ step[l] \in {"closing", "terming"} /\ host.cgroupKill /\ leaf[l] # "none" =>
              leaf[l] = "removed" /\ ~kids[l] /\ leader[l] # "up"

(* A template is made by the warmer only, of a directory it is done with. *)
TemplateInv ==
    template # "none" => \A l \in Launches : Warms(l) => step[l] \in {"sealed", "gone"}

FactoryInv ==
    /\ SandboxKept /\ SandboxInv /\ FailureInv /\ QuietInv /\ LeafInv /\ TemplateInv
    /\ RecognisedIsRecovered /\ NothingLeft /\ CapCovered
=============================================================================
