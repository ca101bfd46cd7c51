------------------------------ MODULE Capacity ------------------------------
(***************************************************************************)
(* How many sessions a host holds, from its limits and the cost of one     *)
(* browser (capacity.rs), and what one browser costs (rss.rs). Memory is   *)
(* counted in any unit; Unlimited stands for a limit that is not set.      *)
(***************************************************************************)
EXTENDS Integers, Sequences, FiniteSets, FiniteSetsExt

CONSTANTS
    SESSION_ESTIMATE,   \* the footprint [bytes, threads] before one is measured
    AUTO_CEILING        \* 256

ASSUME CapacityAssumption ==
    /\ SESSION_ESTIMATE \in [bytes : Nat \ {0}, threads : Nat \ {0}]
    /\ AUTO_CEILING \in Nat \ {0}

Unlimited == -1
NoFootprint == [bytes |-> 0, threads |-> 0]

-----------------------------------------------------------------------------
(* compute. limits: mem, pids (or Unlimited) and cpus. *)

\* Four fifths of a limit, in whole sessions.
Quotient(limit, each) ==
    IF limit = Unlimited \/ each = 0 THEN Unlimited ELSE ((limit \div 5) * 4) \div each

clamp(v, low, high) == IF v < low THEN low ELSE IF v > high THEN high ELSE v

\* Mutant: the last bound that is known, not the least.
consider_last(best, v, label) ==
    IF v # Unlimited THEN [v |-> v, by |-> label] ELSE best

\* A bound that is known and less than the best so far.
consider(best, v, label) ==
    IF v # Unlimited /\ v < best.v THEN [v |-> v, by |-> label] ELSE best

compute(limits, footprint) ==
    LET fp == IF footprint = NoFootprint THEN SESSION_ESTIMATE ELSE footprint
        cpu == [v |-> Max({limits.cpus, 1}) * 2, by |-> "cpu"]
        memory == consider(cpu, Quotient(limits.mem, fp.bytes), "memory")
        best == consider(memory, Quotient(limits.pids, fp.threads), "pids")
    IN  [max_sessions |-> clamp(best.v, 1, AUTO_CEILING), bound_by |-> best.by]

-----------------------------------------------------------------------------
(* tree_sum over the processes of the host, [pid, ppid, bytes, threads]:     *)
(* the root and what descends from it; Unlimited (None) without the root.    *)

Closed(pids, procs) == \A p \in procs : p.ppid \in pids => p.pid \in pids

tree_sum(procs, root, value) ==
    LET tree == {p \in procs : \A pids \in SUBSET {q.pid : q \in procs} :
                                  root \in pids /\ Closed(pids, procs) => p.pid \in pids}
    IN  IF \E p \in procs : p.pid = root THEN MapThenSumSet(LAMBDA p : p[value], tree) ELSE Unlimited

tree_rss_bytes(procs, root) == tree_sum(procs, root, "bytes")
tree_thread_count(procs, root) == tree_sum(procs, root, "threads")

\* measure_footprint of calibrate.rs: nothing unless both are positive.
measure_footprint(procs, root) ==
    LET bytes == tree_rss_bytes(procs, root)
        threads == tree_thread_count(procs, root)
    IN  IF bytes > 0 /\ threads > 0 THEN [bytes |-> bytes, threads |-> threads]
        ELSE NoFootprint
=============================================================================
