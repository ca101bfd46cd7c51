-------------------------------- MODULE MCFactory --------------------------------
(* Model-checking instance of Factory. *)
EXTENDS Factory

(* Every kernel the probe can meet, with leaves that are refused after all  *)
(* where that is of interest; each with and without a working sandbox,      *)
(* under every setting that validate accepts.  A template is prepared, and  *)
(* the own cgroup is the base, on those where that makes a difference, and  *)
(* the limit of a leaf may not be written where there is no other trouble.  *)
AllHosts ==
    {h \in HostType :
        /\ \E k \in Kernel :
              h.base = prepare_cgroup_base(k) /\ (h.cgroupKill <=> h.base # "none" /\ k.kill)
        /\ ~(h.require /\ h.noSandbox)
        /\ h.cap
        /\ h.writes => h.base = "explicit"
        /\ h.base = "explicit" /\ ~h.writes =>
              ~h.refusesLeaf /\ ~h.warm /\ ~h.require /\ ~h.noSandbox /\ ~h.blocksSandbox /\ h.cgroupKill
        /\ h.refusesLeaf => h.base = "explicit" /\ h.cgroupKill
        /\ h.warm => ~h.refusesLeaf /\ ~h.noSandbox /\ (h.cgroupKill <=> h.base # "none")
        /\ h.base = "own" => h.cgroupKill /\ ~h.require /\ ~h.noSandbox /\ ~h.blocksSandbox /\ ~h.warm}
=============================================================================
