----------------------------- MODULE FactoryProofs -----------------------------
(***************************************************************************)
(* Proofs about Factory for any number of concurrent launches, on every    *)
(* host and under every setting that validate accepts.                     *)
(***************************************************************************)
EXTENDS Factory, TLAPS

(* What is known of the host: the types of its facts, and what validate     *)
(* rejects.                                                                 *)
LEMMA HostFacts ==
    ASSUME host \in Hosts
    PROVE  /\ host.require \in BOOLEAN /\ host.noSandbox \in BOOLEAN
           /\ host.blocksSandbox \in BOOLEAN /\ host.base \in {"none", "explicit", "own"}
           /\ host.refusesLeaf \in BOOLEAN /\ host.cgroupKill \in BOOLEAN
           /\ host.cap \in BOOLEAN /\ host.writes \in BOOLEAN /\ host.warm \in BOOLEAN
           /\ ~(host.require /\ host.noSandbox)
           /\ host.writes => host.base = "explicit"
BY HostAssumption DEF HostType

(* No launch is under way. *)
LEMMA FactoryInit == Init => FactoryInv
<1> SUFFICES ASSUME Init PROVE FactoryInv
    OBVIOUS
<1>1. TypeOK
    BY HostFacts DEF Init, TypeOK, Launching
<1>2. SandboxKept /\ SandboxInv
    BY <1>1, HostFacts DEF Init, SandboxKept, SandboxInv
<1>3. FailureInv /\ QuietInv /\ LeafInv /\ TemplateInv
    BY DEF Init, FailureInv, QuietInv, LeafInv, TemplateInv, Launching
<1>4. RecognisedIsRecovered /\ NothingLeft /\ CapCovered
    BY DEF Init, RecognisedIsRecovered, NothingLeft, CapCovered
<1> QED BY <1>2, <1>3, <1>4 DEF FactoryInv

(* Every step of a launch, of a destruction, of the browser and of the      *)
(* monitor keeps the invariant, for that launch and for all others.         *)
LEMMA FactoryStep == FactoryInv /\ [Next]_vars => FactoryInv'
<1> SUFFICES ASSUME FactoryInv, [Next]_vars PROVE FactoryInv'
    OBVIOUS
<1> USE DEF FactoryInv, SandboxKept, flags, local, leaves, processes
<1>0. TypeOK /\ host \in Hosts
    BY DEF TypeOK
<1>1. ASSUME NEW l \in Launches, Provision(l) PROVE FactoryInv'
    <2>1. TypeOK'
        BY <1>1, <1>0, HostFacts DEF Provision, Goes, TypeOK, Launching, Ending, Over
    <2>2. SandboxKept'
        BY <1>1, <1>0, HostFacts, <2>1 DEF Provision, Goes, SandboxInv, TypeOK
    <2>3. SandboxInv'
        BY <1>1, <1>0, HostFacts DEF Provision, Goes, SandboxInv, TypeOK
    <2>4. FailureInv'
        BY <1>1, <1>0, HostFacts DEF Provision, Goes, FailureInv, SandboxInv, LeafInv, TypeOK,
            Launching
    <2>5. QuietInv'
        BY <1>1, <1>0, HostFacts DEF Provision, Goes, QuietInv, TypeOK
    <2>6. LeafInv'
        BY <1>1, <1>0, HostFacts DEF Provision, Goes, LeafInv, TypeOK, Launching, Warms,
            NothingLeft
    <2>7. TemplateInv'
        BY <1>1, <1>0, HostFacts DEF Provision, Goes, TemplateInv, TypeOK, Warms
    <2>8. RecognisedIsRecovered'
        BY <1>1, <1>0, HostFacts DEF Provision, Goes, RecognisedIsRecovered, FailureInv, TypeOK
    <2>9. NothingLeft'
        BY <1>1, <1>0, HostFacts DEF Provision, Goes, NothingLeft, QuietInv, LeafInv, TypeOK,
            TemplateInv, Warms
    <2>10. CapCovered'
        BY <1>1, <1>0, HostFacts DEF Provision, Goes, CapCovered, LeafInv, Launching, TypeOK
    <2> QED BY <2>1, <2>2, <2>3, <2>4, <2>5, <2>6, <2>7, <2>8, <2>9, <2>10
<1>2. ASSUME NEW l \in Launches, ProvisionFails(l) PROVE FactoryInv'
    <2>1. TypeOK'
        BY <1>2, <1>0, HostFacts DEF ProvisionFails, Goes, TypeOK, Launching, Ending, Over
    <2>2. SandboxKept'
        BY <1>2, <1>0, HostFacts, <2>1 DEF ProvisionFails, Goes, SandboxInv, TypeOK
    <2>3. SandboxInv'
        BY <1>2, <1>0, HostFacts DEF ProvisionFails, Goes, SandboxInv, TypeOK
    <2>4. FailureInv'
        BY <1>2, <1>0, HostFacts DEF ProvisionFails, Goes, FailureInv, SandboxInv, LeafInv,
            TypeOK, Launching
    <2>5. QuietInv'
        BY <1>2, <1>0, HostFacts DEF ProvisionFails, Goes, QuietInv, TypeOK
    <2>6. LeafInv'
        BY <1>2, <1>0, HostFacts DEF ProvisionFails, Goes, LeafInv, TypeOK, Launching, Warms,
            NothingLeft
    <2>7. TemplateInv'
        BY <1>2, <1>0, HostFacts DEF ProvisionFails, Goes, TemplateInv, TypeOK, Warms
    <2>8. RecognisedIsRecovered'
        BY <1>2, <1>0, HostFacts DEF ProvisionFails, Goes, RecognisedIsRecovered, FailureInv,
            TypeOK
    <2>9. NothingLeft'
        BY <1>2, <1>0, HostFacts DEF ProvisionFails, Goes, NothingLeft, QuietInv, LeafInv,
            TypeOK, TemplateInv, Warms
    <2>10. CapCovered'
        BY <1>2, <1>0, HostFacts DEF ProvisionFails, Goes, CapCovered, LeafInv, Launching,
            TypeOK
    <2> QED BY <2>1, <2>2, <2>3, <2>4, <2>5, <2>6, <2>7, <2>8, <2>9, <2>10
<1>3. ASSUME NEW l \in Launches, SeedFails(l) PROVE FactoryInv'
    <2>1. TypeOK'
        BY <1>3, <1>0, HostFacts DEF SeedFails, Goes, TypeOK, Launching, Ending, Over
    <2>2. SandboxKept'
        BY <1>3, <1>0, HostFacts, <2>1 DEF SeedFails, Goes, SandboxInv, TypeOK
    <2>3. SandboxInv'
        BY <1>3, <1>0, HostFacts DEF SeedFails, Goes, SandboxInv, TypeOK
    <2>4. FailureInv'
        BY <1>3, <1>0, HostFacts DEF SeedFails, Goes, FailureInv, SandboxInv, LeafInv, TypeOK,
            Launching
    <2>5. QuietInv'
        BY <1>3, <1>0, HostFacts DEF SeedFails, Goes, QuietInv, TypeOK
    <2>6. LeafInv'
        BY <1>3, <1>0, HostFacts DEF SeedFails, Goes, LeafInv, TypeOK, Launching, Warms,
            NothingLeft
    <2>7. TemplateInv'
        BY <1>3, <1>0, HostFacts DEF SeedFails, Goes, TemplateInv, TypeOK, Warms
    <2>8. RecognisedIsRecovered'
        BY <1>3, <1>0, HostFacts DEF SeedFails, Goes, RecognisedIsRecovered, FailureInv, TypeOK
    <2>9. NothingLeft'
        BY <1>3, <1>0, HostFacts DEF SeedFails, Goes, NothingLeft, QuietInv, LeafInv, TypeOK,
            TemplateInv, Warms
    <2>10. CapCovered'
        BY <1>3, <1>0, HostFacts DEF SeedFails, Goes, CapCovered, LeafInv, Launching, TypeOK
    <2> QED BY <2>1, <2>2, <2>3, <2>4, <2>5, <2>6, <2>7, <2>8, <2>9, <2>10
<1>4. ASSUME NEW l \in Launches, PrepareLeaf(l) PROVE FactoryInv'
    <2>1. TypeOK'
        BY <1>4, <1>0, HostFacts DEF PrepareLeaf, Goes, TypeOK, Launching, Ending, Over
    <2>2. SandboxKept'
        BY <1>4, <1>0, HostFacts, <2>1 DEF PrepareLeaf, Goes, SandboxInv, TypeOK
    <2>3. SandboxInv'
        BY <1>4, <1>0, HostFacts DEF PrepareLeaf, Goes, SandboxInv, TypeOK
    <2>4. FailureInv'
        BY <1>4, <1>0, HostFacts DEF PrepareLeaf, Goes, FailureInv, SandboxInv, LeafInv,
            TypeOK, Launching
    <2>5. QuietInv'
        BY <1>4, <1>0, HostFacts DEF PrepareLeaf, Goes, QuietInv, TypeOK
    <2>6. LeafInv'
        BY <1>4, <1>0, HostFacts DEF PrepareLeaf, Goes, LeafInv, TypeOK, Launching, Warms,
            NothingLeft
    <2>7. TemplateInv'
        BY <1>4, <1>0, HostFacts DEF PrepareLeaf, Goes, TemplateInv, TypeOK, Warms
    <2>8. RecognisedIsRecovered'
        BY <1>4, <1>0, HostFacts DEF PrepareLeaf, Goes, RecognisedIsRecovered, FailureInv,
            TypeOK
    <2>9. NothingLeft'
        BY <1>4, <1>0, HostFacts DEF PrepareLeaf, Goes, NothingLeft, QuietInv, LeafInv, TypeOK,
            TemplateInv, Warms
    <2>10. CapCovered'
        BY <1>4, <1>0, HostFacts DEF PrepareLeaf, Goes, CapCovered, LeafInv, Launching, TypeOK
    <2> QED BY <2>1, <2>2, <2>3, <2>4, <2>5, <2>6, <2>7, <2>8, <2>9, <2>10
<1>5. ASSUME NEW l \in Launches, EnterLaunchBrowser(l) PROVE FactoryInv'
    <2>1. TypeOK'
        BY <1>5, <1>0, HostFacts DEF EnterLaunchBrowser, Goes, TypeOK, Launching, Ending, Over
    <2>2. SandboxKept'
        BY <1>5, <1>0, HostFacts, <2>1 DEF EnterLaunchBrowser, Goes, SandboxInv, TypeOK
    <2>3. SandboxInv'
        BY ZenonT(60), <1>5, <1>0, HostFacts DEF EnterLaunchBrowser, Goes, SandboxInv, TypeOK
    <2>4. FailureInv'
        BY <1>5, <1>0, HostFacts DEF EnterLaunchBrowser, Goes, FailureInv, SandboxInv, LeafInv,
            TypeOK, Launching
    <2>5. QuietInv'
        BY <1>5, <1>0, HostFacts DEF EnterLaunchBrowser, Goes, QuietInv, TypeOK
    <2>6. LeafInv'
        BY <1>5, <1>0, HostFacts DEF EnterLaunchBrowser, Goes, LeafInv, TypeOK, Launching,
            Warms, NothingLeft
    <2>7. TemplateInv'
        BY <1>5, <1>0, HostFacts DEF EnterLaunchBrowser, Goes, TemplateInv, TypeOK, Warms
    <2>8. RecognisedIsRecovered'
        BY <1>5, <1>0, HostFacts DEF EnterLaunchBrowser, Goes, RecognisedIsRecovered,
            FailureInv, TypeOK
    <2>9. NothingLeft'
        BY <1>5, <1>0, HostFacts DEF EnterLaunchBrowser, Goes, NothingLeft, QuietInv, LeafInv,
            TypeOK, TemplateInv, Warms
    <2>10. CapCovered'
        BY <1>5, <1>0, HostFacts DEF EnterLaunchBrowser, Goes, CapCovered, LeafInv, Launching,
            TypeOK
    <2> QED BY <2>1, <2>2, <2>3, <2>4, <2>5, <2>6, <2>7, <2>8, <2>9, <2>10
<1>6. ASSUME NEW l \in Launches, Spawn(l) PROVE FactoryInv'
    <2>1. TypeOK'
        BY <1>6, <1>0, HostFacts DEF Spawn, Goes, TypeOK, Launching, Ending, Over
    <2>2. SandboxKept'
        BY <1>6, <1>0, HostFacts, <2>1 DEF Spawn, Goes, SandboxInv, TypeOK
    <2>3. SandboxInv'
        BY <1>6, <1>0, HostFacts DEF Spawn, Goes, SandboxInv, TypeOK
    <2>4. FailureInv'
        BY <1>6, <1>0, HostFacts DEF Spawn, Goes, FailureInv, SandboxInv, LeafInv, TypeOK,
            Launching
    <2>5. QuietInv'
        BY <1>6, <1>0, HostFacts DEF Spawn, Goes, QuietInv, TypeOK
    <2>6. LeafInv'
        BY <1>6, <1>0, HostFacts DEF Spawn, Goes, LeafInv, TypeOK, Launching, Warms, NothingLeft
    <2>7. TemplateInv'
        BY <1>6, <1>0, HostFacts DEF Spawn, Goes, TemplateInv, TypeOK, Warms
    <2>8. RecognisedIsRecovered'
        BY <1>6, <1>0, HostFacts DEF Spawn, Goes, RecognisedIsRecovered, FailureInv, TypeOK
    <2>9. NothingLeft'
        BY <1>6, <1>0, HostFacts DEF Spawn, Goes, NothingLeft, QuietInv, LeafInv, TypeOK,
            TemplateInv, Warms
    <2>10. CapCovered'
        BY <1>6, <1>0, HostFacts DEF Spawn, Goes, CapCovered, LeafInv, Launching, TypeOK
    <2> QED BY <2>1, <2>2, <2>3, <2>4, <2>5, <2>6, <2>7, <2>8, <2>9, <2>10
<1>7. ASSUME NEW l \in Launches, SpawnFails(l) PROVE FactoryInv'
    <2>1. TypeOK'
        BY <1>7, <1>0, HostFacts DEF SpawnFails, Goes, TypeOK, Launching, Ending, Over
    <2>2. SandboxKept'
        BY <1>7, <1>0, HostFacts, <2>1 DEF SpawnFails, Goes, SandboxInv, TypeOK
    <2>3. SandboxInv'
        BY <1>7, <1>0, HostFacts DEF SpawnFails, Goes, SandboxInv, TypeOK
    <2>4. FailureInv'
        BY <1>7, <1>0, HostFacts DEF SpawnFails, Goes, FailureInv, SandboxInv, LeafInv, TypeOK,
            Launching
    <2>5. QuietInv'
        BY <1>7, <1>0, HostFacts DEF SpawnFails, Goes, QuietInv, TypeOK
    <2>6. LeafInv'
        BY <1>7, <1>0, HostFacts DEF SpawnFails, Goes, LeafInv, TypeOK, Launching, Warms,
            NothingLeft
    <2>7. TemplateInv'
        BY <1>7, <1>0, HostFacts DEF SpawnFails, Goes, TemplateInv, TypeOK, Warms
    <2>8. RecognisedIsRecovered'
        BY <1>7, <1>0, HostFacts DEF SpawnFails, Goes, RecognisedIsRecovered, FailureInv, TypeOK
    <2>9. NothingLeft'
        BY <1>7, <1>0, HostFacts DEF SpawnFails, Goes, NothingLeft, QuietInv, LeafInv, TypeOK,
            TemplateInv, Warms
    <2>10. CapCovered'
        BY <1>7, <1>0, HostFacts DEF SpawnFails, Goes, CapCovered, LeafInv, Launching, TypeOK
    <2> QED BY <2>1, <2>2, <2>3, <2>4, <2>5, <2>6, <2>7, <2>8, <2>9, <2>10
<1>8. ASSUME NEW l \in Launches, Ready(l) PROVE FactoryInv'
    <2>1. TypeOK'
        BY <1>8, <1>0, HostFacts DEF Ready, Goes, Refused, Blocked, TypeOK, Launching, Ending,
            Over
    <2>2. SandboxKept'
        BY <1>8, <1>0, HostFacts, <2>1 DEF Ready, Goes, Refused, Blocked, SandboxInv, TypeOK
    <2>3. SandboxInv'
        BY <1>8, <1>0, HostFacts DEF Ready, Goes, Refused, Blocked, SandboxInv, TypeOK
    <2>4. FailureInv'
        BY <1>8, <1>0, HostFacts DEF Ready, Goes, Refused, Blocked, FailureInv, SandboxInv,
            LeafInv, TypeOK, Launching
    <2>5. QuietInv'
        BY <1>8, <1>0, HostFacts DEF Ready, Goes, Refused, Blocked, QuietInv, TypeOK
    <2>6. LeafInv'
        BY <1>8, <1>0, HostFacts DEF Ready, Goes, Refused, Blocked, LeafInv, TypeOK, Launching,
            Warms, NothingLeft
    <2>7. TemplateInv'
        BY <1>8, <1>0, HostFacts DEF Ready, Goes, Refused, Blocked, TemplateInv, TypeOK, Warms
    <2>8. RecognisedIsRecovered'
        BY <1>8, <1>0, HostFacts DEF Ready, Goes, Refused, Blocked, RecognisedIsRecovered,
            FailureInv, TypeOK
    <2>9. NothingLeft'
        BY <1>8, <1>0, HostFacts DEF Ready, Goes, Refused, Blocked, NothingLeft, QuietInv,
            LeafInv, TypeOK, TemplateInv, Warms
    <2>10. CapCovered'
        BY ZenonT(60), <1>8, <1>0, HostFacts DEF Ready, Goes, Refused, Blocked, CapCovered, LeafInv,
            Launching, TypeOK
    <2> QED BY <2>1, <2>2, <2>3, <2>4, <2>5, <2>6, <2>7, <2>8, <2>9, <2>10
<1>9. ASSUME NEW l \in Launches, AttemptFails(l) PROVE FactoryInv'
    <2>1. TypeOK'
        BY <1>9, <1>0, HostFacts DEF AttemptFails, Goes, Refused, Blocked, TypeOK, Launching,
            Ending, Over
    <2>2. SandboxKept'
        BY <1>9, <1>0, HostFacts, <2>1 DEF AttemptFails, Goes, Refused, Blocked, SandboxInv,
            TypeOK
    <2>3. SandboxInv'
        BY <1>9, <1>0, HostFacts DEF AttemptFails, Goes, Refused, Blocked, SandboxInv, TypeOK
    <2>4. FailureInv'
        BY <1>9, <1>0, HostFacts DEF AttemptFails, Goes, Refused, Blocked, FailureInv,
            SandboxInv, LeafInv, TypeOK, Launching
    <2>5. QuietInv'
        BY <1>9, <1>0, HostFacts DEF AttemptFails, Goes, Refused, Blocked, QuietInv, TypeOK
    <2>6. LeafInv'
        BY <1>9, <1>0, HostFacts DEF AttemptFails, Goes, Refused, Blocked, LeafInv, TypeOK,
            Launching, Warms, NothingLeft
    <2>7. TemplateInv'
        BY <1>9, <1>0, HostFacts DEF AttemptFails, Goes, Refused, Blocked, TemplateInv, TypeOK,
            Warms
    <2>8. RecognisedIsRecovered'
        BY <1>9, <1>0, HostFacts DEF AttemptFails, Goes, Refused, Blocked,
            RecognisedIsRecovered, FailureInv, TypeOK
    <2>9. NothingLeft'
        BY <1>9, <1>0, HostFacts DEF AttemptFails, Goes, Refused, Blocked, NothingLeft,
            QuietInv, LeafInv, TypeOK, TemplateInv, Warms
    <2>10. CapCovered'
        BY <1>9, <1>0, HostFacts DEF AttemptFails, Goes, Refused, Blocked, CapCovered, LeafInv,
            Launching, TypeOK
    <2> QED BY <2>1, <2>2, <2>3, <2>4, <2>5, <2>6, <2>7, <2>8, <2>9, <2>10
<1>10. ASSUME NEW l \in Launches, SandboxFallback(l) PROVE FactoryInv'
    <2>1. TypeOK'
        <3>1. CASE host.require
            BY <3>1, <1>10, <1>0, HostFacts DEF SandboxFallback, Goes, SandboxFailure, TypeOK,
                Launching, Ending, Over
        <3>2. CASE ~host.require
            BY <3>2, <1>10, <1>0, HostFacts DEF SandboxFallback, Goes, SandboxFailure, TypeOK,
                Launching, Ending, Over
        <3> QED BY <3>1, <3>2, <1>10, <1>0, HostFacts DEF SandboxFallback, Goes,
            SandboxFailure, TypeOK
    <2>2. SandboxKept'
        BY <1>10, <1>0, HostFacts, <2>1 DEF SandboxFallback, Goes, SandboxFailure, SandboxInv,
            TypeOK
    <2>3. SandboxInv'
        BY <1>10, <1>0, HostFacts DEF SandboxFallback, Goes, SandboxFailure, SandboxInv, TypeOK
    <2>4. FailureInv'
        BY <1>10, <1>0, HostFacts DEF SandboxFallback, Goes, SandboxFailure, FailureInv,
            SandboxInv, LeafInv, TypeOK, Launching
    <2>5. QuietInv'
        BY <1>10, <1>0, HostFacts DEF SandboxFallback, Goes, SandboxFailure, QuietInv, TypeOK
    <2>6. LeafInv'
        BY <1>10, <1>0, HostFacts DEF SandboxFallback, Goes, SandboxFailure, LeafInv, TypeOK,
            Launching, Warms, NothingLeft
    <2>7. TemplateInv'
        BY <1>10, <1>0, HostFacts DEF SandboxFallback, Goes, SandboxFailure, TemplateInv,
            TypeOK, Warms
    <2>8. RecognisedIsRecovered'
        BY <1>10, <1>0, HostFacts DEF SandboxFallback, Goes, SandboxFailure,
            RecognisedIsRecovered, FailureInv, TypeOK
    <2>9. NothingLeft'
        BY <1>10, <1>0, HostFacts DEF SandboxFallback, Goes, SandboxFailure, NothingLeft,
            QuietInv, LeafInv, TypeOK, TemplateInv, Warms
    <2>10. CapCovered'
        BY <1>10, <1>0, HostFacts DEF SandboxFallback, Goes, SandboxFailure, CapCovered,
            LeafInv, Launching, TypeOK
    <2> QED BY <2>1, <2>2, <2>3, <2>4, <2>5, <2>6, <2>7, <2>8, <2>9, <2>10
<1>11. ASSUME NEW l \in Launches, PassOn(l) PROVE FactoryInv'
    <2>1. TypeOK'
        BY <1>11, <1>0, HostFacts DEF PassOn, Goes, SandboxFailure, TypeOK, Launching, Ending,
            Over
    <2>2. SandboxKept'
        BY <1>11, <1>0, HostFacts, <2>1 DEF PassOn, Goes, SandboxFailure, SandboxInv, TypeOK
    <2>3. SandboxInv'
        BY <1>11, <1>0, HostFacts DEF PassOn, Goes, SandboxFailure, SandboxInv, TypeOK
    <2>4. FailureInv'
        BY <1>11, <1>0, HostFacts DEF PassOn, Goes, SandboxFailure, FailureInv, SandboxInv,
            LeafInv, TypeOK, Launching
    <2>5. QuietInv'
        BY <1>11, <1>0, HostFacts DEF PassOn, Goes, SandboxFailure, QuietInv, TypeOK
    <2>6. LeafInv'
        BY <1>11, <1>0, HostFacts DEF PassOn, Goes, SandboxFailure, LeafInv, TypeOK, Launching,
            Warms, NothingLeft
    <2>7. TemplateInv'
        BY <1>11, <1>0, HostFacts DEF PassOn, Goes, SandboxFailure, TemplateInv, TypeOK, Warms
    <2>8. RecognisedIsRecovered'
        BY <1>11, <1>0, HostFacts DEF PassOn, Goes, SandboxFailure, RecognisedIsRecovered,
            FailureInv, TypeOK
    <2>9. NothingLeft'
        BY <1>11, <1>0, HostFacts DEF PassOn, Goes, SandboxFailure, NothingLeft, QuietInv,
            LeafInv, TypeOK, TemplateInv, Warms
    <2>10. CapCovered'
        BY <1>11, <1>0, HostFacts DEF PassOn, Goes, SandboxFailure, CapCovered, LeafInv,
            Launching, TypeOK
    <2> QED BY <2>1, <2>2, <2>3, <2>4, <2>5, <2>6, <2>7, <2>8, <2>9, <2>10
<1>12. ASSUME NEW l \in Launches, LeafFallback(l) PROVE FactoryInv'
    <2>1. TypeOK'
        BY <1>12, <1>0, HostFacts DEF LeafFallback, Goes, LeafFailure, TypeOK, Launching,
            Ending, Over
    <2>2. SandboxKept'
        BY <1>12, <1>0, HostFacts, <2>1 DEF LeafFallback, Goes, LeafFailure, SandboxInv, TypeOK
    <2>3. SandboxInv'
        BY <1>12, <1>0, HostFacts DEF LeafFallback, Goes, LeafFailure, SandboxInv, TypeOK
    <2>4. FailureInv'
        BY <1>12, <1>0, HostFacts DEF LeafFallback, Goes, LeafFailure, FailureInv, SandboxInv,
            LeafInv, TypeOK, Launching
    <2>5. QuietInv'
        BY <1>12, <1>0, HostFacts DEF LeafFallback, Goes, LeafFailure, QuietInv, TypeOK
    <2>6. LeafInv'
        BY <1>12, <1>0, HostFacts DEF LeafFallback, Goes, LeafFailure, LeafInv, TypeOK,
            Launching, Warms, NothingLeft
    <2>7. TemplateInv'
        BY <1>12, <1>0, HostFacts DEF LeafFallback, Goes, LeafFailure, TemplateInv, TypeOK,
            Warms
    <2>8. RecognisedIsRecovered'
        BY <1>12, <1>0, HostFacts DEF LeafFallback, Goes, LeafFailure, RecognisedIsRecovered,
            FailureInv, TypeOK
    <2>9. NothingLeft'
        BY <1>12, <1>0, HostFacts DEF LeafFallback, Goes, LeafFailure, NothingLeft, QuietInv,
            LeafInv, TypeOK, TemplateInv, Warms
    <2>10. CapCovered'
        BY <1>12, <1>0, HostFacts DEF LeafFallback, Goes, LeafFailure, CapCovered, LeafInv,
            Launching, TypeOK
    <2> QED BY <2>1, <2>2, <2>3, <2>4, <2>5, <2>6, <2>7, <2>8, <2>9, <2>10
<1>13. ASSUME NEW l \in Launches, GiveUp(l) PROVE FactoryInv'
    <2>1. TypeOK'
        BY <1>13, <1>0, HostFacts DEF GiveUp, Goes, LeafFailure, TypeOK, Launching, Ending, Over
    <2>2. SandboxKept'
        BY <1>13, <1>0, HostFacts, <2>1 DEF GiveUp, Goes, LeafFailure, SandboxInv, TypeOK
    <2>3. SandboxInv'
        BY <1>13, <1>0, HostFacts DEF GiveUp, Goes, LeafFailure, SandboxInv, TypeOK
    <2>4. FailureInv'
        BY <1>13, <1>0, HostFacts DEF GiveUp, Goes, LeafFailure, FailureInv, SandboxInv,
            LeafInv, TypeOK, Launching
    <2>5. QuietInv'
        BY <1>13, <1>0, HostFacts DEF GiveUp, Goes, LeafFailure, QuietInv, TypeOK
    <2>6. LeafInv'
        BY <1>13, <1>0, HostFacts DEF GiveUp, Goes, LeafFailure, LeafInv, TypeOK, Launching,
            Warms, NothingLeft
    <2>7. TemplateInv'
        BY <1>13, <1>0, HostFacts DEF GiveUp, Goes, LeafFailure, TemplateInv, TypeOK, Warms
    <2>8. RecognisedIsRecovered'
        BY <1>13, <1>0, HostFacts DEF GiveUp, Goes, LeafFailure, RecognisedIsRecovered,
            FailureInv, TypeOK
    <2>9. NothingLeft'
        BY <1>13, <1>0, HostFacts DEF GiveUp, Goes, LeafFailure, NothingLeft, QuietInv,
            LeafInv, TypeOK, TemplateInv, Warms
    <2>10. CapCovered'
        BY <1>13, <1>0, HostFacts DEF GiveUp, Goes, LeafFailure, CapCovered, LeafInv,
            Launching, TypeOK
    <2> QED BY <2>1, <2>2, <2>3, <2>4, <2>5, <2>6, <2>7, <2>8, <2>9, <2>10
<1>14. ASSUME NEW l \in Launches, Dropped(l) PROVE FactoryInv'
    <2>1. TypeOK'
        BY <1>14, <1>0, HostFacts DEF Dropped, Goes, TypeOK, Launching, Ending, Over
    <2>2. SandboxKept'
        BY <1>14, <1>0, HostFacts, <2>1 DEF Dropped, Goes, SandboxInv, TypeOK
    <2>3. SandboxInv'
        BY <1>14, <1>0, HostFacts DEF Dropped, Goes, SandboxInv, TypeOK
    <2>4. FailureInv'
        BY <1>14, <1>0, HostFacts DEF Dropped, Goes, FailureInv, SandboxInv, LeafInv, TypeOK,
            Launching
    <2>5. QuietInv'
        BY <1>14, <1>0, HostFacts DEF Dropped, Goes, QuietInv, TypeOK
    <2>6. LeafInv'
        BY <1>14, <1>0, HostFacts DEF Dropped, Goes, LeafInv, TypeOK, Launching, Warms,
            NothingLeft
    <2>7. TemplateInv'
        BY <1>14, <1>0, HostFacts DEF Dropped, Goes, TemplateInv, TypeOK, Warms
    <2>8. RecognisedIsRecovered'
        BY <1>14, <1>0, HostFacts DEF Dropped, Goes, RecognisedIsRecovered, FailureInv, TypeOK
    <2>9. NothingLeft'
        BY <1>14, <1>0, HostFacts DEF Dropped, Goes, NothingLeft, QuietInv, LeafInv, TypeOK,
            TemplateInv, Warms
    <2>10. CapCovered'
        BY <1>14, <1>0, HostFacts DEF Dropped, Goes, CapCovered, LeafInv, Launching, TypeOK
    <2> QED BY <2>1, <2>2, <2>3, <2>4, <2>5, <2>6, <2>7, <2>8, <2>9, <2>10
<1>15. ASSUME NEW l \in Launches, StartDestroy(l) PROVE FactoryInv'
    <2>1. TypeOK'
        BY <1>15, <1>0, HostFacts DEF StartDestroy, Goes, TypeOK, Launching, Ending, Over
    <2>2. SandboxKept'
        BY <1>15, <1>0, HostFacts, <2>1 DEF StartDestroy, Goes, SandboxInv, TypeOK
    <2>3. SandboxInv'
        BY <1>15, <1>0, HostFacts DEF StartDestroy, Goes, SandboxInv, TypeOK
    <2>4. FailureInv'
        BY <1>15, <1>0, HostFacts DEF StartDestroy, Goes, FailureInv, SandboxInv, LeafInv,
            TypeOK, Launching
    <2>5. QuietInv'
        BY <1>15, <1>0, HostFacts DEF StartDestroy, Goes, QuietInv, TypeOK
    <2>6. LeafInv'
        BY <1>15, <1>0, HostFacts DEF StartDestroy, Goes, LeafInv, TypeOK, Launching, Warms,
            NothingLeft
    <2>7. TemplateInv'
        BY <1>15, <1>0, HostFacts DEF StartDestroy, Goes, TemplateInv, TypeOK, Warms
    <2>8. RecognisedIsRecovered'
        BY <1>15, <1>0, HostFacts DEF StartDestroy, Goes, RecognisedIsRecovered, FailureInv,
            TypeOK
    <2>9. NothingLeft'
        BY <1>15, <1>0, HostFacts DEF StartDestroy, Goes, NothingLeft, QuietInv, LeafInv,
            TypeOK, TemplateInv, Warms
    <2>10. CapCovered'
        BY <1>15, <1>0, HostFacts DEF StartDestroy, Goes, CapCovered, LeafInv, Launching, TypeOK
    <2> QED BY <2>1, <2>2, <2>3, <2>4, <2>5, <2>6, <2>7, <2>8, <2>9, <2>10
<1>16. ASSUME NEW l \in Launches, IsAlive(l) PROVE FactoryInv'
    <2>1. TypeOK'
        BY <1>16, <1>0, HostFacts DEF IsAlive, TypeOK, Launching, Ending, Over
    <2>2. SandboxKept'
        BY <1>16, <1>0, HostFacts, <2>1 DEF IsAlive, SandboxInv, TypeOK
    <2>3. SandboxInv'
        BY <1>16, <1>0, HostFacts DEF IsAlive, SandboxInv, TypeOK
    <2>4. FailureInv'
        BY <1>16, <1>0, HostFacts DEF IsAlive, FailureInv, SandboxInv, LeafInv, TypeOK,
            Launching
    <2>5. QuietInv'
        BY <1>16, <1>0, HostFacts DEF IsAlive, QuietInv, TypeOK
    <2>6. LeafInv'
        BY <1>16, <1>0, HostFacts DEF IsAlive, LeafInv, TypeOK, Launching, Warms, NothingLeft
    <2>7. TemplateInv'
        BY <1>16, <1>0, HostFacts DEF IsAlive, TemplateInv, TypeOK, Warms
    <2>8. RecognisedIsRecovered'
        BY <1>16, <1>0, HostFacts DEF IsAlive, RecognisedIsRecovered, FailureInv, TypeOK
    <2>9. NothingLeft'
        BY <1>16, <1>0, HostFacts DEF IsAlive, NothingLeft, QuietInv, LeafInv, TypeOK,
            TemplateInv, Warms
    <2>10. CapCovered'
        BY <1>16, <1>0, HostFacts DEF IsAlive, CapCovered, LeafInv, Launching, TypeOK
    <2> QED BY <2>1, <2>2, <2>3, <2>4, <2>5, <2>6, <2>7, <2>8, <2>9, <2>10
<1>17. ASSUME NEW l \in Launches, KillLeaf(l) PROVE FactoryInv'
    <2>1. TypeOK'
        BY <1>17, <1>0, HostFacts DEF KillLeaf, Goes, TypeOK, Launching, Ending, Over
    <2>2. SandboxKept'
        BY <1>17, <1>0, HostFacts, <2>1 DEF KillLeaf, Goes, SandboxInv, TypeOK
    <2>3. SandboxInv'
        BY <1>17, <1>0, HostFacts DEF KillLeaf, Goes, SandboxInv, TypeOK
    <2>4. FailureInv'
        BY <1>17, <1>0, HostFacts DEF KillLeaf, Goes, FailureInv, SandboxInv, LeafInv, TypeOK,
            Launching
    <2>5. QuietInv'
        BY <1>17, <1>0, HostFacts DEF KillLeaf, Goes, QuietInv, TypeOK
    <2>6. LeafInv'
        BY <1>17, <1>0, HostFacts DEF KillLeaf, Goes, LeafInv, TypeOK, Launching, Warms,
            NothingLeft
    <2>7. TemplateInv'
        BY <1>17, <1>0, HostFacts DEF KillLeaf, Goes, TemplateInv, TypeOK, Warms
    <2>8. RecognisedIsRecovered'
        BY <1>17, <1>0, HostFacts DEF KillLeaf, Goes, RecognisedIsRecovered, FailureInv, TypeOK
    <2>9. NothingLeft'
        BY <1>17, <1>0, HostFacts DEF KillLeaf, Goes, NothingLeft, QuietInv, LeafInv, TypeOK,
            TemplateInv, Warms
    <2>10. CapCovered'
        BY <1>17, <1>0, HostFacts DEF KillLeaf, Goes, CapCovered, LeafInv, Launching, TypeOK
    <2> QED BY <2>1, <2>2, <2>3, <2>4, <2>5, <2>6, <2>7, <2>8, <2>9, <2>10
<1>18. ASSUME NEW l \in Launches, Closed(l) PROVE FactoryInv'
    <2>1. TypeOK'
        BY <1>18, <1>0, HostFacts DEF Closed, Goes, Termed, TypeOK, Launching, Ending, Over
    <2>2. SandboxKept'
        BY <1>18, <1>0, HostFacts, <2>1 DEF Closed, Goes, Termed, SandboxInv, TypeOK
    <2>3. SandboxInv'
        BY <1>18, <1>0, HostFacts DEF Closed, Goes, Termed, SandboxInv, TypeOK
    <2>4. FailureInv'
        BY <1>18, <1>0, HostFacts DEF Closed, Goes, Termed, FailureInv, SandboxInv, LeafInv,
            TypeOK, Launching
    <2>5. QuietInv'
        BY <1>18, <1>0, HostFacts DEF Closed, Goes, Termed, QuietInv, TypeOK
    <2>6. LeafInv'
        BY <1>18, <1>0, HostFacts DEF Closed, Goes, Termed, LeafInv, TypeOK, Launching, Warms,
            NothingLeft
    <2>7. TemplateInv'
        BY <1>18, <1>0, HostFacts DEF Closed, Goes, Termed, TemplateInv, TypeOK, Warms
    <2>8. RecognisedIsRecovered'
        BY <1>18, <1>0, HostFacts DEF Closed, Goes, Termed, RecognisedIsRecovered, FailureInv,
            TypeOK
    <2>9. NothingLeft'
        BY <1>18, <1>0, HostFacts DEF Closed, Goes, Termed, NothingLeft, QuietInv, LeafInv,
            TypeOK, TemplateInv, Warms
    <2>10. CapCovered'
        BY <1>18, <1>0, HostFacts DEF Closed, Goes, Termed, CapCovered, LeafInv, Launching,
            TypeOK
    <2> QED BY <2>1, <2>2, <2>3, <2>4, <2>5, <2>6, <2>7, <2>8, <2>9, <2>10
<1>19. ASSUME NEW l \in Launches, Term(l) PROVE FactoryInv'
    <2>1. TypeOK'
        BY <1>19, <1>0, HostFacts DEF Term, Goes, Termed, TypeOK, Launching, Ending, Over
    <2>2. SandboxKept'
        BY <1>19, <1>0, HostFacts, <2>1 DEF Term, Goes, Termed, SandboxInv, TypeOK
    <2>3. SandboxInv'
        BY <1>19, <1>0, HostFacts DEF Term, Goes, Termed, SandboxInv, TypeOK
    <2>4. FailureInv'
        BY <1>19, <1>0, HostFacts DEF Term, Goes, Termed, FailureInv, SandboxInv, LeafInv,
            TypeOK, Launching
    <2>5. QuietInv'
        BY <1>19, <1>0, HostFacts DEF Term, Goes, Termed, QuietInv, TypeOK
    <2>6. LeafInv'
        BY <1>19, <1>0, HostFacts DEF Term, Goes, Termed, LeafInv, TypeOK, Launching, Warms,
            NothingLeft
    <2>7. TemplateInv'
        BY <1>19, <1>0, HostFacts DEF Term, Goes, Termed, TemplateInv, TypeOK, Warms
    <2>8. RecognisedIsRecovered'
        BY <1>19, <1>0, HostFacts DEF Term, Goes, Termed, RecognisedIsRecovered, FailureInv,
            TypeOK
    <2>9. NothingLeft'
        BY <1>19, <1>0, HostFacts DEF Term, Goes, Termed, NothingLeft, QuietInv, LeafInv,
            TypeOK, TemplateInv, Warms
    <2>10. CapCovered'
        BY <1>19, <1>0, HostFacts DEF Term, Goes, Termed, CapCovered, LeafInv, Launching, TypeOK
    <2> QED BY <2>1, <2>2, <2>3, <2>4, <2>5, <2>6, <2>7, <2>8, <2>9, <2>10
<1>20. ASSUME NEW l \in Launches, TermReaped(l) PROVE FactoryInv'
    <2>1. TypeOK'
        BY <1>20, <1>0, HostFacts DEF TermReaped, Goes, TypeOK, Launching, Ending, Over
    <2>2. SandboxKept'
        BY <1>20, <1>0, HostFacts, <2>1 DEF TermReaped, Goes, SandboxInv, TypeOK
    <2>3. SandboxInv'
        BY <1>20, <1>0, HostFacts DEF TermReaped, Goes, SandboxInv, TypeOK
    <2>4. FailureInv'
        BY <1>20, <1>0, HostFacts DEF TermReaped, Goes, FailureInv, SandboxInv, LeafInv,
            TypeOK, Launching
    <2>5. QuietInv'
        BY <1>20, <1>0, HostFacts DEF TermReaped, Goes, QuietInv, TypeOK
    <2>6. LeafInv'
        BY <1>20, <1>0, HostFacts DEF TermReaped, Goes, LeafInv, TypeOK, Launching, Warms,
            NothingLeft
    <2>7. TemplateInv'
        BY <1>20, <1>0, HostFacts DEF TermReaped, Goes, TemplateInv, TypeOK, Warms
    <2>8. RecognisedIsRecovered'
        BY <1>20, <1>0, HostFacts DEF TermReaped, Goes, RecognisedIsRecovered, FailureInv,
            TypeOK
    <2>9. NothingLeft'
        BY <1>20, <1>0, HostFacts DEF TermReaped, Goes, NothingLeft, QuietInv, LeafInv, TypeOK,
            TemplateInv, Warms
    <2>10. CapCovered'
        BY <1>20, <1>0, HostFacts DEF TermReaped, Goes, CapCovered, LeafInv, Launching, TypeOK
    <2> QED BY <2>1, <2>2, <2>3, <2>4, <2>5, <2>6, <2>7, <2>8, <2>9, <2>10
<1>21. ASSUME NEW l \in Launches, Kill(l) PROVE FactoryInv'
    <2>1. TypeOK'
        BY <1>21, <1>0, HostFacts DEF Kill, Goes, TypeOK, Launching, Ending, Over
    <2>2. SandboxKept'
        BY <1>21, <1>0, HostFacts, <2>1 DEF Kill, Goes, SandboxInv, TypeOK
    <2>3. SandboxInv'
        BY <1>21, <1>0, HostFacts DEF Kill, Goes, SandboxInv, TypeOK
    <2>4. FailureInv'
        BY <1>21, <1>0, HostFacts DEF Kill, Goes, FailureInv, SandboxInv, LeafInv, TypeOK,
            Launching
    <2>5. QuietInv'
        BY <1>21, <1>0, HostFacts DEF Kill, Goes, QuietInv, TypeOK
    <2>6. LeafInv'
        BY <1>21, <1>0, HostFacts DEF Kill, Goes, LeafInv, TypeOK, Launching, Warms, NothingLeft
    <2>7. TemplateInv'
        BY <1>21, <1>0, HostFacts DEF Kill, Goes, TemplateInv, TypeOK, Warms
    <2>8. RecognisedIsRecovered'
        BY <1>21, <1>0, HostFacts DEF Kill, Goes, RecognisedIsRecovered, FailureInv, TypeOK
    <2>9. NothingLeft'
        BY <1>21, <1>0, HostFacts DEF Kill, Goes, NothingLeft, QuietInv, LeafInv, TypeOK,
            TemplateInv, Warms
    <2>10. CapCovered'
        BY <1>21, <1>0, HostFacts DEF Kill, Goes, CapCovered, LeafInv, Launching, TypeOK
    <2> QED BY <2>1, <2>2, <2>3, <2>4, <2>5, <2>6, <2>7, <2>8, <2>9, <2>10
<1>22. ASSUME NEW l \in Launches, Seal(l) PROVE FactoryInv'
    <2>1. TypeOK'
        BY <1>22, <1>0, HostFacts DEF Seal, TypeOK, Launching, Ending, Over
    <2>2. SandboxKept'
        BY <1>22, <1>0, HostFacts, <2>1 DEF Seal, SandboxInv, TypeOK
    <2>3. SandboxInv'
        BY <1>22, <1>0, HostFacts DEF Seal, SandboxInv, TypeOK
    <2>4. FailureInv'
        BY <1>22, <1>0, HostFacts DEF Seal, FailureInv, SandboxInv, LeafInv, TypeOK, Launching
    <2>5. QuietInv'
        BY <1>22, <1>0, HostFacts DEF Seal, QuietInv, TypeOK
    <2>6. LeafInv'
        BY <1>22, <1>0, HostFacts DEF Seal, LeafInv, TypeOK, Launching, Warms, NothingLeft
    <2>7. TemplateInv'
        BY <1>22, <1>0, HostFacts DEF Seal, TemplateInv, TypeOK, Warms
    <2>8. RecognisedIsRecovered'
        BY <1>22, <1>0, HostFacts DEF Seal, RecognisedIsRecovered, FailureInv, TypeOK
    <2>9. NothingLeft'
        BY <1>22, <1>0, HostFacts DEF Seal, NothingLeft, QuietInv, LeafInv, TypeOK,
            TemplateInv, Warms
    <2>10. CapCovered'
        BY <1>22, <1>0, HostFacts DEF Seal, CapCovered, LeafInv, Launching, TypeOK
    <2> QED BY <2>1, <2>2, <2>3, <2>4, <2>5, <2>6, <2>7, <2>8, <2>9, <2>10
<1>23. ASSUME NEW l \in Launches, RemoveDir(l) PROVE FactoryInv'
    <2>1. TypeOK'
        BY <1>23, <1>0, HostFacts DEF RemoveDir, Goes, TypeOK, Launching, Ending, Over
    <2>2. SandboxKept'
        BY <1>23, <1>0, HostFacts, <2>1 DEF RemoveDir, Goes, SandboxInv, TypeOK
    <2>3. SandboxInv'
        BY <1>23, <1>0, HostFacts DEF RemoveDir, Goes, SandboxInv, TypeOK
    <2>4. FailureInv'
        BY <1>23, <1>0, HostFacts DEF RemoveDir, Goes, FailureInv, SandboxInv, LeafInv, TypeOK,
            Launching
    <2>5. QuietInv'
        BY <1>23, <1>0, HostFacts DEF RemoveDir, Goes, QuietInv, TypeOK
    <2>6. LeafInv'
        BY <1>23, <1>0, HostFacts DEF RemoveDir, Goes, LeafInv, TypeOK, Launching, Warms,
            NothingLeft
    <2>7. TemplateInv'
        BY <1>23, <1>0, HostFacts DEF RemoveDir, Goes, TemplateInv, TypeOK, Warms
    <2>8. RecognisedIsRecovered'
        BY <1>23, <1>0, HostFacts DEF RemoveDir, Goes, RecognisedIsRecovered, FailureInv, TypeOK
    <2>9. NothingLeft'
        BY <1>23, <1>0, HostFacts DEF RemoveDir, Goes, NothingLeft, QuietInv, LeafInv, TypeOK,
            TemplateInv, Warms
    <2>10. CapCovered'
        BY <1>23, <1>0, HostFacts DEF RemoveDir, Goes, CapCovered, LeafInv, Launching, TypeOK
    <2> QED BY <2>1, <2>2, <2>3, <2>4, <2>5, <2>6, <2>7, <2>8, <2>9, <2>10
<1>24. ASSUME NEW l \in Launches, Forks(l) PROVE FactoryInv'
    <2>1. TypeOK'
        BY <1>24, <1>0, HostFacts DEF Forks, TypeOK, Launching, Ending, Over
    <2>2. SandboxKept'
        BY <1>24, <1>0, HostFacts, <2>1 DEF Forks, SandboxInv, TypeOK
    <2>3. SandboxInv'
        BY <1>24, <1>0, HostFacts DEF Forks, SandboxInv, TypeOK
    <2>4. FailureInv'
        BY <1>24, <1>0, HostFacts DEF Forks, FailureInv, SandboxInv, LeafInv, TypeOK, Launching
    <2>5. QuietInv'
        BY <1>24, <1>0, HostFacts DEF Forks, QuietInv, TypeOK
    <2>6. LeafInv'
        BY <1>24, <1>0, HostFacts DEF Forks, LeafInv, TypeOK, Launching, Warms, NothingLeft
    <2>7. TemplateInv'
        BY <1>24, <1>0, HostFacts DEF Forks, TemplateInv, TypeOK, Warms
    <2>8. RecognisedIsRecovered'
        BY <1>24, <1>0, HostFacts DEF Forks, RecognisedIsRecovered, FailureInv, TypeOK
    <2>9. NothingLeft'
        BY <1>24, <1>0, HostFacts DEF Forks, NothingLeft, QuietInv, LeafInv, TypeOK,
            TemplateInv, Warms
    <2>10. CapCovered'
        BY <1>24, <1>0, HostFacts DEF Forks, CapCovered, LeafInv, Launching, TypeOK
    <2> QED BY <2>1, <2>2, <2>3, <2>4, <2>5, <2>6, <2>7, <2>8, <2>9, <2>10
<1>25. ASSUME NEW l \in Launches, LeaderExits(l) PROVE FactoryInv'
    <2>1. TypeOK'
        BY <1>25, <1>0, HostFacts DEF LeaderExits, TypeOK, Launching, Ending, Over
    <2>2. SandboxKept'
        BY <1>25, <1>0, HostFacts, <2>1 DEF LeaderExits, SandboxInv, TypeOK
    <2>3. SandboxInv'
        BY <1>25, <1>0, HostFacts DEF LeaderExits, SandboxInv, TypeOK
    <2>4. FailureInv'
        BY <1>25, <1>0, HostFacts DEF LeaderExits, FailureInv, SandboxInv, LeafInv, TypeOK,
            Launching
    <2>5. QuietInv'
        BY <1>25, <1>0, HostFacts DEF LeaderExits, QuietInv, TypeOK
    <2>6. LeafInv'
        BY <1>25, <1>0, HostFacts DEF LeaderExits, LeafInv, TypeOK, Launching, Warms,
            NothingLeft
    <2>7. TemplateInv'
        BY <1>25, <1>0, HostFacts DEF LeaderExits, TemplateInv, TypeOK, Warms
    <2>8. RecognisedIsRecovered'
        BY <1>25, <1>0, HostFacts DEF LeaderExits, RecognisedIsRecovered, FailureInv, TypeOK
    <2>9. NothingLeft'
        BY <1>25, <1>0, HostFacts DEF LeaderExits, NothingLeft, QuietInv, LeafInv, TypeOK,
            TemplateInv, Warms
    <2>10. CapCovered'
        BY <1>25, <1>0, HostFacts DEF LeaderExits, CapCovered, LeafInv, Launching, TypeOK
    <2> QED BY <2>1, <2>2, <2>3, <2>4, <2>5, <2>6, <2>7, <2>8, <2>9, <2>10
<1>26. ASSUME NEW l \in Launches, KidsExit(l) PROVE FactoryInv'
    <2>1. TypeOK'
        BY <1>26, <1>0, HostFacts DEF KidsExit, TypeOK, Launching, Ending, Over
    <2>2. SandboxKept'
        BY <1>26, <1>0, HostFacts, <2>1 DEF KidsExit, SandboxInv, TypeOK
    <2>3. SandboxInv'
        BY <1>26, <1>0, HostFacts DEF KidsExit, SandboxInv, TypeOK
    <2>4. FailureInv'
        BY <1>26, <1>0, HostFacts DEF KidsExit, FailureInv, SandboxInv, LeafInv, TypeOK,
            Launching
    <2>5. QuietInv'
        BY <1>26, <1>0, HostFacts DEF KidsExit, QuietInv, TypeOK
    <2>6. LeafInv'
        BY <1>26, <1>0, HostFacts DEF KidsExit, LeafInv, TypeOK, Launching, Warms, NothingLeft
    <2>7. TemplateInv'
        BY <1>26, <1>0, HostFacts DEF KidsExit, TemplateInv, TypeOK, Warms
    <2>8. RecognisedIsRecovered'
        BY <1>26, <1>0, HostFacts DEF KidsExit, RecognisedIsRecovered, FailureInv, TypeOK
    <2>9. NothingLeft'
        BY <1>26, <1>0, HostFacts DEF KidsExit, NothingLeft, QuietInv, LeafInv, TypeOK,
            TemplateInv, Warms
    <2>10. CapCovered'
        BY <1>26, <1>0, HostFacts DEF KidsExit, CapCovered, LeafInv, Launching, TypeOK
    <2> QED BY <2>1, <2>2, <2>3, <2>4, <2>5, <2>6, <2>7, <2>8, <2>9, <2>10
<1>27. ASSUME NEW l \in Launches, SoftCapEnds(l) PROVE FactoryInv'
    <2>1. TypeOK'
        <3>1. CASE leader[l] = "up"
            <4>1. /\ leader' = [leader EXCEPT ![l] = "exited"] /\ kids' = [kids EXCEPT ![l] = FALSE]
                  /\ watched' = [watched EXCEPT ![l] = FALSE]
                  /\ UNCHANGED <<host, flags, step, local, dir, leaves, template>>
                BY <3>1, <1>27 DEF SoftCapEnds
            <4>2. \A k \in Launches : leader'[k] = "none" => ~kids'[k] /\ ~watched'[k]
                BY <4>1, <1>0 DEF TypeOK
            <4> QED BY <4>1, <4>2, <1>0 DEF TypeOK
        <3>2. CASE leader[l] # "up"
            BY <3>2, <1>27, <1>0, HostFacts DEF SoftCapEnds, TypeOK, Launching, Ending, Over
        <3> QED BY <3>1, <3>2, <1>27, <1>0, HostFacts DEF SoftCapEnds, TypeOK
    <2>2. SandboxKept'
        BY <1>27, <1>0, HostFacts, <2>1 DEF SoftCapEnds, SandboxInv, TypeOK
    <2>3. SandboxInv'
        BY <1>27, <1>0, HostFacts DEF SoftCapEnds, SandboxInv, TypeOK
    <2>4. FailureInv'
        BY <1>27, <1>0, HostFacts DEF SoftCapEnds, FailureInv, SandboxInv, LeafInv, TypeOK,
            Launching
    <2>5. QuietInv'
        BY <1>27, <1>0, HostFacts DEF SoftCapEnds, QuietInv, TypeOK
    <2>6. LeafInv'
        BY <1>27, <1>0, HostFacts DEF SoftCapEnds, LeafInv, TypeOK, Launching, Warms,
            NothingLeft
    <2>7. TemplateInv'
        BY <1>27, <1>0, HostFacts DEF SoftCapEnds, TemplateInv, TypeOK, Warms
    <2>8. RecognisedIsRecovered'
        BY <1>27, <1>0, HostFacts DEF SoftCapEnds, RecognisedIsRecovered, FailureInv, TypeOK
    <2>9. NothingLeft'
        BY <1>27, <1>0, HostFacts DEF SoftCapEnds, NothingLeft, QuietInv, LeafInv, TypeOK,
            TemplateInv, Warms
    <2>10. CapCovered'
        BY <1>27, <1>0, HostFacts DEF SoftCapEnds, CapCovered, LeafInv, Launching, TypeOK
    <2> QED BY <2>1, <2>2, <2>3, <2>4, <2>5, <2>6, <2>7, <2>8, <2>9, <2>10
<1>28. CASE UNCHANGED vars
    BY <1>28 DEF vars, TypeOK, SandboxInv, FailureInv, QuietInv, LeafInv, TemplateInv, Warms,
        RecognisedIsRecovered, NothingLeft, CapCovered
<1> QED BY <1>1, <1>2, <1>3, <1>4, <1>5, <1>6, <1>7, <1>8, <1>9, <1>10, <1>11, <1>12, <1>13,
    <1>14, <1>15, <1>16, <1>17, <1>18, <1>19, <1>20, <1>21, <1>22, <1>23, <1>24, <1>25, <1>26,
    <1>27, <1>28 DEF Next, Launch, Destroy, Judge

(* The inductive invariant holds always: whatever the other launches find   *)
(* out about the sandbox and about leaves between the two reads of a flag,  *)
(* and wherever a launch is dropped.                                        *)
THEOREM FactoryInvariant == Spec => []FactoryInv
BY FactoryInit, FactoryStep, PTL DEF Spec

(* Under requireSandbox no browser process ever runs with the sandbox off,  *)
(* and elsewhere the sandbox is off for a reason sandbox_state reports.     *)
THEOREM SandboxIsKept == Spec => []SandboxKept
<1>1. FactoryInv => SandboxKept
    BY DEF FactoryInv
<1> QED BY <1>1, FactoryInvariant, PTL

(* No launch fails for a blocked sandbox or a refused leaf it recognised,   *)
(* except as requireSandbox asks: each launch that finds one out still has  *)
(* its second attempt, also when another has set the flag before it.        *)
THEOREM RecoversWhatItRecognises == Spec => []RecognisedIsRecovered
<1>1. FactoryInv => RecognisedIsRecovered
    BY DEF FactoryInv
<1> QED BY <1>1, FactoryInvariant, PTL

(* A failed launch leaves no process, leaf or directory, and a destroyed    *)
(* session leaves no direct child, and nothing at all where it was born in  *)
(* a leaf of a kernel that has cgroup.kill.                                 *)
THEOREM LeavesNothing == Spec => []NothingLeft
<1>1. FactoryInv => NothingLeft
    BY DEF FactoryInv
<1> QED BY <1>1, FactoryInvariant, PTL

(* A session served under a memory cap has the leaf's limit or a monitor    *)
(* for as long as its browser runs, also after the fall-back that drops the *)
(* leaf; only a leaf whose limit could not be written has neither.          *)
THEOREM CapIsCovered == Spec => []CapCovered
<1>1. FactoryInv => CapCovered
    BY DEF FactoryInv
<1> QED BY <1>1, FactoryInvariant, PTL
=============================================================================
