---------------------------- MODULE ServerProofs ----------------------------
(***************************************************************************)
(* Proofs about Server for any number of requests and restarts, whatever   *)
(* file and environment the process is started with, and about the         *)
(* calibration that it runs at boot, for any host, browsers and RAMP_CAP.  *)
(***************************************************************************)
EXTENDS Server, Calibrate, FiniteSetTheorems, SequenceTheorems, WellFoundedInduction, TLAPS

(* The settings that the invariant speaks of all have defaults. *)
LEMMA DefaultFacts ==
    /\ {"single_use", "calibrate", "require_sandbox", "no_sandbox", "max_sessions"}
          \subseteq DOMAIN Default
    /\ Default["single_use"] = FALSE /\ Default["calibrate"] = TRUE
    /\ Default["require_sandbox"] = FALSE /\ Default["max_sessions"] = Unset
<1> DEFINE rest == Over(PressureConfig, Over(ProxyConfig,
                        Over(ChromeConfig, [drain_timeout_ms |-> 30 * 1000])))
<1>1. {"require_sandbox", "no_sandbox"} \subseteq DOMAIN rest /\ rest["require_sandbox"] = FALSE
    BY DEF Over, PressureConfig, ProxyConfig, ChromeConfig
<1> HIDE DEF rest
<1> DEFINE session == Over(SessionConfig, rest)
<1>2. /\ {"require_sandbox", "no_sandbox", "single_use"} \subseteq DOMAIN session
      /\ session["require_sandbox"] = FALSE /\ session["single_use"] = FALSE
    BY <1>1 DEF Over, SessionConfig
<1> HIDE DEF session
<1>3. Default = Over(PoolConfig, session)
    BY DEF Default, session, rest
<1> QED BY <1>2, <1>3 DEF Over, PoolConfig

(* What load makes of a file and an environment: a switch is on or off, one *)
(* use has one slot and no calibration, and a ceiling that is accepted is   *)
(* positive or not set.                                                     *)
LEMMA LoadedFacts ==
    ASSUME NEW s \in Setups, NEW c, c = Loaded(s.file, s.env)
    PROVE  /\ c["single_use"] \in BOOLEAN /\ c["calibrate"] \in BOOLEAN
           /\ c["require_sandbox"] \in BOOLEAN
           /\ c["single_use"] => c["max_sessions"] = 1 /\ ~c["calibrate"]
           /\ load(s.file, s.env) =>
                 /\ c["max_sessions"] \in (Nat \ {0}) \cup {Unset}
                 /\ ~(c["require_sandbox"] /\ c["no_sandbox"])
           /\ {"single_use", "calibrate", "require_sandbox", "no_sandbox", "max_sessions"}
                 \subseteq DOMAIN c
<1> DEFINE keys == {"single_use", "calibrate", "require_sandbox", "no_sandbox", "max_sessions"}
<1>1. PICK file, env : file = s.file /\ env = s.env
    OBVIOUS
<1>2. /\ \A k \in Switches \cap DOMAIN file : file[k] \in BOOLEAN
      /\ "max_sessions" \in DOMAIN file => file["max_sessions"] \in Nat \cup {Unset}
      /\ "max_sessions" \in DOMAIN env => env["max_sessions"] \in Nat \cup {Junk}
    BY <1>1, SetupsAssumption
<1>3. PICK base : base = Over(file, Default)
    OBVIOUS
<1>4. /\ keys \subseteq DOMAIN base
      /\ base["single_use"] \in BOOLEAN /\ base["calibrate"] \in BOOLEAN
      /\ base["require_sandbox"] \in BOOLEAN
      /\ base["max_sessions"] \in Nat \cup {Unset}
    BY <1>2, <1>3, DefaultFacts DEF Over, Switches
<1>5. PICK o : o = Overridden(base, env)
    OBVIOUS
<1>6. /\ keys \subseteq DOMAIN o
      /\ o["single_use"] \in BOOLEAN /\ o["calibrate"] \in BOOLEAN
      /\ o["require_sandbox"] \in BOOLEAN
      /\ EnvParses(env) => o["max_sessions"] \in Nat \cup {Unset}
    <2>1. DOMAIN o = DOMAIN base
        BY <1>5 DEF Overridden
    <2>2. \A k \in DOMAIN base :
             o[k] = IF k \notin DOMAIN env THEN base[k]
                    ELSE IF k \in Switches THEN is_truthy(env[k]) ELSE env[k]
        BY <1>5 DEF Overridden
    <2>3. \A k \in Switches \cap keys : base[k] \in BOOLEAN => o[k] \in BOOLEAN
        <3> SUFFICES ASSUME NEW k \in Switches \cap keys, base[k] \in BOOLEAN
                     PROVE  o[k] \in BOOLEAN
            OBVIOUS
        <3>1. o[k] = IF k \notin DOMAIN env THEN base[k] ELSE is_truthy(env[k])
            BY <1>4, <2>2
        <3>2. is_truthy(env[k]) \in BOOLEAN
            BY DEF is_truthy
        <3> QED BY <3>1, <3>2
    <2>4. /\ o["single_use"] \in BOOLEAN /\ o["calibrate"] \in BOOLEAN
          /\ o["require_sandbox"] \in BOOLEAN
        BY <1>4, <2>3 DEF Switches
    <2>5. o["max_sessions"] = IF "max_sessions" \notin DOMAIN env THEN base["max_sessions"]
                              ELSE env["max_sessions"]
        BY <1>4, <2>2 DEF Switches
    <2>6. EnvParses(env) /\ "max_sessions" \in DOMAIN env => env["max_sessions"] # Junk
        <3>1. "max_sessions" \in Numbers
            BY DEF Numbers
        <3> QED BY <3>1 DEF EnvParses
    <2> QED BY <1>2, <1>4, <2>1, <2>4, <2>5, <2>6
<1>7. c = apply_switches(o)
    BY <1>1, <1>3, <1>5 DEF Loaded
<1>8. load(s.file, s.env) =>
         EnvParses(env) /\ c["max_sessions"] # 0 /\ ~(c["require_sandbox"] /\ c["no_sandbox"])
    BY <1>1 DEF load, validate
<1>9. CASE o["single_use"]
    <2>1. c = [o EXCEPT !["max_sessions"] = 1, !["calibrate"] = FALSE]
        BY <1>7, <1>9 DEF apply_switches
    <2>2. /\ c["max_sessions"] = 1 /\ c["calibrate"] = FALSE /\ c["single_use"] = o["single_use"]
          /\ c["require_sandbox"] = o["require_sandbox"] /\ DOMAIN c = DOMAIN o
        BY <1>6, <2>1
    <2>3. c["max_sessions"] \in (Nat \ {0}) \cup {Unset}
        BY <2>2
    <2>4. c["single_use"] \in BOOLEAN /\ c["calibrate"] \in BOOLEAN /\ c["require_sandbox"] \in BOOLEAN
        BY <1>6, <2>2
    <2>5. keys \subseteq DOMAIN c
        BY <1>6, <2>2
    <2> QED BY <1>8, <2>2, <2>3, <2>4, <2>5
<1>10. CASE ~o["single_use"]
    <2>1. c = o
        BY <1>7, <1>10 DEF apply_switches
    <2> QED BY <1>6, <1>8, <1>10, <2>1
<1> QED BY <1>6, <1>9, <1>10

\* The types, one by one.
Stages == Connected \cup WithBrowser \cup Ended \cup {"idle"}
Phases == {"off", "failed", "sweeping", "serving", "closing", "draining", "aborting",
           "lastSweep", "exit"}

Types ==
    /\ run \in 1..MaxRuns /\ phase \in Phases
    /\ dirs \subseteq (1..MaxRuns) \X Owners /\ toSweep \subseteq (1..MaxRuns) \X Owners
    /\ unswept \subseteq (1..MaxRuns) \X Owners
    /\ calibrating \in BOOLEAN /\ spent \in BOOLEAN /\ finished \in BOOLEAN
    /\ closed \in BOOLEAN /\ blocked \in BOOLEAN /\ cancelled \in BOOLEAN
    /\ max \in Nat \ {0} /\ lost \in Nat /\ calibration \in {"none", "measuring", "sized"}
    /\ warm \in {"none", "launching", "ready", "destroying"}
    /\ at \in [Requests -> Stages] /\ kind \in [Requests -> Kinds]
    /\ phase \notin {"off", "failed"} =>
          /\ config.max_sessions # 0 /\ ~(config.require_sandbox /\ config.no_sandbox)
          /\ config.single_use => max = 1 /\ ~calibrating

(* TypeOK, with its sets taken apart. *)
LEMMA TypeParts == (TypeOK <=> Types) /\ (TypeOK' <=> Types')
<1>1. UNION {dirs, toSweep, unswept} \subseteq (1..MaxRuns) \X Owners <=>
        /\ dirs \subseteq (1..MaxRuns) \X Owners /\ toSweep \subseteq (1..MaxRuns) \X Owners
        /\ unswept \subseteq (1..MaxRuns) \X Owners
    BY Zenon
<1>2. {calibrating, spent, finished, closed, blocked, cancelled} \subseteq BOOLEAN <=>
        /\ calibrating \in BOOLEAN /\ spent \in BOOLEAN /\ finished \in BOOLEAN
        /\ closed \in BOOLEAN /\ blocked \in BOOLEAN /\ cancelled \in BOOLEAN
    BY Zenon
<1>3. TypeOK <=> Types
    BY <1>1, <1>2, Zenon DEF TypeOK, Types, Stages, Phases
<1>4. UNION {dirs', toSweep', unswept'} \subseteq (1..MaxRuns) \X Owners <=>
        /\ dirs' \subseteq (1..MaxRuns) \X Owners /\ toSweep' \subseteq (1..MaxRuns) \X Owners
        /\ unswept' \subseteq (1..MaxRuns) \X Owners
    BY Zenon
<1>5. {calibrating', spent', finished', closed', blocked', cancelled'} \subseteq BOOLEAN <=>
        /\ calibrating' \in BOOLEAN /\ spent' \in BOOLEAN /\ finished' \in BOOLEAN
        /\ closed' \in BOOLEAN /\ blocked' \in BOOLEAN /\ cancelled' \in BOOLEAN
    BY Zenon
<1>6. TypeOK' <=> Types'
    BY <1>4, <1>5, Zenon DEF TypeOK, Types, Stages, Phases
<1> QED BY <1>3, <1>6

(* The slots taken are counted by a number. *)
LEMMA RunningIsNat ==
    ASSUME TypeOK
    PROVE  /\ IsFiniteSet({q \in Requests : Held(q)}) /\ Running \in Nat
           /\ Running = lost + Cardinality({q \in Requests : Held(q)})
           /\ Cardinality({q \in Requests : Held(q)}) \in Nat
<1>1. IsFiniteSet({q \in Requests : Held(q)})
    BY ServerAssumption, FS_Subset
<1>2. Cardinality({q \in Requests : Held(q)}) \in Nat /\ lost \in Nat
    BY <1>1, FS_CardinalityType, TypeParts DEF Types
<1> QED BY <1>1, <1>2 DEF Running

(* Nothing is taken while no request is past its check and nothing is lost. *)
LEMMA RunningIsNone ==
    ASSUME lost = 0, \A r \in Requests : at[r] \notin Taken \cup {"checked"}
    PROVE  Running = 0
<1>1. {q \in Requests : Held(q)} = {}
    BY DEF Held, Holding, Taken, WithBrowser
<1> QED BY <1>1, FS_EmptySet DEF Running

(* The process has not started, on whatever settings. *)
LEMMA ServerInit == Init => ServerInv
<1> SUFFICES ASSUME Init PROVE ServerInv
    OBVIOUS
<1>1. PICK s \in Setups :
          config = Over([valid |-> load(s.file, s.env), token |-> "token" \in DOMAIN s.env],
                        Loaded(s.file, s.env))
    BY DEF Init
<1>2. PICK c : c = Loaded(s.file, s.env)
    OBVIOUS
<1>3. /\ config["valid"] = load(s.file, s.env)
      /\ config["single_use"] = c["single_use"] /\ config["calibrate"] = c["calibrate"]
      /\ config["require_sandbox"] = c["require_sandbox"]
      /\ config["no_sandbox"] = c["no_sandbox"] /\ config["max_sessions"] = c["max_sessions"]
    BY <1>1, <1>2, LoadedFacts DEF Over
<1>4. ConfigInv
    BY <1>2, <1>3, LoadedFacts DEF ConfigInv
<1>5. TypeOK
    BY TypeParts, ServerAssumption DEF Init, Fresh, Types, Stages, Phases, Kinds
<1>6. PhaseInv /\ UseInv /\ SweepInv /\ StaleGone
    BY DEF Init, Fresh, PhaseInv, UseInv, SweepInv, StaleGone, Taken, WithBrowser
<1>7. SizeInv
    BY DEF Init, Fresh, SizeInv, Taken, WithBrowser
<1>8. CeilingInForce
    <2>1. Running = 0
        BY RunningIsNone DEF Init, Fresh, Taken, WithBrowser
    <2> QED BY <2>1 DEF Init, Fresh, CeilingInForce
<1> QED BY <1>4, <1>5, <1>6, <1>7, <1>8 DEF ServerInv

(* A step of one request, of a task of its session or of its client: it may *)
(* not connect again, nor take the one use from another, nor get past the   *)
(* check during a calibration, nor a slot that is not free, and on disk it  *)
(* makes at most its own directory.                                         *)
RequestStep(r, reached) ==
    /\ at' = [at EXCEPT ![r] = reached] /\ reached \in Stages
    /\ reached \in Connected => at[r] \in Connected \/ phase = "serving"
    /\ reached \in Taken => at[r] \in Taken \/ (config.single_use => ~spent /\ spent')
    /\ reached \in Taken \cup {"checked"} =>
          at[r] \in Taken \cup {"checked"} \/ (~calibrating /\ phase = "serving")
    /\ reached \in Holding /\ kind'[r] # "profile" => Held(r) \/ Running < max
    /\ lost' = lost \/ (lost' = lost + 1 /\ Held(r) /\ reached \notin Holding)
    /\ \A q \in Requests \ {r} : kind'[q] = kind[q]
    /\ dirs' \subseteq dirs \cup {Dir(r)}
    /\ spent => spent'
    /\ spent' \in BOOLEAN /\ finished' \in BOOLEAN /\ blocked' \in BOOLEAN
    /\ lost' \in Nat /\ warm' \in {"none", "launching", "ready", "destroying"}
    /\ kind' \in [Requests -> Kinds]
    /\ UNCHANGED <<process, closed>>

(* A step that takes no slot takes none. *)
LEMMA RunningFalls ==
    ASSUME TypeOK, TypeOK', UNCHANGED <<lost, max>>, Running <= max,
           \A q \in Requests : Held(q)' => Held(q)
    PROVE  Running' <= max'
<1> DEFINE H == {q \in Requests : Held(q)}
<1>1. /\ IsFiniteSet(H) /\ Cardinality(H) \in Nat /\ Running = lost + Cardinality(H)
      /\ lost \in Nat /\ max \in Nat
    BY RunningIsNat, TypeParts DEF Types
<1>2. H' \subseteq H
    OBVIOUS
<1>3. IsFiniteSet(H') /\ Cardinality(H') <= Cardinality(H) /\ Cardinality(H') \in Nat
    BY <1>1, <1>2, FS_Subset, FS_CardinalityType
<1>4. Running' = lost' + Cardinality(H')
    BY DEF Running
<1> QED BY <1>1, <1>3, <1>4

(* Nor does a step of a request take one beyond the ceiling. *)
LEMMA RunningBounded ==
    ASSUME TypeOK, Running <= max, NEW r \in Requests, NEW reached, RequestStep(r, reached)
    PROVE  Running' <= max'
<1> DEFINE H == {q \in Requests : Held(q)}
<1>1. /\ IsFiniteSet(H) /\ Cardinality(H) \in Nat /\ Running = lost + Cardinality(H)
      /\ lost \in Nat /\ max \in Nat /\ Running \in Nat
    BY RunningIsNat, TypeParts DEF Types
<1>2. Running' = lost' + Cardinality(H') /\ max' = max
    BY DEF Running, RequestStep, process
<1>3. \A q \in Requests \ {r} : Held(q)' <=> Held(q)
    BY TypeParts DEF Types, RequestStep, Held
<1>4. Held(r)' <=> reached \in Holding /\ kind'[r] # "profile"
    BY TypeParts DEF Types, RequestStep, Held
<1>5. CASE Held(r)' /\ Held(r)
    <2>1. H' = H
        BY <1>3, <1>5
    <2>2. lost' = lost
        BY <1>4, <1>5 DEF RequestStep
    <2> QED BY <1>1, <1>2, <2>1, <2>2
<1>6. CASE Held(r)' /\ ~Held(r)
    <2>1. H' = H \cup {r} /\ r \notin H
        BY <1>3, <1>6
    <2>2. Cardinality(H') = Cardinality(H) + 1
        BY <1>1, <2>1, FS_AddElement
    <2>3. lost' = lost /\ Running < max
        BY <1>4, <1>6 DEF RequestStep
    <2> QED BY <1>1, <1>2, <2>2, <2>3
<1>7. CASE ~Held(r)' /\ Held(r)
    <2>1. H' = H \ {r} /\ r \in H
        BY <1>3, <1>7
    <2>2. Cardinality(H') = Cardinality(H) - 1
        BY <1>1, <2>1, FS_RemoveElement
    <2>3. lost' = lost \/ lost' = lost + 1
        BY DEF RequestStep
    <2> QED BY <1>1, <1>2, <2>2, <2>3
<1>8. CASE ~Held(r)' /\ ~Held(r)
    <2>1. H' = H
        BY <1>3, <1>8
    <2>2. lost' = lost
        BY <1>8 DEF RequestStep
    <2> QED BY <1>1, <1>2, <2>1, <2>2
<1> QED BY <1>5, <1>6, <1>7, <1>8

(* Such a step keeps the invariant. *)
LEMMA RequestKeeps ==
    ASSUME ServerInv, NEW r \in Requests, NEW reached, RequestStep(r, reached)
    PROVE  ServerInv'
<1> USE DEF ServerInv, RequestStep, process
<1>1. at \in [Requests -> Stages]
    BY TypeParts DEF Types
<1>2. at'[r] = reached /\ \A q \in Requests : q # r => at'[q] = at[q]
    BY <1>1
<1>3. Dir(r) \in (1..MaxRuns) \X Owners
    BY TypeParts DEF Types, Dir, Owners
<1>4. TypeOK'
    BY <1>1, <1>3, TypeParts DEF Types
<1>5. ConfigInv'
    BY DEF ConfigInv
<1>6. PhaseInv'
    BY <1>2 DEF PhaseInv
<1>7. UseInv'
    BY <1>2 DEF UseInv
<1>8. SweepInv'
    BY DEF SweepInv, Dir
<1>9. StaleGone'
    BY DEF StaleGone, Dir
<1>10. SizeInv'
    BY <1>2, TypeParts DEF SizeInv, Types, Held, Holding, Taken, WithBrowser
<1>11. CeilingInForce'
    <2>1. Running' <= max'
        BY RunningBounded DEF CeilingInForce
    <2> QED BY <2>1, <1>10 DEF CeilingInForce, SizeInv
<1> QED BY <1>4, <1>5, <1>6, <1>7, <1>8, <1>9, <1>10, <1>11

(* Every step that a request, its session or its client can take is one. *)
LEMMA RequestActs ==
    ASSUME ServerInv, NEW r \in Requests,
           Arrive(r) \/ Step(r) \/ ClientGone(r) \/ Uploaded(r) \/ SessionEnds(r)
    PROVE  \E reached : RequestStep(r, reached)
<1> USE DEF process, pool, Become
<1>0. /\ at \in [Requests -> Stages] /\ at[r] \in Stages /\ kind \in [Requests -> Kinds] /\ lost \in Nat
      /\ spent \in BOOLEAN /\ finished \in BOOLEAN /\ blocked \in BOOLEAN
      /\ warm \in {"none", "launching", "ready", "destroying"}
      /\ config.single_use \in BOOLEAN /\ config.require_sandbox \in BOOLEAN
    BY TypeParts DEF ServerInv, Types, ConfigInv
<1>1. CASE Arrive(r)
    <2>1. CASE at' = [at EXCEPT ![r] = "refused"]
        <3>1. /\ phase = "serving" /\ at[r] = "idle"
              /\ kind' \in [Requests -> Kinds] /\ \A q \in Requests \ {r} : kind'[q] = kind[q]
              /\ UNCHANGED <<process, pool, dirs, spent, finished>>
            BY <1>0, <1>1 DEF Arrive
        <3>2. RequestStep(r, "refused")
            BY <1>0, <2>1, <3>1 DEF RequestStep, Stages, Connected, Taken, WithBrowser, Ended, Holding
        <3> QED BY <3>2
    <2>2. CASE at' = [at EXCEPT ![r] = "uploading"]
        <3>1. RequestStep(r, "uploading")
            BY <1>0, <1>1, <2>2 DEF RequestStep, Arrive,
                Stages, Connected, Taken, WithBrowser, Ended, Held, Holding
        <3> QED BY <3>1
    <2>3. CASE at' = [at EXCEPT ![r] = "checked"]
        <3>1. ~calibrating
            <4>1. PICK k \in Kinds, c \in Credentials, exceeded \in Loads :
                     at' = [at EXCEPT ![r] =
                               IF ~request_authorized(c) THEN "refused"
                               ELSE IF k = "upload" THEN "uploading"
                               ELSE IF k = "proxied" /\ ~session_proxy_policy THEN "refused"
                               ELSE IF HostRefuses(exceeded) THEN "refused"
                               ELSE "checked"]
                BY <1>1 DEF Arrive
            <4>2. ~HostRefuses(exceeded)
                BY <1>0, <2>3, <4>1
            <4> QED BY <4>2 DEF HostRefuses
        <3>2. RequestStep(r, "checked")
            BY <1>0, <1>1, <2>3, <3>1 DEF RequestStep, Arrive,
                Stages, Connected, Taken, WithBrowser, Ended, Held, Holding
        <3> QED BY <3>2
    <2> QED BY <1>1, <2>1, <2>2, <2>3 DEF Arrive
<1>2. CASE Spend(r)
    <2>1. CASE at' = [at EXCEPT ![r] = "refused"]
        <3>1. RequestStep(r, "refused")
            BY <1>0, <1>2, <2>1 DEF RequestStep, Spend, SpendRefused,
                Stages, Connected, Taken, WithBrowser, Ended, Held, Holding
        <3> QED BY <3>1
    <2>2. CASE at' = [at EXCEPT ![r] = "relaying"]
        <3>1. RequestStep(r, "relaying")
            BY <1>0, <1>2, <2>2 DEF RequestStep, Spend, SpendRefused,
                Stages, Connected, Taken, WithBrowser, Ended, Held, Holding
        <3> QED BY <3>1
    <2>3. CASE at' = [at EXCEPT ![r] = "claiming"]
        <3>1. RequestStep(r, "claiming")
            BY <1>0, <1>2, <2>3 DEF RequestStep, Spend, SpendRefused,
                Stages, Connected, Taken, WithBrowser, Ended, Held, Holding
        <3> QED BY <3>1
    <2> QED BY <1>2, <2>1, <2>2, <2>3 DEF Spend, SpendRefused
<1>3. CASE StartRelay(r)
    <2>1. CASE at' = [at EXCEPT ![r] = "claiming"]
        <3>1. RequestStep(r, "claiming")
            BY <1>0, <1>3, <2>1 DEF RequestStep, StartRelay, DropGuard,
                Stages, Connected, Taken, WithBrowser, Ended, Held, Holding
        <3> QED BY <3>1
    <2>2. CASE at' = [at EXCEPT ![r] = "refused"]
        <3>1. RequestStep(r, "refused")
            BY <1>0, <1>3, <2>2 DEF RequestStep, StartRelay, DropGuard,
                Stages, Connected, Taken, WithBrowser, Ended, Held, Holding
        <3> QED BY <3>1
    <2> QED BY <1>3, <2>1, <2>2 DEF StartRelay, DropGuard
<1>4. CASE ClaimWarm(r)
    <2>1. CASE at' = [at EXCEPT ![r] = "answering"]
        <3>1. RequestStep(r, "answering")
            BY <1>0, <1>4, <2>1 DEF RequestStep, ClaimWarm, HasSlot, Launch,
                Stages, Connected, Taken, WithBrowser, Ended, Held, Holding
        <3> QED BY <3>1
    <2>2. CASE at' = [at EXCEPT ![r] = "launching"]
        <3>1. RequestStep(r, "launching")
            BY <1>0, <1>4, <2>2 DEF RequestStep, ClaimWarm, HasSlot, Launch,
                Stages, Connected, Taken, WithBrowser, Ended, Held, Holding
        <3> QED BY <3>1
    <2> QED BY <1>4, <2>1, <2>2 DEF ClaimWarm, Launch
<1>5. CASE ClaimLaunch(r)
    <2>1. RequestStep(r, "launching")
        BY <1>0, <1>5 DEF RequestStep, ClaimLaunch, HasSlot, Launch,
            Stages, Connected, Taken, WithBrowser, Ended, Held, Holding
    <2> QED BY <2>1
<1>6. CASE ClaimWaits(r)
    <2>1. RequestStep(r, "queued")
        BY <1>0, <1>6 DEF RequestStep, ClaimWaits,
            Stages, Connected, Taken, WithBrowser, Ended, Held, Holding
    <2> QED BY <2>1
<1>7. CASE ClaimFails(r)
    <2>1. RequestStep(r, "refused")
        BY <1>0, <1>7 DEF RequestStep, ClaimFails, DropGuard,
            Stages, Connected, Taken, WithBrowser, Ended, Held, Holding
    <2> QED BY <2>1
<1>8. CASE LeaveQueue(r)
    <2>1. CASE at' = [at EXCEPT ![r] = "launching"]
        <3>1. RequestStep(r, "launching")
            BY <1>0, <1>8, <2>1 DEF RequestStep, LeaveQueue, HasSlot, Launch, DropGuard,
                Stages, Connected, Taken, WithBrowser, Ended, Held, Holding
        <3> QED BY <3>1
    <2>2. CASE at' = [at EXCEPT ![r] = "refused"]
        <3>1. RequestStep(r, "refused")
            BY <1>0, <1>8, <2>2 DEF RequestStep, LeaveQueue, HasSlot, Launch, DropGuard,
                Stages, Connected, Taken, WithBrowser, Ended, Held, Holding
        <3> QED BY <3>1
    <2> QED BY <1>8, <2>1, <2>2 DEF LeaveQueue, Launch, DropGuard
<1>9. CASE Launched(r)
    <2>1. CASE at' = [at EXCEPT ![r] = "answering"]
        <3>1. RequestStep(r, "answering")
            BY <1>0, <1>9, <2>1 DEF RequestStep, Launched, DropGuard,
                Stages, Connected, Taken, WithBrowser, Ended, Held, Holding
        <3> QED BY <3>1
    <2>2. CASE at' = [at EXCEPT ![r] = "refused"]
        <3>1. RequestStep(r, "refused")
            BY <1>0, <1>9, <2>2 DEF RequestStep, Launched, DropGuard,
                Stages, Connected, Taken, WithBrowser, Ended, Held, Holding
        <3> QED BY <3>1
    <2> QED BY <1>9, <2>1, <2>2 DEF Launched, DropGuard
<1>10. CASE Switched(r)
    <2>1. RequestStep(r, "switching")
        BY <1>0, <1>10 DEF RequestStep, Switched,
            Stages, Connected, Taken, WithBrowser, Ended, Held, Holding
    <2> QED BY <2>1
<1>11. CASE track_future(r)
    <2>1. RequestStep(r, "serving")
        BY <1>0, <1>11 DEF RequestStep, track_future,
            Stages, Connected, Taken, WithBrowser, Ended, Held, Holding
    <2> QED BY <2>1
<1>12. CASE Destroyed(r)
    <2>1. RequestStep(r, "over")
        BY <1>0, <1>12 DEF RequestStep, Destroyed, DropGuard,
            Stages, Connected, Taken, WithBrowser, Ended, Held, Holding
    <2> QED BY <2>1
<1>13. CASE ClientGone(r)
    <2>1. CASE at' = [at EXCEPT ![r] = "over"]
        <3>1. /\ at[r] \in {"launching", "answering"}
              /\ finished' = (finished \/ config.single_use) /\ lost' \in Nat
              /\ lost' = lost \/ (lost' = lost + 1 /\ Held(r))
              /\ UNCHANGED <<process, closed, warm, blocked, dirs, spent, kind>>
            BY <1>0, <1>13, <2>1 DEF ClientGone, DropGuard, Held, Holding
        <3>2. RequestStep(r, "over")
            BY <1>0, <2>1, <3>1 DEF RequestStep, Stages, Connected, Taken, WithBrowser, Ended, Held, Holding
        <3> QED BY <3>2
    <2>2. CASE at' = [at EXCEPT ![r] = "dropping"]
        <3>1. RequestStep(r, "dropping")
            BY <1>0, <1>13, <2>2 DEF RequestStep, ClientGone, DropGuard,
                Stages, Connected, Taken, WithBrowser, Ended, Held, Holding
        <3> QED BY <3>1
    <2>3. CASE at' = [at EXCEPT ![r] = "refused"]
        <3>1. RequestStep(r, "refused")
            BY <1>0, <1>13, <2>3 DEF RequestStep, ClientGone, DropGuard,
                Stages, Connected, Taken, WithBrowser, Ended, Held, Holding
        <3> QED BY <3>1
    <2> QED BY <1>13, <2>1, <2>2, <2>3 DEF ClientGone, DropGuard
<1>14. CASE Uploaded(r)
    <2>1. RequestStep(r, "uploaded")
        BY <1>0, <1>14 DEF RequestStep, Uploaded,
            Stages, Connected, Taken, WithBrowser, Ended, Held, Holding
    <2> QED BY <2>1
<1>15. CASE SessionEnds(r)
    <2>1. RequestStep(r, "destroying")
        BY <1>0, <1>15 DEF RequestStep, SessionEnds,
            Stages, Connected, Taken, WithBrowser, Ended, Held, Holding
    <2> QED BY <2>1
<1> QED BY <1>1, <1>2, <1>3, <1>4, <1>5, <1>6, <1>7, <1>8, <1>9, <1>10, <1>11, <1>12, <1>13,
    <1>14, <1>15 DEF Step

(* Every step of the process itself keeps the invariant. *)
LEMMA ProcessKeeps ==
    ASSUME ServerInv, Lifecycle \/ Replenish \/ Shutdown \/ Restart
    PROVE  ServerInv'
<1> USE ServerAssumption, ConfigAssumption DEF ServerInv, process, pool
<1>0. Types
    BY TypeParts
<1>1. ASSUME Start PROVE ServerInv'
    <2>1. TypeOK'
        <3>1. Types'
            BY <1>0, <1>1 DEF Types, Start, Phases, Stages, WithBrowser, Ended, PhaseInv,
                ConfigInv, Dir
        <3> QED BY <3>1, TypeParts
    <2>2. ConfigInv'
        BY <1>1 DEF ConfigInv, Start
    <2>3. PhaseInv'
        BY <1>0, <1>1 DEF Types, PhaseInv, Connected, Start
    <2>4. UseInv'
        BY <1>0, <1>1 DEF Types, UseInv, Start
    <2>5. SweepInv'
        BY <1>0, <1>1 DEF Types, SweepInv, Dir, Start
    <2>6. StaleGone'
        BY <1>0, <1>1 DEF Types, SweepInv, StaleGone, Dir, Start
    <2>7. SizeInv'
        BY <1>0, <1>1 DEF Types, SizeInv, Start
    <2>8. Running' <= max'
        BY <1>0, <1>1, <2>1, RunningFalls DEF CeilingInForce, Held, Start
    <2>9. CeilingInForce'
        BY <2>7, <2>8 DEF CeilingInForce, SizeInv
    <2> QED BY <2>1, <2>2, <2>3, <2>4, <2>5, <2>6, <2>7, <2>9
<1>2. ASSUME StartFails PROVE ServerInv'
    <2>1. TypeOK'
        <3>1. Types'
            BY <1>0, <1>2 DEF Types, StartFails, Phases, Stages, WithBrowser, Ended, PhaseInv,
                ConfigInv, Dir
        <3> QED BY <3>1, TypeParts
    <2>2. ConfigInv'
        BY <1>2 DEF ConfigInv, StartFails
    <2>3. PhaseInv'
        BY <1>0, <1>2 DEF Types, PhaseInv, Connected, StartFails
    <2>4. UseInv'
        BY <1>0, <1>2 DEF Types, UseInv, StartFails
    <2>5. SweepInv'
        BY <1>0, <1>2 DEF Types, SweepInv, Dir, StartFails
    <2>6. StaleGone'
        BY <1>0, <1>2 DEF Types, SweepInv, StaleGone, Dir, StartFails
    <2>7. SizeInv'
        BY <1>0, <1>2 DEF Types, SizeInv, StartFails
    <2>8. Running' <= max'
        BY <1>0, <1>2, <2>1, RunningFalls DEF CeilingInForce, Held, StartFails
    <2>9. CeilingInForce'
        BY <2>7, <2>8 DEF CeilingInForce, SizeInv
    <2> QED BY <2>1, <2>2, <2>3, <2>4, <2>5, <2>6, <2>7, <2>9
<1>3. ASSUME NEW d \in toSweep, clean_stale(d) PROVE ServerInv'
    <2>1. TypeOK'
        <3>1. Types'
            BY <1>0, <1>3 DEF Types, clean_stale, Phases, Stages, WithBrowser, Ended, PhaseInv,
                ConfigInv, Dir
        <3> QED BY <3>1, TypeParts
    <2>2. ConfigInv'
        BY <1>3 DEF ConfigInv, clean_stale
    <2>3. PhaseInv'
        BY <1>0, <1>3 DEF Types, PhaseInv, Connected, clean_stale
    <2>4. UseInv'
        BY <1>0, <1>3 DEF Types, UseInv, clean_stale
    <2>5. SweepInv'
        BY <1>0, <1>3 DEF Types, SweepInv, Dir, clean_stale
    <2>6. StaleGone'
        BY <1>0, <1>3 DEF Types, SweepInv, StaleGone, Dir, clean_stale
    <2>7. SizeInv'
        BY <1>0, <1>3 DEF Types, SizeInv, clean_stale
    <2>8. Running' <= max'
        BY <1>0, <1>3, <2>1, RunningFalls DEF CeilingInForce, Held, clean_stale
    <2>9. CeilingInForce'
        BY <2>7, <2>8 DEF CeilingInForce, SizeInv
    <2> QED BY <2>1, <2>2, <2>3, <2>4, <2>5, <2>6, <2>7, <2>9
<1>4. ASSUME Listen PROVE ServerInv'
    <2>1. TypeOK'
        <3>1. Types'
            BY <1>0, <1>4 DEF Types, Listen, resolve_capacity, will_calibrate, Owners, Phases,
                Stages, WithBrowser, Ended, PhaseInv, ConfigInv, Dir
        <3> QED BY <3>1, TypeParts
    <2>2. ConfigInv'
        BY <1>4 DEF ConfigInv, Listen, resolve_capacity, will_calibrate, Owners
    <2>3. PhaseInv'
        BY <1>0, <1>4 DEF Types, PhaseInv, Connected, Listen, resolve_capacity, will_calibrate,
            Owners
    <2>4. UseInv'
        BY <1>0, <1>4 DEF Types, UseInv, Listen, resolve_capacity, will_calibrate, Owners
    <2>5. SweepInv'
        BY <1>0, <1>4 DEF Types, SweepInv, Dir, Listen, resolve_capacity, will_calibrate, Owners
    <2>6. StaleGone'
        BY <1>0, <1>4 DEF Types, SweepInv, StaleGone, Dir, Listen, resolve_capacity,
            will_calibrate, Owners
    <2>7. SizeInv'
        BY <1>0, <1>4 DEF Types, SizeInv, Listen
    <2>8. Running' <= max'
        <3>1. Running = 0 /\ max' \in Nat
            BY <1>0, <1>4, <2>1, RunningIsNone, TypeParts DEF SizeInv, Listen, Types
        <3> QED BY <1>4, <3>1 DEF Running, Held, Listen
    <2>9. CeilingInForce'
        BY <2>7, <2>8 DEF CeilingInForce, SizeInv
    <2> QED BY <2>1, <2>2, <2>3, <2>4, <2>5, <2>6, <2>7, <2>9
<1>5. ASSUME CalibrationSizes PROVE ServerInv'
    <2>1. TypeOK'
        <3>1. Types'
            <4>1. calibrating /\ phase \notin {"off", "failed"} /\ ~config.single_use
                BY <1>0, <1>5 DEF Types, CalibrationSizes, SizeInv, PhaseInv, ConfigInv
            <4>2. max' \in Nat \ {0} /\ calibration' \in {"none", "measuring", "sized"}
                BY <1>5 DEF CalibrationSizes
            <4>3. dirs' \subseteq (1..MaxRuns) \X Owners
                BY <1>0, <1>5 DEF Types, CalibrationSizes
            <4> QED BY <1>0, <1>5, <4>1, <4>2, <4>3 DEF Types, CalibrationSizes
        <3> QED BY <3>1, TypeParts
    <2>2. ConfigInv'
        BY <1>5 DEF ConfigInv, CalibrationSizes
    <2>3. PhaseInv'
        BY <1>0, <1>5 DEF Types, PhaseInv, SizeInv, Connected, CalibrationSizes
    <2>4. UseInv'
        BY <1>0, <1>5 DEF Types, UseInv, CalibrationSizes
    <2>5. SweepInv'
        BY <1>0, <1>5 DEF Types, SweepInv, Dir, CalibrationSizes
    <2>6. StaleGone'
        BY <1>0, <1>5 DEF Types, SweepInv, StaleGone, Dir, CalibrationSizes
    <2>7. SizeInv'
        BY <1>0, <1>5 DEF Types, SizeInv, CalibrationSizes
    <2>8. Running' <= max'
        <3>1. Running = 0 /\ max' \in Nat
            BY <1>0, <1>5, RunningIsNone DEF SizeInv, CalibrationSizes
        <3> QED BY <1>5, <3>1 DEF Running, Held, CalibrationSizes
    <2>9. CeilingInForce'
        BY <2>7, <2>8 DEF CeilingInForce, SizeInv
    <2> QED BY <2>1, <2>2, <2>3, <2>4, <2>5, <2>6, <2>7, <2>9
<1>6. ASSUME Shutdown PROVE ServerInv'
    <2>1. TypeOK'
        <3>1. Types'
            BY <1>0, <1>6 DEF Types, Shutdown, Phases, Stages, WithBrowser, Ended, PhaseInv,
                ConfigInv, Dir
        <3> QED BY <3>1, TypeParts
    <2>2. ConfigInv'
        BY <1>6 DEF ConfigInv, Shutdown
    <2>3. PhaseInv'
        BY <1>0, <1>6 DEF Types, PhaseInv, Connected, Shutdown
    <2>4. UseInv'
        BY <1>0, <1>6 DEF Types, UseInv, Shutdown
    <2>5. SweepInv'
        BY <1>0, <1>6 DEF Types, SweepInv, Dir, Shutdown
    <2>6. StaleGone'
        BY <1>0, <1>6 DEF Types, SweepInv, StaleGone, Dir, Shutdown
    <2>7. SizeInv'
        BY <1>0, <1>6 DEF Types, SizeInv, Shutdown
    <2>8. Running' <= max'
        BY <1>0, <1>6, <2>1, RunningFalls DEF CeilingInForce, Held, Shutdown
    <2>9. CeilingInForce'
        BY <2>7, <2>8 DEF CeilingInForce, SizeInv
    <2> QED BY <2>1, <2>2, <2>3, <2>4, <2>5, <2>6, <2>7, <2>9
<1>7. ASSUME ServeReturns PROVE ServerInv'
    <2>1. TypeOK'
        <3>1. Types'
            BY <1>0, <1>7 DEF Types, ServeReturns, Phase, Phases, Stages, WithBrowser, Ended,
                PhaseInv, ConfigInv, Dir
        <3> QED BY <3>1, TypeParts
    <2>2. ConfigInv'
        BY <1>7 DEF ConfigInv, ServeReturns, Phase
    <2>3. PhaseInv'
        BY <1>0, <1>7 DEF Types, PhaseInv, Connected, ServeReturns, Phase
    <2>4. UseInv'
        BY <1>0, <1>7 DEF Types, UseInv, ServeReturns, Phase
    <2>5. SweepInv'
        BY <1>0, <1>7 DEF Types, SweepInv, Dir, ServeReturns, Phase
    <2>6. StaleGone'
        BY <1>0, <1>7 DEF Types, SweepInv, StaleGone, Dir, ServeReturns, Phase
    <2>7. SizeInv'
        BY <1>0, <1>7 DEF Types, SizeInv, ServeReturns, Phase
    <2>8. Running' <= max'
        BY <1>0, <1>7, <2>1, RunningFalls DEF CeilingInForce, Held, ServeReturns, Phase
    <2>9. CeilingInForce'
        BY <2>7, <2>8 DEF CeilingInForce, SizeInv
    <2> QED BY <2>1, <2>2, <2>3, <2>4, <2>5, <2>6, <2>7, <2>9
<1>8. ASSUME Drained PROVE ServerInv'
    <2>1. TypeOK'
        <3>1. Types'
            BY <1>0, <1>8 DEF Types, Drained, Phase, Tracked, Phases, Stages, WithBrowser,
                Ended, PhaseInv, ConfigInv, Dir
        <3> QED BY <3>1, TypeParts
    <2>2. ConfigInv'
        BY <1>8 DEF ConfigInv, Drained, Phase, Tracked
    <2>3. PhaseInv'
        BY <1>0, <1>8 DEF Types, PhaseInv, Connected, Drained, Phase, Tracked
    <2>4. UseInv'
        BY <1>0, <1>8 DEF Types, UseInv, Drained, Phase, Tracked
    <2>5. SweepInv'
        BY <1>0, <1>8 DEF Types, SweepInv, Dir, Drained, Phase, Tracked
    <2>6. StaleGone'
        BY <1>0, <1>8 DEF Types, SweepInv, StaleGone, Dir, Drained, Phase, Tracked
    <2>7. SizeInv'
        BY <1>0, <1>8 DEF Types, SizeInv, Drained, Phase
    <2>8. Running' <= max'
        BY <1>0, <1>8, <2>1, RunningFalls DEF CeilingInForce, Held, Drained, Phase
    <2>9. CeilingInForce'
        BY <2>7, <2>8 DEF CeilingInForce, SizeInv
    <2> QED BY <2>1, <2>2, <2>3, <2>4, <2>5, <2>6, <2>7, <2>9
<1>9. ASSUME DrainDeadline PROVE ServerInv'
    <2>1. TypeOK'
        <3>1. Types'
            BY <1>0, <1>9 DEF Types, DrainDeadline, Phase, Tracked, Phases, Stages,
                WithBrowser, Ended, PhaseInv, ConfigInv, Dir
        <3> QED BY <3>1, TypeParts
    <2>2. ConfigInv'
        BY <1>9 DEF ConfigInv, DrainDeadline, Phase, Tracked
    <2>3. PhaseInv'
        BY <1>0, <1>9 DEF Types, PhaseInv, Connected, DrainDeadline, Phase, Tracked
    <2>4. UseInv'
        BY <1>0, <1>9 DEF Types, UseInv, DrainDeadline, Phase, Tracked
    <2>5. SweepInv'
        BY <1>0, <1>9 DEF Types, SweepInv, Dir, DrainDeadline, Phase, Tracked
    <2>6. StaleGone'
        BY <1>0, <1>9 DEF Types, SweepInv, StaleGone, Dir, DrainDeadline, Phase, Tracked
    <2>7. SizeInv'
        BY <1>0, <1>9 DEF Types, SizeInv, DrainDeadline, Phase
    <2>8. Running' <= max'
        BY <1>0, <1>9, <2>1, RunningFalls DEF CeilingInForce, Held, DrainDeadline, Phase
    <2>9. CeilingInForce'
        BY <2>7, <2>8 DEF CeilingInForce, SizeInv
    <2> QED BY <2>1, <2>2, <2>3, <2>4, <2>5, <2>6, <2>7, <2>9
<1>10. ASSUME ForceAbort PROVE ServerInv'
    <2>1. TypeOK'
        <3>1. Types'
            BY <1>0, <1>10 DEF Types, ForceAbort, Phase, Phases, Stages, WithBrowser, Ended,
                PhaseInv, ConfigInv, Dir
        <3> QED BY <3>1, TypeParts
    <2>2. ConfigInv'
        BY <1>10 DEF ConfigInv, ForceAbort, Phase
    <2>3. PhaseInv'
        BY <1>0, <1>10 DEF Types, PhaseInv, Connected, ForceAbort, Phase
    <2>4. UseInv'
        BY <1>0, <1>10 DEF Types, UseInv, ForceAbort, Phase
    <2>5. SweepInv'
        BY <1>0, <1>10 DEF Types, SweepInv, Dir, ForceAbort, Phase
    <2>6. StaleGone'
        BY <1>0, <1>10 DEF Types, SweepInv, StaleGone, Dir, ForceAbort, Phase
    <2>7. SizeInv'
        BY <1>0, <1>10 DEF Types, SizeInv, ForceAbort, Phase
    <2>8. Running' <= max'
        BY <1>0, <1>10, <2>1, RunningFalls DEF CeilingInForce, Held, ForceAbort, Phase
    <2>9. CeilingInForce'
        BY <2>7, <2>8 DEF CeilingInForce, SizeInv
    <2> QED BY <2>1, <2>2, <2>3, <2>4, <2>5, <2>6, <2>7, <2>9
<1>11. ASSUME Exit PROVE ServerInv'
    <2>1. TypeOK'
        <3>1. Types'
            BY <1>0, <1>11 DEF Types, Exit, Phase, Phases, Stages, WithBrowser, Ended,
                PhaseInv, ConfigInv, Dir
        <3> QED BY <3>1, TypeParts
    <2>2. ConfigInv'
        BY <1>11 DEF ConfigInv, Exit, Phase
    <2>3. PhaseInv'
        BY <1>0, <1>11 DEF Types, PhaseInv, Connected, Exit, Phase, Ended
    <2>4. UseInv'
        BY <1>0, <1>11 DEF Types, UseInv, Exit, Phase, PhaseInv, Taken, WithBrowser, Ended,
            Stages
    <2>5. SweepInv'
        BY <1>0, <1>11 DEF Types, SweepInv, Dir, Exit, Phase
    <2>6. StaleGone'
        BY <1>0, <1>11 DEF Types, SweepInv, StaleGone, Dir, Exit, Phase
    <2>7. SizeInv'
        BY <1>0, <1>11 DEF Types, SizeInv, Exit, Phase, PhaseInv, Connected, Taken, WithBrowser,
            Ended, Stages
    <2>8. Running' <= max'
        BY <1>0, <1>11, <2>1, RunningFalls DEF CeilingInForce, Held, Holding, Exit, Phase, Types
    <2>9. CeilingInForce'
        BY <2>7, <2>8 DEF CeilingInForce, SizeInv
    <2> QED BY <2>1, <2>2, <2>3, <2>4, <2>5, <2>6, <2>7, <2>9
<1>12. ASSUME Replenish PROVE ServerInv'
    <2>1. TypeOK'
        <3>1. Types'
            BY <1>0, <1>12 DEF Types, Replenish, Owners, Phases, Stages, WithBrowser, Ended,
                PhaseInv, ConfigInv, Dir
        <3> QED BY <3>1, TypeParts
    <2>2. ConfigInv'
        BY <1>12 DEF ConfigInv, Replenish, Owners
    <2>3. PhaseInv'
        BY <1>0, <1>12 DEF Types, PhaseInv, Connected, Replenish, Owners
    <2>4. UseInv'
        BY <1>0, <1>12 DEF Types, UseInv, Replenish, Owners
    <2>5. SweepInv'
        BY <1>0, <1>12 DEF Types, SweepInv, Dir, Replenish, Owners
    <2>6. StaleGone'
        BY <1>0, <1>12 DEF Types, SweepInv, StaleGone, Dir, Replenish, Owners
    <2>7. SizeInv'
        BY <1>0, <1>12 DEF Types, SizeInv, Replenish
    <2>8. Running' <= max'
        BY <1>0, <1>12, <2>1, RunningFalls DEF CeilingInForce, Held, Replenish
    <2>9. CeilingInForce'
        BY <2>7, <2>8 DEF CeilingInForce, SizeInv
    <2> QED BY <2>1, <2>2, <2>3, <2>4, <2>5, <2>6, <2>7, <2>9
<1>13. ASSUME Restart PROVE ServerInv'
    <2>1. TypeOK'
        <3>1. Types'
            BY <1>0, <1>13 DEF Types, Restart, Fresh, Kinds, Phases, Stages, WithBrowser,
                Ended, PhaseInv, ConfigInv, Dir
        <3> QED BY <3>1, TypeParts
    <2>2. ConfigInv'
        BY <1>13 DEF ConfigInv, Restart, Fresh, Kinds
    <2>3. PhaseInv'
        BY <1>0, <1>13 DEF Types, PhaseInv, Connected, Restart, Fresh, Kinds
    <2>4. UseInv'
        BY <1>0, <1>13 DEF Types, UseInv, Restart, Fresh, Kinds, PhaseInv, Taken, WithBrowser,
            Ended, Stages
    <2>5. SweepInv'
        BY <1>0, <1>13 DEF Types, SweepInv, Dir, Restart, Fresh, Kinds
    <2>6. StaleGone'
        BY <1>0, <1>13 DEF Types, SweepInv, StaleGone, Dir, Restart, Fresh, Kinds
    <2>7. SizeInv'
        BY <1>0, <1>13 DEF Types, SizeInv, Restart, Fresh, Taken, WithBrowser
    <2>8. Running' <= max'
        <3>1. {q \in Requests : Held(q)}' = {} /\ lost' = 0 /\ max' = 1
            BY <1>13 DEF Restart, Fresh, Held, Holding
        <3>2. Running' = 0 + Cardinality({})
            BY <3>1 DEF Running
        <3> QED BY <3>1, <3>2, FS_EmptySet
    <2>9. CeilingInForce'
        BY <2>7, <2>8 DEF CeilingInForce, SizeInv
    <2> QED BY <2>1, <2>2, <2>3, <2>4, <2>5, <2>6, <2>7, <2>9
<1>14. ASSUME CalibrationOpens PROVE ServerInv'
    <2>1. TypeOK'
        <3>1. Types'
            BY ZenonT(60), <1>0, <1>14 DEF Types, CalibrationOpens, Phases, Stages, WithBrowser, Ended,
                PhaseInv, ConfigInv, Dir
        <3> QED BY <3>1, TypeParts
    <2>2. ConfigInv'
        BY <1>14 DEF ConfigInv, CalibrationOpens
    <2>3. PhaseInv'
        BY <1>0, <1>14 DEF Types, PhaseInv, Connected, CalibrationOpens
    <2>4. UseInv'
        BY <1>0, <1>14 DEF Types, UseInv, CalibrationOpens
    <2>5. SweepInv'
        BY <1>0, <1>14 DEF Types, SweepInv, Dir, CalibrationOpens
    <2>6. StaleGone'
        BY <1>0, <1>14 DEF Types, SweepInv, StaleGone, Dir, CalibrationOpens
    <2>7. SizeInv'
        BY <1>0, <1>14 DEF Types, SizeInv, CalibrationOpens
    <2>8. Running' <= max'
        BY <1>0, <1>14, <2>1, RunningFalls DEF CeilingInForce, Held, CalibrationOpens
    <2>9. CeilingInForce'
        BY <2>7, <2>8 DEF CeilingInForce, SizeInv
    <2> QED BY <2>1, <2>2, <2>3, <2>4, <2>5, <2>6, <2>7, <2>9
<1> QED BY <1>1, <1>2, <1>3, <1>4, <1>5, <1>6, <1>7, <1>8, <1>9, <1>10, <1>11, <1>12, <1>13, <1>14
    DEF Lifecycle, SingleUseFinished

(* The inductive invariant holds always: for any settings, any number of    *)
(* requests and any crash between two steps of the process.                 *)
THEOREM ServerInvariant == Spec => []ServerInv
<1>1. ServerInv /\ [Next]_vars => ServerInv'
    <2> SUFFICES ASSUME ServerInv, [Next]_vars PROVE ServerInv'
        OBVIOUS
    <2>1. ASSUME NEW r \in Requests,
                 Arrive(r) \/ Step(r) \/ ClientGone(r) \/ Uploaded(r) \/ SessionEnds(r)
          PROVE  ServerInv'
        BY <2>1, RequestActs, RequestKeeps
    <2>2. CASE UNCHANGED vars
        <3>1. TypeOK'
            BY <2>2 DEF vars, process, pool, ServerInv, TypeOK
        <3> QED BY <2>2, <3>1 DEF vars, process, pool, ServerInv, ConfigInv, PhaseInv, UseInv,
                SweepInv, SizeInv, StaleGone, CeilingInForce, Running, Held
    <2> QED BY <2>1, <2>2, ProcessKeeps DEF Next
<1> QED BY <1>1, ServerInit, PTL DEF Spec

(* Every variable keeps its type, and single use keeps one slot and no      *)
(* calibration, whatever file and environment say together.                 *)
THEOREM SettingsHold == Spec => []TypeOK
BY ServerInvariant, PTL DEF ServerInv

(* At most one request of a single-use process ever gets a browser, however *)
(* many race for it and whatever becomes of the one that took the use.      *)
THEOREM ServesOneRequest == Spec => []ServesOne
<1>1. ServerInv => ServesOne
    <2> SUFFICES ASSUME ServerInv, config.single_use
                 PROVE  Cardinality({r \in Requests : at[r] \in WithBrowser}) <= 1
        BY DEF ServesOne
    <2> DEFINE served == {r \in Requests : at[r] \in WithBrowser}
    <2>1. \A r, q \in served : q = r
        BY DEF ServerInv, UseInv, Taken
    <2>2. CASE served = {}
        BY <2>2, FS_EmptySet
    <2>3. CASE served # {}
        <3>1. PICK r \in served : TRUE
            BY <2>3
        <3>2. served = {r}
            BY <2>1, <3>1
        <3> QED BY <3>2, FS_Singleton
    <2> QED BY <2>2, <2>3
<1> QED BY <1>1, ServerInvariant, PTL

(* Nothing that an earlier run left is on disk once this one serves, except *)
(* what could not be removed, after any number of crashes and restarts.     *)
THEOREM StaleIsGone == Spec => []StaleGone
BY ServerInvariant, PTL DEF ServerInv

(* No slot is taken beyond the ceiling in force, and while the calibration  *)
(* runs no request is let in, however many come and whatever is lost.       *)
THEOREM CeilingIsInForce == Spec => []CeilingInForce
BY ServerInvariant, PTL DEF ServerInv

(* The last sweep and the exit come before the deadline only when no        *)
(* request is open and no session that the tracker knows of runs.           *)
THEOREM DrainIsHonoured == Spec => DrainHonoured
<1>1. ServerInv /\ [Next]_vars =>
        [phase' = "lastSweep" /\ phase # "lastSweep" =>
            cancelled \/ \A r \in Requests :
                            at[r] \in Ended \cup {"idle", "switching", "dropping"}]_vars
    <2> SUFFICES ASSUME ServerInv, Next, phase' = "lastSweep", phase # "lastSweep", ~cancelled
                 PROVE  \A r \in Requests : at[r] \in Ended \cup {"idle", "switching", "dropping"}
        OBVIOUS
    <2>1. at \in [Requests -> Stages]
        BY TypeParts DEF ServerInv, Types
    <2>2. Drained \/ ForceAbort
        <3>1. ASSUME NEW r \in Requests,
                     Arrive(r) \/ Step(r) \/ ClientGone(r) \/ Uploaded(r) \/ SessionEnds(r)
              PROVE  FALSE
            <4>1. PICK reached : RequestStep(r, reached)
                BY <3>1, RequestActs
            <4> QED BY <4>1 DEF RequestStep, process
        <3>2. Lifecycle \/ Replenish \/ Shutdown \/ Restart
            BY <3>1 DEF Next
        <3> QED BY <3>2 DEF Lifecycle, Replenish, Shutdown, Restart, Start, StartFails,
                clean_stale, Listen, CalibrationSizes, CalibrationOpens, SingleUseFinished, ServeReturns,
                DrainDeadline, Exit, Phase, process, Fresh
    <2>3. Drained
        BY <2>2 DEF ForceAbort, Phase, ServerInv, PhaseInv
    <2>4. ~Tracked /\ \A r \in Requests : at[r] \notin Connected
        BY <2>3 DEF Drained, Phase, ServerInv, PhaseInv
    <2> QED BY <2>1, <2>4 DEF Tracked, Stages, Connected, WithBrowser, Ended
<1> QED BY <1>1, ServerInvariant, PTL DEF Spec, DrainHonoured

-----------------------------------------------------------------------------
(* Calibration: the inductive invariant. *)

CalStages == {"create", "setup", "frame", "settle", "hold", "probe", "destroy", "done"}
Ramping == {"create", "setup", "frame", "settle"}

CalTypes ==
    /\ host \in Hosts /\ beside \in host.beside
    /\ stage \in CalStages /\ n \in Sessions /\ held \subseteq Sessions
    /\ stop \in {"LaunchFailed", "MemoryLine", "Cap"}
    /\ footprint \in [bytes : Nat, threads : Nat]
    /\ ceiling \in [max_sessions : Nat,
                    bound_by : {"none", "measured", "cpu", "memory", "pids"}]
    /\ procs \in [Sessions -> {0} \cup DOMAIN Browsers]
    /\ browser \in [Sessions -> {"none", "up", "gone"}]
    /\ inflight \in [Sessions -> 0..Window]
    /\ pipe \in [Sessions -> Seq({"frame", "reply"})]
    /\ ack \in [Sessions -> BOOLEAN] /\ advanced \in [Sessions -> BOOLEAN]
    /\ task \in [Sessions -> {"none", "recv", "acking", "ended"}]

\* Which sessions are held, by the stage of calibrate.
RampInv ==
    /\ stage \in {"create", "setup", "frame"} => held = 1..(n - 1)
    /\ stage = "settle" => held = 1..n
    /\ held \subseteq 1..n
    /\ stage \in Ramping => stop = "Cap"
    /\ stage \in {"hold", "probe"} /\ stop = "Cap" => n = RAMP_CAP /\ held = 1..n

\* What each session is in: its browser, its task, whether it is held.
Lives(s) ==
    /\ browser[s] = "none" <=> procs[s] = 0
    /\ s > n \/ (s = n /\ stage = "create") => browser[s] = "none"
    /\ s = n /\ stage \in {"setup", "frame"} => browser[s] # "none"
    /\ s \in held \/ task[s] # "none" => browser[s] # "none"
    /\ browser[s] = "up" => s \in held \/ (s = n /\ stage \in {"setup", "frame"})
    /\ stage \notin {"destroy", "done"} => (s \in held <=> task[s] # "none")
    /\ task[s] = "ended" => browser[s] = "gone"
    /\ advanced[s] => task[s] # "none"
LivesInv == \A s \in Sessions : Lives(s)

\* A session's pipe holds the frames that are in flight but for those that
\* were taken, and a reply exactly while its task waits for one that was sent.
OnlyFrames(q) == \A i \in 1..Len(q) : q[i] = "frame"
ReplyAt(q, p) == q[p] = "reply" /\ \A i \in 1..Len(q) : i # p => q[i] = "frame"

Flow(s) ==
    /\ ack[s] => task[s] = "acking"
    /\ task[s] = "none" => OnlyFrames(pipe[s]) /\ inflight[s] = Len(pipe[s])
    /\ task[s] = "recv" =>
          /\ OnlyFrames(pipe[s]) /\ Len(pipe[s]) <= inflight[s]
          /\ Window >= 2 => inflight[s] - Len(pipe[s]) < Window
    /\ ack[s] => OnlyFrames(pipe[s]) /\ Len(pipe[s]) < inflight[s]
    /\ task[s] = "acking" /\ ~ack[s] =>
          \E p \in 1..Len(pipe[s]) :
              /\ ReplyAt(pipe[s], p) /\ Len(pipe[s]) - 1 <= inflight[s]
              /\ inflight[s] - Len(pipe[s]) + p < Window
FlowInv == \A s \in Sessions : Flow(s)

\* What was measured: the cost of some browser, and no less than that of one
\* that has lived on.
Covered(s) == footprint.bytes >= OwnBytes(s) /\ footprint.threads >= OwnThreads(s)

MeterInv ==
    /\ ~host.linux => footprint = NoFootprint
    /\ footprint.bytes = 0 <=> footprint.threads = 0
    /\ footprint.bytes = 0 \/ \E s \in 1..n : footprint.bytes = OwnBytes(s)
    /\ footprint.threads = 0 \/ \E s \in 1..n : footprint.threads = OwnThreads(s)
    /\ host.linux => \A s \in held :
          /\ browser[s] = "up" /\ ~(stage = "settle" /\ s = n) => Covered(s)
          /\ stage = "probe" /\ ~Covered(s) => pipe[s] = <<>> /\ ~advanced[s]

\* On a host that can carry its load, the line is not crossed when a browser
\* is about to be launched.
CanCarry ==
    /\ host.limits.mem # Unlimited /\ host.metered /\ host.base < Line
    /\ \A s \in Sessions, b \in host.beside : OwnBytes(s) + b <= host.limits.mem - Line

LoadInv ==
    CanCarry => /\ \A b \in host.beside : OwnUse + b <= host.limits.mem
                /\ stage = "create" => OwnUse < Line

CeilingInv ==
    /\ stage \notin {"destroy", "done"} => ceiling.bound_by = "none"
    /\ CeilingHolds

CalInv == CalTypes /\ RampInv /\ LivesInv /\ FlowInv /\ MeterInv /\ LoadInv /\ CeilingInv

-----------------------------------------------------------------------------
(* Sums over the sessions. Induction over the sessions is by the least       *)
(* number for which a claim fails.                                           *)

\* Every set of naturals that is not empty has a least element.
LEMMA LeastNumber ==
    ASSUME NEW T, T \subseteq Nat, T # {}
    PROVE  \E k \in T : \A j \in T : k <= j
<1>1. PICK k \in T : \A j \in T : <<j, k>> \notin OpToRel(<, Nat)
    BY WFMin, NatLessThanWellFounded
<1>2. \A j \in T : ~(j < k)
    BY <1>1 DEF OpToRel
<1> QED BY <1>2

\* The function that SumOver chooses exists, so its recursion computes it.
LEMMA SumSteps ==
    ASSUME NEW base \in Int, NEW w \in [Sessions -> Int]
    PROVE  \E u \in [0..RAMP_CAP -> Int] :
              /\ u[0] = base /\ \A s \in Sessions : u[s] = u[s - 1] + w[s]
              /\ SumOver(base, w) = u[RAMP_CAP]
<1> USE CalibrateAssumption DEF Sessions
<1> DEFINE Adds(f, s) == IF s = 0 THEN base ELSE f[s - 1] + w[s]
<1> DEFINE UpTo[s \in 0..RAMP_CAP] == IF s = 0 THEN base ELSE UpTo[s - 1] + w[s]
<1> DEFINE Sums(k) == \E g \in [0..k -> Int] : g = [s \in 0..k |-> Adds(g, s)]
<1> DEFINE T == {k \in 0..RAMP_CAP : ~Sums(k)}
<1> HIDE DEF Sums, UpTo
<1>1. T = {}
  <2> SUFFICES ASSUME T # {} PROVE FALSE
    OBVIOUS
  <2>0. T \subseteq Nat
    OBVIOUS
  <2>1. PICK k \in T : \A j \in T : k <= j
    BY <2>0, LeastNumber
  <2>2. k # 0
    <3> DEFINE g == [s \in 0..0 |-> base]
    <3>1. g \in [0..0 -> Int] /\ g = [s \in 0..0 |-> Adds(g, s)]
      OBVIOUS
    <3>2. Sums(0)
      BY <3>1 DEF Sums
    <3> QED BY <3>2
  <2>3. k - 1 \in 0..RAMP_CAP /\ Sums(k - 1)
    BY <2>1, <2>2
  <2>4. PICK h \in [0..(k - 1) -> Int] : h = [s \in 0..(k - 1) |-> Adds(h, s)]
    BY <2>3 DEF Sums
  <2>5. k \in Sessions /\ w[k] \in Int /\ h[k - 1] \in Int
    BY <2>2, <2>4
  <2>6. Sums(k)
    <3> DEFINE g == [s \in 0..k |-> IF s = k THEN h[k - 1] + w[k] ELSE h[s]]
    <3>1. g \in [0..k -> Int]
      BY <2>4, <2>5
    <3>2. \A s \in 0..k : g[s] = Adds(g, s)
      <4> TAKE s \in 0..k
      <4>1. CASE s = k
        BY <4>1, <2>2, <2>5
      <4>2. CASE s # k
        <5>1. s \in 0..(k - 1) /\ g[s] = h[s] /\ h[s] = Adds(h, s)
          <6>1. s \in 0..(k - 1) /\ g[s] = h[s]
            BY <4>2, <2>5
          <6> HIDE DEF g
          <6> QED BY <2>4, <6>1
        <5>2. s # 0 => g[s - 1] = h[s - 1]
          BY <5>1, <2>5
        <5> QED BY <5>1, <5>2
      <4> QED BY <4>1, <4>2
    <3>3. g = [s \in 0..k |-> Adds(g, s)]
      BY <3>2
    <3> HIDE DEF g
    <3> QED BY <3>1, <3>3 DEF Sums
  <2> QED BY <2>6
<1>2. PICK g \in [0..RAMP_CAP -> Int] : g = [s \in 0..RAMP_CAP |-> Adds(g, s)]
  <2>1. Sums(RAMP_CAP)
    BY <1>1
  <2> QED BY <2>1 DEF Sums
<1>3. UpTo = [s \in 0..RAMP_CAP |-> IF s = 0 THEN base ELSE UpTo[s - 1] + w[s]]
  BY <1>2 DEF UpTo
<1>4. \A s \in 0..RAMP_CAP : UpTo[s] = Adds(UpTo, s)
  BY <1>3
<1>5. UpTo \in [0..RAMP_CAP -> Int]
  <2> DEFINE B == {s \in 0..RAMP_CAP : UpTo[s] \notin Int}
  <2>1. B = {}
    <3> SUFFICES ASSUME B # {} PROVE FALSE
      OBVIOUS
    <3>0. B \subseteq Nat
      OBVIOUS
    <3>1. PICK k \in B : \A j \in B : k <= j
      BY <3>0, LeastNumber
    <3>2. k \in 0..RAMP_CAP /\ UpTo[k] \notin Int
      BY <3>1
    <3>3. k # 0
      BY <3>2, <1>4
    <3>4. k \in Sessions /\ k - 1 \in 0..RAMP_CAP /\ k - 1 \notin B
      BY <3>1, <3>2, <3>3
    <3>5. UpTo[k - 1] \in Int /\ w[k] \in Int
      BY <3>4
    <3>6. UpTo[k] = UpTo[k - 1] + w[k]
      BY <3>2, <3>3, <1>4
    <3> QED BY <3>2, <3>5, <3>6
  <2> QED BY <2>1, <1>3
<1>6. SumOver(base, w) = UpTo[RAMP_CAP]
  BY DEF SumOver, UpTo
<1>7. UpTo[0] = base /\ \A s \in Sessions : UpTo[s] = UpTo[s - 1] + w[s]
  BY <1>4
<1> QED BY <1>5, <1>6, <1>7

\* A sum of nothing is its base.
LEMMA SumOfNone ==
    ASSUME NEW base \in Int, NEW w \in [Sessions -> Int], \A s \in Sessions : w[s] = 0
    PROVE  SumOver(base, w) = base
<1> USE CalibrateAssumption DEF Sessions
<1>1. PICK u \in [0..RAMP_CAP -> Int] :
              /\ u[0] = base /\ \A s \in Sessions : u[s] = u[s - 1] + w[s]
              /\ SumOver(base, w) = u[RAMP_CAP]
  BY SumSteps
<1> DEFINE T == {s \in 0..RAMP_CAP : u[s] # base}
<1>2. T = {}
  <2> SUFFICES ASSUME T # {} PROVE FALSE
    OBVIOUS
  <2>0. T \subseteq Nat
    OBVIOUS
  <2>1. PICK k \in T : \A j \in T : k <= j
    BY <2>0, LeastNumber
  <2>2. k # 0 /\ k - 1 \in 0..RAMP_CAP /\ u[k - 1] = base
    BY <2>1, <1>1
  <2> QED BY <2>1, <2>2, <1>1
<1>3. RAMP_CAP \in 0..RAMP_CAP
  OBVIOUS
<1> QED BY <1>1, <1>2, <1>3

\* What one session adds or gives back is what the sum changes by.
LEMMA SumOfChange ==
    ASSUME NEW base \in Int, NEW w \in [Sessions -> Int], NEW v \in [Sessions -> Int],
           NEW i \in Sessions, NEW d \in Int
    PROVE  /\ SumOver(base, w) \in Int
           /\ (\A s \in Sessions \ {i} : v[s] = w[s]) /\ v[i] = w[i] + d =>
                 SumOver(base, v) = SumOver(base, w) + d
<1> USE CalibrateAssumption DEF Sessions
<1>1. PICK u \in [0..RAMP_CAP -> Int] :
              /\ u[0] = base /\ \A s \in Sessions : u[s] = u[s - 1] + w[s]
              /\ SumOver(base, w) = u[RAMP_CAP]
  BY SumSteps
<1>2. PICK x \in [0..RAMP_CAP -> Int] :
              /\ x[0] = base /\ \A s \in Sessions : x[s] = x[s - 1] + v[s]
              /\ SumOver(base, v) = x[RAMP_CAP]
  BY SumSteps
<1>3. RAMP_CAP \in 0..RAMP_CAP /\ RAMP_CAP >= i /\ u[RAMP_CAP] \in Int
  OBVIOUS
<1>4. ASSUME \A s \in Sessions \ {i} : v[s] = w[s], v[i] = w[i] + d
      PROVE  SumOver(base, v) = SumOver(base, w) + d
  <2> DEFINE Apart(s) == (s < i => x[s] = u[s]) /\ (s >= i => x[s] = u[s] + d)
  <2> DEFINE T == {s \in 0..RAMP_CAP : ~Apart(s)}
  <2>1. ASSUME NEW k \in T, \A j \in T : k <= j PROVE FALSE
    <3>1. k \in 0..RAMP_CAP /\ ~Apart(k)
      OBVIOUS
    <3>2. k # 0
      BY <3>1, <1>1, <1>2
    <3>3. k \in Sessions /\ k - 1 \in 0..RAMP_CAP
      BY <3>1, <3>2
    <3>4. Apart(k - 1)
      <4>1. k - 1 \notin T
        <5> HIDE DEF T
        <5> QED BY <2>1, <3>3
      <4> HIDE DEF Apart
      <4> QED BY <3>3, <4>1
    <3> DEFINE a == u[k - 1]
    <3> DEFINE b == x[k - 1]
    <3> DEFINE c == w[k]
    <3> DEFINE e == v[k]
    <3>5. x[k] = b + e /\ u[k] = a + c
      BY <3>3, <1>1, <1>2
    <3>6. a \in Int /\ b \in Int /\ c \in Int /\ e \in Int /\ k \in Int /\ i \in Int
      <4>1. u[k - 1] \in Int /\ x[k - 1] \in Int
        BY <3>3, <1>1, <1>2
      <4>2. w[k] \in Int /\ v[k] \in Int
        BY <3>3
      <4> QED BY <3>3, <4>1, <4>2
    <3>7. (k # i => e = c) /\ (k = i => e = c + d)
      BY <3>3, <1>4
    <3>8. (k - 1 < i => b = a) /\ (k - 1 >= i => b = a + d)
      BY <3>4
    <3> HIDE DEF a, b, c, e, T, Apart
    <3>10. k < i => b + e = a + c
      <4>1. k < i => b = a /\ e = c
        BY <3>6, <3>7, <3>8
      <4> QED BY <4>1
    <3>11. k >= i => b + e = (a + c) + d
      <4>1. CASE k = i
        <5>1. b = a /\ e = c + d
          BY <3>6, <3>7, <3>8, <4>1
        <5> QED BY <3>6, <5>1
      <4>2. CASE k > i
        <5>1. b = a + d /\ e = c
          BY <3>6, <3>7, <3>8, <4>2
        <5> QED BY <3>6, <5>1
      <4> QED BY <3>6, <4>1, <4>2
    <3> QED BY <3>1, <3>5, <3>10, <3>11 DEF Apart
  <2>2. T = {}
    BY <2>1, LeastNumber, T \subseteq Nat
  <2>3. x[RAMP_CAP] = u[RAMP_CAP] + d
    BY <2>2, <1>3
  <2> QED BY <1>1, <1>2, <2>3
<1> QED BY <1>1, <1>3, <1>4

-----------------------------------------------------------------------------
(* Capacity: what compute returns.                                           *)

\* The largest element of a set is what Max chooses.
LEMMA MaxIs ==
    ASSUME NEW S, S \subseteq Int, NEW big \in S, \A x \in S : big >= x
    PROVE  Max(S) = big
<1>1. \A x \in S : (\A y \in S : x >= y) => x = big
  OBVIOUS
<1>2. \A y \in S : big >= y
  OBVIOUS
<1> DEFINE P(x) == x \in S /\ \A y \in S : x >= y
<1>3. P(big) /\ \A x : P(x) => x = big
  BY <1>1, <1>2
<1>4. Max(S) = CHOOSE x : P(x)
  BY Zenon DEF Max
<1> HIDE DEF P
<1> QED BY <1>3, <1>4

\* The quotient by a cost is the most that a limit has room for.
LEMMA QuotientFits ==
    ASSUME NEW a \in Nat, NEW e \in Nat \ {0}
    PROVE  /\ a \div e \in Nat
           /\ \A m \in Nat : m <= a \div e <=> m * e <= a
<1> DEFINE q == a \div e
<1>1. q \in Int /\ q * e <= a /\ a < (q + 1) * e
  OBVIOUS
<1>2. q \in Nat
  OBVIOUS
<1> HIDE DEF q
<1>3. ASSUME NEW m \in Nat, m <= q PROVE m * e <= a
  <2>1. (q - m) * e >= 0
    BY <1>2, <1>3
  <2> QED BY <1>1, <2>1
<1>4. ASSUME NEW m \in Nat, m > q PROVE m * e > a
  <2>1. (m - (q + 1)) * e >= 0
    BY <1>2, <1>4
  <2> QED BY <1>1, <2>1
<1> QED BY <1>2, <1>3, <1>4 DEF q

Limits == [mem : Nat \cup {Unlimited}, pids : Nat \cup {Unlimited}, cpus : Nat]
Footprints == [bytes : Nat \ {0}, threads : Nat \ {0}]

\* Whether a limit leaves four fifths for m sessions.
Room(limit, each, m) == limit # Unlimited => m * each <= (limit \div 5) * 4
Fits(limits, fp, m) ==
    /\ m <= AUTO_CEILING /\ m <= 2 * Max({limits.cpus, 1})
    /\ Room(limits.mem, fp.bytes, m) /\ Room(limits.pids, fp.threads, m)

\* A quotient that is known says for how many sessions there is room.
LEMMA QuotientRoom ==
    ASSUME NEW limit \in Nat \cup {Unlimited}, NEW each \in Nat \ {0}
    PROVE  /\ Quotient(limit, each) \in Nat \cup {Unlimited}
           /\ \A m \in Nat : Room(limit, each, m) <=>
                 (Quotient(limit, each) = Unlimited \/ m <= Quotient(limit, each))
<1>1. CASE limit = Unlimited
  BY <1>1 DEF Room, Quotient, Unlimited
<1>2. CASE limit # Unlimited
  <2>1. (limit \div 5) * 4 \in Nat
    BY <1>2 DEF Unlimited
  <2> DEFINE usable == (limit \div 5) * 4
  <2> HIDE DEF usable
  <2>2. usable \div each \in Nat /\ \A m \in Nat : m <= usable \div each <=> m * each <= usable
    BY <2>1, QuotientFits DEF usable
  <2>3. Quotient(limit, each) = usable \div each
    BY <1>2 DEF Quotient, usable
  <2>4. usable \div each # Unlimited
    BY <2>2 DEF Unlimited
  <2> QED BY <1>2, <2>2, <2>3, <2>4 DEF Room, usable
<1> QED BY <1>1, <1>2

\* What consider makes of a bound: the least of it and of the best so far.
LEMMA ConsideredLeast ==
    ASSUME NEW labels, NEW best \in [v : Nat, by : labels], NEW v \in Nat \cup {Unlimited},
           NEW label \in labels
    PROVE  /\ consider(best, v, label) \in [v : Nat, by : labels]
           /\ \A k \in Nat : k <= consider(best, v, label).v <=>
                                 k <= best.v /\ (v = Unlimited \/ k <= v)
<1>1. CASE v = Unlimited
  BY <1>1 DEF consider
<1>2. CASE v # Unlimited /\ v < best.v
  BY <1>2 DEF consider
<1>3. CASE v # Unlimited /\ ~(v < best.v)
  BY <1>3 DEF consider
<1> QED BY <1>1, <1>2, <1>3

\* compute: the largest number of sessions that the limits have room for, but
\* one where they have none.
LEMMA ComputeIsLargest ==
    ASSUME NEW limits \in Limits, NEW fp \in Footprints
    PROVE  LET m == compute(limits, fp).max_sessions IN
           /\ m \in Nat \ {0} /\ m <= AUTO_CEILING
           /\ compute(limits, fp).bound_by \in {"cpu", "memory", "pids"}
           /\ m > 1 => Fits(limits, fp, m)
           /\ ~Fits(limits, fp, m + 1)
<1> USE CapacityAssumption
<1> DEFINE c == Max({limits.cpus, 1}) * 2
<1> DEFINE qm == Quotient(limits.mem, fp.bytes)
<1> DEFINE qp == Quotient(limits.pids, fp.threads)
<1>1. fp # NoFootprint
  BY DEF Footprints, NoFootprint
<1>2. c \in Nat /\ c >= 2 /\ c = 2 * Max({limits.cpus, 1})
  <2>1. Max({limits.cpus, 1}) \in Nat \ {0}
    <3>1. CASE limits.cpus >= 1
      <4>1. Max({limits.cpus, 1}) = limits.cpus
        BY <3>1, MaxIs DEF Limits
      <4> QED BY <3>1, <4>1 DEF Limits
    <3>2. CASE ~(limits.cpus >= 1)
      <4>1. Max({limits.cpus, 1}) = 1
        BY <3>2, MaxIs DEF Limits
      <4> QED BY <4>1
    <3> QED BY <3>1, <3>2
  <2> HIDE DEF c
  <2> QED BY <2>1 DEF c
<1>3. /\ qm \in Nat \cup {Unlimited}
      /\ \A m \in Nat : Room(limits.mem, fp.bytes, m) <=> (qm = Unlimited \/ m <= qm)
  BY QuotientRoom DEF Limits, Footprints
<1>4. /\ qp \in Nat \cup {Unlimited}
      /\ \A m \in Nat : Room(limits.pids, fp.threads, m) <=> (qp = Unlimited \/ m <= qp)
  BY QuotientRoom DEF Limits, Footprints
<1> DEFINE first == [v |-> c, by |-> "cpu"]
<1> DEFINE second == consider(first, qm, "memory")
<1> DEFINE third == consider(second, qp, "pids")
<1> DEFINE m == clamp(third.v, 1, AUTO_CEILING)
<1>5. compute(limits, fp) = [max_sessions |-> m, bound_by |-> third.by]
  BY <1>1 DEF compute
<1> HIDE DEF c, qm, qp
<1>6. /\ third.v \in Nat /\ third.by \in {"cpu", "memory", "pids"}
      /\ \A k \in Nat : k <= third.v <=> /\ k <= c /\ (qm = Unlimited \/ k <= qm)
                                         /\ (qp = Unlimited \/ k <= qp)
  <2> DEFINE labels == {"cpu", "memory", "pids"}
  <2>1. first \in [v : Nat, by : labels] /\ first.v = c
    BY <1>2
  <2>2. "memory" \in labels /\ "pids" \in labels
    OBVIOUS
  <2> HIDE DEF labels, first
  <2>3. /\ second \in [v : Nat, by : labels]
        /\ \A k \in Nat : k <= second.v <=> k <= c /\ (qm = Unlimited \/ k <= qm)
    BY <1>3, <2>1, <2>2, ConsideredLeast
  <2> HIDE DEF second
  <2>4. /\ third \in [v : Nat, by : labels]
        /\ \A k \in Nat : k <= third.v <=> k <= second.v /\ (qp = Unlimited \/ k <= qp)
    BY <1>4, <2>2, <2>3, ConsideredLeast
  <2> HIDE DEF third
  <2> QED BY <2>3, <2>4 DEF labels
<1> HIDE DEF third
<1>7. \A k \in Nat : Fits(limits, fp, k) <=> k <= AUTO_CEILING /\ k <= third.v
  BY <1>2, <1>3, <1>4, <1>6 DEF Fits
<1>8. m \in Nat \ {0} /\ m <= AUTO_CEILING /\ (m > 1 => m <= third.v)
  BY <1>6 DEF clamp
<1>9. ~(m + 1 <= AUTO_CEILING /\ m + 1 <= third.v)
  BY <1>6 DEF clamp
<1> HIDE DEF m
<1> QED BY <1>5, <1>6, <1>7, <1>8, <1>9

\* Limits that have room for a number of sessions have room for fewer.
LEMMA FitsFewer ==
    ASSUME NEW limits \in Limits, NEW fp \in Footprints,
           NEW m \in Nat, NEW k \in Nat, k <= m, Fits(limits, fp, m)
    PROVE  Fits(limits, fp, k)
<1>1. ASSUME NEW e \in Nat \ {0} PROVE k * e <= m * e
  <2>1. (m - k) * e >= 0
    OBVIOUS
  <2> QED BY <2>1
<1>2. limits.cpus \in Nat /\ Max({limits.cpus, 1}) \in Nat
  <2>1. limits.cpus \in Nat
    BY DEF Limits
  <2>2. CASE limits.cpus >= 1
    BY <2>1, <2>2, MaxIs
  <2>3. CASE ~(limits.cpus >= 1)
    BY <2>1, <2>3, MaxIs
  <2> QED BY <2>1, <2>2, <2>3
<1>3. ASSUME NEW limit \in Nat \cup {Unlimited}, NEW e \in Nat \ {0}, Room(limit, e, m)
      PROVE  Room(limit, e, k)
  <2>1. CASE limit = Unlimited
    BY <2>1 DEF Room
  <2>2. CASE limit # Unlimited
    <3>1. (limit \div 5) * 4 \in Nat /\ m * e <= (limit \div 5) * 4
      BY <1>3, <2>2 DEF Room, Unlimited
    <3>2. k * e <= m * e /\ k * e \in Nat /\ m * e \in Nat
      BY <1>1
    <3> QED BY <3>1, <3>2 DEF Room
  <2> QED BY <2>1, <2>2
<1>4. k <= AUTO_CEILING /\ k <= 2 * Max({limits.cpus, 1})
  BY <1>2, CapacityAssumption DEF Fits
<1> QED BY <1>3, <1>4 DEF Fits, Limits, Footprints

-----------------------------------------------------------------------------
(* The steps, and the pipe of a session.                                     *)

RampStep ==
    \/ create \/ setup_recording \/ wait_first_frame \/ SetupFails \/ Settled \/ HoldEnds
    \/ count_recording \/ destroy
SessionStep(s) ==
    drain_frames(s) \/ call_on(s) \/ TaskEnds(s) \/ Frame(s) \/ Acked(s) \/ Killed(s)

\* The steps of CalNext: those of calibrate, and those of a session.
LEMMA CalSteps ==
    ASSUME CalNext, ~Beside
    PROVE  RampStep \/ \E s \in Sessions : SessionStep(s)
BY DEF CalNext, Own, Task, Answers, FirstFrameTimeout, RampStep, SessionStep

Events == {"frame", "reply"}

\* What is left of a pipe when its first event is taken.
LEMMA TakeEvent ==
    ASSUME NEW q \in Seq(Events), q # <<>>
    PROVE  /\ Len(q) \in Nat \ {0} /\ Tail(q) \in Seq(Events) /\ Len(Tail(q)) = Len(q) - 1
           /\ OnlyFrames(q) => Head(q) = "frame" /\ OnlyFrames(Tail(q))
           /\ \A p \in 1..Len(q) : ReplyAt(q, p) =>
                 \/ p = 1 /\ Head(q) = "reply" /\ OnlyFrames(Tail(q))
                 \/ /\ p > 1 /\ Head(q) = "frame" /\ p - 1 \in 1..Len(Tail(q))
                    /\ ReplyAt(Tail(q), p - 1)
<1>1. /\ Len(q) \in Nat \ {0} /\ Tail(q) \in Seq(Events) /\ Len(Tail(q)) = Len(q) - 1
      /\ Head(q) = q[1] /\ \A i \in 1..(Len(q) - 1) : Tail(q)[i] = q[i + 1]
  BY HeadTailProperties, EmptySeq, LenProperties
<1>2. OnlyFrames(q) => Head(q) = "frame" /\ OnlyFrames(Tail(q))
  BY <1>1 DEF OnlyFrames
<1>3. ASSUME NEW p \in 1..Len(q), ReplyAt(q, p), p = 1
      PROVE  Head(q) = "reply" /\ OnlyFrames(Tail(q))
  BY <1>1, <1>3 DEF OnlyFrames, ReplyAt
<1>4. ASSUME NEW p \in 1..Len(q), ReplyAt(q, p), p # 1
      PROVE  /\ p > 1 /\ Head(q) = "frame" /\ p - 1 \in 1..Len(Tail(q))
             /\ ReplyAt(Tail(q), p - 1)
  <2>1. p > 1 /\ Head(q) = "frame" /\ p - 1 \in 1..Len(Tail(q))
    BY <1>1, <1>4 DEF ReplyAt
  <2>2. Tail(q)[p - 1] = "reply"
    BY <1>1, <1>4, <2>1 DEF ReplyAt
  <2>3. ASSUME NEW i \in 1..Len(Tail(q)), i # p - 1 PROVE Tail(q)[i] = "frame"
    BY <1>1, <1>4, <2>3 DEF ReplyAt
  <2> QED BY <2>1, <2>2, <2>3 DEF ReplyAt
<1> QED BY <1>1, <1>2, <1>3, <1>4

\* What a pipe holds when the browser has written to it.
LEMMA PutEvent ==
    ASSUME NEW q \in Seq(Events)
    PROVE  /\ Len(q) \in Nat
           /\ \A e \in Events : Append(q, e) \in Seq(Events) /\ Len(Append(q, e)) = Len(q) + 1
           /\ OnlyFrames(q) => OnlyFrames(Append(q, "frame"))
           /\ OnlyFrames(q) => ReplyAt(Append(q, "reply"), Len(q) + 1)
           /\ \A p \in 1..Len(q) : ReplyAt(q, p) => ReplyAt(Append(q, "frame"), p)
<1>1. Len(q) \in Nat
  BY LenProperties
<1>2. ASSUME NEW e \in Events
      PROVE  /\ Append(q, e) \in Seq(Events) /\ Len(Append(q, e)) = Len(q) + 1
             /\ \A i \in 1..Len(q) : Append(q, e)[i] = q[i]
             /\ Append(q, e)[Len(q) + 1] = e
  BY AppendProperties
<1>3. "frame" \in Events /\ "reply" \in Events
  BY DEF Events
<1>4. OnlyFrames(q) => OnlyFrames(Append(q, "frame"))
  BY <1>1, <1>2, <1>3 DEF OnlyFrames
<1>5. OnlyFrames(q) => ReplyAt(Append(q, "reply"), Len(q) + 1)
  BY <1>1, <1>2, <1>3 DEF OnlyFrames, ReplyAt
<1>6. \A p \in 1..Len(q) : ReplyAt(q, p) => ReplyAt(Append(q, "frame"), p)
  BY <1>1, <1>2, <1>3 DEF ReplyAt
<1> QED BY <1>1, <1>2, <1>4, <1>5, <1>6

\* An ack is on its way for a frame that is in flight.
LEMMA AckedInFlight ==
    ASSUME CalTypes, FlowInv, NEW s \in Sessions, ack[s]
    PROVE  task[s] = "acking" /\ inflight[s] - 1 \in 0..Window /\ Len(pipe[s]) <= inflight[s] - 1
<1>1. pipe[s] \in Seq(Events) /\ inflight[s] \in 0..Window
  BY DEF CalTypes, Events
<1>2. Len(pipe[s]) \in Nat
  BY <1>1, LenProperties
<1>3. task[s] = "acking" /\ Len(pipe[s]) < inflight[s]
  BY DEF FlowInv, Flow
<1> QED BY <1>1, <1>2, <1>3, CalibrateAssumption

-----------------------------------------------------------------------------
(* Types.                                                                    *)

Figures == [bytes : Nat, threads : Nat]
Bounds == {"none", "measured", "cpu", "memory", "pids"}

\* What a session's browser costs.
LEMMA OwnTypes ==
    ASSUME CalTypes, NEW s \in Sessions
    PROVE  /\ procs[s] = 0 => OwnBytes(s) = 0 /\ OwnThreads(s) = 0
           /\ procs[s] # 0 => /\ Browsers[procs[s]].footprint = [bytes |-> OwnBytes(s),
                                                                threads |-> OwnThreads(s)]
                              /\ OwnBytes(s) \in Nat \ {0} /\ OwnThreads(s) \in Nat \ {0}
           /\ OwnBytes(s) \in Nat /\ OwnThreads(s) \in Nat
<1>1. CASE procs[s] = 0
  BY <1>1 DEF OwnBytes, OwnThreads
<1>2. CASE procs[s] # 0
  <2>1. procs[s] \in DOMAIN Browsers
    BY <1>2 DEF CalTypes
  <2>2. Browsers[procs[s]].footprint \in [bytes : Nat \ {0}, threads : Nat \ {0}]
    BY <2>1, HostsAssumption
  <2> QED BY <1>2, <2>2 DEF OwnBytes, OwnThreads
<1> QED BY <1>1, <1>2

\* Max of two naturals.
LEMMA MaxOfTwo ==
    ASSUME NEW a \in Nat, NEW b \in Nat
    PROVE  Max({a, b}) = IF a >= b THEN a ELSE b
<1>1. CASE a >= b
  BY <1>1, MaxIs
<1>2. CASE ~(a >= b)
  BY <1>2, MaxIs
<1> QED BY <1>1, <1>2

\* The footprint at the end of a step of the ramp.
LEMMA SettledFootprint ==
    ASSUME CalTypes, LivesInv, Settled
    PROVE  /\ footprint' \in Figures
           /\ footprint'.bytes >= footprint.bytes /\ footprint'.threads >= footprint.threads
           /\ IF host.linux /\ browser[n] = "up"
              THEN /\ footprint'.bytes >= OwnBytes(n) /\ footprint'.threads >= OwnThreads(n)
                   /\ footprint'.bytes \in {footprint.bytes, OwnBytes(n)}
                   /\ footprint'.threads \in {footprint.threads, OwnThreads(n)}
              ELSE footprint' = footprint
<1> DEFINE new == IF host.linux /\ browser[n] = "up" THEN Browsers[procs[n]].footprint
                  ELSE NoFootprint
<1>1. footprint \in Figures /\ n \in Sessions
  BY DEF CalTypes, Figures
<1>2. new \in Figures /\ (host.linux /\ browser[n] = "up" =>
                             new = [bytes |-> OwnBytes(n), threads |-> OwnThreads(n)])
  <2>1. browser[n] = "up" => procs[n] # 0
    BY <1>1 DEF LivesInv, Lives
  <2> QED BY <1>1, <2>1, OwnTypes DEF NoFootprint, Figures
<1>3. footprint' = [bytes |-> Max({footprint.bytes, new.bytes}),
                    threads |-> Max({footprint.threads, new.threads})]
  BY DEF Settled, max_footprint
<1>4. ~(host.linux /\ browser[n] = "up") => new.bytes = 0 /\ new.threads = 0
  BY DEF NoFootprint
<1> HIDE DEF new
<1>5. /\ footprint.bytes \in Nat /\ footprint.threads \in Nat
      /\ new.bytes \in Nat /\ new.threads \in Nat
      /\ footprint = [bytes |-> footprint.bytes, threads |-> footprint.threads]
  BY <1>1, <1>2 DEF Figures
<1>6. /\ footprint'.bytes = IF footprint.bytes >= new.bytes THEN footprint.bytes ELSE new.bytes
      /\ footprint'.threads = IF footprint.threads >= new.threads THEN footprint.threads
                              ELSE new.threads
      /\ footprint' = [bytes |-> footprint'.bytes, threads |-> footprint'.threads]
  BY <1>3, <1>5, MaxOfTwo
<1>7. CASE host.linux /\ browser[n] = "up"
  <2>1. new.bytes = OwnBytes(n) /\ new.threads = OwnThreads(n)
    BY <1>2, <1>7
  <2> QED BY <1>5, <1>6, <1>7, <2>1 DEF Figures
<1>8. CASE ~(host.linux /\ browser[n] = "up")
  BY <1>4, <1>5, <1>6, <1>8 DEF Figures
<1> QED BY <1>7, <1>8

\* A ceiling that is derived from a count: the count, or what compute models.
LEMMA DerivedCeiling ==
    ASSUME CalTypes, NEW sustained \in Nat, NEW clean \in BOOLEAN,
           NEW cost \in Footprints, compute(host.limits, footprint) = compute(host.limits, cost)
    PROVE  LET m == derive_ceiling(sustained, clean).max_sessions
               by == derive_ceiling(sustained, clean).bound_by IN
           /\ derive_ceiling(sustained, clean) \in [max_sessions : Nat, bound_by : Bounds]
           /\ m >= 1 /\ by # "none"
           /\ ~clean => by = "measured" /\ m = Max({sustained, 1})
           /\ clean => /\ by # "measured" /\ m >= sustained
                       /\ m > 1 /\ m > sustained => Fits(host.limits, cost, m)
                       /\ ~Fits(host.limits, cost, m + 1)
<1> DEFINE c == compute(host.limits, cost)
<1> DEFINE m == c.max_sessions
<1>1. host.limits \in Limits
  BY HostsAssumption DEF CalTypes, Limits
<1>2. /\ m \in Nat \ {0} /\ c.bound_by \in {"cpu", "memory", "pids"}
      /\ m > 1 => Fits(host.limits, cost, m)
      /\ ~Fits(host.limits, cost, m + 1)
  BY <1>1, ComputeIsLargest
<1>3. c = [max_sessions |-> m, bound_by |-> c.bound_by]
  BY DEF compute
<1>4. CASE ~clean
  <2>1. derive_ceiling(sustained, clean) = [max_sessions |-> Max({sustained, 1}),
                                            bound_by |-> "measured"]
    BY <1>4 DEF derive_ceiling
  <2>2. Max({sustained, 1}) \in Nat /\ Max({sustained, 1}) >= 1
    BY MaxOfTwo
  <2> QED BY <1>4, <2>1, <2>2 DEF Bounds
<1>5. CASE clean
  <2> DEFINE top == Max({m, sustained, 1})
  <2>1. derive_ceiling(sustained, clean) = [max_sessions |-> top, bound_by |-> c.bound_by]
    BY <1>3, <1>5 DEF derive_ceiling
  <2>2. top = IF m >= sustained THEN m ELSE sustained
    <3>1. CASE m >= sustained
      BY <1>2, <3>1, MaxIs
    <3>2. CASE ~(m >= sustained)
      BY <1>2, <3>2, MaxIs
    <3> QED BY <3>1, <3>2
  <2> HIDE DEF c, m, top
  <2>3. top \in Nat /\ top >= 1 /\ top >= sustained /\ top >= m
    BY <1>2, <2>2
  <2>4. top > sustained => top = m
    BY <1>2, <2>2
  <2>5. ~Fits(host.limits, cost, top + 1)
    <3>1. ASSUME Fits(host.limits, cost, top + 1) PROVE Fits(host.limits, cost, m + 1)
      BY <1>1, <1>2, <2>3, <3>1, FitsFewer
    <3> QED BY <3>1, <1>2
  <2>6. top > 1 /\ top > sustained => Fits(host.limits, cost, top)
    BY <1>2, <2>4
  <2>7. /\ derive_ceiling(sustained, clean).max_sessions = top
        /\ derive_ceiling(sustained, clean).bound_by = c.bound_by
    BY <2>1
  <2>8. /\ c.bound_by \in Bounds \ {"none", "measured"}
        /\ derive_ceiling(sustained, clean) \in [max_sessions : Nat, bound_by : Bounds]
    BY <1>2, <2>1, <2>3 DEF Bounds, c, m
  <2> QED BY <1>5, <2>3, <2>5, <2>6, <2>7, <2>8
<1> QED BY <1>4, <1>5

\* A set of held sessions is finite, and no larger than what it is taken from.
LEMMA HeldIsFinite ==
    ASSUME held \subseteq Sessions
    PROVE  /\ IsFiniteSet(held) /\ Cardinality(held) \in Nat
           /\ Cardinality({s \in held : advanced[s]}) \in Nat
           /\ Cardinality({s \in held : advanced[s]}) = Cardinality(held) =>
                 \A s \in held : advanced[s]
<1>1. IsFiniteSet(Sessions)
  BY FS_Interval, CalibrateAssumption DEF Sessions
<1>2. IsFiniteSet(held)
  BY <1>1, FS_Subset
<1>3. {s \in held : advanced[s]} \subseteq held
  OBVIOUS
<1>4. IsFiniteSet({s \in held : advanced[s]})
  BY <1>2, <1>3, FS_Subset
<1>5. Cardinality({s \in held : advanced[s]}) = Cardinality(held) =>
          {s \in held : advanced[s]} = held
  BY <1>2, <1>3, FS_Subset
<1> QED BY <1>2, <1>4, <1>5, FS_CardinalityType

\* The session that the loop of destroy takes next is one that is held.
LEMMA LeastHeld ==
    ASSUME held \subseteq Sessions, held # {}
    PROVE  Min(held) \in held
<1>1. held \subseteq Nat
  BY CalibrateAssumption DEF Sessions
<1>2. PICK k \in held : \A j \in held : k <= j
  BY <1>1, LeastNumber
<1> QED BY <1>2, Zenon DEF Min

\* compute's cost of a session: what was measured, or the estimate.
LEMMA CostOfFootprint ==
    ASSUME CalTypes, MeterInv
    PROVE  \E cost \in Footprints :
              /\ compute(host.limits, footprint) = compute(host.limits, cost)
              /\ footprint = NoFootprint => cost = SESSION_ESTIMATE
              /\ footprint # NoFootprint => cost = footprint
<1>1. SESSION_ESTIMATE \in Footprints /\ SESSION_ESTIMATE # NoFootprint
  BY CapacityAssumption DEF Footprints, NoFootprint
<1>2. CASE footprint = NoFootprint
  BY <1>1, <1>2 DEF compute
<1>3. CASE footprint # NoFootprint
  <2>1. footprint \in Footprints
    BY <1>3 DEF CalTypes, MeterInv, Footprints, NoFootprint
  <2> QED BY <1>3, <2>1
<1> QED BY <1>2, <1>3

\* Types: every action of calibrate.
LEMMA RampTypes ==
    ASSUME CalInv, RampStep
    PROVE  CalTypes'
<1> USE CalibrateAssumption DEF CalStages, Sessions
<1>0. /\ CalTypes /\ RampInv /\ LivesInv /\ FlowInv /\ MeterInv
      /\ n \in 1..RAMP_CAP /\ held \subseteq 1..RAMP_CAP
  BY DEF CalInv, CalTypes
<1>1. CASE create
  <2>1. CASE RampFails /\ UNCHANGED <<host, beside, procs, browser, cast>>
    BY <1>0, <2>1 DEF CalTypes, RampFails, cast
  <2>2. CASE stage' = "setup" /\ \E table \in DOMAIN Browsers :
                procs' = [procs EXCEPT ![n] = table] /\ browser' = [browser EXCEPT ![n] = "up"]
    <3>1. UNCHANGED <<host, beside, ramp, cast>>
      BY <1>1, <2>2 DEF create, RampFails
    <3>2. procs' \in [Sessions -> {0} \cup DOMAIN Browsers]
      BY <1>0, <2>2 DEF CalTypes
    <3>3. browser' \in [Sessions -> {"none", "up", "gone"}]
      BY <1>0, <2>2 DEF CalTypes
    <3> QED BY <1>0, <2>2, <3>1, <3>2, <3>3 DEF CalTypes, ramp, cast
  <2> QED BY <1>1, <2>1, <2>2 DEF create
<1>2. CASE setup_recording
  BY <1>0, <1>2 DEF CalTypes, setup_recording, ramp, cast
<1>3. CASE wait_first_frame
  <2>1. Tail(pipe[n]) \in Seq(Events)
    BY <1>0, <1>3, TakeEvent DEF CalTypes, Events, wait_first_frame
  <2> QED BY <1>0, <1>3, <2>1 DEF CalTypes, Events, wait_first_frame, Started
<1>4. CASE SetupFails
  BY <1>0, <1>4 DEF CalTypes, SetupFails, RampFails, cast
<1>5. CASE Settled
  <2>1. footprint' \in Figures
    BY <1>0, <1>5, SettledFootprint
  <2>2. n' \in 1..RAMP_CAP /\ stage' \in CalStages /\ stop' \in {"LaunchFailed", "MemoryLine", "Cap"}
    <3>1. /\ n \in 1..RAMP_CAP /\ stop \in {"LaunchFailed", "MemoryLine", "Cap"}
          /\ n' = n \/ (n < RAMP_CAP /\ n' = n + 1)
          /\ stage' \in {"hold", "create"} /\ stop' \in {stop, "MemoryLine"}
      BY <1>0, <1>5 DEF CalTypes, Settled
    <3> QED BY <3>1, CalibrateAssumption DEF CalStages
  <2>3. UNCHANGED <<host, beside, held, ceiling, procs, browser, cast>>
    BY <1>5 DEF Settled
  <2> QED BY <1>0, <2>1, <2>2, <2>3 DEF CalTypes, Figures, cast
<1>6. CASE HoldEnds
  BY <1>0, <1>6 DEF CalTypes, HoldEnds, ramp
<1>7. CASE count_recording
  <2> DEFINE sustained == Cardinality({s \in held : advanced[s]})
  <2> DEFINE clean == stop = "Cap" /\ sustained = Cardinality(held)
  <2>1. sustained \in Nat
    BY <1>0, HeldIsFinite
  <2>2. ceiling' = derive_ceiling(sustained, clean)
    BY <1>7 DEF count_recording
  <2>3. PICK cost \in Footprints : compute(host.limits, footprint) = compute(host.limits, cost)
    BY <1>0, CostOfFootprint
  <2> HIDE DEF sustained
  <2>4. derive_ceiling(sustained, clean) \in [max_sessions : Nat, bound_by : Bounds]
    BY <1>0, <2>1, <2>3, DerivedCeiling
  <2> QED BY <1>0, <1>7, <2>2, <2>4 DEF CalTypes, Bounds, count_recording, cast
<1>8. CASE destroy
  <2>1. held # {} => Min(held) \in held
    BY <1>0, LeastHeld
  <2> QED BY <1>0, <1>8, <2>1 DEF CalTypes, destroy, cast
<1> QED BY <1>1, <1>2, <1>3, <1>4, <1>5, <1>6, <1>7, <1>8 DEF RampStep

\* Types: every action of a session.
LEMMA SessionTypes ==
    ASSUME CalInv, NEW s \in Sessions, SessionStep(s)
    PROVE  CalTypes'
<1> USE CalibrateAssumption
<1>0. CalTypes /\ FlowInv /\ pipe[s] \in Seq(Events) /\ inflight[s] \in 0..Window
  BY DEF CalInv, CalTypes, Events
<1>1. pipe[s] # <<>> => Tail(pipe[s]) \in Seq(Events)
  BY <1>0, TakeEvent
<1>2. \A e \in Events : Append(pipe[s], e) \in Seq(Events)
  BY <1>0, PutEvent
<1>3. CASE drain_frames(s)
  BY <1>0, <1>1, <1>3 DEF CalTypes, Events, drain_frames, ramp
<1>4. CASE call_on(s)
  BY <1>0, <1>1, <1>4 DEF CalTypes, Events, call_on, ramp
<1>5. CASE TaskEnds(s)
  BY <1>0, <1>5 DEF CalTypes, TaskEnds, ramp
<1>6. CASE Frame(s)
  BY <1>0, <1>2, <1>6 DEF CalTypes, Events, Frame, ramp
<1>7. CASE Acked(s)
  <2>1. inflight[s] - 1 \in 0..Window
    BY <1>0, <1>7, AckedInFlight DEF Acked
  <2> QED BY <1>0, <1>2, <1>7, <2>1 DEF CalTypes, Events, Acked, ramp
<1>8. CASE Killed(s)
  BY <1>0, <1>8 DEF CalTypes, Killed, ramp, cast
<1> QED BY <1>3, <1>4, <1>5, <1>6, <1>7, <1>8 DEF SessionStep

-----------------------------------------------------------------------------
(* Who is held, who lives, who is waited for.                                *)

\* RampInv: an action of a session touches none of it.
LEMMA RampKept ==
    ASSUME CalInv, RampStep \/ \E s \in Sessions : SessionStep(s)
    PROVE  RampInv'
<1> USE CalibrateAssumption DEF Sessions, Ramping
<1>0. CalTypes /\ RampInv /\ n \in 1..RAMP_CAP
  BY DEF CalInv, CalTypes
<1>1. CASE create
  BY <1>0, <1>1 DEF RampInv, create, RampFails, ramp
<1>2. CASE setup_recording
  BY <1>0, <1>2 DEF RampInv, setup_recording, ramp
<1>3. CASE wait_first_frame
  BY <1>0, <1>3 DEF RampInv, wait_first_frame, Started
<1>4. CASE SetupFails
  BY <1>0, <1>4 DEF RampInv, SetupFails, RampFails
<1>5. CASE Settled
  BY <1>0, <1>5 DEF RampInv, Settled
<1>6. CASE HoldEnds
  BY <1>0, <1>6 DEF RampInv, HoldEnds, ramp
<1>7. CASE count_recording
  BY <1>0, <1>7 DEF RampInv, count_recording
<1>8. CASE destroy
  BY <1>0, <1>8 DEF RampInv, destroy
<1>9. CASE \E s \in Sessions : SessionStep(s)
  <2>1. UNCHANGED <<stage, ramp>>
    BY <1>9 DEF SessionStep, drain_frames, call_on, TaskEnds, Frame, Acked, Killed
  <2> QED BY <1>0, <2>1 DEF RampInv, ramp
<1> QED BY <1>1, <1>2, <1>3, <1>4, <1>5, <1>6, <1>7, <1>8, <1>9 DEF RampStep

\* LivesInv: every action of calibrate.
LEMMA RampLives ==
    ASSUME CalInv, RampStep
    PROVE  LivesInv'
<1> USE CalibrateAssumption
<1> SUFFICES ASSUME NEW s \in Sessions PROVE Lives(s)'
  BY DEF LivesInv
<1>0. /\ CalTypes /\ RampInv /\ Lives(s) /\ s \in Nat /\ n \in Nat /\ n \in Sessions
      /\ held \subseteq Sessions
  BY DEF CalInv, CalTypes, LivesInv, Sessions
<1>1. CASE create
  <2>1. CASE RampFails /\ UNCHANGED <<host, beside, procs, browser, cast>>
    BY <1>0, <1>1, <2>1 DEF Lives, create, RampFails, cast
  <2>2. CASE stage' = "setup" /\ \E table \in DOMAIN Browsers :
                procs' = [procs EXCEPT ![n] = table] /\ browser' = [browser EXCEPT ![n] = "up"]
    <3>1. UNCHANGED <<host, beside, ramp, cast>> /\ stage = "create"
      BY <1>1, <2>2 DEF create, RampFails
    <3>2. held = 1..(n - 1)
      BY <1>0, <3>1 DEF RampInv
    <3>3. CASE s = n
      <4>1. procs'[s] # 0 /\ browser'[s] = "up" /\ browser[s] = "none"
        BY <1>0, <2>2, <3>1, <3>3, HostsAssumption DEF Lives, CalTypes
      <4> QED BY <1>0, <2>2, <3>1, <3>2, <3>3, <4>1 DEF Lives, ramp, cast
    <3>4. CASE s # n
      <4>1. procs'[s] = procs[s] /\ browser'[s] = browser[s]
        BY <1>0, <2>2, <3>4 DEF CalTypes
      <4> QED BY <1>0, <2>2, <3>1, <3>2, <3>4, <4>1 DEF Lives, ramp, cast
    <3> QED BY <3>3, <3>4
  <2> QED BY <1>1, <2>1, <2>2 DEF create
<1>2. CASE setup_recording
  BY <1>0, <1>2 DEF Lives, setup_recording, ramp, cast
<1>3. CASE wait_first_frame
  BY <1>0, <1>3 DEF CalTypes, Lives, RampInv, wait_first_frame, Started
<1>4. CASE SetupFails
  <2>1. held = 1..(n - 1) /\ n \notin held
    BY <1>0, <1>4 DEF RampInv, SetupFails
  <2> QED BY <1>0, <1>4, <2>1 DEF CalTypes, Lives, SetupFails, RampFails, cast
<1>5. CASE Settled
  BY <1>0, <1>5 DEF Lives, RampInv, Settled, cast
<1>6. CASE HoldEnds
  BY <1>0, <1>6 DEF Lives, HoldEnds, ramp
<1>7. CASE count_recording
  BY <1>0, <1>7 DEF Lives, count_recording, cast
<1>8. CASE destroy
  <2>1. held # {} => Min(held) \in held
    BY <1>0, LeastHeld
  <2>2. CASE held = {}
    BY <1>0, <1>8, <2>2 DEF Lives, destroy, cast
  <2>3. CASE held # {}
    BY <1>0, <1>8, <2>1, <2>3 DEF CalTypes, Lives, destroy, cast
  <2> QED BY <2>2, <2>3
<1> QED BY <1>1, <1>2, <1>3, <1>4, <1>5, <1>6, <1>7, <1>8 DEF RampStep

\* LivesInv: every action of a session.
LEMMA SessionLives ==
    ASSUME CalInv, NEW r \in Sessions, SessionStep(r)
    PROVE  LivesInv'
<1> SUFFICES ASSUME NEW s \in Sessions PROVE Lives(s)'
  BY DEF LivesInv
<1>0. CalTypes /\ Lives(s) /\ Lives(r)
  BY DEF CalInv, LivesInv
<1>1. CASE drain_frames(r)
  BY <1>0, <1>1 DEF CalTypes, Lives, drain_frames, ramp
<1>2. CASE call_on(r)
  BY <1>0, <1>2 DEF CalTypes, Lives, call_on, ramp
<1>3. CASE TaskEnds(r)
  <2>1. browser[r] = "gone"
    BY <1>0, <1>3 DEF CalTypes, Lives, TaskEnds, Cancelled
  <2> QED BY <1>0, <1>3, <2>1 DEF CalTypes, Lives, TaskEnds, ramp
<1>4. CASE Frame(r)
  BY <1>0, <1>4 DEF CalTypes, Lives, Frame, ramp
<1>5. CASE Acked(r)
  BY <1>0, <1>5 DEF CalTypes, Lives, Acked, ramp
<1>6. CASE Killed(r)
  BY <1>0, <1>6 DEF CalTypes, Lives, Killed, ramp, cast
<1> QED BY <1>1, <1>2, <1>3, <1>4, <1>5, <1>6 DEF SessionStep

-----------------------------------------------------------------------------
(* What is in flight.                                                        *)

\* FlowInv: of calibrate's actions, only wait_first_frame takes a frame.
LEMMA RampFlow ==
    ASSUME CalInv, RampStep
    PROVE  FlowInv'
<1> USE CalibrateAssumption
<1> SUFFICES ASSUME NEW s \in Sessions PROVE Flow(s)'
  BY DEF FlowInv
<1>0. CalTypes /\ RampInv /\ LivesInv /\ Flow(s) /\ n \in Sessions
  BY DEF CalInv, CalTypes, FlowInv
<1>1. CASE wait_first_frame
  <2>1. stage = "frame" /\ held = 1..(n - 1) /\ n \notin held
    BY <1>0, <1>1 DEF wait_first_frame, RampInv, Sessions
  <2>2. task[n] = "none" /\ Flow(n)
    BY <1>0, <2>1 DEF LivesInv, Lives, CalInv, FlowInv
  <2>3. pipe[n] \in Seq(Events) /\ inflight[n] \in 0..Window /\ pipe[n] # <<>>
    BY <1>0, <1>1 DEF CalTypes, Events, wait_first_frame
  <2>4. CASE s = n
    <3> DEFINE q == pipe[n]
    <3>1. /\ Len(q) \in Nat \ {0} /\ Len(Tail(q)) = Len(q) - 1
          /\ OnlyFrames(Tail(q)) /\ inflight[n] = Len(q) /\ ~ack[n]
      BY <2>2, <2>3, TakeEvent DEF Flow
    <3>2. pipe'[s] = Tail(q) /\ task'[s] = "recv" /\ inflight'[s] = inflight[n] /\ ack'[s] = ack[n]
      BY <1>0, <1>1, <2>4 DEF wait_first_frame, Started, CalTypes
    <3> HIDE DEF q
    <3> QED BY <3>1, <3>2 DEF Flow
  <2>5. CASE s # n
    <3>1. UNCHANGED <<pipe[s], task[s], inflight[s], ack[s]>>
      BY <1>0, <1>1, <2>5 DEF wait_first_frame, Started, CalTypes
    <3> QED BY <1>0, <3>1 DEF Flow
  <2> QED BY <2>4, <2>5
<1>2. CASE ~wait_first_frame
  <2>1. UNCHANGED <<pipe, task, inflight, ack>>
    BY <1>2 DEF RampStep, create, setup_recording, SetupFails, Settled, HoldEnds,
                count_recording, destroy, cast
  <2> QED BY <1>0, <2>1 DEF Flow
<1> QED BY <1>1, <1>2

\* FlowInv: every action of a session.
LEMMA SessionFlow ==
    ASSUME CalInv, NEW r \in Sessions, SessionStep(r)
    PROVE  FlowInv'
<1> USE CalibrateAssumption
<1>0. CalTypes /\ LivesInv /\ FlowInv
  BY DEF CalInv
<1>1. ASSUME NEW s \in Sessions, s # r PROVE Flow(s)'
  <2>1. UNCHANGED <<pipe[s], task[s], inflight[s], ack[s]>>
    BY <1>0, <1>1 DEF SessionStep, drain_frames, call_on, TaskEnds, Frame, Acked, Killed,
                      CalTypes, cast
  <2> QED BY <1>0, <2>1 DEF FlowInv, Flow
<1> SUFFICES Flow(r)'
  BY <1>1 DEF FlowInv
<1> DEFINE q == pipe[r]
<1>2. /\ q \in Seq(Events) /\ Len(q) \in Nat /\ inflight[r] \in 0..Window /\ Flow(r)
      /\ inflight[r] \in Int /\ Window \in Nat \ {0}
  BY <1>0, LenProperties DEF CalTypes, Events, FlowInv
<1>3. q # <<>> =>
          /\ Len(q) \in Nat \ {0} /\ Tail(q) \in Seq(Events) /\ Len(Tail(q)) = Len(q) - 1
          /\ OnlyFrames(q) => Head(q) = "frame" /\ OnlyFrames(Tail(q))
          /\ \A p \in 1..Len(q) : ReplyAt(q, p) =>
                \/ p = 1 /\ Head(q) = "reply" /\ OnlyFrames(Tail(q))
                \/ /\ p > 1 /\ Head(q) = "frame" /\ p - 1 \in 1..Len(Tail(q))
                   /\ ReplyAt(Tail(q), p - 1)
  BY <1>2, TakeEvent
<1>4. /\ Len(Append(q, "frame")) = Len(q) + 1 /\ Len(Append(q, "reply")) = Len(q) + 1
      /\ OnlyFrames(q) => OnlyFrames(Append(q, "frame"))
      /\ OnlyFrames(q) => ReplyAt(Append(q, "reply"), Len(q) + 1)
      /\ \A p \in 1..Len(q) : ReplyAt(q, p) => ReplyAt(Append(q, "frame"), p)
  <2>1. "frame" \in Events /\ "reply" \in Events
    BY DEF Events
  <2> QED BY <1>2, <2>1, PutEvent
<1>5. CASE drain_frames(r)
  <2>1. /\ q # <<>> /\ task[r] = "recv" /\ pipe'[r] = Tail(q) /\ inflight'[r] = inflight[r]
        /\ Head(q) = "frame" => task'[r] = "acking" /\ ack'[r]
    BY <1>0, <1>5 DEF drain_frames, CalTypes
  <2> HIDE DEF q
  <2>2. OnlyFrames(q) /\ Len(q) <= inflight[r]
    BY <1>2, <2>1 DEF Flow, q
  <2> QED BY <1>2, <1>3, <2>1, <2>2 DEF Flow
<1>6. CASE call_on(r)
  <2>1. /\ q # <<>> /\ task[r] = "acking" /\ pipe'[r] = Tail(q) /\ inflight'[r] = inflight[r]
        /\ ack'[r] = ack[r] /\ task'[r] = IF Head(q) = "reply" THEN "recv" ELSE "acking"
    BY <1>0, <1>6 DEF call_on, CalTypes
  <2>2. ack[r] \in BOOLEAN
    BY <1>0 DEF CalTypes
  <2>3. CASE ack[r]
    <3>1. OnlyFrames(q) /\ Len(q) < inflight[r]
      BY <1>2, <2>3 DEF Flow
    <3> HIDE DEF q
    <3> QED BY <1>2, <1>3, <2>1, <2>3, <3>1 DEF Flow
  <2>4. CASE ~ack[r]
    <3>1. PICK p \in 1..Len(q) : /\ ReplyAt(q, p) /\ Len(q) - 1 <= inflight[r]
                                 /\ inflight[r] - Len(q) + p < Window
      BY <1>2, <2>1, <2>4 DEF Flow
    <3> HIDE DEF q
    <3>2. CASE p = 1 /\ Head(q) = "reply" /\ OnlyFrames(Tail(q))
      <4>1. Len(Tail(q)) <= inflight[r] /\ inflight[r] - Len(Tail(q)) < Window
        BY <1>2, <1>3, <2>1, <3>1, <3>2
      <4> QED BY <2>1, <2>4, <3>2, <4>1 DEF Flow
    <3>3. CASE /\ p > 1 /\ Head(q) = "frame" /\ p - 1 \in 1..Len(Tail(q))
               /\ ReplyAt(Tail(q), p - 1)
      <4>1. /\ Len(Tail(q)) - 1 <= inflight[r]
            /\ inflight[r] - Len(Tail(q)) + (p - 1) < Window
        BY <1>2, <1>3, <2>1, <3>1, <3>3
      <4> QED BY <2>1, <2>4, <3>3, <4>1 DEF Flow
    <3> QED BY <1>3, <2>1, <3>1, <3>2, <3>3
  <2> QED BY <2>3, <2>4
<1>7. CASE TaskEnds(r)
  BY <1>0, <1>7 DEF TaskEnds, CalTypes, Flow
<1>8. CASE Frame(r)
  <2>1. /\ pipe'[r] = Append(q, "frame") /\ inflight'[r] = inflight[r] + 1
        /\ task'[r] = task[r] /\ ack'[r] = ack[r] /\ inflight[r] < Window
    BY <1>0, <1>8 DEF Frame, CalTypes
  <2>2. task[r] \in {"none", "recv", "acking", "ended"} /\ ack[r] \in BOOLEAN
    BY <1>0 DEF CalTypes
  <2>3. CASE task[r] = "acking" /\ ~ack[r]
    <3>1. PICK p \in 1..Len(q) : /\ ReplyAt(q, p) /\ Len(q) - 1 <= inflight[r]
                                 /\ inflight[r] - Len(q) + p < Window
      BY <1>2, <2>3 DEF Flow
    <3> DEFINE q2 == Append(q, "frame")
    <3> HIDE DEF q
    <3>2. /\ p \in 1..Len(q2) /\ ReplyAt(q2, p) /\ Len(q2) - 1 <= inflight[r] + 1
          /\ (inflight[r] + 1) - Len(q2) + p < Window
      BY <1>2, <1>4, <3>1
    <3> HIDE DEF q2
    <3> QED BY <2>1, <2>3, <3>2 DEF Flow, q2
  <2>4. CASE ~(task[r] = "acking" /\ ~ack[r])
    <3>1. OnlyFrames(q) => OnlyFrames(Append(q, "frame"))
      BY <1>4
    <3> QED BY <1>2, <1>4, <2>1, <2>2, <2>4, <3>1 DEF Flow
  <2> QED BY <2>3, <2>4
<1>9. CASE Acked(r)
  <2>1. /\ pipe'[r] = Append(q, "reply") /\ inflight'[r] = inflight[r] - 1
        /\ task'[r] = task[r] /\ ~ack'[r] /\ ack[r]
    BY <1>0, <1>9 DEF Acked, CalTypes
  <2>2. task[r] = "acking" /\ OnlyFrames(q) /\ Len(q) < inflight[r]
    BY <1>2, <2>1 DEF Flow
  <2> DEFINE q2 == Append(q, "reply")
  <2> HIDE DEF q
  <2>3. /\ Len(q) + 1 \in 1..Len(q2) /\ ReplyAt(q2, Len(q) + 1)
        /\ Len(q2) - 1 <= inflight[r] - 1
        /\ (inflight[r] - 1) - Len(q2) + (Len(q) + 1) < Window
    BY <1>2, <1>4, <2>2
  <2> HIDE DEF q2
  <2> QED BY <2>1, <2>2, <2>3 DEF Flow, q2
<1>10. CASE Killed(r)
  BY <1>0, <1>10 DEF Killed, cast, FlowInv, Flow
<1> QED BY <1>5, <1>6, <1>7, <1>8, <1>9, <1>10 DEF SessionStep

-----------------------------------------------------------------------------
(* What was measured, and what is used.                                      *)

\* A session's cost is known when it is launched, and does not change.
LEMMA CostsKept ==
    ASSUME CalInv, RampStep \/ \E s \in Sessions : SessionStep(s), NEW s \in Sessions,
           create => s # n
    PROVE  OwnBytes(s)' = OwnBytes(s) /\ OwnThreads(s)' = OwnThreads(s) /\ host' = host
<1>1. host' = host
  BY DEF RampStep, SessionStep, create, setup_recording, wait_first_frame, SetupFails, Settled,
         HoldEnds, count_recording, destroy, drain_frames, call_on, TaskEnds, Frame, Acked, Killed
<1>2. CASE create
  <2>1. procs'[s] = procs[s]
    BY <1>2 DEF create, CalInv, CalTypes
  <2> QED BY <1>1, <2>1 DEF OwnBytes, OwnThreads
<1>3. CASE ~create
  <2>1. procs' = procs
    BY <1>3 DEF RampStep, SessionStep, setup_recording, wait_first_frame, SetupFails, Settled,
         HoldEnds, count_recording, destroy, drain_frames, call_on, TaskEnds, Frame, Acked, Killed
  <2> QED BY <1>1, <2>1 DEF OwnBytes, OwnThreads
<1> QED BY <1>2, <1>3

\* MeterInv: what does not measure, and does not bring back the dead.
LEMMA MeterKept ==
    ASSUME CalInv, RampStep \/ \E s \in Sessions : SessionStep(s), ~Settled
    PROVE  MeterInv'
<1> USE CalibrateAssumption
<1>0. /\ CalTypes /\ RampInv /\ LivesInv /\ MeterInv /\ n \in Sessions
      /\ \A s \in Sessions : s \in Nat /\ Lives(s)
      /\ n \in Nat /\ \A s \in 1..n : s \in Sessions
  BY DEF CalInv, CalTypes, LivesInv, Sessions
<1>1. UNCHANGED <<footprint, n, host>>
  BY DEF RampStep, SessionStep, create, setup_recording, wait_first_frame, SetupFails,
         HoldEnds, count_recording, destroy, drain_frames, call_on, TaskEnds, Frame, Acked,
         Killed, ramp, RampFails, Started
<1>2. ASSUME NEW s \in Sessions, OwnBytes(s) # 0 \/ OwnThreads(s) # 0
      PROVE  OwnBytes(s)' = OwnBytes(s) /\ OwnThreads(s)' = OwnThreads(s)
  <2>1. procs[s] # 0
    BY <1>0, <1>2, OwnTypes
  <2>2. create => s # n
    BY <1>0, <2>1 DEF Lives, create
  <2> QED BY <2>2, CostsKept
<1>3. footprint.bytes = 0 \/ \E s \in 1..n : footprint.bytes = OwnBytes(s)'
  BY <1>0, <1>2 DEF MeterInv
<1>4. footprint.threads = 0 \/ \E s \in 1..n : footprint.threads = OwnThreads(s)'
  BY <1>0, <1>2 DEF MeterInv
<1>5. ASSUME host.linux, NEW s \in held'
      PROVE  /\ browser'[s] = "up" /\ ~(stage' = "settle" /\ s = n) => Covered(s)'
             /\ stage' = "probe" /\ ~Covered(s)' => pipe'[s] = <<>> /\ ~advanced'[s]
  <2>1. held' \subseteq held \cup {n} /\ s \in Sessions /\ (s \notin held => wait_first_frame)
    <3>1. CASE wait_first_frame
      BY <1>0, <1>5, <3>1 DEF wait_first_frame, Started, CalTypes
    <3>2. CASE destroy
      BY <1>0, <1>5, <3>2 DEF destroy, CalTypes
    <3>3. CASE ~wait_first_frame /\ ~destroy
      <4>1. held' = held
        BY <3>3 DEF RampStep, SessionStep, create, setup_recording, SetupFails, HoldEnds,
             count_recording, drain_frames, call_on, TaskEnds, Frame, Acked, Killed, ramp,
             RampFails
      <4> QED BY <1>0, <1>5, <4>1 DEF CalTypes
    <3> QED BY <3>1, <3>2, <3>3
  <2>2. create => s # n
    BY <1>0, <2>1 DEF create, wait_first_frame, Lives
  <2>3. Covered(s)' <=> Covered(s)
    BY <1>1, <2>1, <2>2, CostsKept DEF Covered
  <2>4. browser'[s] = "up" => browser[s] = "up"
    BY <1>0, <2>1, <2>2 DEF RampStep, SessionStep, create, setup_recording, wait_first_frame,
         SetupFails, HoldEnds, count_recording, destroy, drain_frames, call_on, TaskEnds, Frame,
         Acked, Killed, CalTypes, ramp, RampFails, Started
  <2>5. CASE wait_first_frame
    BY <1>0, <1>1, <1>5, <2>1, <2>3, <2>4, <2>5 DEF wait_first_frame, Started, MeterInv
  <2>6. CASE HoldEnds
    <3>1. s \in held /\ stage = "hold" /\ (browser[s] = "gone" => pipe[s] = <<>>)
      BY <2>6 DEF HoldEnds, ramp
    <3>2. browser[s] = "up" => Covered(s)
      BY <1>0, <1>5, <3>1 DEF MeterInv
    <3>3. browser[s] \in {"up", "gone"}
      BY <1>0, <2>1, <3>1 DEF Lives, CalTypes
    <3>4. ~advanced'[s] /\ pipe'[s] = pipe[s]
      BY <2>1, <2>6 DEF HoldEnds
    <3> QED BY <2>3, <2>4, <3>1, <3>2, <3>3, <3>4
  <2>7. CASE ~wait_first_frame /\ ~HoldEnds
    <3>1. s \in held /\ (stage' = "settle" => stage = "settle") /\ (stage' = "probe" => stage = "probe")
      BY <2>1, <2>7 DEF RampStep, SessionStep, create, setup_recording, SetupFails,
         count_recording, destroy, drain_frames, call_on, TaskEnds, Frame, Acked,
         Killed, RampFails
    <3>2. browser'[s] = "up" /\ ~(stage' = "settle" /\ s = n) => Covered(s)
      <4>1. stage = "settle" /\ browser'[s] = "up" => stage' = "settle"
        BY <2>7 DEF RampStep, SessionStep, create, setup_recording, SetupFails,
         count_recording, destroy, drain_frames, call_on, TaskEnds, Frame, Acked,
         Killed, RampFails
      <4> QED BY <1>0, <1>5, <2>4, <3>1, <4>1 DEF MeterInv
    <3>3. ASSUME stage' = "probe", ~Covered(s) PROVE pipe'[s] = <<>> /\ ~advanced'[s]
      <4>1. pipe[s] = <<>> /\ ~advanced[s] /\ browser[s] # "up" /\ stage = "probe"
        BY <1>0, <1>5, <3>1, <3>3 DEF MeterInv
      <4>2. CASE RampStep
        BY <2>7, <3>3, <4>1, <4>2 DEF RampStep, create, setup_recording, SetupFails,
                 count_recording, destroy, cast
      <4>3. ASSUME NEW r \in Sessions, SessionStep(r) PROVE pipe'[s] = <<>> /\ ~advanced'[s]
        <5>1. CASE Frame(r) \/ Acked(r)
          <6>1. r # s
            BY <4>1, <5>1, <1>0 DEF Frame, Casting, Acked, CalTypes
          <6>2. advanced' = advanced /\ \E e : pipe' = [pipe EXCEPT ![r] = e]
            BY <5>1 DEF Frame, Acked
          <6> QED BY <1>0, <2>1, <4>1, <6>1, <6>2 DEF CalTypes
        <5>2. CASE drain_frames(r) \/ call_on(r)
          BY <1>0, <2>1, <4>1, <5>2 DEF drain_frames, call_on, CalTypes
        <5>3. CASE TaskEnds(r) \/ Killed(r)
          BY <4>1, <5>3 DEF TaskEnds, Killed, cast
        <5> QED BY <4>3, <5>1, <5>2, <5>3 DEF SessionStep
      <4> QED BY <4>2, <4>3
    <3> QED BY <2>3, <3>2, <3>3
  <2> QED BY <2>5, <2>6, <2>7
<1> QED BY <1>0, <1>1, <1>3, <1>4, <1>5 DEF MeterInv

\* MeterInv: the measurement at the end of a step of the ramp.
LEMMA MeterSettled ==
    ASSUME CalInv, Settled
    PROVE  MeterInv'
<1> USE CalibrateAssumption
<1>0. /\ CalTypes /\ RampInv /\ LivesInv /\ MeterInv /\ n \in Sessions /\ n \in Nat
      /\ footprint \in Figures /\ stage = "settle" /\ held = 1..n
  BY DEF CalInv, CalTypes, Sessions, Settled, RampInv, Figures
<1>1. /\ UNCHANGED <<host, beside, held, procs, browser, cast>> /\ n' \in {n, n + 1}
      /\ stage' \in {"hold", "create"}
  BY DEF Settled
<1>2. \A s \in Sessions : OwnBytes(s)' = OwnBytes(s) /\ OwnThreads(s)' = OwnThreads(s)
  BY <1>1 DEF OwnBytes, OwnThreads
<1>3. /\ footprint' \in Figures
      /\ footprint'.bytes >= footprint.bytes /\ footprint'.threads >= footprint.threads
      /\ IF host.linux /\ browser[n] = "up"
         THEN /\ footprint'.bytes >= OwnBytes(n) /\ footprint'.threads >= OwnThreads(n)
              /\ footprint'.bytes \in {footprint.bytes, OwnBytes(n)}
              /\ footprint'.threads \in {footprint.threads, OwnThreads(n)}
         ELSE footprint' = footprint
  BY <1>0, SettledFootprint
<1>4. /\ \A s \in 1..n : s \in 1..(n') /\ s \in Sessions
      /\ n \in 1..n
  BY <1>0, <1>1 DEF Sessions
<1>5. ~host.linux => footprint' = NoFootprint
  BY <1>0, <1>3 DEF MeterInv
<1>6. footprint'.bytes = 0 \/ \E s \in 1..n : footprint'.bytes = OwnBytes(s)
  BY <1>0, <1>3, <1>4 DEF MeterInv
<1>7. footprint'.threads = 0 \/ \E s \in 1..n : footprint'.threads = OwnThreads(s)
  BY <1>0, <1>3, <1>4 DEF MeterInv
<1>8. footprint'.bytes = 0 <=> footprint'.threads = 0
  <2>1. CASE host.linux /\ browser[n] = "up"
    <3>1. procs[n] # 0
      BY <1>0, <2>1 DEF LivesInv, Lives
    <3>2. OwnBytes(n) \in Nat \ {0} /\ OwnThreads(n) \in Nat \ {0}
      BY <1>0, <3>1, OwnTypes
    <3>3. footprint'.bytes \in Nat /\ footprint'.threads \in Nat
      BY <1>3 DEF Figures
    <3> QED BY <1>3, <2>1, <3>2, <3>3
  <2>2. CASE ~(host.linux /\ browser[n] = "up")
    BY <1>0, <1>3, <2>2 DEF MeterInv
  <2> QED BY <2>1, <2>2
<1>9. ASSUME host.linux, NEW s \in held, browser[s] = "up" PROVE Covered(s)'
  <2>1. CASE s = n
    BY <1>0, <1>2, <1>3, <1>9, <2>1 DEF Covered
  <2>2. CASE s # n
    <3>1. Covered(s)
      BY <1>0, <1>9, <2>2 DEF MeterInv
    <3>2. OwnBytes(s) \in Nat /\ OwnThreads(s) \in Nat /\ s \in Sessions
      BY <1>0, <1>4, OwnTypes
    <3>3. /\ footprint.bytes \in Nat /\ footprint.threads \in Nat
          /\ footprint'.bytes \in Nat /\ footprint'.threads \in Nat
      BY <1>0, <1>3 DEF Figures
    <3>4. footprint'.bytes >= OwnBytes(s) /\ footprint'.threads >= OwnThreads(s)
      BY <1>3, <3>1, <3>2, <3>3 DEF Covered
    <3> QED BY <1>2, <3>2, <3>4 DEF Covered
  <2> QED BY <2>1, <2>2
<1>10. footprint'.bytes = 0 \/ \E s \in 1..(n') : footprint'.bytes = OwnBytes(s)'
  BY <1>2, <1>4, <1>6
<1>11. footprint'.threads = 0 \/ \E s \in 1..(n') : footprint'.threads = OwnThreads(s)'
  BY <1>2, <1>4, <1>7
<1> QED BY <1>1, <1>5, <1>8, <1>9, <1>10, <1>11 DEF MeterInv

\* The loads of the sessions, for the sum that OwnUse is.
SessionLoads == [s \in Sessions |-> Load(s)]

\* What is used is a sum of naturals on top of a natural.
LEMMA LoadTypes ==
    ASSUME CalTypes
    PROVE  /\ OwnUse = SumOver(host.base, SessionLoads) /\ host.base \in Nat /\ Line \in Int
           /\ beside \in host.beside /\ host.beside \subseteq Nat
           /\ host.limits.mem \in Nat \cup {Unlimited}
           /\ SessionLoads \in [Sessions -> Int] /\ \A s \in Sessions : SessionLoads[s] >= 0
<1>1. \A s \in Sessions : Load(s) \in Nat
  BY OwnTypes DEF Load
<1>2. /\ host.base \in Nat /\ host.limits.mem \in Nat \cup {Unlimited}
      /\ beside \in host.beside /\ host.beside \subseteq Nat
  BY HostsAssumption DEF CalTypes
<1>3. Line \in Int
  BY <1>2 DEF Line, Unlimited
<1> QED BY <1>1, <1>2, <1>3 DEF OwnUse, SessionLoads

\* The same of the state after a step.
LEMMA TypesNext ==
    ASSUME CalTypes'
    PROVE  /\ \A s \in Sessions : OwnBytes(s)' \in Nat
           /\ OwnUse' = SumOver(host'.base, SessionLoads') /\ SessionLoads' \in [Sessions -> Int]
<1>1. ASSUME NEW s \in Sessions PROVE OwnBytes(s)' \in Nat
  <2>1. CASE procs'[s] = 0
    BY <2>1 DEF OwnBytes
  <2>2. CASE procs'[s] # 0
    <3>1. procs'[s] \in DOMAIN Browsers
      BY <2>2 DEF CalTypes
    <3>2. Browsers[procs'[s]].footprint \in [bytes : Nat \ {0}, threads : Nat \ {0}]
      BY <3>1, HostsAssumption
    <3> QED BY <2>2, <3>2 DEF OwnBytes
  <2> QED BY <2>1, <2>2
<1>2. \A s \in Sessions : Load(s)' \in Nat
  BY <1>1 DEF Load
<1> QED BY <1>1, <1>2 DEF OwnUse, SessionLoads

\* When no browser is launched, no more is used than before.
LEMMA OwnUseFalls ==
    ASSUME CalInv, RampStep \/ \E s \in Sessions : SessionStep(s),
           browser' = browser \/ procs' = procs
    PROVE  OwnUse \in Int /\ OwnUse' \in Int /\ OwnUse' <= OwnUse
<1>0. CalTypes /\ CalTypes' /\ host' = host /\ LivesInv
  <2>1. CalTypes'
    BY RampTypes, SessionTypes
  <2> QED BY <2>1 DEF CalInv, RampStep, SessionStep, create, setup_recording, wait_first_frame,
         SetupFails, Settled, HoldEnds, count_recording, destroy, drain_frames, call_on, TaskEnds,
         Frame, Acked, Killed
<1>1. /\ OwnUse = SumOver(host.base, SessionLoads) /\ OwnUse' = SumOver(host.base, SessionLoads')
      /\ host.base \in Int /\ SessionLoads \in [Sessions -> Int] /\ SessionLoads' \in [Sessions -> Int]
      /\ \A s \in Sessions : SessionLoads[s] >= 0
  BY <1>0, LoadTypes, TypesNext
<1>2. CASE SessionLoads' = SessionLoads
  <2>1. \E s \in Sessions : TRUE
    BY CalibrateAssumption DEF Sessions
  <2>2. SumOver(host.base, SessionLoads) \in Int
    BY <1>1, <2>1, SumOfChange, 0 \in Int
  <2> QED BY <1>1, <1>2, <2>2
<1>3. ASSUME NEW i \in Sessions, procs' = procs, browser' = [browser EXCEPT ![i] = "gone"]
      PROVE  OwnUse \in Int /\ OwnUse' \in Int /\ OwnUse' <= OwnUse
  <2>1. \A s \in Sessions \ {i} : SessionLoads'[s] = SessionLoads[s]
    BY <1>0, <1>3 DEF SessionLoads, Load, OwnBytes, CalTypes
  <2>2. SessionLoads'[i] = 0
    BY <1>0, <1>3 DEF SessionLoads, Load, CalTypes
  <2> DEFINE d == -SessionLoads[i]
  <2>3. d \in Int /\ d <= 0 /\ SessionLoads'[i] = SessionLoads[i] + d
    BY <1>1, <2>2
  <2> HIDE DEF d
  <2>4. /\ SumOver(host.base, SessionLoads) \in Int
        /\ SumOver(host.base, SessionLoads') = SumOver(host.base, SessionLoads) + d
    BY <1>1, <2>1, <2>3, SumOfChange
  <2> QED BY <1>1, <2>3, <2>4
<1>4. CASE browser' = browser
  <2>1. \A s \in Sessions : browser[s] = "up" => OwnBytes(s)' = OwnBytes(s)
    <3>1. TAKE s \in Sessions
    <3>2. browser[s] = "up" => (create => s # n)
      BY <1>0 DEF LivesInv, Lives, create
    <3> QED BY <3>2, CostsKept
  <2>2. SessionLoads' = SessionLoads
    BY <1>4, <2>1 DEF SessionLoads, Load
  <2> QED BY <1>2, <2>2
<1>5. CASE procs' = procs /\ browser' # browser
  <2>1. SetupFails \/ destroy \/ \E s \in Sessions : Killed(s)
    <3>1. ~create
      <4>1. ASSUME create PROVE FALSE
        <5>1. PICK table \in DOMAIN Browsers : procs' = [procs EXCEPT ![n] = table]
          BY <1>5, <4>1 DEF create
        <5>2. n \in Sessions /\ procs[n] = 0
          BY <1>0, <4>1 DEF CalTypes, LivesInv, Lives, create
        <5>3. procs'[n] = table
          BY <1>0, <5>1, <5>2 DEF CalTypes
        <5> QED BY <1>5, <5>2, <5>3, HostsAssumption
      <4> QED BY <4>1
    <3> QED BY <1>5, <3>1 DEF RampStep, SessionStep, create, setup_recording, wait_first_frame,
         Settled, HoldEnds, count_recording, drain_frames, call_on, TaskEnds, Frame, Acked
  <2>2. PICK i \in Sessions : browser' = [browser EXCEPT ![i] = "gone"]
    <3>1. CASE SetupFails
      BY <1>0, <3>1 DEF SetupFails, CalTypes
    <3>2. CASE destroy
      <4>1. held # {} /\ browser' = [browser EXCEPT ![Min(held)] = "gone"]
        BY <1>5, <3>2 DEF destroy
      <4>2. Min(held) \in Sessions
        BY <1>0, <4>1, LeastHeld DEF CalTypes
      <4> QED BY <4>1, <4>2
    <3>3. CASE \E s \in Sessions : Killed(s)
      BY <3>3 DEF Killed
    <3> QED BY <2>1, <3>1, <3>2, <3>3
  <2> QED BY <1>3, <1>5, <2>2
<1> QED BY <1>4, <1>5

\* LoadInv: a launch adds no more than the line leaves free.
LEMMA LoadKept ==
    ASSUME CalInv, RampStep \/ \E s \in Sessions : SessionStep(s)
    PROVE  LoadInv'
<1> SUFFICES ASSUME CanCarry'
             PROVE  /\ \A b \in host'.beside : OwnUse' + b <= host'.limits.mem
                    /\ stage' = "create" => OwnUse' < Line'
  BY DEF LoadInv
<1>0. CalTypes /\ CalTypes' /\ host' = host /\ LivesInv /\ LoadInv /\ n \in Sessions
  <2>1. CalTypes'
    BY RampTypes, SessionTypes
  <2> QED BY <2>1 DEF CalInv, CalTypes, RampStep, SessionStep, create, setup_recording,
         wait_first_frame, SetupFails, Settled, HoldEnds, count_recording, destroy, drain_frames,
         call_on, TaskEnds, Frame, Acked, Killed
<1>1. Line' = Line /\ Line \in Int /\ host.limits.mem \in Nat /\ Unlimited = -1
  BY <1>0, LoadTypes DEF Line, CanCarry, Unlimited
<1>2. CanCarry
  <2>1. \A s \in Sessions, b \in host.beside : OwnBytes(s)' + b <= host.limits.mem - Line
    BY <1>0, <1>1 DEF CanCarry
  <2>2. \A s \in Sessions : OwnBytes(s)' \in Nat /\ OwnBytes(s) \in Nat
    BY <1>0, OwnTypes, TypesNext
  <2>3. ASSUME NEW s \in Sessions, NEW b \in host.beside
        PROVE  OwnBytes(s) + b <= host.limits.mem - Line
    <3>1. CASE create /\ s = n
      <4>1. OwnBytes(s) = 0
        BY <1>0, <3>1, OwnTypes DEF LivesInv, Lives, create
      <4>2. b \in Nat
        BY <1>0, LoadTypes
      <4> QED BY <1>1, <2>1, <2>2, <4>1, <4>2
    <3>2. CASE ~(create /\ s = n)
      BY <2>1, <3>2, CostsKept
    <3> QED BY <3>1, <3>2
  <2> QED BY <1>0, <1>1, <2>3 DEF CanCarry
<1>3. /\ \A b \in host.beside : OwnUse + b <= host.limits.mem
      /\ stage = "create" => OwnUse < Line
      /\ beside \in Nat /\ host.beside \subseteq Nat
  BY <1>0, <1>2, LoadTypes DEF LoadInv
<1>4. CASE browser' = browser \/ procs' = procs
  <2>1. OwnUse \in Int /\ OwnUse' \in Int /\ OwnUse' <= OwnUse
    BY <1>4, OwnUseFalls
  <2>2. CASE Settled
    <3>1. stage' = "create" => ~crossed_memory_line(TRUE)
      BY <1>2, <2>2 DEF Settled, CanCarry
    <3>2. stage' = "create" => OwnUse < Line
      BY <1>1, <1>3, <2>1, <3>1 DEF crossed_memory_line, Line, Used, Unlimited
    <3> QED BY <1>0, <1>1, <1>3, <2>1, <3>2
  <2>3. CASE ~Settled
    <3>1. stage' = "create" => stage = "create"
      BY <2>3 DEF RampStep, SessionStep, create, setup_recording,
         wait_first_frame, SetupFails, HoldEnds, count_recording, destroy, drain_frames,
         call_on, TaskEnds, Frame, Acked, Killed, RampFails, Started
    <3> QED BY <1>0, <1>1, <1>3, <2>1, <3>1
  <2> QED BY <2>2, <2>3
<1>5. CASE ~(browser' = browser \/ procs' = procs)
  <2>1. /\ stage = "create" /\ stage' = "setup" /\ n' = n
        /\ \E table \in DOMAIN Browsers : procs' = [procs EXCEPT ![n] = table]
        /\ browser' = [browser EXCEPT ![n] = "up"]
    BY <1>5 DEF RampStep, SessionStep, create, setup_recording,
         wait_first_frame, SetupFails, Settled, HoldEnds, count_recording, destroy, drain_frames,
         call_on, TaskEnds, Frame, Acked, Killed, ramp
  <2>2. /\ OwnUse = SumOver(host.base, SessionLoads) /\ OwnUse' = SumOver(host.base, SessionLoads')
        /\ host.base \in Int /\ SessionLoads \in [Sessions -> Int] /\ SessionLoads' \in [Sessions -> Int]
    BY <1>0, LoadTypes, TypesNext
  <2>3. \A s \in Sessions \ {n} : SessionLoads'[s] = SessionLoads[s]
    BY <1>0, <2>1 DEF SessionLoads, Load, OwnBytes, CalTypes
  <2>4. SessionLoads[n] = 0 /\ SessionLoads'[n] = OwnBytes(n)'
    <3>1. browser[n] = "none"
      BY <1>0, <2>1 DEF LivesInv, Lives
    <3>2. browser'[n] = "up"
      BY <1>0, <2>1 DEF CalTypes
    <3>3. Load(n)' = OwnBytes(n)' /\ Load(n) = 0
      BY <2>1, <3>1, <3>2 DEF Load
    <3> QED BY <1>0, <2>1, <3>3 DEF SessionLoads
  <2> DEFINE d == OwnBytes(n)'
  <2>5. /\ d \in Int /\ SessionLoads'[n] = SessionLoads[n] + d
        /\ \A b \in host.beside : d + b <= host.limits.mem - Line
    <3>1. d \in Nat
      BY <1>0, <2>1, TypesNext
    <3>2. \A b \in host.beside : d + b <= host.limits.mem - Line
      BY <1>0, <1>1, <2>1 DEF CanCarry
    <3> HIDE DEF d
    <3> QED BY <2>4, <3>1, <3>2 DEF d
  <2> HIDE DEF d
  <2>6. OwnUse \in Int /\ OwnUse' = OwnUse + d
    BY <1>0, <2>2, <2>3, <2>5, SumOfChange
  <2> QED BY <1>0, <1>1, <1>3, <2>1, <2>5, <2>6
<1> QED BY <1>4, <1>5

-----------------------------------------------------------------------------
(* The ceiling.                                                              *)

Recorded == {s \in Sessions : advanced[s]}

\* Those that record are some of RAMP_CAP sessions.
LEMMA RecordedFinite ==
    /\ IsFiniteSet(Sessions) /\ Cardinality(Sessions) = RAMP_CAP
    /\ \A S \in SUBSET Sessions : /\ IsFiniteSet(S) /\ Cardinality(S) \in Nat
                                  /\ Cardinality(S) <= RAMP_CAP
                                  /\ Cardinality(S) = RAMP_CAP => S = Sessions
                                  /\ \A T \in SUBSET S : Cardinality(T) <= Cardinality(S)
<1>1. IsFiniteSet(Sessions) /\ Cardinality(Sessions) = RAMP_CAP
  BY FS_Interval, CalibrateAssumption DEF Sessions
<1>2. ASSUME NEW S \in SUBSET Sessions
      PROVE  /\ IsFiniteSet(S) /\ Cardinality(S) \in Nat /\ Cardinality(S) <= RAMP_CAP
             /\ Cardinality(S) = RAMP_CAP => S = Sessions
  BY <1>1, FS_Subset, FS_CardinalityType
<1>3. ASSUME NEW S \in SUBSET Sessions, NEW T \in SUBSET S
      PROVE  Cardinality(T) <= Cardinality(S)
  BY <1>2, FS_Subset
<1> QED BY <1>1, <1>2, <1>3

\* The dearest session, from what was measured of all of them.
LEMMA DearestMeasured ==
    ASSUME CalTypes, LivesInv, MeterInv, n = RAMP_CAP,
           host.linux => \A s \in Sessions : procs[s] # 0 /\ Covered(s)
    PROVE  /\ Dearest \in Footprints
           /\ compute(host.limits, footprint) = compute(host.limits, Dearest)
<1> USE CalibrateAssumption
<1>1. PICK cost \in Footprints :
              /\ compute(host.limits, footprint) = compute(host.limits, cost)
              /\ footprint = NoFootprint => cost = SESSION_ESTIMATE
              /\ footprint # NoFootprint => cost = footprint
  BY CostOfFootprint
<1>2. CASE ~host.linux
  BY <1>1, <1>2 DEF MeterInv, Dearest
<1>3. CASE host.linux
  <2> DEFINE B == {OwnBytes(s) : s \in 1..n}
  <2> DEFINE T == {OwnThreads(s) : s \in 1..n}
  <2>1. \A s \in Sessions : /\ OwnBytes(s) \in Nat \ {0} /\ OwnThreads(s) \in Nat \ {0}
                            /\ footprint.bytes >= OwnBytes(s)
                            /\ footprint.threads >= OwnThreads(s)
    BY <1>3, OwnTypes DEF Covered
  <2>2. 1 \in Sessions /\ 1..n = Sessions
    BY DEF Sessions
  <2>3. footprint.bytes \in Nat /\ footprint.threads \in Nat
    BY DEF CalTypes
  <2>4. footprint.bytes # 0 /\ footprint.threads # 0
    BY <2>1, <2>2, <2>3
  <2>5. footprint.bytes \in B /\ footprint.threads \in T
    BY <2>4 DEF MeterInv
  <2>6. B \subseteq Int /\ T \subseteq Int
    BY <2>1, <2>2
  <2>7. Max(B) = footprint.bytes
    <3>1. \A x \in B : footprint.bytes >= x
      BY <2>1, <2>2
    <3> HIDE DEF B
    <3> QED BY <2>5, <2>6, <3>1, MaxIs
  <2>8. Max(T) = footprint.threads
    <3>1. \A x \in T : footprint.threads >= x
      BY <2>1, <2>2
    <3> HIDE DEF T
    <3> QED BY <2>5, <2>6, <3>1, MaxIs
  <2>9. Dearest = [bytes |-> footprint.bytes, threads |-> footprint.threads]
    BY <1>3, <2>7, <2>8 DEF Dearest
  <2>10. footprint # NoFootprint /\ footprint \in [bytes : Nat, threads : Nat]
    BY <2>4 DEF NoFootprint, CalTypes
  <2>11. Dearest = footprint
    BY <2>9, <2>10
  <2> QED BY <1>1, <2>10, <2>11
<1> QED BY <1>2, <1>3

\* CeilingInv: what count_recording derives.
LEMMA CeilingCounted ==
    ASSUME CalInv, count_recording
    PROVE  CeilingInv'
<1> USE CalibrateAssumption
<1> DEFINE sustained == Cardinality({s \in held : advanced[s]})
<1> DEFINE clean == stop = "Cap" /\ sustained = Cardinality(held)
<1> DEFINE m == derive_ceiling(sustained, clean).max_sessions
<1> DEFINE by == derive_ceiling(sustained, clean).bound_by
<1>1. /\ CalTypes /\ RampInv /\ LivesInv /\ MeterInv
      /\ stage = "probe" /\ stage' = "destroy" /\ held \subseteq Sessions
      /\ ceiling' = derive_ceiling(sustained, clean)
  BY DEF CalInv, CalTypes, count_recording
<1>2. UNCHANGED <<host, beside, n, procs, advanced>>
  BY DEF count_recording, cast
<1>3. {s \in held : advanced[s]} = Recorded
  BY <1>1 DEF LivesInv, Lives, Recorded
<1>4. sustained = Cardinality(Recorded) /\ sustained \in Nat /\ clean \in BOOLEAN
  BY <1>1, <1>3, HeldIsFinite
<1>5. (Cardinality(Recorded))' = sustained /\ Dearest' = Dearest
      /\ (CeilingHolds' <=> LET mm == ceiling'.max_sessions IN
            ceiling'.bound_by # "none" =>
            /\ mm >= 1
            /\ ceiling'.bound_by = "measured" => mm <= Max({sustained, 1})
            /\ ceiling'.bound_by # "measured" =>
                  /\ sustained = RAMP_CAP
                  /\ mm > RAMP_CAP => Fits(host.limits, Dearest, mm)
                  /\ ~Fits(host.limits, Dearest, mm + 1))
  <2>1. Recorded' = Recorded /\ Dearest' = Dearest
    BY <1>2 DEF Recorded, Dearest, OwnBytes, OwnThreads
  <2>2. \A k : Holds(k)' <=> Fits(host.limits, Dearest, k)
    BY <1>2, <2>1 DEF Holds, Fits, Room
  <2> HIDE DEF sustained
  <2> QED BY <1>4, <2>1, <2>2 DEF CeilingHolds, Recorded
<1>6. CASE ~clean
  <2>1. PICK cost \in Footprints : compute(host.limits, footprint) = compute(host.limits, cost)
    BY <1>1, CostOfFootprint
  <2> HIDE DEF sustained, clean
  <2>2. m >= 1 /\ by = "measured" /\ m = Max({sustained, 1}) /\ m \in Nat
    BY <1>1, <1>4, <1>6, <2>1, DerivedCeiling
  <2> QED BY <1>1, <1>5, <2>2 DEF CeilingInv
<1>7. CASE clean
  <2>1. n = RAMP_CAP /\ held = Sessions
    BY <1>1, <1>7 DEF RampInv, Sessions
  <2>2. \A s \in Sessions : advanced[s]
    BY <1>1, <1>7, <2>1, HeldIsFinite
  <2>3. sustained = RAMP_CAP
    <3>1. Recorded = Sessions
      BY <2>2 DEF Recorded
    <3> QED BY <1>4, <3>1, RecordedFinite
  <2>4. host.linux => \A s \in Sessions : procs[s] # 0 /\ Covered(s)
    BY <1>1, <2>1, <2>2 DEF MeterInv, LivesInv, Lives
  <2>5. Dearest \in Footprints /\ compute(host.limits, footprint) = compute(host.limits, Dearest)
    BY <1>1, <2>1, <2>4, DearestMeasured
  <2> HIDE DEF sustained, clean
  <2>6. /\ m \in Nat /\ m >= 1 /\ by # "none" /\ by # "measured" /\ m >= sustained
        /\ m > 1 /\ m > sustained => Fits(host.limits, Dearest, m)
        /\ ~Fits(host.limits, Dearest, m + 1)
    BY <1>1, <1>4, <1>7, <2>5, DerivedCeiling
  <2>7. m > RAMP_CAP => Fits(host.limits, Dearest, m)
    BY <2>3, <2>6
  <2> HIDE DEF m, by
  <2>8. ceiling'.max_sessions = m /\ ceiling'.bound_by = by
    BY <1>1 DEF m, by
  <2> QED BY <1>1, <1>5, <2>3, <2>6, <2>7, <2>8 DEF CeilingInv
<1> QED BY <1>6, <1>7

\* CeilingInv: nothing else derives a ceiling, and who has recorded has.
LEMMA CeilingKept ==
    ASSUME CalInv, RampStep \/ \E s \in Sessions : SessionStep(s), ~count_recording
    PROVE  CeilingInv'
<1> USE CalibrateAssumption
<1>0. CalTypes /\ CeilingInv /\ LivesInv
  BY DEF CalInv
<1>1. /\ ceiling' = ceiling /\ host' = host
      /\ stage' \in {"destroy", "done"} => stage \in {"destroy", "done"}
  BY DEF RampStep, SessionStep, create, setup_recording, wait_first_frame, SetupFails, Settled,
         HoldEnds, destroy, drain_frames, call_on, TaskEnds, Frame, Acked, Killed, ramp,
         RampFails, Started
<1>2. CASE stage \notin {"destroy", "done"}
  BY <1>0, <1>1, <1>2 DEF CeilingInv, CeilingHolds
<1>3. CASE stage \in {"destroy", "done"}
  <2>1. stage' \in {"destroy", "done"} /\ UNCHANGED <<procs, n>>
    BY <1>3 DEF RampStep, SessionStep, create, setup_recording, wait_first_frame, SetupFails,
         Settled, HoldEnds, destroy, drain_frames, call_on, TaskEnds, Frame, Acked, Killed, ramp
  <2>2. \A s \in Sessions : advanced[s] => advanced'[s]
    <3>1. CASE \E s \in Sessions : drain_frames(s)
      <4>1. PICK r \in Sessions : drain_frames(r)
        BY <3>1
      <4>2. advanced' = [advanced EXCEPT ![r] = TRUE] \/ advanced' = advanced
        BY <4>1 DEF drain_frames
      <4>3. advanced \in [Sessions -> BOOLEAN]
        BY <1>0 DEF CalTypes
      <4> QED BY <4>2, <4>3
    <3>2. CASE ~\E s \in Sessions : drain_frames(s)
      <4>1. advanced' = advanced
        BY <1>3, <3>2 DEF RampStep, SessionStep, create, setup_recording, wait_first_frame,
             SetupFails, Settled, HoldEnds, destroy, call_on, TaskEnds, Frame, Acked, Killed, cast
      <4> QED BY <4>1
    <3> QED BY <3>1, <3>2
  <2>3. Dearest' = Dearest
    BY <1>1, <2>1 DEF Dearest, OwnBytes, OwnThreads
  <2>4. \A k : Holds(k)' <=> Holds(k)
    BY <1>1, <2>3 DEF Holds
  <2> DEFINE c == Cardinality(Recorded)
  <2> DEFINE d == Cardinality(Recorded')
  <2>5. /\ c \in Nat /\ d \in Nat /\ c <= d /\ d <= RAMP_CAP
    <3>1. Recorded \in SUBSET Recorded' /\ Recorded' \in SUBSET Sessions
      BY <2>2 DEF Recorded
    <3> QED BY <3>1, RecordedFinite
  <2> DEFINE m == ceiling.max_sessions
  <2>6. m \in Nat
    BY <1>0 DEF CalTypes
  <2>7. ceiling.bound_by # "none" =>
            /\ m >= 1
            /\ ceiling.bound_by = "measured" => m <= Max({c, 1})
            /\ ceiling.bound_by # "measured" =>
                  c = RAMP_CAP /\ (m > RAMP_CAP => Holds(m)) /\ ~Holds(m + 1)
    BY <1>0 DEF CeilingInv, CeilingHolds, Recorded
  <2>8. Max({c, 1}) <= Max({d, 1}) /\ Max({c, 1}) \in Nat /\ Max({d, 1}) \in Nat
    <3> HIDE DEF c, d
    <3> QED BY <2>5, MaxOfTwo
  <2> HIDE DEF c, d, m
  <2>9. ceiling.bound_by # "none" =>
            /\ m >= 1
            /\ ceiling.bound_by = "measured" => m <= Max({d, 1})
            /\ ceiling.bound_by # "measured" =>
                  d = RAMP_CAP /\ (m > RAMP_CAP => Holds(m)') /\ ~Holds(m + 1)'
    <3>1. ceiling.bound_by = "measured" => m <= Max({d, 1})
      BY <2>6, <2>7, <2>8
    <3>2. c = RAMP_CAP => d = RAMP_CAP
      BY <2>5
    <3>3. (Holds(m)' <=> Holds(m)) /\ (Holds(m + 1)' <=> Holds(m + 1))
      BY <1>1, <2>4 DEF m
    <3> QED BY <2>7, <3>1, <3>2, <3>3
  <2>10. CeilingHolds'
    BY <1>1, <2>9 DEF CeilingHolds, Recorded, m, d
  <2> QED BY <1>1, <2>1, <2>10 DEF CeilingInv
<1> QED BY <1>2, <1>3

-----------------------------------------------------------------------------
(* Calibration: the theorems.                                                *)

\* The invariant holds at first.
LEMMA CalibrateStarts ==
    ASSUME CalInit
    PROVE  CalInv
<1> USE CalibrateAssumption DEF CalInit
<1>1. 1 \in Sessions /\ \A s \in Sessions : s \in Nat /\ s >= 1
  BY DEF Sessions
<1>2. CalTypes
  BY <1>1 DEF CalTypes, CalStages, NoFootprint
<1>3. RampInv
  BY <1>1 DEF RampInv
<1>4. LivesInv
  BY <1>1 DEF LivesInv, Lives
<1>5. FlowInv
  BY <1>1 DEF FlowInv, Flow, OnlyFrames
<1>6. MeterInv
  BY DEF MeterInv, NoFootprint
<1>7. LoadInv
  <2>1. \A s \in Sessions : SessionLoads[s] = 0
    BY DEF SessionLoads, Load
  <2>2. OwnUse = host.base
    BY <1>2, <2>1, LoadTypes, SumOfNone
  <2>3. ASSUME CanCarry
        PROVE  OwnUse < Line /\ \A b \in host.beside : OwnUse + b <= host.limits.mem
    <3>1. OwnBytes(1) \in Nat /\ \A b \in host.beside : OwnBytes(1) + b <= host.limits.mem - Line
      BY <1>1, <1>2, <2>3, OwnTypes DEF CanCarry
    <3>2. host.base < Line /\ host.limits.mem \in Nat
      BY <1>2, <2>3, LoadTypes DEF CanCarry
    <3>3. Line \in Int /\ host.base \in Nat /\ host.beside \subseteq Nat
      BY <1>2, LoadTypes
    <3>4. ASSUME NEW b \in host.beside PROVE host.base + b <= host.limits.mem
      <4>1. b \in Nat /\ OwnBytes(1) + b <= host.limits.mem - Line
        BY <3>1, <3>3
      <4> QED BY <3>1, <3>2, <3>3, <4>1
    <3> QED BY <2>2, <3>2, <3>3, <3>4, <3>1
  <2> QED BY <2>3 DEF LoadInv
<1>8. CeilingInv
  BY DEF CeilingInv, CeilingHolds
<1> QED BY <1>2, <1>3, <1>4, <1>5, <1>6, <1>7, <1>8 DEF CalInv

\* Every step keeps the invariant.
LEMMA CalibrateSteps ==
    ASSUME CalInv, [CalNext]_calVars
    PROVE  CalInv'
<1>1. CASE UNCHANGED calVars
  <2>1. UNCHANGED <<host, beside, stage, n, stop, held, footprint, ceiling, procs, browser, inflight,
                    pipe, ack, task, advanced>>
    BY <1>1 DEF calVars
  <2>2. CalTypes' /\ RampInv' /\ LivesInv' /\ FlowInv'
    BY <2>1 DEF CalInv, CalTypes, RampInv, LivesInv, Lives, FlowInv, Flow
  <2>3. MeterInv'
    BY <2>1 DEF CalInv, MeterInv, Covered, OwnBytes, OwnThreads
  <2>4. LoadInv'
    BY <2>1 DEF CalInv, LoadInv, CanCarry, Line, OwnUse, Load, OwnBytes
  <2>5. CeilingInv'
    BY <2>1 DEF CalInv, CeilingInv, CeilingHolds, Holds, Dearest, OwnBytes, OwnThreads
  <2> QED BY <2>2, <2>3, <2>4, <2>5 DEF CalInv
<1>2. CASE Beside
  <2>1. UNCHANGED <<host, stage, n, stop, held, footprint, ceiling, procs, browser, inflight,
                    pipe, ack, task, advanced>> /\ beside' \in host.beside
    BY <1>2 DEF Beside, ramp, cast
  <2>2. CalTypes' /\ RampInv' /\ LivesInv' /\ FlowInv'
    BY <2>1 DEF CalInv, CalTypes, RampInv, LivesInv, Lives, FlowInv, Flow
  <2>3. MeterInv'
    BY <2>1 DEF CalInv, MeterInv, Covered, OwnBytes, OwnThreads
  <2>4. LoadInv'
    BY <2>1 DEF CalInv, LoadInv, CanCarry, Line, OwnUse, Load, OwnBytes
  <2>5. CeilingInv'
    BY <2>1 DEF CalInv, CeilingInv, CeilingHolds, Holds, Dearest, OwnBytes, OwnThreads
  <2> QED BY <2>2, <2>3, <2>4, <2>5 DEF CalInv
<1>3. CASE CalNext /\ ~Beside
  <2>1. RampStep \/ \E s \in Sessions : SessionStep(s)
    BY <1>3, CalSteps
  <2>2. CalTypes' /\ LivesInv' /\ FlowInv'
    BY <2>1, RampTypes, SessionTypes, RampLives, SessionLives, RampFlow, SessionFlow
  <2>3. RampInv' /\ LoadInv'
    BY <2>1, RampKept, LoadKept
  <2>4. MeterInv'
    BY <2>1, MeterKept, MeterSettled
  <2>5. CeilingInv'
    BY <2>1, CeilingCounted, CeilingKept
  <2> QED BY <2>2, <2>3, <2>4, <2>5 DEF CalInv
<1> QED BY <1>1, <1>2, <1>3

(* calibrate, its sessions and their browsers keep CalInv, in whatever      *)
(* order frames, acks, deaths and timeouts come.                            *)
THEOREM CalibrateInvariant == CalSpec => []CalInv
<1>1. CalInit => CalInv
  BY CalibrateStarts
<1>2. CalInv /\ [CalNext]_calVars => CalInv'
  BY CalibrateSteps
<1> QED BY <1>1, <1>2, PTL DEF CalSpec

(* No browser is left alive by a step of calibration that failed, and only  *)
(* a session's task awaits an ack (spawn_recording_session, drain_frames).  *)
THEOREM NoSessionLeft == CalSpec => []CalTypeOK
<1>1. CalInv => CalTypeOK
  BY DEF CalInv, CalTypes, CalStages, RampInv, LivesInv, Lives, FlowInv, Flow, CalTypeOK
<1> QED BY <1>1, CalibrateInvariant, PTL

(* derive_ceiling and compute: the ceiling is one that was seen to be held, *)
(* or the largest that the host holds, when all of RAMP_CAP recorded.       *)
THEOREM CeilingIsHeld == CalSpec => []CeilingHolds
<1>1. CalInv => CeilingHolds
  BY DEF CalInv, CeilingInv
<1> QED BY <1>1, CalibrateInvariant, PTL

(* crossed_memory_line: the ramp stops before a host whose use can be read, *)
(* and that can carry one session more and what the server launches beside  *)
(* it, runs out of memory.                                                  *)
THEOREM MemoryIsKept == CalSpec => []NoOom
<1>1. CalInv => NoOom
  <2> SUFFICES ASSUME CalInv, CanCarry PROVE Used <= host.limits.mem
    BY DEF NoOom, CanCarry
  <2>1. \A b \in host.beside : OwnUse + b <= host.limits.mem
    BY DEF CalInv, LoadInv
  <2> QED BY <2>1 DEF CalInv, CalTypes, Used
<1> QED BY <1>1, CalibrateInvariant, PTL

(* drain_frames: with a second frame allowed in flight, the one that        *)
(* wait_first_frame leaves without an ack never stalls the stream.          *)
THEOREM StreamsGoOn ==
    ASSUME Window >= 2
    PROVE  CalSpec => []NeverStalls
<1>1. CalInv => NeverStalls
  <2> SUFFICES ASSUME CalInv, NEW s \in held,
                      inflight[s] = Window, pipe[s] = <<>>, task[s] = "recv"
               PROVE  FALSE
    BY DEF NeverStalls
  <2>1. s \in Sessions /\ Flow(s)
    BY DEF CalInv, CalTypes, FlowInv
  <2>2. Len(pipe[s]) = 0
    BY EmptySeq
  <2>3. Window - 0 < Window
    BY <2>1, <2>2 DEF Flow
  <2> QED BY <2>3, CalibrateAssumption
<1> QED BY <1>1, CalibrateInvariant, PTL
=============================================================================
