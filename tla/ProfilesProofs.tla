----------------------------- MODULE ProfilesProofs -----------------------------
(***************************************************************************)
(* Proofs about Profiles for any number of tokens and requests and any cap.*)
(***************************************************************************)
EXTENDS Profiles, FiniteSetTheorems, TLAPS

(* What a sweep does to an entry: nothing, or it forgets it, and one in     *)
(* flight only when it is old.                                              *)
LEMMA SweptFacts ==
    ASSUME TypeOK
    PROVE  /\ Swept \in [Tokens -> SlotStates]
           /\ \A t \in Tokens :
                 \/ Swept[t] = slot[t]
                 \/ /\ Swept[t] = "gone" /\ slot[t] \in {"pending", "inflight", "ready"}
                    /\ slot[t] = "inflight" => age[t] = "old"
BY DEF TypeOK, Swept, SlotStates

(* A store whose entries are all entries of another has no more of them.    *)
LEMMA EntriesShrink ==
    ASSUME NEW f, NEW g, Entries(f) \subseteq Entries(g)
    PROVE  /\ Cardinality(Entries(f)) \in Nat /\ Cardinality(Entries(g)) \in Nat
           /\ Cardinality(Entries(f)) <= Cardinality(Entries(g))
<1>1. Entries(g) \subseteq Tokens
    BY DEF Entries
<1>2. IsFiniteSet(Entries(g))
    BY <1>1, FS_Subset, ProfilesAssumption
<1>3. IsFiniteSet(Entries(f)) /\ Cardinality(Entries(f)) <= Cardinality(Entries(g))
    BY <1>2, FS_Subset
<1> QED BY <1>2, <1>3, FS_CardinalityType

(* One entry more counts at most one more.                                  *)
LEMMA EntriesGrow ==
    ASSUME NEW f, NEW g, NEW t, Entries(f) \subseteq Entries(g) \cup {t}
    PROVE  Cardinality(Entries(f)) <= Cardinality(Entries(g)) + 1
<1>1. Entries(g) \subseteq Tokens
    BY DEF Entries
<1>2. IsFiniteSet(Entries(g)) /\ Cardinality(Entries(g)) \in Nat
    BY <1>1, FS_Subset, FS_CardinalityType, ProfilesAssumption
<1>3. /\ IsFiniteSet(Entries(g) \cup {t})
      /\ Cardinality(Entries(g) \cup {t}) <= Cardinality(Entries(g)) + 1
    BY <1>2, FS_AddElement
<1>4. /\ Cardinality(Entries(f)) <= Cardinality(Entries(g) \cup {t})
      /\ Cardinality(Entries(f)) \in Nat /\ Cardinality(Entries(g) \cup {t}) \in Nat
    BY <1>3, FS_Subset, FS_CardinalityType
<1> QED BY <1>2, <1>3, <1>4

(* The store is empty and no request has come.                              *)
LEMMA ProfilesInit == Init => ProfilesInv
<1> SUFFICES ASSUME Init PROVE ProfilesInv
    OBVIOUS
<1>1. TypeOK
    BY DEF Init, TypeOK, SlotStates, Stages
<1>2. TokenInv /\ EntryInv /\ SessionInv
    BY ProfilesAssumption DEF Init, TokenInv, EntryInv, SessionInv
<1>3. Entries(slot) = {}
    BY DEF Init, Entries
<1>4. Cardinality(Entries(slot)) <= MaxPending
    BY <1>3, FS_EmptySet, ProfilesAssumption
<1> QED BY <1>1, <1>2, <1>4 DEF ProfilesInv

(* A sweep, a report and the pick-up leave no entry that was not there, so  *)
(* the cap holds on.                                                        *)
LEMMA CapKept ==
    ASSUME ProfilesInv, Entries(slot') \subseteq Entries(slot)
    PROVE  Cardinality(Entries(slot')) <= MaxPending
<1>1. /\ Cardinality(Entries(slot')) \in Nat /\ Cardinality(Entries(slot)) \in Nat
      /\ Cardinality(Entries(slot')) <= Cardinality(Entries(slot))
    BY EntriesShrink
<1> QED BY <1>1, ProfilesAssumption DEF ProfilesInv

(* Every step of the store and of a request keeps the invariant.            *)
LEMMA ProfilesStep == ProfilesInv /\ [Next]_vars => ProfilesInv'
<1> SUFFICES ASSUME ProfilesInv, [Next]_vars PROVE ProfilesInv'
    OBVIOUS
<1> USE ProfilesAssumption DEF ProfilesInv, request, store
<1>0. SlotStates = {"unminted", "pending", "inflight", "ready", "gone"}
    BY DEF SlotStates
<1>1. ASSUME NEW t \in Tokens, Elapse(t) PROVE ProfilesInv'
    <2>1. TypeOK'
        BY <1>1 DEF Elapse, TypeOK
    <2>2. TokenInv' /\ EntryInv' /\ SessionInv'
        BY <1>1 DEF Elapse, TokenInv, EntryInv, SessionInv
    <2>3. Entries(slot') = Entries(slot)
        BY <1>1 DEF Elapse
    <2> QED BY <2>1, <2>2, <2>3
<1>2. ASSUME NEW t \in Tokens, DropOff(t) PROVE ProfilesInv'
    <2>1. /\ slot[t] = "unminted" /\ Swept[t] = "unminted"
          /\ slot' = [Swept EXCEPT ![t] = "pending"] \/ slot' = Swept
          /\ UNCHANGED <<age, result, pickups, stage, tok, readOnly, browser, captured>>
        BY <1>2, SweptFacts DEF DropOff
    <2>2. /\ slot' \in [Tokens -> SlotStates]
          /\ \A u \in Tokens : u # t => slot'[u] \in {slot[u], "gone"}
          /\ slot'[t] \in {"unminted", "pending"}
        BY <2>1, <1>0, SweptFacts
    <2>3. TypeOK'
        BY <2>1, <2>2 DEF TypeOK
    <2>4. TokenInv'
        BY <2>1, <2>2 DEF TokenInv, TypeOK
    <2>5. EntryInv' /\ SessionInv'
        BY <2>1, <2>2 DEF EntryInv, SessionInv
    <2>6. Cardinality(Entries(slot')) <= MaxPending
        <3>1. CASE slot' = Swept
            <4>1. Entries(slot') \subseteq Entries(slot)
                BY <2>1, <2>2, <3>1 DEF Entries
            <4> QED BY <4>1, CapKept
        <3>2. CASE slot' # Swept
            <4>1. Cardinality(Entries(Swept)) < MaxPending
                BY <1>2, <3>2 DEF DropOff
            <4>2. Entries(slot') \subseteq Entries(Swept) \cup {t}
                BY <2>1, <3>2, SweptFacts DEF Entries
            <4>3. Cardinality(Entries(slot')) <= Cardinality(Entries(Swept)) + 1
                BY <4>2, EntriesGrow
            <4>4. Cardinality(Entries(Swept)) \in Nat
                BY EntriesShrink
            <4>5. Cardinality(Entries(slot')) \in Nat
                BY EntriesShrink
            <4> QED BY <4>1, <4>3, <4>4, <4>5
        <3> QED BY <3>1, <3>2
    <2> QED BY <2>3, <2>4, <2>5, <2>6
<1>3. ASSUME NEW t \in Tokens, PickUp(t) PROVE ProfilesInv'
    <2>1. /\ UNCHANGED <<age, result, stage, tok, readOnly, browser, captured>>
          /\ \/ /\ Swept[t] = "ready" /\ slot' = [Swept EXCEPT ![t] = "gone"]
                /\ pickups' = [pickups EXCEPT ![t] = @ + 1]
             \/ slot' = Swept /\ UNCHANGED pickups
        BY <1>3 DEF PickUp
    <2>2. /\ slot' \in [Tokens -> SlotStates]
          /\ \A u \in Tokens : slot'[u] \in {slot[u], "gone"}
          /\ \A u \in Tokens : slot'[u] = slot[u] \/ slot[u] \in {"pending", "inflight", "ready"}
          /\ \A u \in Tokens : \/ pickups'[u] = pickups[u]
                               \/ /\ slot[u] = "ready" /\ slot'[u] = "gone"
                                  /\ pickups'[u] = pickups[u] + 1
          /\ pickups' \in [Tokens -> Nat]
        BY <2>1, <1>0, SweptFacts DEF TypeOK
    <2>3. TypeOK'
        BY <2>1, <2>2 DEF TypeOK
    <2>4. TokenInv'
        BY <2>1, <2>2 DEF TokenInv, TypeOK
    <2>5. EntryInv' /\ SessionInv'
        BY <2>1, <2>2 DEF EntryInv, SessionInv, TypeOK
    <2>6. Entries(slot') \subseteq Entries(slot)
        BY <2>2 DEF Entries
    <2> QED BY <2>3, <2>4, <2>5, <2>6, CapKept
<1>4. ASSUME NEW r \in Requests, NEW t \in Tokens, ClaimProfile(r, t) PROVE ProfilesInv'
    <2>1. CASE Swept[t] = "pending"
        <3>1. /\ slot' = [Swept EXCEPT ![t] = "inflight"]
              /\ age' = [age EXCEPT ![t] = "fresh"]
              /\ stage' = [stage EXCEPT ![r] = "launching"]
              /\ tok' = [tok EXCEPT ![r] = t]
              /\ stage[r] = "idle" /\ slot[t] = "pending"
              /\ UNCHANGED <<result, pickups, readOnly, browser, captured>>
            BY <1>4, <2>1, SweptFacts DEF ClaimProfile
        <3>2. /\ slot' \in [Tokens -> SlotStates] /\ slot'[t] = "inflight"
              /\ \A u \in Tokens : u # t =>
                    \/ slot'[u] = slot[u]
                    \/ slot'[u] = "gone" /\ slot[u] \in {"pending", "inflight", "ready"}
            BY <3>1, <1>0, SweptFacts
        <3>3. \A q \in Requests : tok[q] # t
            BY <3>1 DEF TokenInv
        <3>4. TypeOK'
            BY <3>1, <3>2 DEF TypeOK, Stages
        <3>5. TokenInv'
            BY <3>1, <3>2, <3>3 DEF TokenInv, TypeOK
        <3>6. EntryInv'
            <4>1. \A q \in Requests : q # r => tok'[q] = tok[q] /\ stage'[q] = stage[q]
                BY <3>1 DEF TypeOK
            <4>2. tok'[r] = t /\ stage'[r] = "launching"
                BY <3>1 DEF TypeOK
            <4>3. tok[r] = NoToken
                BY <3>1 DEF TokenInv
            <4>4. ASSUME NEW u \in Tokens, slot'[u] = "inflight"
                  PROVE  \E q \in Requests : tok'[q] = u /\ stage'[q] \notin {"discarding", "over"}
                BY <4>1, <4>2, <4>3, <4>4, <3>2 DEF EntryInv
            <4>5. ASSUME NEW u \in Tokens, slot'[u] = "ready"
                  PROVE  \E q \in Requests : tok'[q] = u /\ stage'[q] = "over" /\ ~readOnly'[q]
                BY <4>1, <4>3, <4>5, <3>1, <3>2 DEF EntryInv
            <4>6. \A u \in Tokens : pickups'[u] = 0 \/ (pickups'[u] = 1 /\ slot'[u] = "gone")
                BY <3>1, <3>2 DEF EntryInv
            <4> QED BY <4>4, <4>5, <4>6 DEF EntryInv
        <3>7. SessionInv'
            BY <3>1 DEF SessionInv, TypeOK
        <3>8. Entries(slot') \subseteq Entries(slot)
            BY <3>1, <3>2 DEF Entries
        <3> QED BY <3>4, <3>5, <3>6, <3>7, <3>8, CapKept
    <2>2. CASE Swept[t] # "pending"
        <3>1. slot' = Swept
              /\ UNCHANGED <<age, result, pickups, stage, tok, readOnly, browser, captured>>
            BY <1>4, <2>2 DEF ClaimProfile
        <3>2. /\ slot' \in [Tokens -> SlotStates]
              /\ \A u \in Tokens :
                    \/ slot'[u] = slot[u]
                    \/ slot'[u] = "gone" /\ slot[u] \in {"pending", "inflight", "ready"}
            BY <3>1, <1>0, SweptFacts
        <3>3. TypeOK'
            BY <3>1, <3>2 DEF TypeOK
        <3>4. TokenInv' /\ EntryInv' /\ SessionInv'
            BY <3>1, <3>2 DEF TokenInv, EntryInv, SessionInv, TypeOK
        <3>5. Entries(slot') \subseteq Entries(slot)
            BY <3>2 DEF Entries
        <3> QED BY <3>3, <3>4, <3>5, CapKept
    <2> QED BY <2>1, <2>2
<1>5. ASSUME NEW r \in Requests, Launched(r) PROVE ProfilesInv'
    <2>1. TypeOK'
        BY <1>5 DEF Launched, Goto, TypeOK, Stages
    <2>2. TokenInv'
        BY <1>5 DEF Launched, Goto, TokenInv, TypeOK
    <2>3. EntryInv'
        BY <1>5 DEF Launched, Goto, EntryInv, TypeOK
    <2>4. SessionInv'
        BY <1>5 DEF Launched, Goto, SessionInv, TypeOK
    <2>5. Entries(slot') = Entries(slot)
        BY <1>5 DEF Launched
    <2> QED BY <2>1, <2>2, <2>3, <2>4, <2>5
<1>6. ASSUME NEW r \in Requests, LaunchFailed(r) PROVE ProfilesInv'
    <2>1. TypeOK'
        BY <1>6 DEF LaunchFailed, Goto, TypeOK, Stages
    <2>2. TokenInv'
        BY <1>6 DEF LaunchFailed, Goto, TokenInv, TypeOK
    <2>3. EntryInv'
        BY <1>6 DEF LaunchFailed, Goto, EntryInv, TypeOK
    <2>4. SessionInv'
        BY <1>6 DEF LaunchFailed, Goto, SessionInv, TypeOK
    <2>5. Entries(slot') = Entries(slot)
        BY <1>6 DEF LaunchFailed
    <2> QED BY <2>1, <2>2, <2>3, <2>4, <2>5
<1>7. ASSUME NEW r \in Requests, HandlerDropped(r) PROVE ProfilesInv'
    <2>1. TypeOK'
        BY <1>7 DEF HandlerDropped, Goto, TypeOK, Stages
    <2>2. TokenInv'
        BY <1>7 DEF HandlerDropped, Goto, TokenInv, TypeOK
    <2>3. EntryInv'
        BY <1>7 DEF HandlerDropped, Goto, EntryInv, TypeOK
    <2>4. SessionInv'
        BY <1>7 DEF HandlerDropped, Goto, SessionInv, TypeOK
    <2>5. Entries(slot') = Entries(slot)
        BY <1>7 DEF HandlerDropped
    <2> QED BY <2>1, <2>2, <2>3, <2>4, <2>5
<1>8. ASSUME NEW r \in Requests, UpgradeFailed(r) PROVE ProfilesInv'
    <2>1. TypeOK'
        BY <1>8 DEF UpgradeFailed, Goto, TypeOK, Stages
    <2>2. TokenInv'
        BY <1>8 DEF UpgradeFailed, Goto, TokenInv, TypeOK
    <2>3. EntryInv'
        BY <1>8 DEF UpgradeFailed, Goto, EntryInv, TypeOK
    <2>4. SessionInv'
        BY <1>8 DEF UpgradeFailed, Goto, SessionInv, TypeOK
    <2>5. Entries(slot') = Entries(slot)
        BY <1>8 DEF UpgradeFailed
    <2> QED BY <2>1, <2>2, <2>3, <2>4, <2>5
<1>9. ASSUME NEW r \in Requests, Upgraded(r) PROVE ProfilesInv'
    <2>1. TypeOK'
        BY <1>9 DEF Upgraded, Goto, TypeOK, Stages
    <2>2. TokenInv'
        BY <1>9 DEF Upgraded, Goto, TokenInv, TypeOK
    <2>3. EntryInv'
        BY <1>9 DEF Upgraded, Goto, EntryInv, TypeOK
    <2>4. SessionInv'
        BY <1>9 DEF Upgraded, Goto, SessionInv, TypeOK
    <2>5. Entries(slot') = Entries(slot)
        BY <1>9 DEF Upgraded
    <2> QED BY <2>1, <2>2, <2>3, <2>4, <2>5
<1>10. ASSUME NEW r \in Requests, Seeded(r) PROVE ProfilesInv'
    <2>1. TypeOK'
        BY <1>10 DEF Seeded, Goto, TypeOK, Stages
    <2>2. TokenInv'
        BY <1>10 DEF Seeded, Goto, TokenInv, TypeOK
    <2>3. EntryInv'
        BY <1>10 DEF Seeded, Goto, EntryInv, TypeOK
    <2>4. SessionInv'
        BY <1>10 DEF Seeded, Goto, SessionInv, TypeOK
    <2>5. Entries(slot') = Entries(slot)
        BY <1>10 DEF Seeded
    <2> QED BY <2>1, <2>2, <2>3, <2>4, <2>5
<1>11. ASSUME NEW r \in Requests, Capture(r) PROVE ProfilesInv'
    <2>1. TypeOK'
        BY <1>11 DEF Capture, Goto, TypeOK, Stages
    <2>2. TokenInv'
        BY <1>11 DEF Capture, Goto, TokenInv, TypeOK
    <2>3. EntryInv'
        BY <1>11 DEF Capture, Goto, EntryInv, TypeOK
    <2>4. SessionInv'
        BY <1>11 DEF Capture, Goto, SessionInv, TypeOK
    <2>5. Entries(slot') = Entries(slot)
        BY <1>11 DEF Capture
    <2> QED BY <2>1, <2>2, <2>3, <2>4, <2>5
<1>12. ASSUME NEW r \in Requests, KillCapturing(r) PROVE ProfilesInv'
    <2>1. TypeOK'
        BY <1>12 DEF KillCapturing, Goto, TypeOK, Stages
    <2>2. TokenInv'
        BY <1>12 DEF KillCapturing, Goto, TokenInv, TypeOK
    <2>3. EntryInv'
        BY <1>12 DEF KillCapturing, Goto, EntryInv, TypeOK
    <2>4. SessionInv'
        BY <1>12 DEF KillCapturing, Goto, SessionInv, TypeOK
    <2>5. Entries(slot') = Entries(slot)
        BY <1>12 DEF KillCapturing
    <2> QED BY <2>1, <2>2, <2>3, <2>4, <2>5
<1>13. ASSUME NEW r \in Requests, Discard(r) PROVE ProfilesInv'
    <2>1. TypeOK'
        BY <1>13 DEF Discard, Goto, TypeOK, Stages
    <2>2. TokenInv'
        BY <1>13 DEF Discard, Goto, TokenInv, TypeOK
    <2>3. EntryInv'
        BY <1>13 DEF Discard, Goto, EntryInv, TypeOK
    <2>4. SessionInv'
        BY <1>13 DEF Discard, Goto, SessionInv, TypeOK
    <2>5. Entries(slot') = Entries(slot)
        BY <1>13 DEF Discard
    <2> QED BY <2>1, <2>2, <2>3, <2>4, <2>5
<1>14. ASSUME NEW r \in Requests, SeedFailed(r) PROVE ProfilesInv'
    <2>1. /\ tok[r] \in Tokens
          /\ \/ slot' = slot
             \/ slot[tok[r]] = "inflight" /\ slot' = [slot EXCEPT ![tok[r]] = "gone"]
        BY <1>14 DEF SeedFailed, Goto, FinishWithoutResult, TokenInv, TypeOK
    <2>2. /\ UNCHANGED <<age, result, pickups, tok, readOnly, browser, captured>>
          /\ \/ /\ stage' = [stage EXCEPT ![r] = "discarding"] /\ slot'[tok[r]] # "inflight"
                /\ stage[r] \in {"seeding", "serving"}
             \/ /\ stage' = [stage EXCEPT ![r] = "capturing"] /\ ~readOnly[r] /\ slot' = slot
                /\ stage[r] = "serving"
             \/ /\ stage' = [stage EXCEPT ![r] = "killing"] /\ ~readOnly[r] /\ slot' = slot
                /\ stage[r] = "serving"
        BY <1>14, <2>1 DEF SeedFailed, Goto, FinishWithoutResult, TypeOK
    <2>3. TypeOK'
        BY <2>1, <2>2, <1>0 DEF TypeOK, Stages
    <2>4. TokenInv'
        BY <2>1, <2>2 DEF TokenInv, TypeOK
    <2>5. EntryInv'
        BY <2>1, <2>2 DEF EntryInv, TypeOK
    <2>6. SessionInv'
        BY <2>2 DEF SessionInv, TypeOK
    <2>7. Entries(slot') \subseteq Entries(slot)
        BY <2>1 DEF Entries, TypeOK
    <2> QED BY <2>3, <2>4, <2>5, <2>6, <2>7, CapKept
<1>15. ASSUME NEW r \in Requests, ServedWithPipe(r) PROVE ProfilesInv'
    <2>1. /\ tok[r] \in Tokens
          /\ \/ slot' = slot
             \/ slot[tok[r]] = "inflight" /\ slot' = [slot EXCEPT ![tok[r]] = "gone"]
        BY <1>15 DEF ServedWithPipe, Goto, FinishWithoutResult, TokenInv, TypeOK
    <2>2. /\ UNCHANGED <<age, result, pickups, tok, readOnly, browser, captured>>
          /\ \/ /\ stage' = [stage EXCEPT ![r] = "discarding"] /\ slot'[tok[r]] # "inflight"
                /\ stage[r] \in {"seeding", "serving"}
             \/ /\ stage' = [stage EXCEPT ![r] = "capturing"] /\ ~readOnly[r] /\ slot' = slot
                /\ stage[r] = "serving"
             \/ /\ stage' = [stage EXCEPT ![r] = "killing"] /\ ~readOnly[r] /\ slot' = slot
                /\ stage[r] = "serving"
        BY <1>15, <2>1 DEF ServedWithPipe, Goto, FinishWithoutResult, TypeOK
    <2>3. TypeOK'
        BY <2>1, <2>2, <1>0 DEF TypeOK, Stages
    <2>4. TokenInv'
        BY <2>1, <2>2 DEF TokenInv, TypeOK
    <2>5. EntryInv'
        BY <2>1, <2>2 DEF EntryInv, TypeOK
    <2>6. SessionInv'
        BY <2>2 DEF SessionInv, TypeOK
    <2>7. Entries(slot') \subseteq Entries(slot)
        BY <2>1 DEF Entries, TypeOK
    <2> QED BY <2>3, <2>4, <2>5, <2>6, <2>7, CapKept
<1>16. ASSUME NEW r \in Requests, ServedWithoutPipe(r) PROVE ProfilesInv'
    <2>1. /\ tok[r] \in Tokens
          /\ \/ slot' = slot
             \/ slot[tok[r]] = "inflight" /\ slot' = [slot EXCEPT ![tok[r]] = "gone"]
        BY <1>16 DEF ServedWithoutPipe, Goto, FinishWithoutResult, TokenInv, TypeOK
    <2>2. /\ UNCHANGED <<age, result, pickups, tok, readOnly, browser, captured>>
          /\ \/ /\ stage' = [stage EXCEPT ![r] = "discarding"] /\ slot'[tok[r]] # "inflight"
                /\ stage[r] \in {"seeding", "serving"}
             \/ /\ stage' = [stage EXCEPT ![r] = "capturing"] /\ ~readOnly[r] /\ slot' = slot
                /\ stage[r] = "serving"
             \/ /\ stage' = [stage EXCEPT ![r] = "killing"] /\ ~readOnly[r] /\ slot' = slot
                /\ stage[r] = "serving"
        BY <1>16, <2>1 DEF ServedWithoutPipe, Goto, FinishWithoutResult, TypeOK
    <2>3. TypeOK'
        BY <2>1, <2>2, <1>0 DEF TypeOK, Stages
    <2>4. TokenInv'
        BY <2>1, <2>2 DEF TokenInv, TypeOK
    <2>5. EntryInv'
        BY <2>1, <2>2 DEF EntryInv, TypeOK
    <2>6. SessionInv'
        BY <2>2 DEF SessionInv, TypeOK
    <2>7. Entries(slot') \subseteq Entries(slot)
        BY <2>1 DEF Entries, TypeOK
    <2> QED BY <2>3, <2>4, <2>5, <2>6, <2>7, CapKept
<1>17. ASSUME NEW r \in Requests, Deposit(r) PROVE ProfilesInv'
    <2> DEFINE t == tok[r]
    <2>1. /\ t \in Tokens /\ stage[r] = "depositing"
          /\ stage' = [stage EXCEPT ![r] = "over"]
          /\ UNCHANGED <<pickups, tok, readOnly, browser, captured>>
        BY <1>17 DEF Deposit, Goto, DepositResult, FinishWithoutResult, TokenInv, TypeOK
    <2>2. /\ \/ slot' = slot /\ slot[t] # "inflight"
             \/ slot[t] = "inflight" /\ slot' = [slot EXCEPT ![t] = "gone"]
             \/ /\ slot[t] = "inflight" /\ slot' = [slot EXCEPT ![t] = "ready"]
                /\ result' = [result EXCEPT ![t] = captured[r]] /\ captured[r] # "none"
          /\ \/ result' = result
             \/ result' = [result EXCEPT ![t] = captured[r]] /\ captured[r] # "none"
          /\ age' = age \/ age' = [age EXCEPT ![t] = "fresh"]
        <3>1. CASE captured[r] # "none"
            BY <1>17, <3>1 DEF Deposit, DepositResult
        <3>2. CASE captured[r] = "none"
            BY <1>17, <3>2 DEF Deposit, FinishWithoutResult
        <3> QED BY <3>1, <3>2
    <2>3. ~readOnly[r] /\ browser[r] = "gone"
        BY <2>1 DEF SessionInv
    <2> HIDE DEF t
    <2>4. TypeOK'
        BY <2>1, <2>2, <1>0 DEF TypeOK, Stages
    <2>5. TokenInv'
        BY <2>1, <2>2 DEF TokenInv, TypeOK, t
    <2>6. EntryInv'
        <3>1. \A q \in Requests : q # r => stage'[q] = stage[q]
            BY <2>1 DEF TypeOK
        <3>2. stage'[r] = "over" /\ tok[r] = t
            BY <2>1 DEF TypeOK, t
        <3>3. slot'[t] # "inflight" /\ \A u \in Tokens : u # t => slot'[u] = slot[u]
            BY <2>1, <2>2 DEF TypeOK
        <3> QED BY <2>1, <2>2, <2>3, <3>1, <3>2, <3>3 DEF EntryInv, TypeOK
    <2>7. SessionInv'
        BY <2>1, <2>3 DEF SessionInv, TypeOK
    <2>8. Entries(slot') \subseteq Entries(slot)
        BY <2>1, <2>2 DEF Entries, TypeOK
    <2> QED BY <2>4, <2>5, <2>6, <2>7, <2>8, CapKept
<1>18. ASSUME NEW r \in Requests, BrowserDies(r) PROVE ProfilesInv'
    BY <1>18 DEF BrowserDies, TypeOK, TokenInv, EntryInv, SessionInv, Entries
<1>19. CASE UNCHANGED vars
    BY <1>19 DEF vars, TypeOK, TokenInv, EntryInv, SessionInv, Entries
<1> QED BY <1>1, <1>2, <1>3, <1>4, <1>5, <1>6, <1>7, <1>8, <1>9, <1>10, <1>11, <1>12, <1>13,
    <1>14, <1>15, <1>16, <1>17, <1>18, <1>19 DEF Next, Session

(* The inductive invariant of the profile hand-off. *)
THEOREM ProfilesInvariant == Spec => []ProfilesInv
<1> QED BY ProfilesInit, ProfilesStep, PTL DEF Spec

(* A token is claimed by one request and picked up once, however claims,    *)
(* sweeps and late reports interleave, and MAX_PENDING bounds the store.    *)
THEOREM HandOffIsOneShot == Spec => []OneShot
<1>1. ProfilesInv => OneShot
    BY DEF ProfilesInv, OneShot, TokenInv, EntryInv
<1> QED BY <1>1, ProfilesInvariant, PTL

(* What is picked up came from a session that is over and saves, and every  *)
(* session that reached its client has released its entry at its end.       *)
THEOREM ReportsAreFinal == Spec => []EndsAreFinal
<1>1. ProfilesInv => EndsAreFinal
    BY DEF ProfilesInv, EndsAreFinal, EntryInv, SessionInv
<1> QED BY <1>1, ProfilesInvariant, PTL

(* A step of one request touches no entry of another that is under way, and *)
(* a sweep takes an entry in flight only when it is old.                    *)
LEMMA EntryMoves == ProfilesInv /\ [Next]_vars => [EntryStep]_vars
<1> SUFFICES ASSUME ProfilesInv, Next PROVE EntryStep
    OBVIOUS
<1> USE DEF ProfilesInv, request, store
<1>1. ASSUME UNCHANGED slot PROVE EntryStep
    BY <1>1 DEF EntryStep
<1>2. ASSUME NEW t \in Tokens, DropOff(t) PROVE EntryStep
    <2>1. slot[t] = "unminted" /\ (slot' = [Swept EXCEPT ![t] = "pending"] \/ slot' = Swept)
        BY <1>2 DEF DropOff
    <2>2. \A r \in Requests : stage[r] \in Running => tok[r] \in Tokens
        BY DEF TokenInv, TypeOK, Running
    <2> QED BY <2>1, <2>2, SweptFacts DEF EntryStep
<1>3. ASSUME NEW t \in Tokens, PickUp(t) PROVE EntryStep
    <2>1. (Swept[t] = "ready" /\ slot' = [Swept EXCEPT ![t] = "gone"]) \/ slot' = Swept
        BY <1>3 DEF PickUp
    <2>2. \A r \in Requests : stage[r] \in Running => tok[r] \in Tokens
        BY DEF TokenInv, TypeOK, Running
    <2> QED BY <2>1, <2>2, SweptFacts DEF EntryStep
<1>4. ASSUME NEW r \in Requests, NEW t \in Tokens, ClaimProfile(r, t) PROVE EntryStep
    <2>1. (Swept[t] = "pending" /\ slot' = [Swept EXCEPT ![t] = "inflight"]) \/ slot' = Swept
        BY <1>4 DEF ClaimProfile
    <2>2. \A q \in Requests : stage[q] \in Running => tok[q] \in Tokens
        BY DEF TokenInv, TypeOK, Running
    <2> QED BY <2>1, <2>2, SweptFacts DEF EntryStep
<1>5. ASSUME NEW r \in Requests, tok[r] # NoToken, stage'[r] \notin Running,
             slot[tok[r]] = "inflight",
             \E to \in {"ready", "gone"} : slot' = [slot EXCEPT ![tok[r]] = to]
      PROVE  EntryStep
    <2>1. tok[r] \in Tokens /\ \A q \in Requests : q # r => tok[q] # tok[r]
        BY <1>5 DEF TokenInv, TypeOK
    <2>2. \A t \in Tokens : t # tok[r] => slot'[t] = slot[t]
        BY <1>5, <2>1 DEF TypeOK
    <2>3. slot'[tok[r]] \in {"ready", "gone"}
        BY <1>5, <2>1 DEF TypeOK
    <2>4. \A q \in Requests : stage[q] \in Running => tok[q] \in Tokens
        BY DEF TokenInv, TypeOK, Running
    <2> QED BY <1>5, <2>1, <2>2, <2>3, <2>4 DEF EntryStep
<1>6. ASSUME NEW r \in Requests, FinishWithoutResult(tok[r]), stage[r] \in {"seeding", "serving"},
             stage' = [stage EXCEPT ![r] = "discarding"]
      PROVE  EntryStep
    <2>1. tok[r] # NoToken /\ stage'[r] \notin Running
        BY <1>6 DEF TokenInv, TypeOK, Running
    <2>2. slot' = slot \/ (slot[tok[r]] = "inflight" /\ slot' = [slot EXCEPT ![tok[r]] = "gone"])
        BY <1>6 DEF FinishWithoutResult
    <2> QED BY <2>1, <2>2, <1>1, <1>5
<1>7. ASSUME NEW r \in Requests, Deposit(r) PROVE EntryStep
    <2>1. tok[r] # NoToken /\ stage'[r] \notin Running
        BY <1>7 DEF Deposit, Goto, TokenInv, TypeOK, Running
    <2>2. \/ slot' = slot
          \/ slot[tok[r]] = "inflight" /\ slot' = [slot EXCEPT ![tok[r]] = "gone"]
          \/ slot[tok[r]] = "inflight" /\ slot' = [slot EXCEPT ![tok[r]] = "ready"]
        BY <1>7 DEF Deposit, DepositResult, FinishWithoutResult
    <2> QED BY <2>1, <2>2, <1>1, <1>5
<1>8. ASSUME NEW r \in Requests,
             SeedFailed(r) \/ ServedWithPipe(r) \/ ServedWithoutPipe(r)
      PROVE  EntryStep
    BY <1>8, <1>1, <1>6 DEF SeedFailed, ServedWithPipe, ServedWithoutPipe, Goto
<1>9. ASSUME NEW r \in Requests,
             \/ Launched(r) \/ LaunchFailed(r) \/ HandlerDropped(r) \/ UpgradeFailed(r)
             \/ Upgraded(r) \/ Seeded(r) \/ Capture(r) \/ KillCapturing(r) \/ Discard(r)
             \/ BrowserDies(r)
      PROVE  EntryStep
    BY <1>9, <1>1 DEF Launched, LaunchFailed, HandlerDropped, UpgradeFailed, Upgraded, Seeded,
        Capture, KillCapturing, Discard, BrowserDies
<1>10. ASSUME NEW t \in Tokens, Elapse(t) PROVE EntryStep
    BY <1>10, <1>1 DEF Elapse
<1> QED BY <1>2, <1>3, <1>4, <1>7, <1>8, <1>9, <1>10 DEF Next, Session

(* An entry never comes back, and a session in progress keeps its record    *)
(* until its own end or 24 hours.                                           *)
THEOREM EntriesLiveForward == Spec => EntryLife
<1> QED BY ProfilesInvariant, EntryMoves, PTL DEF Spec, EntryLife
=============================================================================
