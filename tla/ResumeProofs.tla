------------------------------ MODULE ResumeProofs ------------------------------
(***************************************************************************)
(* Proofs about Resume for any number of sessions and resuming requests.   *)
(***************************************************************************)
EXTENDS Resume, TLAPS

(* No session has parked and no request has come. *)
LEMMA ResumeInit == Init => ResumeInv
<1> SUFFICES ASSUME Init PROVE ResumeInv
    OBVIOUS
<1>1. TypeOK
    BY DEF Init, TypeOK, NoHold
<1>2. OneHandOff
    BY <1>1 DEF Init, OneHandOff, Holder
<1>3. HoldInv /\ SocketInv /\ SenderInv /\ LateOnlyAtEnd
    BY DEF Init, HoldInv, SocketInv, SenderInv, LateOnlyAtEnd
<1> QED BY <1>2, <1>3 DEF ResumeInv

(* Every step keeps the invariant. *)
LEMMA ResumeStep == ResumeInv /\ [Next]_vars => ResumeInv'
<1> SUFFICES ASSUME ResumeInv, [Next]_vars PROVE ResumeInv'
    OBVIOUS
<1> USE ResumeAssumption DEF ResumeInv, OneHandOff, TypeOK, requests, session
<1>1. ASSUME NEW s \in Sessions, Park(s) PROVE ResumeInv'
    <2>1. TypeOK'
        BY <1>1 DEF Park, SocketInv
    <2>2. OneHandOff'
        BY <1>1, <2>1 DEF Park, Holder, SocketInv, HoldInv
    <2>3. HoldInv'
        BY <1>1 DEF Park, HoldInv
    <2>4. SocketInv'
        BY <1>1 DEF Park, SocketInv, HoldInv
    <2>5. SenderInv'
        BY <1>1 DEF Park, SenderInv
    <2>6. LateOnlyAtEnd'
        BY <1>1 DEF Park, LateOnlyAtEnd, HoldInv, SocketInv, SenderInv
    <2> QED BY <2>1, <2>2, <2>3, <2>4, <2>5, <2>6
<1>2. ASSUME NEW s \in Sessions, Finish(s) PROVE ResumeInv'
    <2>1. TypeOK'
        BY <1>2 DEF Finish, Ends, SocketInv
    <2>2. OneHandOff'
        BY <1>2, <2>1 DEF Finish, Ends, Holder, SocketInv, HoldInv
    <2>3. HoldInv'
        BY <1>2 DEF Finish, Ends, HoldInv
    <2>4. SocketInv'
        BY <1>2 DEF Finish, Ends, SocketInv, HoldInv
    <2>5. SenderInv'
        BY <1>2 DEF Finish, Ends, SenderInv
    <2>6. LateOnlyAtEnd'
        BY <1>2 DEF Finish, Ends, LateOnlyAtEnd, HoldInv, SocketInv, SenderInv
    <2> QED BY <2>1, <2>2, <2>3, <2>4, <2>5, <2>6
<1>3. ASSUME NEW s \in Sessions, BridgeLost(s) PROVE ResumeInv'
    <2>1. TypeOK'
        BY <1>3 DEF BridgeLost, Ends, SocketInv
    <2>2. OneHandOff'
        BY <1>3, <2>1 DEF BridgeLost, Ends, Holder, SocketInv, HoldInv
    <2>3. HoldInv'
        BY <1>3 DEF BridgeLost, Ends, HoldInv
    <2>4. SocketInv'
        BY <1>3 DEF BridgeLost, Ends, SocketInv, HoldInv
    <2>5. SenderInv'
        BY <1>3 DEF BridgeLost, Ends, SenderInv
    <2>6. LateOnlyAtEnd'
        BY <1>3 DEF BridgeLost, Ends, LateOnlyAtEnd, HoldInv, SocketInv, SenderInv
    <2> QED BY <2>1, <2>2, <2>3, <2>4, <2>5, <2>6
<1>4. ASSUME NEW s \in Sessions, WakeResumed(s) PROVE ResumeInv'
    <2>1. TypeOK'
        BY <1>4 DEF WakeResumed, Wakes, SocketInv
    <2>2. OneHandOff'
        BY <1>4, <2>1 DEF WakeResumed, Wakes, Holder, SocketInv, HoldInv
    <2>3. HoldInv'
        BY <1>4 DEF WakeResumed, Wakes, HoldInv
    <2>4. SocketInv'
        BY <1>4 DEF WakeResumed, Wakes, SocketInv, HoldInv
    <2>5. SenderInv'
        BY <1>4 DEF WakeResumed, Wakes, SenderInv
    <2>6. LateOnlyAtEnd'
        BY <1>4 DEF WakeResumed, Wakes, LateOnlyAtEnd, HoldInv, SocketInv, SenderInv
    <2> QED BY <2>1, <2>2, <2>3, <2>4, <2>5, <2>6
<1>5. ASSUME NEW s \in Sessions, WakeClosed(s) PROVE ResumeInv'
    <2>1. TypeOK'
        BY <1>5 DEF WakeClosed, Wakes, SenderAlive, SocketInv
    <2>2. OneHandOff'
        BY <1>5, <2>1 DEF WakeClosed, Wakes, SenderAlive, Holder, SocketInv, HoldInv
    <2>3. HoldInv'
        BY <1>5 DEF WakeClosed, Wakes, SenderAlive, HoldInv
    <2>4. SocketInv'
        BY <1>5 DEF WakeClosed, Wakes, SenderAlive, SocketInv, HoldInv
    <2>5. SenderInv'
        BY <1>5 DEF WakeClosed, Wakes, SenderAlive, SenderInv
    <2>6. LateOnlyAtEnd'
        BY <1>5 DEF WakeClosed, Wakes, SenderAlive, LateOnlyAtEnd, HoldInv, SocketInv, SenderInv
    <2> QED BY <2>1, <2>2, <2>3, <2>4, <2>5, <2>6
<1>6. ASSUME NEW s \in Sessions, WakeDeadline(s) PROVE ResumeInv'
    <2>1. TypeOK'
        BY <1>6 DEF WakeDeadline, Wakes, SocketInv
    <2>2. OneHandOff'
        BY <1>6, <2>1 DEF WakeDeadline, Wakes, Holder, SocketInv, HoldInv
    <2>3. HoldInv'
        BY <1>6 DEF WakeDeadline, Wakes, HoldInv
    <2>4. SocketInv'
        BY <1>6 DEF WakeDeadline, Wakes, SocketInv, HoldInv
    <2>5. SenderInv'
        BY <1>6 DEF WakeDeadline, Wakes, SenderInv
    <2>6. LateOnlyAtEnd'
        BY <1>6 DEF WakeDeadline, Wakes, LateOnlyAtEnd, HoldInv, SocketInv, SenderInv
    <2> QED BY <2>1, <2>2, <2>3, <2>4, <2>5, <2>6
<1>7. ASSUME NEW s \in Sessions, WakeLost(s) PROVE ResumeInv'
    <2>1. TypeOK'
        BY <1>7 DEF WakeLost, Wakes, SocketInv
    <2>2. OneHandOff'
        BY <1>7, <2>1 DEF WakeLost, Wakes, Holder, SocketInv, HoldInv
    <2>3. HoldInv'
        BY <1>7 DEF WakeLost, Wakes, HoldInv
    <2>4. SocketInv'
        BY <1>7 DEF WakeLost, Wakes, SocketInv, HoldInv
    <2>5. SenderInv'
        BY <1>7 DEF WakeLost, Wakes, SenderInv
    <2>6. LateOnlyAtEnd'
        BY <1>7 DEF WakeLost, Wakes, LateOnlyAtEnd, HoldInv, SocketInv, SenderInv
    <2> QED BY <2>1, <2>2, <2>3, <2>4, <2>5, <2>6
<1>8. ASSUME NEW s \in Sessions, Unpark(s) PROVE ResumeInv'
    <2>1. CASE cause[s] = "resumed"
        <3>1. /\ task' = [task EXCEPT ![s] = "cleaning"]
              /\ listed' = [listed EXCEPT ![s] = 0]
              /\ UNCHANGED <<cause, park, inbox, next, elapsed, result, pipe, handler, holds,
                              cancelled>>
            BY <1>8, <2>1 DEF Unpark, Ends
        <3>2. next[s] # NoClient /\ task[s] = "woken"
            BY <1>8, <2>1 DEF Unpark
        <3>3. TypeOK'
            BY <3>1, <3>2
        <3>4. OneHandOff'
            BY <3>1, <3>2, <3>3 DEF Holder
        <3>5. HoldInv'
            BY <3>1, <3>2 DEF HoldInv, Holder
        <3>6. SocketInv'
            BY <3>1, <3>2, <2>1 DEF SocketInv
        <3>7. SenderInv'
            BY <3>1 DEF SenderInv
        <3>8. LateOnlyAtEnd'
            BY <3>1, <3>2, <2>1 DEF LateOnlyAtEnd, HoldInv
        <3> QED BY <3>3, <3>4, <3>5, <3>6, <3>7, <3>8
    <2>2. CASE cause[s] # "resumed"
        <3>1. /\ task' = [task EXCEPT ![s] = "over"]
              /\ listed' = [listed EXCEPT ![s] = 0]
              /\ inbox' = [inbox EXCEPT ![s] = NoClient]
              /\ result' \in [Sessions -> {"none", "pipe", "nothing"}]
              /\ handler' = [c \in Clients |-> IF c = inbox[s] THEN "dropped" ELSE handler[c]]
              /\ UNCHANGED <<cause, park, next, elapsed, pipe, holds, cancelled>>
            BY <1>8, <2>2 DEF Unpark, Ends, DropInbox
        <3>2. task[s] = "woken" /\ next[s] = NoClient
            BY <1>8, <2>2 DEF Unpark, SocketInv
        <3>3. ASSUME NEW c \in Clients
              PROVE  \/ handler'[c] = handler[c] /\ c # inbox[s]
                     \/ c = inbox[s] /\ handler[c] = "sent" /\ holds[c].session = s
                           /\ handler'[c] = "dropped"
            BY <3>1 DEF SocketInv
        <3>4. TypeOK'
            BY <3>1, <3>2, <3>3
        <3>5. OneHandOff'
            BY <3>1, <3>2, <3>3, <3>4 DEF Holder
        <3>6. HoldInv'
            BY <3>1, <3>2, <3>3 DEF HoldInv
        <3>7. SocketInv'
            BY <3>1, <3>2, <3>3 DEF SocketInv
        <3>8. SenderInv'
            BY <3>1, <3>2, <3>3 DEF SenderInv
        <3>9. LateOnlyAtEnd'
            BY <3>1, <3>2, <3>3 DEF LateOnlyAtEnd, HoldInv
        <3> QED BY <3>4, <3>5, <3>6, <3>7, <3>8, <3>9
    <2> QED BY <2>1, <2>2
<1>9. ASSUME NEW s \in Sessions, CleanSlate(s) PROVE ResumeInv'
    <2>1. inbox[s] = NoClient /\ task[s] = "cleaning" /\ next[s] # NoClient
        BY <1>9 DEF CleanSlate, SocketInv
    <2>2. /\ task' = [task EXCEPT ![s] = "bridging"]
          /\ next' = [next EXCEPT ![s] = NoClient]
          /\ inbox' = inbox /\ handler' = handler
          /\ UNCHANGED <<cause, park, listed, elapsed, result, pipe, holds, cancelled>>
        BY <1>9, <2>1 DEF CleanSlate, DropInbox
    <2>3. TypeOK'
        BY <2>1, <2>2
    <2>4. OneHandOff'
        BY <2>1, <2>2, <2>3 DEF Holder
    <2>5. HoldInv'
        BY <2>1, <2>2 DEF HoldInv
    <2>6. SocketInv'
        BY <2>1, <2>2 DEF SocketInv
    <2>7. SenderInv'
        BY <2>1, <2>2 DEF SenderInv
    <2>8. LateOnlyAtEnd'
        BY <2>1, <2>2 DEF LateOnlyAtEnd, HoldInv
    <2> QED BY <2>3, <2>4, <2>5, <2>6, <2>7, <2>8
<1>10. ASSUME NEW s \in Sessions, WindowElapses(s) PROVE ResumeInv'
    <2>1. TypeOK'
        BY <1>10 DEF WindowElapses, SocketInv
    <2>2. OneHandOff'
        BY <1>10, <2>1 DEF WindowElapses, Holder, SocketInv, HoldInv
    <2>3. HoldInv'
        BY <1>10 DEF WindowElapses, HoldInv
    <2>4. SocketInv'
        BY <1>10 DEF WindowElapses, SocketInv, HoldInv
    <2>5. SenderInv'
        BY <1>10 DEF WindowElapses, SenderInv
    <2>6. LateOnlyAtEnd'
        BY <1>10 DEF WindowElapses, LateOnlyAtEnd, HoldInv, SocketInv, SenderInv
    <2> QED BY <2>1, <2>2, <2>3, <2>4, <2>5, <2>6
<1>11. ASSUME NEW s \in Sessions, PipeFails(s) PROVE ResumeInv'
    <2>1. TypeOK'
        BY <1>11 DEF PipeFails, SocketInv
    <2>2. OneHandOff'
        BY <1>11, <2>1 DEF PipeFails, Holder, SocketInv, HoldInv
    <2>3. HoldInv'
        BY <1>11 DEF PipeFails, HoldInv
    <2>4. SocketInv'
        BY <1>11 DEF PipeFails, SocketInv, HoldInv
    <2>5. SenderInv'
        BY <1>11 DEF PipeFails, SenderInv
    <2>6. LateOnlyAtEnd'
        BY <1>11 DEF PipeFails, LateOnlyAtEnd, HoldInv, SocketInv, SenderInv
    <2> QED BY <2>1, <2>2, <2>3, <2>4, <2>5, <2>6
<1>12. ASSUME NEW c \in Clients, NEW s \in Sessions, ClaimSession(c, s) PROVE ResumeInv'
    <2>1. CASE listed[s] # 0
        <3> DEFINE h == [session |-> s, park |-> park[s]]
        <3>1. /\ handler[c] = "idle"
              /\ handler' = [handler EXCEPT ![c] = "upgrading"]
              /\ holds' = [holds EXCEPT ![c] = h]
              /\ listed' = [listed EXCEPT ![s] = 0]
              /\ UNCHANGED <<task, cause, park, inbox, next, elapsed, result, pipe, cancelled>>
            BY <1>12, <2>1 DEF ClaimSession
        <3>2. /\ h \in [session : Sessions, park : Nat]
              /\ h.session = s /\ h.park = park[s]
            OBVIOUS
        <3>3. /\ task[s] \in {"parked", "woken"}
              /\ inbox[s] = NoClient /\ next[s] = NoClient
              /\ \A d \in Clients : ~Holder(d, s)
            BY <2>1
        <3>4. /\ \A d \in Clients : d # c => handler'[d] = handler[d] /\ holds'[d] = holds[d]
              /\ handler'[c] = "upgrading" /\ holds'[c] = h
            BY <3>1
        <3> HIDE DEF h
        <3>5. TypeOK'
            BY <3>1, <3>2
        <3>6. OneHandOff'
            <4>1. ASSUME NEW t \in Sessions, NEW d \in Clients, Holder(d, t)'
                  PROVE  (d = c /\ t = s) \/ (d # c /\ t # s /\ Holder(d, t))
                BY <4>1, <3>1, <3>2, <3>3, <3>4 DEF Holder, h
            <4> QED BY <4>1, <3>1, <3>3, <3>5
        <3>7. HoldInv'
            BY <3>1, <3>2, <3>3, <3>4 DEF HoldInv
        <3>8. SocketInv'
            BY <3>1, <3>3, <3>4 DEF SocketInv
        <3>9. SenderInv'
            <4> SUFFICES ASSUME NEW t \in Sessions, task'[t] = "parked"
                         PROVE  \/ listed'[t] = park'[t] \/ inbox'[t] # NoClient
                                \/ \E d \in Clients :
                                      /\ handler'[d] \in {"upgrading", "failed"}
                                      /\ holds'[d] = [session |-> t, park |-> park'[t]]
                BY DEF SenderInv
            <4>1. CASE t = s
                BY <4>1, <3>1, <3>4 DEF h
            <4>2. CASE t # s
                BY <4>2, <3>1, <3>4 DEF SenderInv
            <4> QED BY <4>1, <4>2
        <3>10. LateOnlyAtEnd'
            BY <3>1, <3>4 DEF LateOnlyAtEnd
        <3> QED BY <3>5, <3>6, <3>7, <3>8, <3>9, <3>10
    <2>2. CASE listed[s] = 0
        <3>1. /\ handler[c] = "idle"
              /\ handler' = [handler EXCEPT ![c] = "refused"]
              /\ UNCHANGED <<task, cause, park, listed, inbox, next, elapsed, result, pipe,
                              holds, cancelled>>
            BY <1>12, <2>2 DEF ClaimSession
        <3>2. TypeOK'
            BY <3>1
        <3>3. OneHandOff'
            BY <3>1, <3>2 DEF Holder
        <3>4. HoldInv' /\ SocketInv'
            BY <3>1 DEF HoldInv, SocketInv
        <3>5. SenderInv'
            BY <3>1 DEF SenderInv
        <3>6. LateOnlyAtEnd'
            BY <3>1 DEF LateOnlyAtEnd
        <3> QED BY <3>2, <3>3, <3>4, <3>5, <3>6
    <2> QED BY <2>1, <2>2
<1>13. ASSUME NEW c \in Clients, UpgradeFails(c) PROVE ResumeInv'
    <2>1. TypeOK'
        BY <1>13 DEF UpgradeFails, SocketInv
    <2>2. OneHandOff'
        BY <1>13, <2>1 DEF UpgradeFails, Holder, SocketInv, HoldInv
    <2>3. HoldInv'
        BY <1>13 DEF UpgradeFails, HoldInv
    <2>4. SocketInv'
        BY <1>13 DEF UpgradeFails, SocketInv, HoldInv
    <2>5. SenderInv'
        BY <1>13 DEF UpgradeFails, SenderInv
    <2>6. LateOnlyAtEnd'
        BY <1>13 DEF UpgradeFails, LateOnlyAtEnd, HoldInv, SocketInv, SenderInv
    <2> QED BY <2>1, <2>2, <2>3, <2>4, <2>5, <2>6
<1>14. ASSUME NEW c \in Clients, Deliver(c) PROVE ResumeInv'
    <2> DEFINE s == holds[c].session
    <2>1. /\ s \in Sessions
          /\ Holder(c, s)
          /\ holds[c] = [session |-> s, park |-> park[s]]
          /\ handler[c] = "upgrading"
          /\ task[s] \in {"parked", "woken", "over"}
        BY <1>14 DEF Deliver, HoldInv, Holder
    <2>2. CASE ReceiverAlive(holds[c])
        <3>1. /\ inbox' = [inbox EXCEPT ![s] = c]
              /\ handler' = [handler EXCEPT ![c] = "sent"]
              /\ UNCHANGED <<task, cause, park, listed, next, elapsed, result, pipe, holds,
                              cancelled>>
            BY <1>14, <2>2 DEF Deliver
        <3>2. /\ inbox[s] = NoClient /\ next[s] = NoClient /\ listed[s] = 0
              /\ \A d \in Clients : d # c => ~Holder(d, s)
            BY <2>1
        <3> HIDE DEF s
        <3>3. TypeOK'
            BY <2>1, <3>1
        <3>4. OneHandOff'
            <4>1. ASSUME NEW t \in Sessions, NEW d \in Clients, Holder(d, t)'
                  PROVE  t # s /\ Holder(d, t)
                BY <4>1, <2>1, <3>1, <3>2 DEF Holder
            <4> QED BY <4>1, <2>1, <3>1, <3>2, <3>3
        <3>5. HoldInv'
            BY <2>1, <3>1 DEF HoldInv
        <3>6. SocketInv'
            BY <2>1, <3>1, <3>2 DEF SocketInv, s
        <3>7. SenderInv'
            BY <2>1, <3>1, <3>2 DEF SenderInv
        <3>8. LateOnlyAtEnd'
            BY <2>1, <3>1 DEF LateOnlyAtEnd
        <3> QED BY <3>3, <3>4, <3>5, <3>6, <3>7, <3>8
    <2>3. CASE ~ReceiverAlive(holds[c])
        <3>1. /\ handler' = [handler EXCEPT ![c] = "late"]
              /\ UNCHANGED <<task, cause, park, listed, inbox, next, elapsed, result, pipe,
                              holds, cancelled>>
            BY <1>14, <2>3 DEF Deliver
        <3>2. task[s] = "over"
            BY <2>1, <2>3 DEF ReceiverAlive
        <3>3. TypeOK'
            BY <3>1
        <3>4. OneHandOff'
            BY <3>1, <3>3 DEF Holder
        <3>5. HoldInv' /\ SocketInv'
            BY <2>1, <3>1 DEF HoldInv, SocketInv
        <3>6. SenderInv'
            BY <2>1, <3>1, <3>2 DEF SenderInv
        <3>7. LateOnlyAtEnd'
            BY <2>1, <3>1, <3>2 DEF LateOnlyAtEnd
        <3> QED BY <3>3, <3>4, <3>5, <3>6, <3>7
    <2> QED BY <2>2, <2>3
<1>15. CASE Cancel
    BY <1>15 DEF Cancel, Holder, HoldInv, SocketInv, SenderInv, LateOnlyAtEnd
<1>16. CASE UNCHANGED vars
    BY <1>16 DEF vars, Holder, HoldInv, SocketInv, SenderInv, LateOnlyAtEnd
<1> QED BY <1>1, <1>2, <1>3, <1>4, <1>5, <1>6, <1>7, <1>8, <1>9, <1>10, <1>11, <1>12, <1>13,
    <1>14, <1>15, <1>16 DEF Next, Wake

(* The inductive invariant of the resume window. *)
THEOREM ResumeInvariant == Spec => []ResumeInv
<1>1. Init => ResumeInv
    BY ResumeInit
<1>2. ResumeInv /\ [Next]_vars => ResumeInv'
    BY ResumeStep
<1> QED BY <1>1, <1>2, PTL DEF Spec

(* claim takes the sender out of the registry under its lock, so two        *)
(* clients never get the same browser, however many race for it, and the    *)
(* registry lists a session only while it waits.                            *)
THEOREM HandsOffOnce == Spec => []OneHandOff
<1>1. ResumeInv => OneHandOff
    BY DEF ResumeInv
<1> QED BY <1>1, ResumeInvariant, PTL

(* A client whose upgrade is through is turned away, or its socket dropped, *)
(* only when the session is over; and a wait expires only with its window   *)
(* or with the request that took its sender.                                *)
THEOREM LateOnlyThen == Spec => []LateOnlyAtEnd
<1>1. ResumeInv => LateOnlyAtEnd
    BY DEF ResumeInv
<1> QED BY <1>1, ResumeInvariant, PTL
=============================================================================
