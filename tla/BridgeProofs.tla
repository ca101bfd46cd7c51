------------------------------ MODULE BridgeProofs ------------------------------
(***************************************************************************)
(* Proofs about Bridge for any number of messages of either side, any room *)
(* in the pipes and sockets and any set of messages over the cap.          *)
(***************************************************************************)
EXTENDS Bridge, Integers, TLAPS

(* The chunks of a message, and the one that follows n whole messages and a *)
(* half.                                                                    *)
LEMMA ChunkFacts ==
    \A n \in Nat : Chunk(2 * n + 1) = n + 1 /\ Chunk(2 * n + 2) = 0
BY DEF Chunk

(* What the browser writes is the next chunk. *)
LEMMA WritesChunk ==
    \A n \in Nat : Chunk(n + 1) = IF n % 2 = 0 THEN n \div 2 + 1 ELSE 0
BY DEF Chunk

(* A message received takes the first place from the sequence. *)
LEMMA TailFacts ==
    ASSUME NEW S, NEW s \in Seq(S), s # <<>>
    PROVE  /\ Len(s) \in Nat \ {0} /\ Head(s) = s[1] /\ Head(s) \in S
           /\ Tail(s) \in Seq(S) /\ Len(Tail(s)) = Len(s) - 1
           /\ \A i \in 1..Len(Tail(s)) : i + 1 \in 1..Len(s) /\ Tail(s)[i] = s[i + 1]
OBVIOUS

(* A message sent takes the place after the last. *)
LEMMA AppendFacts ==
    ASSUME NEW S, NEW s \in Seq(S), NEW e \in S
    PROVE  /\ Append(s, e) \in Seq(S) /\ Len(s) \in Nat /\ Len(Append(s, e)) = Len(s) + 1
           /\ Append(s, e)[Len(s) + 1] = e
           /\ \A i \in 1..Len(s) : Append(s, e)[i] = s[i]
OBVIOUS

(* Nothing is sent. *)
LEMMA BridgeInit == Init => BridgeInv
<1> SUFFICES ASSUME Init PROVE BridgeInv
    OBVIOUS
<1>1. TypeOK
    BY BridgeAssumption DEF Init, TypeOK
<1>2. InboxInv
    BY BridgeAssumption DEF Init, InboxInv
<1>3. UpInv
    BY DEF Init, UpInv, Read
<1>4. DownInv
    BY DEF Init, DownInv, Taken, Passed
<1> QED BY <1>1, <1>2, <1>3, <1>4 DEF BridgeInv


(* Every step keeps the invariant. *)
LEMMA BridgeStep == BridgeInv /\ [Next]_vars => BridgeInv'
<1> SUFFICES ASSUME BridgeInv, [Next]_vars PROVE BridgeInv'
    OBVIOUS
<1> USE BridgeAssumption DEF BridgeInv, ofClient, ofUp, ofBrowser, ofDown
<1>1. CASE ClientSends
    <2>1. PICK e \in Incoming :
             /\ inbox' = Append(inbox, e)
             /\ \/ e = <<"msg", sent + 1>> /\ sent < ClientMsgs /\ sent' = sent + 1
                \/ e = <<"ping", 0>> /\ sent' = sent
        <3>1. \A n \in 1..ClientMsgs : <<"msg", n>> \in Incoming
            BY DEF Incoming
        <3>2. <<"ping", 0>> \in Incoming
            BY DEF Incoming
        <3>3. sent < ClientMsgs => sent + 1 \in 1..ClientMsgs
            BY DEF TypeOK
        <3> QED BY <1>1, <3>1, <3>2, <3>3 DEF ClientSends
    <2>2. inbox \in Seq(Incoming) /\ client = "here" /\ Len(inbox) < SocketRoom
        BY <1>1 DEF ClientSends, TypeOK
    <2>3. /\ inbox' \in Seq(Incoming) /\ Len(inbox) \in Nat /\ Len(inbox') = Len(inbox) + 1
          /\ inbox'[Len(inbox) + 1] = e
          /\ \A i \in 1..Len(inbox) : inbox'[i] = inbox[i]
        BY <2>1, <2>2, AppendFacts
    <2>4. TypeOK'
        <3>1. (sent < ClientMsgs /\ sent' = sent + 1) \/ sent' = sent
            BY <2>1
        <3>2. sent \in 0..ClientMsgs
            BY DEF TypeOK
        <3>3. sent' \in 0..ClientMsgs
            BY <3>1, <3>2
        <3> QED BY <1>1, <2>2, <2>3, <3>3 DEF TypeOK, ClientSends
    <2>5. InboxInv'
        <3>1. e[1] = "msg" => e = <<"msg", sent + 1>> /\ sent' = sent + 1 /\ e[2] = sent + 1
            BY <2>1
        <3>2. e[1] # "finish" /\ e[1] # "break" /\ (e[1] # "msg" => sent' = sent)
            BY <2>1
        <3>3. \A i \in 1..Len(inbox) : inbox[i][1] # "finish" /\ inbox[i][1] # "break"
            BY <2>2 DEF InboxInv
        <3>4. UNCHANGED <<msg, client>> /\ msg \in Nat /\ sent \in Nat
            BY <1>1 DEF ClientSends, TypeOK
        <3>5. \A i \in 1..Len(inbox') : i \in 1..Len(inbox) \/ i = Len(inbox) + 1
            BY <2>3
        <3>6. \A i \in 1..Len(inbox') :
                 /\ inbox'[i][1] = "msg" => inbox'[i][2] \in (msg + 1)..sent'
                 /\ inbox'[i][1] # "finish" /\ inbox'[i][1] # "break"
            BY <2>1, <2>3, <3>1, <3>2, <3>3, <3>4, <3>5 DEF InboxInv
        <3>7. \A i, j \in 1..Len(inbox') :
                 i < j /\ inbox'[i][1] = "msg" /\ inbox'[j][1] = "msg"
                     => inbox'[i][2] < inbox'[j][2]
            <4> SUFFICES ASSUME NEW i \in 1..Len(inbox'), NEW j \in 1..Len(inbox'), i < j,
                                inbox'[i][1] = "msg", inbox'[j][1] = "msg"
                         PROVE  inbox'[i][2] < inbox'[j][2]
                OBVIOUS
            <4>1. i \in 1..Len(inbox) /\ inbox'[i] = inbox[i] /\ inbox[i][2] \in (msg + 1)..sent
                BY <2>3, <3>5 DEF InboxInv
            <4>2. CASE j \in 1..Len(inbox)
                BY <2>3, <4>1, <4>2 DEF InboxInv
            <4>3. CASE j = Len(inbox) + 1
                BY <2>3, <3>1, <3>4, <4>1, <4>3
            <4> QED BY <3>5, <4>2, <4>3
        <3>8. \A n \in (msg + 1)..sent' : \E i \in 1..Len(inbox') : inbox'[i] = <<"msg", n>>
            <4> SUFFICES ASSUME NEW n \in (msg + 1)..sent'
                         PROVE  \E i \in 1..Len(inbox') : inbox'[i] = <<"msg", n>>
                OBVIOUS
            <4>1. CASE n \in (msg + 1)..sent
                <5>1. PICK i \in 1..Len(inbox) : inbox[i] = <<"msg", n>>
                    BY <4>1 DEF InboxInv
                <5> QED BY <2>3, <5>1
            <4>2. CASE n = sent + 1 /\ e = <<"msg", sent + 1>>
                BY <2>3, <4>2
            <4>3. sent' = sent => n \in (msg + 1)..sent
                OBVIOUS
            <4>4. sent' = sent + 1 => n \in (msg + 1)..sent \/ n = sent + 1
                BY <3>4
            <4> QED BY <2>1, <4>1, <4>2, <4>3, <4>4
        <3>9. msg <= sent'
            BY <2>1, <3>4 DEF InboxInv
        <3>10. Len(inbox') <= SocketRoom
            BY <2>2, <2>3
        <3> QED BY <3>4, <3>6, <3>7, <3>8, <3>9, <3>10 DEF InboxInv
    <2>6. UpInv'
        BY <1>1, <2>2 DEF UpInv, Read, ClientSends
    <2>7. DownInv'
        BY <1>1 DEF DownInv, Taken, Passed, ClientSends
    <2> QED BY <2>4, <2>5, <2>6, <2>7
<1>2. CASE ClientLeaves
    <2>1. PICK e \in Incoming :
             /\ inbox' = Append(inbox, e)
             /\ \/ e = <<"finish", 0>> /\ client' = "finished"
                \/ e = <<"break", 0>> /\ client' = "broken"
        <3>1. <<"finish", 0>> \in Incoming /\ <<"break", 0>> \in Incoming
            BY DEF Incoming
        <3> QED BY <1>2, <3>1 DEF ClientLeaves
    <2>2. /\ inbox \in Seq(Incoming) /\ client = "here" /\ Len(inbox) <= SocketRoom
          /\ client' \in {"finished", "broken"}
        BY <1>2 DEF ClientLeaves, TypeOK, InboxInv
    <2>3. /\ inbox' \in Seq(Incoming) /\ Len(inbox) \in Nat /\ Len(inbox') = Len(inbox) + 1
          /\ inbox'[Len(inbox) + 1] = e
          /\ \A i \in 1..Len(inbox) : inbox'[i] = inbox[i]
        BY <2>1, <2>2, AppendFacts
    <2>4. TypeOK'
        BY <1>2, <2>2, <2>3 DEF TypeOK, ClientLeaves
    <2>5. InboxInv'
        <3>1. /\ e[1] # "msg" /\ (e[1] = "finish" => client' = "finished")
              /\ e[1] = "break" => client' = "broken"
            BY <2>1
        <3>2. \A i \in 1..Len(inbox) : inbox[i][1] # "finish" /\ inbox[i][1] # "break"
            BY <2>2 DEF InboxInv
        <3>3. UNCHANGED <<msg, sent>> /\ msg \in Nat /\ sent \in Nat
            BY <1>2 DEF ClientLeaves, TypeOK
        <3>4. \A i \in 1..Len(inbox') : i \in 1..Len(inbox) \/ i = Len(inbox) + 1
            BY <2>3
        <3>5. \A i \in 1..Len(inbox') :
                 /\ inbox'[i][1] = "msg" => inbox'[i][2] \in (msg + 1)..sent
                 /\ inbox'[i][1] = "finish" => i = Len(inbox') /\ client' = "finished"
                 /\ inbox'[i][1] = "break" => i = Len(inbox') /\ client' = "broken"
            BY <2>3, <3>1, <3>2, <3>4 DEF InboxInv
        <3>6. \A i, j \in 1..Len(inbox') :
                 i < j /\ inbox'[i][1] = "msg" /\ inbox'[j][1] = "msg"
                     => inbox'[i][2] < inbox'[j][2]
            BY <2>3, <3>1, <3>4 DEF InboxInv
        <3>7. \A n \in (msg + 1)..sent : \E i \in 1..Len(inbox') : inbox'[i] = <<"msg", n>>
            <4> SUFFICES ASSUME NEW n \in (msg + 1)..sent
                         PROVE  \E i \in 1..Len(inbox') : inbox'[i] = <<"msg", n>>
                OBVIOUS
            <4>1. PICK i \in 1..Len(inbox) : inbox[i] = <<"msg", n>>
                BY DEF InboxInv
            <4> QED BY <2>3, <4>1
        <3> QED BY <2>2, <3>3, <3>5, <3>6, <3>7 DEF InboxInv
    <2>6. UpInv'
        BY <1>2, <2>2 DEF UpInv, Read, ClientLeaves
    <2>7. DownInv'
        BY <1>2 DEF DownInv, Taken, Passed, ClientLeaves
    <2> QED BY <2>4, <2>5, <2>6, <2>7
<1>3. CASE ClientReads
    <2>1. TypeOK'
        BY SMTT(30), <1>3 DEF TypeOK, ClientReads
    <2>2. InboxInv' /\ UpInv'
        BY <1>3 DEF InboxInv, UpInv, Read, ClientReads
    <2>3. DownInv'
        <3> DEFINE M == Seq(1..BrowserMsgs)
        <3>1. toClient \in Seq(M) /\ toClient # <<>> /\ got \in Seq(M)
            BY <1>3 DEF TypeOK, ClientReads
        <3>2. /\ Len(toClient) \in Nat \ {0} /\ Head(toClient) = toClient[1]
              /\ Head(toClient) \in M /\ Len(toClient') = Len(toClient) - 1
              /\ \A i \in 1..Len(toClient') :
                    i + 1 \in 1..Len(toClient) /\ toClient'[i] = toClient[i + 1]
            BY <1>3, <3>1, TailFacts DEF ClientReads
        <3>3. /\ Len(got) \in Nat /\ Len(got') = Len(got) + 1
              /\ got'[Len(got) + 1] = Head(toClient)
              /\ \A i \in 1..Len(got) : got'[i] = got[i]
            BY <1>3, <3>1, <3>2, AppendFacts DEF ClientReads
        <3>4. UNCHANGED <<buf, down, toServer, written>>
            BY <1>3 DEF ClientReads
        <3>5. Passed' = Passed
            BY <3>2, <3>3 DEF Passed
        <3>6. Taken' = Taken
            BY <3>4, <3>5 DEF Taken
        <3>7. Head(toClient) = <<Len(got) + 1>>
            BY <3>2 DEF DownInv
        <3>8. \A i \in 1..Len(got') : got'[i] = <<i>>
            <4>1. \A i \in 1..Len(got') : i \in 1..Len(got) \/ i = Len(got) + 1
                BY <3>3
            <4> QED BY <3>3, <3>7, <4>1 DEF DownInv
        <3>9. \A i \in 1..Len(toClient') : toClient'[i] = <<Len(got') + i>>
            <4> SUFFICES ASSUME NEW i \in 1..Len(toClient') PROVE toClient'[i] = <<Len(got') + i>>
                OBVIOUS
            <4>1. toClient'[i] = <<Len(got) + (i + 1)>>
                BY <3>2 DEF DownInv
            <4>2. Len(got) + (i + 1) = Len(got') + i
                BY <3>2, <3>3
            <4> QED BY <4>1, <4>2
        <3> QED BY <3>4, <3>5, <3>6, <3>8, <3>9 DEF DownInv
    <2> QED BY <2>1, <2>2, <2>3
<1>4. CASE BrowserReads
    <2> DEFINE n == Len(seen)
    <2>1. /\ toBrowser \in Seq(0..ClientMsgs) /\ toBrowser # <<>> /\ seen \in Seq(Seq(1..ClientMsgs))
          /\ n \in Nat /\ partial \in Seq(1..ClientMsgs) /\ toBrowser' = Tail(toBrowser)
          /\ Len(toBrowser) <= PipeRoom
        BY <1>4 DEF TypeOK, BrowserReads
    <2>2. /\ Len(toBrowser) \in Nat \ {0} /\ Head(toBrowser) = toBrowser[1]
          /\ Head(toBrowser) \in 0..ClientMsgs /\ toBrowser' \in Seq(0..ClientMsgs)
          /\ Len(toBrowser') = Len(toBrowser) - 1
          /\ \A i \in 1..Len(toBrowser') :
                i + 1 \in 1..Len(toBrowser) /\ toBrowser'[i] = toBrowser[i + 1]
        BY <2>1, TailFacts
    <2>3. Head(toBrowser) = Chunk(Read + 1)
        BY <2>2 DEF UpInv
    <2>4. /\ seen' \in Seq(Seq(1..ClientMsgs)) /\ partial' \in Seq(1..ClientMsgs)
          /\ Read \in Nat /\ Read' = Read + 1
          /\ \A i \in 1..Len(seen') : seen'[i] = <<i>>
          /\ partial' = <<>> \/ partial' = <<Len(seen') + 1>>
        <3>1. CASE partial = <<>>
            <4>1. Read = 2 * n
                BY <2>1, <3>1 DEF Read
            <4>2. Head(toBrowser) = n + 1
                BY <2>1, <2>3, <4>1, ChunkFacts
            <4>3. partial' = <<n + 1>> /\ seen' = seen /\ n + 1 \in 1..ClientMsgs
                BY <1>4, <2>1, <2>2, <3>1, <4>2 DEF BrowserReads
            <4>4. partial' \in Seq(1..ClientMsgs) /\ Len(partial') = 1
                BY <4>3
            <4>5. Read' = Read + 1
                BY <2>1, <4>1, <4>3, <4>4 DEF Read
            <4>6. \A i \in 1..Len(seen') : seen'[i] = <<i>>
                BY <4>3 DEF UpInv
            <4>7. Read \in Nat
                BY <2>1, <4>1
            <4> QED BY <2>1, <4>3, <4>4, <4>5, <4>6, <4>7
        <3>2. CASE partial = <<n + 1>>
            <4>1. Read = 2 * n + 1
                BY <2>1, <3>2 DEF Read
            <4>2. Head(toBrowser) = 0
                <5>1. Read + 1 = 2 * n + 2
                    BY <2>1, <4>1
                <5> QED BY <2>1, <2>3, <5>1, ChunkFacts
            <4>3. partial' = <<>> /\ seen' = Append(seen, partial)
                BY <1>4, <4>2 DEF BrowserReads
            <4>4. /\ seen' \in Seq(Seq(1..ClientMsgs)) /\ Len(seen') = n + 1
                  /\ seen'[n + 1] = partial /\ \A i \in 1..n : seen'[i] = seen[i]
                BY <2>1, <4>3, AppendFacts
            <4>5. Read' = Read + 1
                <5>1. Len(partial') = 0
                    BY <4>3
                <5>2. Read' = 2 * (n + 1) + 0
                    BY <4>4, <5>1 DEF Read
                <5> QED BY <2>1, <4>1, <5>2
            <4>6. \A i \in 1..Len(seen') : i \in 1..n \/ i = n + 1
                BY <2>1, <4>4
            <4>7. \A i \in 1..Len(seen') : seen'[i] = <<i>>
                BY <3>2, <4>4, <4>6 DEF UpInv
            <4>8. partial' \in Seq(1..ClientMsgs)
                BY <4>3
            <4> QED BY SMTT(30), <2>1, <4>1, <4>3, <4>4, <4>5, <4>7, <4>8
        <3> QED BY <3>1, <3>2 DEF UpInv
    <2>5. TypeOK'
        BY <1>4, <2>1, <2>2, <2>4 DEF TypeOK, BrowserReads
    <2>6. InboxInv' /\ DownInv'
        BY <1>4 DEF InboxInv, DownInv, Taken, Passed, BrowserReads
    <2>7. UpInv'
        <3>1. UNCHANGED <<up, msg, ended, client, sent>>
            BY <1>4 DEF BrowserReads
        <3>2. Read' + Len(toBrowser') = Read + Len(toBrowser)
            BY <2>2, <2>4
        <3>3. \A i \in 1..Len(toBrowser') : toBrowser'[i] = Chunk(Read' + i)
            <4> SUFFICES ASSUME NEW i \in 1..Len(toBrowser')
                         PROVE  toBrowser'[i] = Chunk(Read' + i)
                OBVIOUS
            <4>1. toBrowser'[i] = Chunk(Read + (i + 1))
                BY <2>2 DEF UpInv
            <4>2. Read + (i + 1) = Read' + i
                BY <2>2, <2>4
            <4> QED BY <4>1, <4>2
        <3> QED BY <2>4, <3>1, <3>2, <3>3 DEF UpInv
    <2> QED BY <2>5, <2>6, <2>7
<1>5. CASE BrowserWrites
    <2>1. TypeOK'
        BY <1>5 DEF TypeOK, BrowserWrites
    <2>2. InboxInv' /\ UpInv'
        BY <1>5 DEF InboxInv, UpInv, Read, BrowserWrites
    <2>3. DownInv'
        <3>1. /\ written \in Nat /\ toServer \in Seq(0..BrowserMsgs) /\ written' = written + 1
              /\ written < 2 * BrowserMsgs
              /\ UNCHANGED <<got, toClient, buf, down>>
            BY <1>5 DEF TypeOK, BrowserWrites
        <3>2. toServer' = Append(toServer, Chunk(written + 1))
            BY <1>5, <3>1, WritesChunk DEF BrowserWrites
        <3>3. Chunk(written + 1) \in 0..BrowserMsgs
            BY <3>1 DEF Chunk
        <3>4. /\ Len(toServer) \in Nat /\ Len(toServer') = Len(toServer) + 1
              /\ toServer'[Len(toServer) + 1] = Chunk(written + 1)
              /\ \A i \in 1..Len(toServer) : toServer'[i] = toServer[i]
            BY <3>1, <3>2, <3>3, AppendFacts
        <3>5. Passed' = Passed /\ Taken' = Taken
            BY <3>1 DEF Passed, Taken
        <3>6. Taken \in Nat
            BY DEF Taken, Passed, TypeOK
        <3>7. ASSUME down # "bye"
              PROVE  /\ Taken' + Len(toServer') = written'
                     /\ \A i \in 1..Len(toServer') : toServer'[i] = Chunk(Taken' + i)
            <4>1. Taken + Len(toServer) = written
                BY <3>7 DEF DownInv
            <4>2. Taken + (Len(toServer) + 1) = written + 1
                BY <3>1, <3>4, <3>6, <4>1
            <4>3. \A i \in 1..Len(toServer') : i \in 1..Len(toServer) \/ i = Len(toServer) + 1
                BY <3>4
            <4> QED BY <3>1, <3>4, <3>5, <3>7, <4>2, <4>3 DEF DownInv
        <3> QED BY <3>1, <3>5, <3>7 DEF DownInv
    <2> QED BY <2>1, <2>2, <2>3
<1>6. CASE BrowserExits
    <2>1. TypeOK'
        BY <1>6 DEF TypeOK, BrowserExits
    <2>2. InboxInv'
        BY <1>6 DEF InboxInv, TypeOK, BrowserExits
    <2>3. UpInv'
        BY <1>6 DEF UpInv, Read, TypeOK, BrowserExits
    <2>4. DownInv'
        BY <1>6 DEF DownInv, Taken, Passed, TypeOK, BrowserExits
    <2> QED BY <2>1, <2>2, <2>3, <2>4
<1>7. CASE UpNext
    <2> DEFINE what == Head(inbox)
    <2>1. /\ inbox \in Seq(Incoming) /\ inbox # <<>> /\ inbox' = Tail(inbox)
          /\ up = "next" /\ ended = "no" /\ msg \in Nat /\ sent \in Nat
          /\ UNCHANGED <<client, sent, toBrowser, toServer, toClient, got,
                         partial, seen, browser, written, buf, down>>
        BY <1>7 DEF TypeOK, UpNext, Selecting
    <2>2. /\ Len(inbox) \in Nat \ {0} /\ what = inbox[1] /\ what \in Incoming
          /\ inbox' \in Seq(Incoming) /\ Len(inbox') = Len(inbox) - 1
          /\ \A i \in 1..Len(inbox') : i + 1 \in 1..Len(inbox) /\ inbox'[i] = inbox[i + 1]
        BY <2>1, TailFacts
    <2>3. \/ what[1] = "msg" /\ up' = "body" /\ msg' = what[2] /\ ended' = ended
          \/ what[1] = "ping" /\ UNCHANGED <<up, msg, ended>>
          \/ what[1] = "finish" /\ ended' = "ClientFinished" /\ UNCHANGED <<up, msg>>
          \/ what[1] = "break" /\ ended' = "ClientGone" /\ UNCHANGED <<up, msg>>
        BY <1>7 DEF UpNext
    <2>4. what[1] = "msg" => what[2] \in 1..ClientMsgs
        BY <2>2 DEF Incoming
    <2> HIDE DEF what
    <2>5. TypeOK'
        <3>1. msg' \in 0..ClientMsgs /\ up' \in {"next", "body"}
            BY SMTT(30), <2>1, <2>3, <2>4 DEF TypeOK
        <3>2. ended' \in {"no", "ClientGone", "ClientFinished"}
            BY <2>1, <2>3
        <3> QED BY SMTT(30), <2>1, <2>2, <3>1, <3>2 DEF TypeOK
    <2>6. what[1] = "msg" => what[2] = msg + 1
        <3> SUFFICES ASSUME what[1] = "msg" PROVE what[2] = msg + 1
            OBVIOUS
        <3>1. what[2] \in (msg + 1)..sent
            BY <2>2 DEF InboxInv
        <3>2. PICK i \in 1..Len(inbox) : inbox[i] = <<"msg", msg + 1>>
            <4>1. msg \in Nat /\ sent \in Nat
                BY <2>1
            <4>2. msg + 1 \in (msg + 1)..sent
                BY <3>1, <4>1
            <4> QED BY <4>2 DEF InboxInv
        <3>3. inbox[i][1] = "msg" /\ inbox[i][2] = msg + 1
            BY <3>2
        <3>4. CASE i = 1
            BY <2>2, <3>3, <3>4
        <3>5. CASE 1 < i
            <4>1. what[2] < msg + 1
                BY <2>2, <3>3, <3>5 DEF InboxInv
            <4> QED BY <2>1, <3>1, <4>1
        <3> QED BY <2>2, <3>4, <3>5
    <2>7. InboxInv'
        <3>0. msg \in Nat /\ sent \in Nat
            BY <2>1
        <3>1. msg <= msg' /\ msg' <= sent /\ msg' \in Nat
            <4>1. CASE what[1] = "msg"
                <5>1. msg' = msg + 1
                    BY <2>3, <2>6, <4>1
                <5>2. msg + 1 \in (msg + 1)..sent
                    BY <2>2, <2>6, <4>1 DEF InboxInv
                <5> QED BY <3>0, <5>1, <5>2
            <4>2. CASE what[1] # "msg"
                BY <2>3, <3>0, <4>2 DEF InboxInv
            <4> QED BY <4>1, <4>2
        <3>2. \A i \in 1..Len(inbox') :
                 /\ inbox'[i][1] = "msg" => inbox'[i][2] \in (msg' + 1)..sent
                 /\ inbox'[i][1] = "finish" => i = Len(inbox') /\ client = "finished"
                 /\ inbox'[i][1] = "break" => i = Len(inbox') /\ client = "broken"
            <4> SUFFICES ASSUME NEW i \in 1..Len(inbox')
                         PROVE  /\ inbox'[i][1] = "msg" => inbox'[i][2] \in (msg' + 1)..sent
                                /\ inbox'[i][1] = "finish" => i = Len(inbox') /\ client = "finished"
                                /\ inbox'[i][1] = "break" => i = Len(inbox') /\ client = "broken"
                OBVIOUS
            <4>1. i + 1 \in 1..Len(inbox) /\ inbox'[i] = inbox[i + 1] /\ 1 \in 1..Len(inbox) /\ 1 < i + 1
                BY <2>2
            <4>2. /\ inbox[i + 1][1] = "finish" => i + 1 = Len(inbox) /\ client = "finished"
                  /\ inbox[i + 1][1] = "break" => i + 1 = Len(inbox) /\ client = "broken"
                  /\ inbox[i + 1][1] = "msg" => inbox[i + 1][2] \in (msg + 1)..sent
                BY <4>1 DEF InboxInv
            <4>3. inbox[i + 1][1] = "msg" /\ what[1] = "msg" => what[2] < inbox[i + 1][2]
                BY <2>2, <4>1 DEF InboxInv
            <4>4. inbox[i + 1][1] = "msg" => inbox[i + 1][2] \in (msg' + 1)..sent
                BY <2>1, <2>3, <2>6, <4>2, <4>3
            <4>5. i + 1 = Len(inbox) => i = Len(inbox')
                BY <2>2
            <4> QED BY <4>1, <4>2, <4>4, <4>5
        <3>3. \A i, j \in 1..Len(inbox') :
                 i < j /\ inbox'[i][1] = "msg" /\ inbox'[j][1] = "msg"
                     => inbox'[i][2] < inbox'[j][2]
            <4> SUFFICES ASSUME NEW i \in 1..Len(inbox'), NEW j \in 1..Len(inbox'),
                                i < j, inbox'[i][1] = "msg", inbox'[j][1] = "msg"
                         PROVE  inbox'[i][2] < inbox'[j][2]
                OBVIOUS
            <4>1. /\ i + 1 \in 1..Len(inbox) /\ j + 1 \in 1..Len(inbox) /\ i + 1 < j + 1
                  /\ inbox'[i] = inbox[i + 1] /\ inbox'[j] = inbox[j + 1]
                BY <2>2
            <4> QED BY <4>1 DEF InboxInv
        <3>4. \A n \in (msg' + 1)..sent : \E i \in 1..Len(inbox') : inbox'[i] = <<"msg", n>>
            <4> SUFFICES ASSUME NEW n \in (msg' + 1)..sent
                         PROVE  \E i \in 1..Len(inbox') : inbox'[i] = <<"msg", n>>
                OBVIOUS
            <4>1. n \in (msg + 1)..sent
                <5>1. \A a, b, c \in Nat : a <= b => \A k \in (b + 1)..c : k \in (a + 1)..c
                    OBVIOUS
                <5> QED BY <3>0, <3>1, <5>1, Zenon
            <4>2. PICK i \in 1..Len(inbox) : inbox[i] = <<"msg", n>>
                BY <4>1 DEF InboxInv
            <4>3. inbox[i][1] = "msg" /\ inbox[i][2] = n
                BY <4>2
            <4>4. i # 1
                BY <2>1, <2>2, <2>3, <3>1, <4>3
            <4>5. i - 1 \in 1..Len(inbox') /\ (i - 1) + 1 = i
                BY <2>2, <4>4
            <4>6. inbox'[i - 1] = <<"msg", n>>
                BY <2>2, <4>2, <4>5
            <4> QED BY <4>5, <4>6
        <3>5. client = "here" => Len(inbox') <= SocketRoom
            BY <2>2 DEF InboxInv
        <3> QED BY <2>1, <3>1, <3>2, <3>3, <3>4, <3>5 DEF InboxInv
    <2>8. UpInv'
        <3>1. Read' = Read /\ Read + Len(toBrowser) = 2 * msg
            BY <2>1 DEF UpInv, Read
        <3>2. CASE what[1] = "msg"
            <4>1. up' = "body" /\ msg' = msg + 1 /\ ended' = "no"
                BY <2>1, <2>3, <2>6, <3>2
            <4>2. msg' > 0 /\ 2 * msg = 2 * msg' - 2
                BY <2>1, <4>1
            <4> QED BY <2>1, <3>1, <4>1, <4>2 DEF UpInv
        <3>3. CASE what[1] = "finish"
            <4>1. Len(inbox) = 1 /\ client = "finished"
                BY <2>2, <3>3 DEF InboxInv
            <4>2. sent = msg
                <5>1. ASSUME msg + 1 <= sent PROVE FALSE
                    <6>1. PICK i \in 1..Len(inbox) : inbox[i] = <<"msg", msg + 1>>
                        <7>1. msg \in Nat /\ sent \in Nat
                            BY <2>1
                        <7>2. msg + 1 \in (msg + 1)..sent
                            BY <5>1, <7>1
                        <7> QED BY <7>2 DEF InboxInv
                    <6>2. i = 1 /\ inbox[i][1] = "msg"
                        BY <4>1, <6>1
                    <6> QED BY <2>2, <3>3, <6>2
                <5> QED BY <2>1, <5>1 DEF InboxInv
            <4>3. UNCHANGED <<up, msg>> /\ ended' = "ClientFinished"
                BY <2>3, <3>3
            <4> QED BY <2>1, <3>1, <4>1, <4>2, <4>3 DEF UpInv
        <3>4. CASE what[1] # "msg" /\ what[1] # "finish"
            <4>1. UNCHANGED <<up, msg>> /\ ended' # "ClientFinished"
                BY <2>1, <2>3, <3>4
            <4> QED BY <2>1, <3>1, <4>1 DEF UpInv
        <3> QED BY <3>2, <3>3, <3>4
    <2>9. DownInv'
        BY <2>1 DEF DownInv, Taken, Passed
    <2> QED BY <2>5, <2>7, <2>8, <2>9
<1>8. CASE UpWrite
    <2>1. /\ ended = "no" /\ up \in {"body", "nul"} /\ Len(toBrowser) < PipeRoom
          /\ toBrowser \in Seq(0..ClientMsgs) /\ msg \in 0..ClientMsgs /\ Len(seen) \in Nat
          /\ UNCHANGED <<msg, toServer, toClient, got, ended, client, sent, inbox,
                         partial, seen, browser, written, buf, down>>
        BY <1>8 DEF TypeOK, UpWrite, Selecting
    <2>2. Read \in Nat /\ Read' = Read /\ Len(toBrowser) \in Nat
        BY <2>1 DEF Read, TypeOK
    <2>3. PICK c \in 0..ClientMsgs :
             /\ toBrowser' = Append(toBrowser, c) /\ c = Chunk(Read + (Len(toBrowser) + 1))
             /\ \/ up' = "nul" /\ msg > 0 /\ Read + Len(toBrowser) = 2 * msg - 2
                \/ up' = "next" /\ Read + Len(toBrowser) = 2 * msg - 1
        <3>1. msg - 1 \in Nat
            BY <2>1 DEF UpInv
        <3>2. Chunk(2 * (msg - 1) + 1) = (msg - 1) + 1 /\ Chunk(2 * (msg - 1) + 2) = 0
            BY <3>1, ChunkFacts
        <3>3. CASE up = "body"
            <4>1. Read + Len(toBrowser) = 2 * msg - 2 /\ msg > 0
                BY <3>3 DEF UpInv
            <4>2. Read + (Len(toBrowser) + 1) = 2 * (msg - 1) + 1 /\ (msg - 1) + 1 = msg
                BY <2>1, <2>2, <4>1
            <4>3. msg = Chunk(Read + (Len(toBrowser) + 1))
                BY <3>2, <4>2
            <4>4. toBrowser' = Append(toBrowser, msg) /\ up' = "nul"
                BY <1>8, <3>3 DEF UpWrite
            <4> QED BY <2>1, <4>1, <4>3, <4>4
        <3>4. CASE up = "nul"
            <4>1. Read + Len(toBrowser) = 2 * msg - 1
                BY <3>4 DEF UpInv
            <4>2. Read + (Len(toBrowser) + 1) = 2 * (msg - 1) + 2
                BY <2>1, <2>2, <4>1
            <4>3. 0 = Chunk(Read + (Len(toBrowser) + 1))
                BY <3>2, <4>2
            <4>4. toBrowser' = Append(toBrowser, 0) /\ up' = "next"
                BY <1>8, <3>4 DEF UpWrite
            <4>5. 0 \in 0..ClientMsgs
                OBVIOUS
            <4> QED BY <4>1, <4>3, <4>4, <4>5
        <3> QED BY <2>1, <3>3, <3>4
    <2>4. /\ toBrowser' \in Seq(0..ClientMsgs) /\ Len(toBrowser') = Len(toBrowser) + 1
          /\ toBrowser'[Len(toBrowser) + 1] = c
          /\ \A i \in 1..Len(toBrowser) : toBrowser'[i] = toBrowser[i]
        BY <2>1, <2>3, AppendFacts
    <2>5. TypeOK'
        <3>1. up' \in {"nul", "next"}
            BY <2>3
        <3>2. Len(toBrowser') <= PipeRoom
            BY <2>1, <2>2, <2>4
        <3> QED BY <2>1, <2>4, <3>1, <3>2 DEF TypeOK
    <2>6. InboxInv' /\ DownInv'
        BY <2>1 DEF InboxInv, DownInv, Taken, Passed
    <2>7. UpInv'
        <3>1. \A i \in 1..Len(toBrowser') : i \in 1..Len(toBrowser) \/ i = Len(toBrowser) + 1
            BY <2>2, <2>4
        <3>2. \A i \in 1..Len(toBrowser') : toBrowser'[i] = Chunk(Read + i)
            BY <2>3, <2>4, <3>1 DEF UpInv
        <3>3. \/ up' = "nul" /\ msg > 0 /\ Read + Len(toBrowser') = 2 * msg - 1
              \/ up' = "next" /\ Read + Len(toBrowser') = 2 * msg
            BY <2>1, <2>2, <2>3, <2>4
        <3> QED BY <2>1, <2>2, <3>2, <3>3 DEF UpInv
    <2> QED BY <2>5, <2>6, <2>7
<1>9. CASE UpWriteFails
    <2>1. TypeOK'
        BY <1>9 DEF TypeOK, UpWriteFails, Selecting
    <2>2. InboxInv'
        BY <1>9 DEF InboxInv, TypeOK, UpWriteFails, Selecting
    <2>3. UpInv'
        BY <1>9 DEF UpInv, Read, TypeOK, UpWriteFails, Selecting
    <2>4. DownInv'
        BY <1>9 DEF DownInv, Taken, Passed, TypeOK, UpWriteFails, Selecting
    <2> QED BY <2>1, <2>2, <2>3, <2>4
<1>10. CASE IdleTimeout
    <2>1. TypeOK'
        BY <1>10 DEF TypeOK, IdleTimeout, Selecting
    <2>2. InboxInv'
        BY <1>10 DEF InboxInv, TypeOK, IdleTimeout, Selecting
    <2>3. UpInv'
        BY <1>10 DEF UpInv, Read, TypeOK, IdleTimeout, Selecting
    <2>4. DownInv'
        BY <1>10 DEF DownInv, Taken, Passed, TypeOK, IdleTimeout, Selecting
    <2> QED BY <2>1, <2>2, <2>3, <2>4
<1>11. CASE IdleClose
    <2>1. TypeOK'
        BY <1>11 DEF TypeOK, IdleClose
    <2>2. InboxInv'
        BY <1>11 DEF InboxInv, TypeOK, IdleClose
    <2>3. UpInv'
        BY <1>11 DEF UpInv, Read, TypeOK, IdleClose
    <2>4. DownInv'
        BY <1>11 DEF DownInv, Taken, Passed, TypeOK, IdleClose
    <2> QED BY <2>1, <2>2, <2>3, <2>4
<1>12. CASE DownRead
    <2> DEFINE chunk == Head(toServer)
    <2>1. /\ down = "recv" /\ toServer # <<>> /\ toServer' = Tail(toServer)
          /\ toServer \in Seq(0..BrowserMsgs) /\ Len(toServer) <= PipeRoom
          /\ buf \in Seq(1..BrowserMsgs) /\ Passed \in Nat
          /\ UNCHANGED <<client, sent, inbox, up, msg, toBrowser, partial, seen, browser,
                         written, toClient, got, ended>>
        BY <1>12 DEF TypeOK, DownRead, Passed
    <2>2. /\ Len(toServer) \in Nat \ {0} /\ chunk = toServer[1] /\ chunk \in 0..BrowserMsgs
          /\ toServer' \in Seq(0..BrowserMsgs) /\ Len(toServer') = Len(toServer) - 1
          /\ \A i \in 1..Len(toServer') :
                i + 1 \in 1..Len(toServer) /\ toServer'[i] = toServer[i + 1]
        BY <2>1, TailFacts
    <2>3. \/ chunk = 0 /\ down' = "send" /\ buf' = buf
          \/ chunk # 0 /\ chunk \notin Oversized /\ down' = "recv" /\ buf' = Append(buf, chunk)
          \/ chunk \in Oversized /\ down' = "bye" /\ buf' = buf
        BY <1>12 DEF DownRead
    <2>4. chunk = Chunk(Taken + 1) /\ Taken + Len(toServer) = written
        BY <2>1, <2>2 DEF DownInv
    <2> HIDE DEF chunk
    <2>5. Taken = 2 * Passed + Len(buf) /\ Passed' = Passed
        BY <2>1 DEF Taken, Passed
    <2>6. /\ buf' \in Seq(1..BrowserMsgs) /\ down' \in {"recv", "send", "bye"}
          /\ buf' = <<>> \/ buf' = <<Passed + 1>>
          /\ down' = "send" => buf' # <<>>
          /\ Taken \in Nat /\ (down' # "bye" => Taken' = Taken + 1)
        <3>1. CASE buf = <<>>
            <4>1. Taken = 2 * Passed
                BY <2>1, <2>5, <3>1
            <4>2. chunk = Passed + 1
                BY <2>1, <2>4, <4>1, ChunkFacts
            <4>3. \/ down' = "recv" /\ buf' = <<Passed + 1>>
                  \/ down' = "bye" /\ buf' = <<>>
                BY <2>1, <2>3, <3>1, <4>2
            <4>4. Passed + 1 \in 1..BrowserMsgs
                BY <2>1, <2>2, <4>2
            <4>5. buf' = <<Passed + 1>> => buf' \in Seq(1..BrowserMsgs) /\ Len(buf') = 1
                BY <4>4
            <4>6. buf' = <<>> => buf' \in Seq(1..BrowserMsgs)
                OBVIOUS
            <4>7. down' # "bye" => Taken' = 2 * Passed + 1
                <5> SUFFICES ASSUME down' # "bye" PROVE Taken' = 2 * Passed + 1
                    OBVIOUS
                <5>1. down' = "recv" /\ Len(buf') = 1
                    BY <4>3, <4>5
                <5>2. Taken' = 2 * Passed + 1 + 0
                    BY <2>5, <5>1 DEF Taken
                <5> QED BY <2>1, <5>2
            <4> QED BY <2>1, <4>1, <4>3, <4>5, <4>6, <4>7
        <3>2. CASE buf = <<Passed + 1>>
            <4>1. Len(buf) = 1 /\ buf # <<>>
                BY <3>2
            <4>2. Taken = 2 * Passed + 1 /\ Taken + 1 = 2 * Passed + 2
                BY <2>1, <2>5, <4>1
            <4>3. chunk = 0
                BY <2>1, <2>4, <4>2, ChunkFacts
            <4>4. down' = "send" /\ buf' = buf
                BY <2>3, <4>3
            <4>5. Taken' = 2 * Passed + 1 + 1
                BY <2>5, <4>1, <4>4 DEF Taken
            <4> QED BY <2>1, <3>2, <4>1, <4>2, <4>4, <4>5
        <3> QED BY <3>1, <3>2 DEF DownInv
    <2>7. TypeOK'
        <3>1. Len(toServer') <= PipeRoom
            BY <2>1, <2>2
        <3> QED BY <2>1, <2>2, <2>6, <3>1 DEF TypeOK
    <2>8. InboxInv' /\ UpInv'
        BY <2>1 DEF InboxInv, UpInv, Read
    <2>9. DownInv'
        <3>1. ASSUME down' # "bye"
              PROVE  /\ Taken' + Len(toServer') = written'
                     /\ \A i \in 1..Len(toServer') : toServer'[i] = Chunk(Taken' + i)
            <4>1. Taken' = Taken + 1
                BY <2>6, <3>1
            <4>2. Taken' + Len(toServer') = written'
                <5>1. written' = written
                    BY <2>1
                <5> QED BY <2>2, <2>4, <2>6, <4>1, <5>1
            <4>3. ASSUME NEW i \in 1..Len(toServer') PROVE toServer'[i] = Chunk(Taken' + i)
                <5>1. toServer'[i] = Chunk(Taken + (i + 1))
                    BY <2>1, <2>2 DEF DownInv
                <5>2. Taken + (i + 1) = Taken' + i
                    BY <2>2, <2>6, <4>1
                <5> QED BY <5>1, <5>2
            <4> QED BY <4>2, <4>3
        <3>2. UNCHANGED <<got, toClient>>
            BY <2>1
        <3> QED BY <2>5, <2>6, <3>1, <3>2 DEF DownInv
    <2> QED BY <2>7, <2>8, <2>9
<1>13. CASE DownEof
    <2>1. TypeOK'
        BY <1>13 DEF TypeOK, DownEof, Selecting
    <2>2. InboxInv'
        BY <1>13 DEF InboxInv, TypeOK, DownEof, Selecting
    <2>3. UpInv'
        BY <1>13 DEF UpInv, Read, TypeOK, DownEof, Selecting
    <2>4. DownInv'
        BY <1>13 DEF DownInv, Taken, Passed, TypeOK, DownEof, Selecting
    <2> QED BY <2>1, <2>2, <2>3, <2>4
<1>14. CASE DownSend
    <2> DEFINE M == Seq(1..BrowserMsgs)
    <2>1. /\ down = "send" /\ Len(toClient) < SocketRoom /\ toClient \in Seq(M) /\ got \in Seq(M)
          /\ buf \in M /\ toClient' = Append(toClient, buf) /\ buf' = <<>> /\ down' = "recv"
          /\ UNCHANGED <<client, sent, inbox, up, msg, toBrowser, partial, seen, browser,
                         written, toServer, got, ended>>
        BY <1>14 DEF TypeOK, DownSend
    <2>2. /\ toClient' \in Seq(M) /\ Len(toClient) \in Nat /\ Len(toClient') = Len(toClient) + 1
          /\ toClient'[Len(toClient) + 1] = buf
          /\ \A i \in 1..Len(toClient) : toClient'[i] = toClient[i]
        BY <2>1, AppendFacts
    <2>3. TypeOK'
        <3>1. buf' \in M /\ Len(toClient') <= SocketRoom
            BY <2>1, <2>2
        <3> QED BY <2>1, <2>2, <3>1 DEF TypeOK
    <2>4. InboxInv' /\ UpInv'
        BY <2>1 DEF InboxInv, UpInv, Read
    <2>5. DownInv'
        <3>1. buf = <<Passed + 1>> /\ Len(got) \in Nat
            BY <2>1 DEF DownInv
        <3>2. Passed' = Passed + 1 /\ Passed = Len(got) + Len(toClient) /\ Passed \in Nat
            BY <2>1, <2>2, <3>1 DEF Passed
        <3>3. Taken' = Taken
            <4>1. Len(buf) = 1 /\ Len(buf') = 0
                BY <2>1, <3>1
            <4>2. Taken = 2 * Passed + 1 + 1 /\ Taken' = 2 * (Passed + 1) + 0 + 0
                BY <2>1, <3>2, <4>1 DEF Taken
            <4> QED BY <3>2, <4>2
        <3>4. \A i \in 1..Len(toClient') : i \in 1..Len(toClient) \/ i = Len(toClient) + 1
            BY <2>2
        <3>5. ASSUME NEW i \in 1..Len(toClient') PROVE toClient'[i] = <<Len(got) + i>>
            <4>1. CASE i \in 1..Len(toClient)
                BY <2>2, <4>1 DEF DownInv
            <4>2. CASE i = Len(toClient) + 1
                <5>1. Passed + 1 = Len(got) + i
                    BY <2>2, <3>1, <3>2, <4>2
                <5> QED BY <2>2, <3>1, <4>2, <5>1
            <4> QED BY <3>4, <4>1, <4>2
        <3> QED BY <2>1, <3>3, <3>5 DEF DownInv
    <2> QED BY <2>3, <2>4, <2>5
<1>15. CASE DownSendFails
    <2>1. TypeOK'
        BY <1>15 DEF TypeOK, DownSendFails, Selecting
    <2>2. InboxInv'
        BY <1>15 DEF InboxInv, TypeOK, DownSendFails, Selecting
    <2>3. UpInv'
        BY <1>15 DEF UpInv, Read, TypeOK, DownSendFails, Selecting
    <2>4. DownInv'
        BY <1>15 DEF DownInv, Taken, Passed, TypeOK, DownSendFails, Selecting
    <2> QED BY <2>1, <2>2, <2>3, <2>4
<1>16. CASE DownBye
    <2>1. TypeOK'
        BY <1>16 DEF TypeOK, DownBye, Selecting
    <2>2. InboxInv'
        BY <1>16 DEF InboxInv, TypeOK, DownBye, Selecting
    <2>3. UpInv'
        BY <1>16 DEF UpInv, Read, TypeOK, DownBye, Selecting
    <2>4. DownInv'
        BY <1>16 DEF DownInv, Taken, Passed, TypeOK, DownBye, Selecting
    <2> QED BY <2>1, <2>2, <2>3, <2>4
<1>17. CASE UNCHANGED vars
    <2>1. TypeOK'
        BY <1>17 DEF vars, TypeOK
    <2>2. InboxInv'
        BY <1>17 DEF vars, InboxInv
    <2>3. UpInv'
        BY <1>17 DEF vars, UpInv, Read
    <2>4. DownInv'
        BY <1>17 DEF vars, DownInv, Taken, Passed
    <2> QED BY <2>1, <2>2, <2>3, <2>4
<1> QED BY <1>1, <1>2, <1>3, <1>4, <1>5, <1>6, <1>7, <1>8, <1>9, <1>10, <1>11, <1>12, <1>13,
    <1>14, <1>15, <1>16, <1>17 DEF Next, Up, Down

(* The inductive invariant holds always: every chunk that either side has   *)
(* written and the other has not read is where it belongs.                  *)
THEOREM BridgeInvariant == Spec => []BridgeInv
BY BridgeInit, BridgeStep, PTL DEF Spec

(* Both sides get the other's messages whole, once each and in order, and a *)
(* session that ends as finished had all its messages written, however      *)
(* often a pump was blocked and wherever the other one was dropped.         *)
THEOREM MessagesArriveWhole == Spec => []MessagesWhole
<1>1. BridgeInv => MessagesWhole
    <2> SUFFICES ASSUME BridgeInv PROVE MessagesWhole
        OBVIOUS
    <2> USE DEF BridgeInv
    <2>1. \A i \in 1..Len(got \o toClient) : (got \o toClient)[i] = <<i>>
        <3> SUFFICES ASSUME NEW i \in 1..Len(got \o toClient) PROVE (got \o toClient)[i] = <<i>>
            OBVIOUS
        <3>1. /\ got \in Seq(Seq(1..BrowserMsgs)) /\ toClient \in Seq(Seq(1..BrowserMsgs))
              /\ Len(got) \in Nat /\ Len(toClient) \in Nat
            BY DEF TypeOK
        <3>2. CASE i <= Len(got)
            <4>1. i \in 1..Len(got) /\ (got \o toClient)[i] = got[i]
                BY <3>1, <3>2
            <4> QED BY <4>1 DEF DownInv
        <3>3. CASE i > Len(got)
            <4>1. /\ i - Len(got) \in 1..Len(toClient) /\ Len(got) + (i - Len(got)) = i
                  /\ (got \o toClient)[i] = toClient[i - Len(got)]
                BY <3>1, <3>3
            <4> QED BY <4>1 DEF DownInv
        <3> QED BY <3>1, <3>2, <3>3
    <2>2. ASSUME ended = "ClientFinished", NEW stream, stream = partial \o toBrowser
          PROVE  /\ 2 * Len(seen) + Len(stream) = 2 * sent
                 /\ \A i \in 1..Len(stream) : stream[i] = Chunk(2 * Len(seen) + i)
        <3>1. /\ partial \in Seq(1..ClientMsgs) /\ toBrowser \in Seq(0..ClientMsgs)
              /\ Len(seen) \in Nat /\ Len(partial) \in Nat /\ Len(toBrowser) \in Nat
            BY DEF TypeOK
        <3>2. Len(stream) = Len(partial) + Len(toBrowser)
            BY <2>2, <3>1
        <3>3. Read + Len(toBrowser) = 2 * sent
            BY <2>2 DEF UpInv
        <3>4. 2 * Len(seen) + Len(stream) = 2 * sent
            BY <3>1, <3>2, <3>3 DEF Read
        <3>5. ASSUME NEW i \in 1..Len(stream) PROVE stream[i] = Chunk(2 * Len(seen) + i)
            <4>1. CASE i <= Len(partial)
                <5>1. partial = <<Len(seen) + 1>> /\ i = 1
                    <6>1. partial # <<>>
                        BY <3>2, <4>1
                    <6>2. partial = <<Len(seen) + 1>>
                        BY <6>1 DEF UpInv
                    <6>3. Len(partial) = 1
                        BY <6>2
                    <6> QED BY <3>1, <3>2, <4>1, <6>2, <6>3
                <5>2. stream[i] = Len(seen) + 1
                    BY <2>2, <3>1, <5>1
                <5> QED BY <3>1, <5>1, <5>2, ChunkFacts
            <4>2. CASE i > Len(partial)
                <5>1. /\ i - Len(partial) \in 1..Len(toBrowser)
                      /\ stream[i] = toBrowser[i - Len(partial)]
                    BY <2>2, <3>1, <3>2, <4>2
                <5>2. stream[i] = Chunk(Read + (i - Len(partial)))
                    BY <5>1 DEF UpInv
                <5>3. Read + (i - Len(partial)) = 2 * Len(seen) + i
                    BY <3>1, <3>2 DEF Read
                <5> QED BY <5>2, <5>3
            <4> QED BY <3>1, <3>2, <4>1, <4>2
        <3> QED BY <3>4, <3>5
    <2>3. ended = "ClientFinished" => client = "finished"
        BY DEF UpInv
    <2>4. \A i \in 1..Len(seen) : seen[i] = <<i>>
        BY DEF UpInv
    <2> QED BY <2>1, <2>2, <2>3, <2>4 DEF MessagesWhole
<1> QED BY <1>1, BridgeInvariant, PTL
=============================================================================
