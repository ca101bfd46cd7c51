------------------------------ MODULE RelayProofs ------------------------------
(***************************************************************************)
(* Proofs about Relay for any number of connections and permits, whatever  *)
(* heads the browser sends and whatever the upstream proxy answers.        *)
(***************************************************************************)
EXTENDS Relay, FiniteSetTheorems, SequenceTheorems, TLAPS

(* The connections that are served, and so hold a permit. *)
LiveConns(f) == {c \in Conns : f[c] \in Live}

(* What a head that read_head returns can hold: none of the pieces that the *)
(* relay itself writes is the name of a header.                             *)
LEMMA HeadFacts ==
    ASSUME NEW h \in AnyHead
    PROVE  /\ h.headers \in SUBSET Pieces
           /\ h.early \in BOOLEAN
           /\ (h.headers \cup h.connection) \cap Written = {}
           /\ parse_request(h) \in {"bad", "connect", "forward"}
           /\ \A w \in Written : w \notin hop_by_hop(h)
<1>1. /\ h.headers \in SUBSET Pieces
      /\ h.early \in BOOLEAN
      /\ (h.headers \cup h.connection) \cap Written = {}
    <2>1. CASE h \in Heads
        BY <2>1, RelayAssumption DEF HeadType, Pieces
    <2>2. CASE h \notin Heads
        <3>1. h = NoHead \/ \E f \in {"error", "closed"} : h = [NoHead EXCEPT !.form = f]
            BY <2>2 DEF AnyHead, read_head
        <3>2. h.headers = {} /\ h.connection = {} /\ h.early = FALSE
            BY <3>1 DEF NoHead
        <3> QED BY <3>2
    <2> QED BY <2>1, <2>2
<1>2. parse_request(h) \in {"bad", "connect", "forward"}
    BY DEF parse_request
<1>3. \A w \in Written : w \notin hop_by_hop(h)
    BY <1>1 DEF Written, hop_by_hop
<1> QED BY <1>1, <1>2, <1>3

(* The live connections are a finite set, and one connection's move changes *)
(* their number by that connection alone.                                   *)
LEMMA LiveMove ==
    ASSUME NEW f, NEW g, NEW c \in Conns, \A d \in Conns : d # c => g[d] = f[d]
    PROVE  /\ Cardinality(LiveConns(f)) \in Nat
           /\ Cardinality(LiveConns(g)) = Cardinality(LiveConns(f))
                + (IF g[c] \in Live THEN 1 ELSE 0) - (IF f[c] \in Live THEN 1 ELSE 0)
<1> DEFINE S == LiveConns(f)
           T == LiveConns(g)
<1>0. IsFiniteSet(S) /\ Cardinality(S) \in Nat
    <2>1. S \in SUBSET Conns
        BY DEF LiveConns
    <2> QED BY <2>1, RelayAssumption, FS_Subset, FS_CardinalityType
<1>1. c \in S <=> f[c] \in Live
    BY DEF LiveConns
<1>2. CASE g[c] \in Live
    <2>1. T = S \cup {c}
        BY <1>2 DEF LiveConns
    <2> HIDE DEF S, T
    <2>2. Cardinality(T) = IF c \in S THEN Cardinality(S) ELSE Cardinality(S) + 1
        BY <2>1, <1>0, FS_AddElement
    <2> QED BY <2>2, <1>0, <1>1, <1>2 DEF S, T
<1>3. CASE g[c] \notin Live
    <2>1. T = S \ {c}
        BY <1>3 DEF LiveConns
    <2> HIDE DEF S, T
    <2>2. Cardinality(T) = IF c \in S THEN Cardinality(S) - 1 ELSE Cardinality(S)
        BY <2>1, <1>0, FS_RemoveElement
    <2> QED BY <2>2, <1>0, <1>1, <1>3 DEF S, T
<1> QED BY <1>2, <1>3

(* A connection moves to another stage, taking or giving back its permit    *)
(* with the stage: the permits stay accounted for.                          *)
LEMMA PermitMove ==
    ASSUME TypeOK, permits \in Int, NEW c \in Conns,
           NEW s \in Live \cup {"none", "refused", "closed"}, Goto(c, s),
           \/ s \in Live /\ st[c] \notin Live /\ permits > 0 /\ permits' = permits - 1
           \/ (s \in Live <=> st[c] \in Live) /\ permits' = permits
           \/ s \notin Live /\ st[c] \in Live /\ permits' = permits + 1,
           relay' \in {"off", "running", "refused", "dropped"},
           upstream' \in [Conns -> {"none", "open"}],
           \A d \in Conns : d # c => upstream'[d] = upstream[d],
           upstream'[c] = "open" => s \in Live
    PROVE  TypeOK' /\ permits' \in Int
<1>1. /\ st \in [Conns -> Live \cup {"none", "refused", "closed"}]
      /\ st' = [st EXCEPT ![c] = s]
    BY DEF TypeOK, Goto
<1>2. /\ st' \in [Conns -> Live \cup {"none", "refused", "closed"}]
      /\ st'[c] = s /\ \A d \in Conns : d # c => st'[d] = st[d]
    BY <1>1
<1>3. /\ Cardinality(LiveConns(st)) \in Nat
      /\ Cardinality(LiveConns(st')) = Cardinality(LiveConns(st))
           + (IF s \in Live THEN 1 ELSE 0) - (IF st[c] \in Live THEN 1 ELSE 0)
    BY <1>2, LiveMove
<1>4. permits + Cardinality(LiveConns(st)) = max_connections
    BY DEF TypeOK, LiveConns
<1>5. permits' + Cardinality(LiveConns(st')) = max_connections /\ permits' \in Int
      /\ permits' >= 0
    <2>1. permits >= 0
        BY DEF TypeOK
    <2> QED BY <2>1, <1>3, <1>4, RelayAssumption
<1>6. permits' + Cardinality({d \in Conns : st'[d] \in Live}) = max_connections
    BY <1>5 DEF LiveConns
<1>7. \A d \in Conns : upstream'[d] = "open" => st'[d] \in Live
    BY <1>2 DEF TypeOK
<1> QED BY <1>2, <1>5, <1>6, <1>7 DEF TypeOK

(* The task of a live connection ends. *)
LEMMA EndKeepsPermits ==
    ASSUME TypeOK, permits \in Int, NEW c \in Conns, st[c] \in Live, End(c), relay' = relay
    PROVE  TypeOK' /\ permits' \in Int
<1>1. /\ permits' = permits + 1 /\ Goto(c, "closed")
      /\ upstream' = [upstream EXCEPT ![c] = "none"]
    BY DEF End
<1>2. "closed" \notin Live
    BY DEF Live, Dialling
<1>3. /\ upstream' \in [Conns -> {"none", "open"}] /\ upstream'[c] = "none"
      /\ \A d \in Conns : d # c => upstream'[d] = upstream[d]
      /\ relay' \in {"off", "running", "refused", "dropped"} /\ permits >= 0
    BY <1>1 DEF TypeOK
<1> QED BY <1>1, <1>2, <1>3, PermitMove

(* A live connection goes on. *)
LEMMA LiveGoesOn ==
    ASSUME TypeOK, permits \in Int, NEW c \in Conns, st[c] \in Live, NEW s \in Live, Goto(c, s),
           UNCHANGED <<permits, relay>>,
           \/ UNCHANGED upstream
           \/ upstream' = [upstream EXCEPT ![c] = "open"]
    PROVE  TypeOK' /\ permits' \in Int
<1>1. /\ upstream' \in [Conns -> {"none", "open"}]
      /\ \A d \in Conns : d # c => upstream'[d] = upstream[d]
      /\ relay' \in {"off", "running", "refused", "dropped"} /\ permits' >= 0
    BY DEF TypeOK
<1> QED BY <1>1, PermitMove

(* No connection has been tried. *)
LEMMA RelayInit == Init => RelayInv
<1> SUFFICES ASSUME Init PROVE RelayInv
    OBVIOUS
<1>1. {c \in Conns : st[c] \in Live} = {}
    BY DEF Init, Live, Dialling
<1>2. TypeOK
    <2>1. Cardinality({c \in Conns : st[c] \in Live}) = 0
        BY <1>1, FS_EmptySet
    <2> QED BY <2>1, RelayAssumption DEF Init, TypeOK
<1>3. PieceInv
    BY RelayAssumption DEF Init, PieceInv, AnyHead
<1>4. SilenceInv /\ LoginKept /\ OneAnswer
    BY DEF Init, SilenceInv, LoginKept, OneAnswer
<1> QED BY <1>2, <1>3, <1>4 DEF RelayInv

(* A connection moves on without a word to its client or its target, with   *)
(* the head it has or the one it has just read: what was written to either  *)
(* stays as it was, and the login is written to a proxy that wants one.     *)
LEMMA WordlessMove ==
    ASSUME RelayInv, NEW c \in Conns, NEW s \in Live \cup {"refused", "closed"}, Goto(c, s),
           UNCHANGED <<setup, told, toTarget>>,
           \/ UNCHANGED head
           \/ st[c] = "head" /\ \E h \in AnyHead : head' = [head EXCEPT ![c] = h],
           \/ UNCHANGED toProxy
           \/ \E items \in SUBSET Pieces :
                 ToProxy(c, items) /\ ("login" \in items => proxy.login),
           permits' \in Int,
           s \notin {"copying", "responding"},
           s # "closed" => st[c] \notin {"copying", "closed"},
           s \in Dialling \cup {"refused", "head", "established", "bad"} =>
              st[c] \in Dialling \cup {"none", "refused", "head", "established", "bad"}
    PROVE  PieceInv' /\ SilenceInv' /\ LoginKept' /\ OneAnswer'
<1>1. /\ st \in [Conns -> Live \cup {"none", "refused", "closed"}]
      /\ toProxy \in [Conns -> SUBSET Pieces]
      /\ st' = [st EXCEPT ![c] = s]
      /\ head \in [Conns -> AnyHead]
    BY DEF RelayInv, TypeOK, PieceInv, Goto
<1>h. /\ head' \in [Conns -> AnyHead]
      /\ \A d \in Conns : d # c => head'[d] = head[d]
      /\ head'[c] = head[c] \/ toTarget[c] = <<>>
    BY <1>1 DEF RelayInv, SilenceInv
<1>2. /\ toProxy' \in [Conns -> SUBSET Pieces]
      /\ \A d \in Conns : "login" \in toProxy'[d] => "login" \in toProxy[d] \/ proxy.login
    BY <1>1 DEF ToProxy
<1>3. PieceInv'
    BY <1>2, <1>h DEF RelayInv, PieceInv
<1>4. SilenceInv'
    <2>1. /\ s \notin {"copying", "closed"} => told[c] = <<>>
          /\ s \in Dialling \cup {"none", "refused", "head", "established", "bad"} =>
                toTarget[c] = <<>>
        <3>1. s # "none"
            BY DEF Live, Dialling
        <3> QED BY <3>1 DEF RelayInv, SilenceInv
    <2>2. SilenceInv /\ \A d \in Conns : d # c => st'[d] = st[d]
        BY <1>1 DEF RelayInv
    <2>3. st'[c] = s
        BY <1>1
    <2> QED BY <2>1, <2>2, <2>3, <1>h DEF SilenceInv
<1>5. LoginKept'
    BY <1>2, <1>h DEF RelayInv, LoginKept, proxy
<1>6. OneAnswer'
    BY <1>1, <1>h DEF RelayInv, OneAnswer
<1> QED BY <1>3, <1>4, <1>5, <1>6
(* Two pieces, one after the other. *)
LEMMA PairConcat ==
    ASSUME NEW S, NEW x \in S, NEW y \in S
    PROVE  <<x>> \o <<y>> = <<x, y>>
<1>1. <<x>> \in Seq(S) /\ <<y>> \in Seq(S) /\ Len(<<x>>) = 1 /\ Len(<<y>>) = 1
    OBVIOUS
<1> DEFINE a == <<x>>
           b == <<y>>
<1> HIDE DEF a, b
<1>2. /\ a \o b \in Seq(S) /\ Len(a \o b) = 2
      /\ (a \o b)[1] = a[1] /\ (a \o b)[2] = b[1]
    BY <1>1 DEF a, b
<1>3. a[1] = x /\ b[1] = y
    BY DEF a, b
<1>4. <<x, y>> \in Seq(S) /\ Len(<<x, y>>) = 2 /\ <<x, y>>[1] = x /\ <<x, y>>[2] = y
    OBVIOUS
<1> DEFINE s == a \o b
           t == <<x, y>>
<1>5. /\ s \in Seq(S) /\ t \in Seq(S) /\ Len(s) = 2 /\ Len(t) = 2
      /\ s[1] = t[1] /\ s[2] = t[2]
    BY <1>2, <1>3, <1>4
<1> HIDE DEF s, t
<1>6. \A i \in 1..Len(s) : s[i] = t[i]
    <2> SUFFICES ASSUME NEW i \in 1..Len(s) PROVE s[i] = t[i]
        OBVIOUS
    <2>1. i = 1 \/ i = 2
        BY <1>5
    <2> QED BY <2>1, <1>5
<1>7. s = t
    BY <1>5, <1>6, SeqEqual
<1> QED BY <1>7 DEF a, b, s, t

(* What the relay says to a client: a status, and what follows 200. *)
Said == {<<>>, <<"200">>, <<"200", "rest">>, <<"response">>, <<"400">>, <<"502">>}

(* Each is a sequence of words in which only the tunnel's bytes follow.     *)
LEMMA SaidFacts ==
    ASSUME NEW w \in Said
    PROVE  /\ w \in Seq(Words) /\ <<>> \o w = w
           /\ \A i \in DOMAIN w : i > 1 => w[i] = "rest"
<1>1. CASE w = <<>>
    BY <1>1
<1>2. ASSUME NEW x \in Words, w = <<x>>
      PROVE  /\ w \in Seq(Words) /\ <<>> \o w = w
             /\ \A i \in DOMAIN w : i > 1 => w[i] = "rest"
    BY <1>2
<1>3. CASE w = <<"200", "rest">>
    <2>1. "200" \in Words /\ "rest" \in Words
        BY DEF Words
    <2>2. w \in Seq(Words)
        BY <1>3, <2>1
    <2>3. <<>> \o w = w
        BY <2>2
    <2>4. \A i \in DOMAIN w : i > 1 => w[i] = "rest"
        BY <1>3
    <2> QED BY <2>2, <2>3, <2>4
<1>4. w = <<>> \/ w = <<"200", "rest">> \/ \E x \in Words : w = <<x>>
    BY DEF Said, Words
<1> QED BY <1>1, <1>2, <1>3, <1>4

(* A client that was told nothing is told one of these. *)
LEMMA TellFacts ==
    ASSUME NEW c \in Conns, told \in [Conns -> Seq(Words)], told[c] = <<>>,
           NEW w \in Said, Tell(c, w)
    PROVE  told' = [told EXCEPT ![c] = w]
BY SaidFacts DEF Tell

(* What may be written to a target, and that it ends with the client's own  *)
(* bytes.                                                                   *)
Passes(c, g) ==
    /\ g \in Seq(SUBSET Pieces)
    /\ \A i \in DOMAIN g : g[i] \cap ({"login"} \cup hop_by_hop(head[c])) = {}
EndsEarly(g) == g # <<>> /\ g[Len(g)] = {"early"}

(* The bytes that came with a head, as they are passed on after other       *)
(* pieces or alone.                                                         *)
LEMMA EarlyFacts ==
    ASSUME NEW c \in Conns, head[c] \in AnyHead
    PROVE  /\ Passes(c, Early(c)) /\ <<>> \o Early(c) = Early(c)
           /\ head[c].early => EndsEarly(Early(c))
           /\ \A p \in SUBSET Pieces : p \cap ({"login"} \cup hop_by_hop(head[c])) = {} =>
                 /\ Passes(c, <<p>> \o Early(c))
                 /\ <<>> \o (<<p>> \o Early(c)) = <<p>> \o Early(c)
                 /\ head[c].early => EndsEarly(<<p>> \o Early(c))
<1>1. /\ head[c].early \in BOOLEAN
      /\ {"early"} \cap ({"login"} \cup hop_by_hop(head[c])) = {}
    BY HeadFacts DEF Written
<1>2. CASE head[c].early
    <2>1. Early(c) = <<{"early"}>> /\ {"early"} \in SUBSET Pieces
        BY <1>2 DEF Early, Pieces, Written
    <2>2. /\ <<{"early"}>> \in Seq(SUBSET Pieces) /\ <<>> \o <<{"early"}>> = <<{"early"}>>
          /\ Len(<<{"early"}>>) = 1 /\ <<{"early"}>>[1] = {"early"} /\ <<{"early"}>> # <<>>
          /\ DOMAIN <<{"early"}>> = {1}
        BY <2>1
    <2>3. Passes(c, Early(c)) /\ EndsEarly(Early(c)) /\ <<>> \o Early(c) = Early(c)
        BY <1>1, <2>1, <2>2 DEF Passes, EndsEarly
    <2>4. ASSUME NEW p \in SUBSET Pieces, p \cap ({"login"} \cup hop_by_hop(head[c])) = {}
          PROVE  /\ Passes(c, <<p>> \o Early(c)) /\ EndsEarly(<<p>> \o Early(c))
                 /\ <<>> \o (<<p>> \o Early(c)) = <<p>> \o Early(c)
        <3>1. <<p>> \o Early(c) = <<p, {"early"}>>
            BY <2>1, PairConcat
        <3> DEFINE g == <<p, {"early"}>>
        <3>2. /\ g \in Seq(SUBSET Pieces) /\ Len(g) = 2 /\ g[1] = p /\ g[2] = {"early"}
              /\ g # <<>> /\ DOMAIN g = {1, 2}
            BY <2>1
        <3> HIDE DEF g
        <3>3. <<>> \o g = g
            BY <3>2
        <3>4. Passes(c, g) /\ EndsEarly(g)
            BY <2>4, <1>1, <3>2 DEF Passes, EndsEarly
        <3> QED BY <3>1, <3>3, <3>4 DEF g
    <2> QED BY <2>3, <2>4
<1>3. CASE ~head[c].early
    <2>1. Early(c) = <<>>
        BY <1>3 DEF Early
    <2>2. Passes(c, Early(c)) /\ <<>> \o Early(c) = Early(c)
        BY <2>1 DEF Passes
    <2>3. ASSUME NEW p \in SUBSET Pieces, p \cap ({"login"} \cup hop_by_hop(head[c])) = {}
          PROVE  /\ Passes(c, <<p>> \o Early(c))
                 /\ <<>> \o (<<p>> \o Early(c)) = <<p>> \o Early(c)
        <3>1. <<p>> \o Early(c) = <<p>>
            BY <2>1
        <3> DEFINE g == <<p>>
        <3>2. g \in Seq(SUBSET Pieces) /\ g[1] = p /\ DOMAIN g = {1}
            OBVIOUS
        <3> HIDE DEF g
        <3>3. <<>> \o g = g
            BY <3>2
        <3>4. Passes(c, g)
            BY <2>3, <3>2 DEF Passes
        <3> QED BY <3>1, <3>3, <3>4 DEF g
    <2> QED BY <1>3, <2>2, <2>3
<1> QED BY <1>1, <1>2, <1>3

(* A connection moves on with words for its client or its target. *)
LEMMA WordsWritten ==
    ASSUME RelayInv, NEW c \in Conns, NEW s \in {"copying", "responding", "closed"}, Goto(c, s),
           NEW t \in Said, told' = [told EXCEPT ![c] = t],
           NEW g, Passes(c, g), toTarget' = [toTarget EXCEPT ![c] = g],
           UNCHANGED <<setup, head>>,
           \/ UNCHANGED toProxy
           \/ \E items \in SUBSET Pieces :
                 ToProxy(c, items) /\ ("login" \in items => proxy.login),
           permits' \in Int,
           s = "responding" => t = <<>>,
           s # "closed" /\ head[c].early => EndsEarly(g)
    PROVE  PieceInv' /\ SilenceInv' /\ LoginKept' /\ OneAnswer'
<1>1. /\ st \in [Conns -> Live \cup {"none", "refused", "closed"}]
      /\ toProxy \in [Conns -> SUBSET Pieces]
      /\ st' = [st EXCEPT ![c] = s] /\ s \notin Dialling
      /\ told \in [Conns -> Seq(Words)] /\ toTarget \in [Conns -> Seq(SUBSET Pieces)]
    BY DEF RelayInv, TypeOK, PieceInv, Goto, Dialling
<1>0. /\ t \in Seq(Words) /\ \A i \in DOMAIN t : i > 1 => t[i] = "rest"
      /\ g \in Seq(SUBSET Pieces)
      /\ \A i \in DOMAIN g : g[i] \cap ({"login"} \cup hop_by_hop(head[c])) = {}
      /\ s # "closed" /\ head[c].early => g # <<>> /\ g[Len(g)] = {"early"}
    BY SaidFacts DEF Passes, EndsEarly
<1>2. /\ toProxy' \in [Conns -> SUBSET Pieces]
      /\ \A d \in Conns : "login" \in toProxy'[d] => "login" \in toProxy[d] \/ proxy.login
    BY <1>1 DEF ToProxy
<1>3. /\ st'[c] = s /\ told'[c] = t /\ toTarget'[c] = g
      /\ \A d \in Conns : d # c =>
            st'[d] = st[d] /\ told'[d] = told[d] /\ toTarget'[d] = toTarget[d]
    BY <1>1
<1>4. PieceInv'
    BY <1>0, <1>1, <1>2 DEF RelayInv, PieceInv
<1>5. SilenceInv'
    BY <1>0, <1>1, <1>3 DEF RelayInv, SilenceInv
<1>6. LoginKept'
    BY <1>0, <1>2, <1>3 DEF RelayInv, LoginKept, proxy
<1>7. OneAnswer'
    BY <1>0, <1>3 DEF RelayInv, OneAnswer
<1> QED BY <1>4, <1>5, <1>6, <1>7

(* The stages, as far as the steps below tell them apart. *)
LEMMA StageFacts ==
    /\ Dialling \subseteq Live
    /\ {"dial", "greeting", "login", "socksReply", "connectReply"} \subseteq Dialling
    /\ {"head", "established", "responding", "copying", "bad", "failed"} \subseteq Live
    /\ \A s \in {"none", "refused", "closed"} : s \notin Live /\ s \notin Dialling
    /\ \A s \in {"head", "established", "responding", "copying", "bad", "failed"} :
          s \notin Dialling
BY DEF Live, Dialling

(* Every step of the listener and of a connection, whatever the browser and *)
(* the upstream proxy do, keeps the invariant.                              *)
LEMMA RelayStep == RelayInv /\ [Next]_vars => RelayInv'
<1> SUFFICES ASSUME RelayInv, [Next]_vars PROVE RelayInv'
    OBVIOUS
<1>t. /\ TypeOK /\ permits \in Int /\ permits >= 0
      /\ head \in [Conns -> AnyHead] /\ told \in [Conns -> Seq(Words)]
      /\ toProxy \in [Conns -> SUBSET Pieces] /\ toTarget \in [Conns -> Seq(SUBSET Pieces)]
      /\ st \in [Conns -> Live \cup {"none", "refused", "closed"}]
      /\ upstream \in [Conns -> {"none", "open"}]
      /\ relay \in {"off", "running", "refused", "dropped"}
    BY DEF RelayInv, TypeOK, PieceInv
<1>1. CASE start \/ Drop \/ UNCHANGED vars
    <2>1. /\ relay' \in {"off", "running", "refused", "dropped"}
          /\ UNCHANGED <<setup, permits, st, head, told, upstream, toProxy, toTarget>>
        BY <1>1, <1>t DEF start, Drop, vars, streams
    <2>2. TypeOK'
        BY <2>1 DEF RelayInv, TypeOK
    <2>3. PieceInv' /\ SilenceInv' /\ OneAnswer'
        BY <2>1 DEF RelayInv, PieceInv, SilenceInv, OneAnswer
    <2>4. LoginKept'
        BY <2>1 DEF RelayInv, LoginKept, proxy
    <2> QED BY <2>2, <2>3, <2>4 DEF RelayInv
<1>2. ASSUME NEW c \in Conns, accept(c) PROVE RelayInv'
    <2>1. /\ st[c] = "none"
          /\ UNCHANGED <<setup, relay, head, told, upstream, toProxy, toTarget>>
          /\ \/ permits > 0 /\ permits' = permits - 1 /\ Goto(c, "head")
             \/ permits' = permits /\ Goto(c, "refused")
        BY <1>2 DEF accept, streams, Goto
    <2>2. upstream[c] # "open"
        BY <2>1, StageFacts DEF RelayInv, TypeOK
    <2>3. TypeOK' /\ permits' \in Int
        <3>1. CASE permits > 0 /\ permits' = permits - 1 /\ Goto(c, "head")
            BY <3>1, <2>1, <2>2, <1>t, PermitMove, StageFacts
        <3>2. CASE permits' = permits /\ Goto(c, "refused")
            BY <3>2, <2>1, <2>2, <1>t, PermitMove, StageFacts
        <3> QED BY <3>1, <3>2, <2>1
    <2>4. PieceInv' /\ SilenceInv' /\ LoginKept' /\ OneAnswer'
        BY <2>1, <2>3, WordlessMove, StageFacts
    <2> QED BY <2>3, <2>4 DEF RelayInv
<1>3. ASSUME NEW c \in Conns, serve(c) PROVE RelayInv'
    <2>1. PICK h \in read_head :
             /\ head' = [head EXCEPT ![c] = h]
             /\ IF h.form = "closed" THEN End(c)
                ELSE /\ Goto(c, IF parse_request(h) = "bad" THEN "bad" ELSE "dial")
                     /\ UNCHANGED <<permits, upstream>>
        BY <1>3 DEF serve
    <2>2. /\ st[c] = "head" /\ h \in AnyHead
          /\ UNCHANGED <<setup, relay, told, toProxy, toTarget>>
        BY <1>3 DEF serve, AnyHead
    <2>3. CASE h.form = "closed"
        <3>1. TypeOK' /\ permits' \in Int
            BY <2>1, <2>2, <2>3, <1>t, EndKeepsPermits, StageFacts
        <3>2. Goto(c, "closed")
            BY <2>1, <2>3 DEF End
        <3>3. PieceInv' /\ SilenceInv' /\ LoginKept' /\ OneAnswer'
            BY <2>1, <2>2, <3>1, <3>2, WordlessMove, StageFacts
        <3> QED BY <3>1, <3>3 DEF RelayInv
    <2>4. CASE h.form # "closed"
        <3>1. /\ Goto(c, "bad") \/ Goto(c, "dial")
              /\ UNCHANGED <<permits, upstream>>
            BY <2>1, <2>4
        <3>2. TypeOK' /\ permits' \in Int
            BY <2>2, <3>1, <1>t, LiveGoesOn, StageFacts
        <3>3. PieceInv' /\ SilenceInv' /\ LoginKept' /\ OneAnswer'
            BY <2>1, <2>2, <3>1, <3>2, WordlessMove, StageFacts
        <3> QED BY <3>2, <3>3 DEF RelayInv
    <2> QED BY <2>3, <2>4
<1>4. ASSUME NEW c \in Conns, open_inner(c) PROVE RelayInv'
    <2>1. /\ st[c] = "dial" /\ upstream' = [upstream EXCEPT ![c] = "open"]
          /\ UNCHANGED <<setup, relay, permits, head, told, toTarget>>
        BY <1>4 DEF open_inner
    <2>2. \/ Goto(c, "established") /\ UNCHANGED toProxy
          \/ Goto(c, "greeting") /\ UNCHANGED toProxy
          \/ /\ Goto(c, "connectReply")
             /\ ToProxy(c, IF proxy.login THEN {"CONNECT", "login"} ELSE {"CONNECT"})
        BY <1>4 DEF open_inner
    <2>3. TypeOK' /\ permits' \in Int
        BY <2>1, <2>2, <1>t, LiveGoesOn, StageFacts
    <2>4. \/ UNCHANGED toProxy
          \/ \E items \in SUBSET Pieces : ToProxy(c, items) /\ ("login" \in items => proxy.login)
        <3> DEFINE items == IF proxy.login THEN {"CONNECT", "login"} ELSE {"CONNECT"}
        <3>1. items \in SUBSET Pieces /\ ("login" \in items => proxy.login)
            BY DEF Pieces, Written
        <3> HIDE DEF items
        <3> QED BY <2>2, <3>1 DEF items
    <2>5. PieceInv' /\ SilenceInv' /\ LoginKept' /\ OneAnswer'
        BY <2>1, <2>2, <2>3, <2>4, WordlessMove, StageFacts
    <2> QED BY <2>3, <2>5 DEF RelayInv
<1>5. ASSUME NEW c \in Conns, socks_choice(c) PROVE RelayInv'
    <2>1. /\ st[c] = "greeting"
          /\ UNCHANGED <<setup, relay, permits, head, told, upstream, toTarget>>
        BY <1>5 DEF socks_choice
    <2>2. \/ Goto(c, "socksReply") /\ UNCHANGED toProxy
          \/ Goto(c, "login") /\ ToProxy(c, {"login"}) /\ proxy.login
          \/ Goto(c, "failed") /\ UNCHANGED toProxy
        BY <1>5 DEF socks_choice
    <2>3. TypeOK' /\ permits' \in Int
        BY <2>1, <2>2, <1>t, LiveGoesOn, StageFacts
    <2>4. \/ UNCHANGED toProxy
          \/ \E items \in SUBSET Pieces : ToProxy(c, items) /\ ("login" \in items => proxy.login)
        <3>1. {"login"} \in SUBSET Pieces
            BY DEF Pieces, Written
        <3> QED BY <2>2, <3>1
    <2>5. PieceInv' /\ SilenceInv' /\ LoginKept' /\ OneAnswer'
        BY <2>1, <2>2, <2>3, <2>4, WordlessMove, StageFacts
    <2> QED BY <2>3, <2>5 DEF RelayInv
<1>6. ASSUME NEW c \in Conns, socks_reply(c) \/ http_connect(c) \/ DialFails(c) PROVE RelayInv'
    <2>1. /\ st[c] \in Dialling
          /\ Goto(c, "failed") \/ Goto(c, "socksReply") \/ Goto(c, "established")
          /\ UNCHANGED <<setup, relay, permits, head, told, upstream, toProxy, toTarget>>
        BY <1>6, StageFacts DEF socks_reply, http_connect, DialFails, streams
    <2>2. TypeOK' /\ permits' \in Int
        BY <2>1, <1>t, LiveGoesOn, StageFacts
    <2>3. PieceInv' /\ SilenceInv' /\ LoginKept' /\ OneAnswer'
        BY <2>1, <2>2, WordlessMove, StageFacts
    <2> QED BY <2>2, <2>3 DEF RelayInv
<1>7. ASSUME NEW c \in Conns, CopyEnds(c) \/ Cancelled(c) PROVE RelayInv'
    <2>1. /\ st[c] \in Live /\ End(c) /\ Goto(c, "closed")
          /\ UNCHANGED <<setup, relay, head, told, toProxy, toTarget>>
        BY <1>7, StageFacts DEF CopyEnds, Cancelled, End
    <2>2. TypeOK' /\ permits' \in Int
        BY <2>1, <1>t, EndKeepsPermits
    <2>3. PieceInv' /\ SilenceInv' /\ LoginKept' /\ OneAnswer'
        BY <2>1, <2>2, WordlessMove, StageFacts
    <2> QED BY <2>2, <2>3 DEF RelayInv
<1>8. ASSUME NEW c \in Conns, connect(c) PROVE RelayInv'
    <2>1. /\ st[c] = "established" /\ told[c] = <<>> /\ toTarget[c] = <<>>
          /\ UNCHANGED <<setup, relay, head, toProxy>>
        BY <1>8, <1>t, StageFacts DEF connect, RelayInv, SilenceInv
    <2>2. CASE /\ Tell(c, <<"200", "rest">>) /\ ToTarget(c, Early(c)) /\ Goto(c, "copying")
               /\ UNCHANGED <<permits, upstream>>
        <3>1. TypeOK' /\ permits' \in Int
            BY <2>1, <2>2, <1>t, LiveGoesOn, StageFacts
        <3>2. PICK w \in Said : told' = [told EXCEPT ![c] = w]
            <4>1. \E w \in Said : Tell(c, w)
                BY <2>2 DEF Said
            <4> QED BY <4>1, <2>1, <1>t, TellFacts
        <3>3. toTarget' = [toTarget EXCEPT ![c] = Early(c)]
            BY <2>1, <2>2, <1>t, EarlyFacts DEF ToTarget
        <3>4. Passes(c, Early(c)) /\ (head[c].early => EndsEarly(Early(c)))
            BY <1>t, EarlyFacts
        <3>5. PieceInv' /\ SilenceInv' /\ LoginKept' /\ OneAnswer'
            BY <2>1, <2>2, <3>1, <3>2, <3>3, <3>4, WordsWritten
        <3> QED BY <3>1, <3>5 DEF RelayInv
    <2>3. CASE \E written \in {<<>>, <<"200">>, <<"200", "rest">>} :
                  Tell(c, written) /\ End(c) /\ UNCHANGED toTarget
        <3>1. TypeOK' /\ permits' \in Int
            BY <2>1, <2>3, <1>t, EndKeepsPermits, StageFacts
        <3>2. PICK w \in Said : told' = [told EXCEPT ![c] = w]
            <4>1. \E w \in Said : Tell(c, w)
                BY <2>3 DEF Said
            <4> QED BY <4>1, <2>1, <1>t, TellFacts
        <3>3. /\ Goto(c, "closed") /\ toTarget' = [toTarget EXCEPT ![c] = toTarget[c]]
              /\ Passes(c, toTarget[c])
            BY <2>3, <1>t DEF End, RelayInv, LoginKept, Passes
        <3>4. PieceInv' /\ SilenceInv' /\ LoginKept' /\ OneAnswer'
            BY <2>1, <3>1, <3>2, <3>3, WordsWritten
        <3> QED BY <3>1, <3>4 DEF RelayInv
    <2> QED BY <1>8, <2>2, <2>3 DEF connect
<1>9. ASSUME NEW c \in Conns, forward(c) PROVE RelayInv'
    <2> DEFINE via == Tunnelled(c)
               rewritten == rewrite_request(head[c], ~via /\ proxy.login)
               passed == rewritten \ (IF via THEN {} ELSE {"login"})
    <2>1. /\ st[c] = "established" /\ told[c] = <<>> /\ toTarget[c] = <<>>
          /\ UNCHANGED <<setup, relay, permits, head, told, upstream>>
          /\ IF via THEN UNCHANGED toProxy ELSE ToProxy(c, rewritten)
          /\ \/ ToTarget(c, <<passed>> \o Early(c)) /\ Goto(c, "responding")
             \/ Goto(c, "failed") /\ UNCHANGED toTarget
        BY <1>9, <1>t, StageFacts DEF forward, RelayInv, SilenceInv
    <2>2. /\ rewritten \in SUBSET Pieces /\ ("login" \in rewritten => ~via /\ proxy.login)
          /\ passed \in SUBSET Pieces /\ passed \cap ({"login"} \cup hop_by_hop(head[c])) = {}
        <3>1. /\ head[c].headers \in SUBSET Pieces /\ "login" \notin head[c].headers
              /\ "Connection: close" \notin hop_by_hop(head[c])
              /\ "login" \notin hop_by_hop(head[c])
            BY <1>t, HeadFacts DEF Written
        <3>2. "login" \in Pieces /\ "Connection: close" \in Pieces
            BY DEF Pieces, Written
        <3> QED BY <3>1, <3>2 DEF rewrite_request
    <2> HIDE DEF via, rewritten, passed
    <2>3. \/ UNCHANGED toProxy
          \/ \E items \in SUBSET Pieces : ToProxy(c, items) /\ ("login" \in items => proxy.login)
        BY <2>1, <2>2
    <2>4. TypeOK' /\ permits' \in Int
        BY <2>1, <1>t, LiveGoesOn, StageFacts
    <2>5. CASE ToTarget(c, <<passed>> \o Early(c)) /\ Goto(c, "responding")
        <3>1. toTarget' = [toTarget EXCEPT ![c] = <<passed>> \o Early(c)]
            BY <2>1, <2>2, <2>5, <1>t, EarlyFacts DEF ToTarget
        <3> DEFINE g == <<passed>> \o Early(c)
        <3>2. Passes(c, g) /\ (head[c].early => EndsEarly(g))
            BY <2>2, <1>t, EarlyFacts
        <3>3. PICK w \in Said : w = <<>>
            BY DEF Said
        <3> HIDE DEF g
        <3>4. toTarget' = [toTarget EXCEPT ![c] = g] /\ told' = [told EXCEPT ![c] = w]
            BY <2>1, <3>1, <3>3, <1>t DEF g
        <3>5. PieceInv' /\ SilenceInv' /\ LoginKept' /\ OneAnswer'
            BY <2>1, <2>3, <2>4, <2>5, <3>2, <3>3, <3>4, WordsWritten
        <3> QED BY <2>4, <3>5 DEF RelayInv
    <2>6. CASE Goto(c, "failed") /\ UNCHANGED toTarget
        <3>1. PieceInv' /\ SilenceInv' /\ LoginKept' /\ OneAnswer'
            BY <2>1, <2>3, <2>4, <2>6, WordlessMove, StageFacts
        <3> QED BY <2>4, <3>1 DEF RelayInv
    <2> QED BY <2>1, <2>5, <2>6
<1>10. ASSUME NEW c \in Conns, response(c) PROVE RelayInv'
    <2>1. /\ st[c] = "responding" /\ told[c] = <<>>
          /\ UNCHANGED <<setup, relay, head, toProxy, toTarget>>
        BY <1>10, <1>t, StageFacts DEF response, RelayInv, SilenceInv
    <2>a. \/ Goto(c, "failed") /\ UNCHANGED <<permits, upstream, told>>
          \/ Tell(c, <<"response">>) /\ Goto(c, "copying") /\ UNCHANGED <<permits, upstream>>
          \/ \E written \in {<<>>, <<"response">>} : Tell(c, written) /\ End(c)
        BY <1>10 DEF response
    <2>2. /\ toTarget' = [toTarget EXCEPT ![c] = toTarget[c]]
          /\ Passes(c, toTarget[c]) /\ (head[c].early => EndsEarly(toTarget[c]))
        BY <2>1, <1>t DEF RelayInv, SilenceInv, LoginKept, Passes, EndsEarly
    <2>3. CASE Goto(c, "failed") /\ UNCHANGED <<permits, upstream, told>>
        <3>1. TypeOK' /\ permits' \in Int
            BY <2>1, <2>3, <1>t, LiveGoesOn, StageFacts
        <3>2. PieceInv' /\ SilenceInv' /\ LoginKept' /\ OneAnswer'
            BY <2>1, <2>3, <3>1, WordlessMove, StageFacts
        <3> QED BY <3>1, <3>2 DEF RelayInv
    <2>4. CASE Tell(c, <<"response">>) /\ Goto(c, "copying") /\ UNCHANGED <<permits, upstream>>
        <3>1. TypeOK' /\ permits' \in Int
            BY <2>1, <2>4, <1>t, LiveGoesOn, StageFacts
        <3>2. PICK w \in Said : told' = [told EXCEPT ![c] = w]
            <4>1. \E w \in Said : Tell(c, w)
                BY <2>4 DEF Said
            <4> QED BY <4>1, <2>1, <1>t, TellFacts
        <3>3. PieceInv' /\ SilenceInv' /\ LoginKept' /\ OneAnswer'
            BY <2>1, <2>2, <2>4, <3>1, <3>2, WordsWritten
        <3> QED BY <3>1, <3>3 DEF RelayInv
    <2>5. CASE \E written \in {<<>>, <<"response">>} : Tell(c, written) /\ End(c)
        <3>1. TypeOK' /\ permits' \in Int
            BY <2>1, <2>5, <1>t, EndKeepsPermits, StageFacts
        <3>2. PICK w \in Said : told' = [told EXCEPT ![c] = w]
            <4>1. \E w \in Said : Tell(c, w)
                BY <2>5 DEF Said
            <4> QED BY <4>1, <2>1, <1>t, TellFacts
        <3>3. Goto(c, "closed")
            BY <2>5 DEF End
        <3>4. PieceInv' /\ SilenceInv' /\ LoginKept' /\ OneAnswer'
            BY <2>1, <2>2, <3>1, <3>2, <3>3, WordsWritten
        <3> QED BY <3>1, <3>4 DEF RelayInv
    <2> QED BY <2>a, <2>3, <2>4, <2>5
<1>11. ASSUME NEW c \in Conns, reply(c) PROVE RelayInv'
    <2>1. /\ st[c] \in {"bad", "failed"} /\ told[c] = <<>> /\ End(c) /\ Goto(c, "closed")
          /\ UNCHANGED <<setup, relay, head, toProxy, toTarget>>
          /\ Tell(c, <<"400">>) \/ Tell(c, <<"502">>)
        BY <1>11, <1>t DEF reply, End, RelayInv, SilenceInv
    <2>2. TypeOK' /\ permits' \in Int
        BY <2>1, <1>t, EndKeepsPermits, StageFacts
    <2>3. PICK w \in Said : told' = [told EXCEPT ![c] = w]
        <3>1. \E w \in Said : Tell(c, w)
            BY <2>1 DEF Said
        <3> QED BY <3>1, <2>1, <1>t, TellFacts
    <2>4. /\ toTarget' = [toTarget EXCEPT ![c] = toTarget[c]]
          /\ Passes(c, toTarget[c])
        BY <2>1, <1>t DEF RelayInv, LoginKept, Passes
    <2>5. PieceInv' /\ SilenceInv' /\ LoginKept' /\ OneAnswer'
        BY <2>1, <2>2, <2>3, <2>4, WordsWritten
    <2> QED BY <2>2, <2>5 DEF RelayInv
<1> QED BY <1>1, <1>2, <1>3, <1>4, <1>5, <1>6, <1>7, <1>8, <1>9, <1>10, <1>11 DEF Next, Own

(* The inductive invariant holds always. *)
THEOREM RelayInvariant == Spec => []RelayInv
BY RelayInit, RelayStep, PTL DEF Spec

(* A permit is held by each connection that is served and by no other, and  *)
(* never are there more of them than max_connections: every way out of      *)
(* serve gives the permit back once.                                        *)
THEOREM PermitsAccounted == Spec => []TypeOK
<1>1. RelayInv => TypeOK
    BY DEF RelayInv
<1> QED BY <1>1, RelayInvariant, PTL

(* The login is written to the upstream proxy only, and no header of the    *)
(* client's hop reaches the target, on a tunnel of CONNECT, on one of SOCKS *)
(* and in a forwarded request.                                              *)
THEOREM LoginStaysWithProxy == Spec => []LoginKept
<1>1. RelayInv => LoginKept
    BY DEF RelayInv
<1> QED BY <1>1, RelayInvariant, PTL

(* A client is told one status, and the bytes it sent with its head follow  *)
(* that head, whatever fails and whenever the relay is dropped.             *)
THEOREM AnswersOnce == Spec => []OneAnswer
<1>1. RelayInv => OneAnswer
    BY DEF RelayInv
<1> QED BY <1>1, RelayInvariant, PTL

(* An IPv4 address in one of the reserved networks is one that blocked_v4   *)
(* knows, whichever way the code writes the network's ends.                 *)
LEMMA ReservedBlocked ==
    ASSUME NEW o, o[1] \in Int, o[2] \in Int, o[3] \in Int, o[4] \in Int,
           NEW net \in Reserved, InNet(o, net, 4, 8)
    PROVE  blocked_v4(o)
<1> DEFINE bits(i) == IF net[5] >= 8 * i THEN 8
                      ELSE IF net[5] <= 8 * (i - 1) THEN 0 ELSE net[5] - 8 * (i - 1)
           size(i) == 2 ^ (8 - bits(i))
<1>a. \A i \in 1..3 : o[i] \div size(i) = net[i] \div size(i)
    <2>1. 4 + 1 = 5 /\ \A i \in 1..3 : i \in 1..4
        OBVIOUS
    <2> QED BY <2>1 DEF InNet
<1>b. 2 ^ 0 = 1 /\ 2 ^ 1 = 2 /\ 2 ^ 4 = 16 /\ 2 ^ 6 = 64
    OBVIOUS
<1>1. CASE net = <<127, 0, 0, 0, 8>>
    <2>1. /\ 8 - bits(1) = 0 /\ net[1] = 127
        BY <1>1
    <2>2. size(1) = 1
        BY <2>1, <1>b
    <2> HIDE DEF size
    <2>3. /\ o[1] \div 1 = 127 \div 1
        BY <1>a, <2>1, <2>2
    <2> QED BY <2>3 DEF blocked_v4
<1>2. CASE net = <<10, 0, 0, 0, 8>>
    <2>1. /\ 8 - bits(1) = 0 /\ net[1] = 10
        BY <1>2
    <2>2. size(1) = 1
        BY <2>1, <1>b
    <2> HIDE DEF size
    <2>3. /\ o[1] \div 1 = 10 \div 1
        BY <1>a, <2>1, <2>2
    <2> QED BY <2>3 DEF blocked_v4
<1>3. CASE net = <<172, 16, 0, 0, 12>>
    <2>1. /\ 8 - bits(1) = 0 /\ net[1] = 172
          /\ 8 - bits(2) = 4 /\ net[2] = 16
        BY <1>3
    <2>2. size(1) = 1 /\ size(2) = 16
        BY <2>1, <1>b
    <2> HIDE DEF size
    <2>3. /\ o[1] \div 1 = 172 \div 1
          /\ o[2] \div 16 = 16 \div 16
        BY <1>a, <2>1, <2>2
    <2> QED BY <2>3 DEF blocked_v4
<1>4. CASE net = <<192, 168, 0, 0, 16>>
    <2>1. /\ 8 - bits(1) = 0 /\ net[1] = 192
          /\ 8 - bits(2) = 0 /\ net[2] = 168
        BY <1>4
    <2>2. size(1) = 1 /\ size(2) = 1
        BY <2>1, <1>b
    <2> HIDE DEF size
    <2>3. /\ o[1] \div 1 = 192 \div 1
          /\ o[2] \div 1 = 168 \div 1
        BY <1>a, <2>1, <2>2
    <2> QED BY <2>3 DEF blocked_v4
<1>5. CASE net = <<169, 254, 0, 0, 16>>
    <2>1. /\ 8 - bits(1) = 0 /\ net[1] = 169
          /\ 8 - bits(2) = 0 /\ net[2] = 254
        BY <1>5
    <2>2. size(1) = 1 /\ size(2) = 1
        BY <2>1, <1>b
    <2> HIDE DEF size
    <2>3. /\ o[1] \div 1 = 169 \div 1
          /\ o[2] \div 1 = 254 \div 1
        BY <1>a, <2>1, <2>2
    <2> QED BY <2>3 DEF blocked_v4
<1>6. CASE net = <<100, 64, 0, 0, 10>>
    <2>1. /\ 8 - bits(1) = 0 /\ net[1] = 100
          /\ 8 - bits(2) = 6 /\ net[2] = 64
        BY <1>6
    <2>2. size(1) = 1 /\ size(2) = 64
        BY <2>1, <1>b
    <2> HIDE DEF size
    <2>3. /\ o[1] \div 1 = 100 \div 1
          /\ o[2] \div 64 = 64 \div 64
        BY <1>a, <2>1, <2>2
    <2> QED BY <2>3 DEF blocked_v4
<1>7. CASE net = <<224, 0, 0, 0, 4>>
    <2>1. /\ 8 - bits(1) = 4 /\ net[1] = 224
        BY <1>7
    <2>2. size(1) = 16
        BY <2>1, <1>b
    <2> HIDE DEF size
    <2>3. /\ o[1] \div 16 = 224 \div 16
        BY <1>a, <2>1, <2>2
    <2> QED BY <2>3 DEF blocked_v4
<1>8. CASE net = <<0, 0, 0, 0, 8>>
    <2>1. /\ 8 - bits(1) = 0 /\ net[1] = 0
        BY <1>8
    <2>2. size(1) = 1
        BY <2>1, <1>b
    <2> HIDE DEF size
    <2>3. /\ o[1] \div 1 = 0 \div 1
        BY <1>a, <2>1, <2>2
    <2> QED BY <2>3 DEF blocked_v4
<1>9. CASE net = <<192, 0, 2, 0, 24>>
    <2>1. /\ 8 - bits(1) = 0 /\ net[1] = 192
          /\ 8 - bits(2) = 0 /\ net[2] = 0
          /\ 8 - bits(3) = 0 /\ net[3] = 2
        BY <1>9
    <2>2. size(1) = 1 /\ size(2) = 1 /\ size(3) = 1
        BY <2>1, <1>b
    <2> HIDE DEF size
    <2>3. /\ o[1] \div 1 = 192 \div 1
          /\ o[2] \div 1 = 0 \div 1
          /\ o[3] \div 1 = 2 \div 1
        BY <1>a, <2>1, <2>2
    <2> QED BY <2>3 DEF blocked_v4
<1>10. CASE net = <<198, 51, 100, 0, 24>>
    <2>1. /\ 8 - bits(1) = 0 /\ net[1] = 198
          /\ 8 - bits(2) = 0 /\ net[2] = 51
          /\ 8 - bits(3) = 0 /\ net[3] = 100
        BY <1>10
    <2>2. size(1) = 1 /\ size(2) = 1 /\ size(3) = 1
        BY <2>1, <1>b
    <2> HIDE DEF size
    <2>3. /\ o[1] \div 1 = 198 \div 1
          /\ o[2] \div 1 = 51 \div 1
          /\ o[3] \div 1 = 100 \div 1
        BY <1>a, <2>1, <2>2
    <2> QED BY <2>3 DEF blocked_v4
<1>11. CASE net = <<203, 0, 113, 0, 24>>
    <2>1. /\ 8 - bits(1) = 0 /\ net[1] = 203
          /\ 8 - bits(2) = 0 /\ net[2] = 0
          /\ 8 - bits(3) = 0 /\ net[3] = 113
        BY <1>11
    <2>2. size(1) = 1 /\ size(2) = 1 /\ size(3) = 1
        BY <2>1, <1>b
    <2> HIDE DEF size
    <2>3. /\ o[1] \div 1 = 203 \div 1
          /\ o[2] \div 1 = 0 \div 1
          /\ o[3] \div 1 = 113 \div 1
        BY <1>a, <2>1, <2>2
    <2> QED BY <2>3 DEF blocked_v4
<1>12. CASE net = <<198, 18, 0, 0, 15>>
    <2>1. /\ 8 - bits(1) = 0 /\ net[1] = 198
          /\ 8 - bits(2) = 1 /\ net[2] = 18
        BY <1>12
    <2>2. size(1) = 1 /\ size(2) = 2
        BY <2>1, <1>b
    <2> HIDE DEF size
    <2>3. /\ o[1] \div 1 = 198 \div 1
          /\ o[2] \div 2 = 18 \div 2
        BY <1>a, <2>1, <2>2
    <2> QED BY <2>3 DEF blocked_v4
<1>13. CASE net = <<192, 0, 0, 0, 24>>
    <2>1. /\ 8 - bits(1) = 0 /\ net[1] = 192
          /\ 8 - bits(2) = 0 /\ net[2] = 0
          /\ 8 - bits(3) = 0 /\ net[3] = 0
        BY <1>13
    <2>2. size(1) = 1 /\ size(2) = 1 /\ size(3) = 1
        BY <2>1, <1>b
    <2> HIDE DEF size
    <2>3. /\ o[1] \div 1 = 192 \div 1
          /\ o[2] \div 1 = 0 \div 1
          /\ o[3] \div 1 = 0 \div 1
        BY <1>a, <2>1, <2>2
    <2> QED BY <2>3 DEF blocked_v4
<1>14. CASE net = <<240, 0, 0, 0, 4>>
    <2>1. /\ 8 - bits(1) = 4 /\ net[1] = 240
        BY <1>14
    <2>2. size(1) = 16
        BY <2>1, <1>b
    <2> HIDE DEF size
    <2>3. /\ o[1] \div 16 = 240 \div 16
        BY <1>a, <2>1, <2>2
    <2> QED BY <2>3 DEF blocked_v4
<1> QED BY <1>1, <1>2, <1>3, <1>4, <1>5, <1>6, <1>7, <1>8, <1>9, <1>10, <1>11, <1>12, <1>13, <1>14
    DEF Reserved

(* A segment is a number. *)
LEMMA SegmentsAreNumbers == \A n \in Segments : n \in Int
<1>1. \A top \in Int : \A n \in 0..top : n \in Int
    OBVIOUS
<1>2. 256 * 256 - 1 \in Int
    OBVIOUS
<1> QED BY <1>1, <1>2 DEF Segments

(* An IPv6 address in one of the reserved networks is one that blocked_v6   *)
(* knows: none of them embeds an address of IPv4.                           *)
LEMMA NativeBlocked ==
    ASSUME NEW seg, \A i \in 1..8 : seg[i] \in Int,
           NEW net \in Reserved6, InNet(seg, net, 8, 16)
    PROVE  blocked_v6(seg)
<1> DEFINE bits(i) == IF net[9] >= 16 * i THEN 16
                      ELSE IF net[9] <= 16 * (i - 1) THEN 0 ELSE net[9] - 16 * (i - 1)
           size(i) == 2 ^ (16 - bits(i))
<1>a. \A i \in 1..8 : seg[i] \div size(i) = net[i] \div size(i)
    <2>1. 8 + 1 = 9
        OBVIOUS
    <2> QED BY <2>1 DEF InNet
<1>b. 2 ^ 0 = 1 /\ 2 ^ 6 = 64
    OBVIOUS
<1>c. /\ seg[1] \in Int /\ seg[2] \in Int /\ seg[3] \in Int /\ seg[4] \in Int
      /\ seg[5] \in Int /\ seg[6] \in Int /\ seg[7] \in Int /\ seg[8] \in Int
    OBVIOUS
<1>1. CASE net = <<0, 0, 0, 0, 0, 0, 0, 0, 128>>
    <2>1. /\ 16 - bits(1) = 0 /\ 16 - bits(2) = 0 /\ 16 - bits(3) = 0 /\ 16 - bits(4) = 0
          /\ 16 - bits(5) = 0 /\ 16 - bits(6) = 0 /\ 16 - bits(7) = 0 /\ 16 - bits(8) = 0
        BY <1>1
    <2>2. /\ net[1] = 0 /\ net[2] = 0 /\ net[3] = 0 /\ net[4] = 0
          /\ net[5] = 0 /\ net[6] = 0 /\ net[7] = 0 /\ net[8] = 0
        BY <1>1
    <2>3. /\ size(1) = 1 /\ size(2) = 1 /\ size(3) = 1 /\ size(4) = 1
          /\ size(5) = 1 /\ size(6) = 1 /\ size(7) = 1 /\ size(8) = 1
        BY <2>1, <1>b
    <2> HIDE DEF size
    <2>4. /\ seg[1] \div 1 = 0 \div 1
          /\ seg[2] \div 1 = 0 \div 1
          /\ seg[3] \div 1 = 0 \div 1
          /\ seg[4] \div 1 = 0 \div 1
          /\ seg[5] \div 1 = 0 \div 1
          /\ seg[6] \div 1 = 0 \div 1
          /\ seg[7] \div 1 = 0 \div 1
          /\ seg[8] \div 1 = 0 \div 1
        BY <1>a, <2>2, <2>3
    <2> QED BY <2>4, <1>c DEF blocked_v6, ffff, ff9b
<1>2. CASE net = <<0, 0, 0, 0, 0, 0, 0, 1, 128>>
    <2>1. /\ 16 - bits(1) = 0 /\ 16 - bits(2) = 0 /\ 16 - bits(3) = 0 /\ 16 - bits(4) = 0
          /\ 16 - bits(5) = 0 /\ 16 - bits(6) = 0 /\ 16 - bits(7) = 0 /\ 16 - bits(8) = 0
        BY <1>2
    <2>2. /\ net[1] = 0 /\ net[2] = 0 /\ net[3] = 0 /\ net[4] = 0
          /\ net[5] = 0 /\ net[6] = 0 /\ net[7] = 0 /\ net[8] = 1
        BY <1>2
    <2>3. /\ size(1) = 1 /\ size(2) = 1 /\ size(3) = 1 /\ size(4) = 1
          /\ size(5) = 1 /\ size(6) = 1 /\ size(7) = 1 /\ size(8) = 1
        BY <2>1, <1>b
    <2> HIDE DEF size
    <2>4. /\ seg[1] \div 1 = 0 \div 1
          /\ seg[2] \div 1 = 0 \div 1
          /\ seg[3] \div 1 = 0 \div 1
          /\ seg[4] \div 1 = 0 \div 1
          /\ seg[5] \div 1 = 0 \div 1
          /\ seg[6] \div 1 = 0 \div 1
          /\ seg[7] \div 1 = 0 \div 1
          /\ seg[8] \div 1 = 1 \div 1
        BY <1>a, <2>2, <2>3
    <2> QED BY <2>4, <1>c DEF blocked_v6, ffff, ff9b
<1>3. CASE net = <<64512, 0, 0, 0, 0, 0, 0, 0, 7>>
    <2>1. 16 - bits(1) = 9
        BY <1>3
    <2>2. net[1] = 64512
        BY <1>3
    <2>3. size(1) = 512
        <3>1. size(1) = 2 ^ 9
            BY <2>1
        <3> HIDE DEF size
        <3> QED BY <3>1
    <2> HIDE DEF size
    <2>4. /\ seg[1] \div 512 = 64512 \div 512
        BY <1>a, <2>2, <2>3
    <2> QED BY <2>4, <1>c DEF blocked_v6, ffff, ff9b
<1>4. CASE net = <<65152, 0, 0, 0, 0, 0, 0, 0, 10>>
    <2>1. 16 - bits(1) = 6
        BY <1>4
    <2>2. net[1] = 65152
        BY <1>4
    <2>3. size(1) = 64
        BY <2>1, <1>b
    <2> HIDE DEF size
    <2>4. /\ seg[1] \div 64 = 65152 \div 64
        BY <1>a, <2>2, <2>3
    <2> QED BY <2>4, <1>c DEF blocked_v6, ffff, ff9b
<1>5. CASE net = <<65216, 0, 0, 0, 0, 0, 0, 0, 10>>
    <2>1. 16 - bits(1) = 6
        BY <1>5
    <2>2. net[1] = 65216
        BY <1>5
    <2>3. size(1) = 64
        BY <2>1, <1>b
    <2> HIDE DEF size
    <2>4. /\ seg[1] \div 64 = 65216 \div 64
        BY <1>a, <2>2, <2>3
    <2> QED BY <2>4, <1>c DEF blocked_v6, ffff, ff9b
<1>6. CASE net = <<65280, 0, 0, 0, 0, 0, 0, 0, 8>>
    <2>1. 16 - bits(1) = 8
        BY <1>6
    <2>2. net[1] = 65280
        BY <1>6
    <2>3. size(1) = 256
        <3>1. size(1) = 2 ^ 8
            BY <2>1
        <3> HIDE DEF size
        <3> QED BY <3>1
    <2> HIDE DEF size
    <2>4. /\ seg[1] \div 256 = 65280 \div 256
        BY <1>a, <2>2, <2>3
    <2> QED BY <2>4, <1>c DEF blocked_v6, ffff, ff9b
<1>7. CASE net = <<8193, 3512, 0, 0, 0, 0, 0, 0, 32>>
    <2>1. 16 - bits(1) = 0 /\ 16 - bits(2) = 0
        BY <1>7
    <2>2. net[1] = 8193 /\ net[2] = 3512
        BY <1>7
    <2>3. size(1) = 1 /\ size(2) = 1
        BY <2>1, <1>b
    <2> HIDE DEF size
    <2>4. /\ seg[1] \div 1 = 8193 \div 1
          /\ seg[2] \div 1 = 3512 \div 1
        BY <1>a, <2>2, <2>3
    <2> QED BY <2>4, <1>c DEF blocked_v6, ffff, ff9b
<1> QED BY <1>1, <1>2, <1>3, <1>4, <1>5, <1>6, <1>7 DEF Reserved6

(* So is the address of IPv6 that embeds a reserved one of IPv4. *)
LEMMA ReservedBlocked6 ==
    ASSUME NEW seg, \A i \in 1..8 : seg[i] \in Segments,
           Embeds(seg), IsReserved4(Embedded(seg))
    PROVE  blocked_v6(seg)
<1>1. PICK o : o = Embedded(seg)
    OBVIOUS
<1>2. /\ o[1] = seg[7] \div 256 /\ o[2] = seg[7] % 256
      /\ o[3] = seg[8] \div 256 /\ o[4] = seg[8] % 256
    BY <1>1 DEF Embedded
<1>3. o[1] \in Int /\ o[2] \in Int /\ o[3] \in Int /\ o[4] \in Int
    <2>1. \A n \in Int : n \div 256 \in Int /\ n % 256 \in Int
        OBVIOUS
    <2>2. seg[7] \in Segments /\ seg[8] \in Segments
        OBVIOUS
    <2> QED BY <1>2, <2>1, <2>2, SegmentsAreNumbers
<1>4. blocked_v4(Embedded(seg))
    BY <1>1, <1>3, ReservedBlocked DEF IsReserved4
<1>5. \/ /\ seg[1] = 0 /\ seg[2] = 0 /\ seg[3] = 0 /\ seg[4] = 0 /\ seg[5] = 0
         /\ seg[6] \in {0, ffff}
      \/ seg[1] = 100 /\ seg[2] = ff9b
    <2>1. PICK p \in {<<0, 0, 0, 0, 0, ffff>>, <<0, 0, 0, 0, 0, 0>>, <<100, ff9b, 0, 0, 0, 0>>} :
              \A i \in 1..6 : seg[i] = p[i]
        BY DEF Embeds
    <2>2. /\ seg[1] = p[1] /\ seg[2] = p[2] /\ seg[3] = p[3]
          /\ seg[4] = p[4] /\ seg[5] = p[5] /\ seg[6] = p[6]
        BY <2>1
    <2> QED BY <2>2
<1>6. CASE seg[1] = 100 /\ seg[2] = ff9b
    BY <1>4, <1>6 DEF blocked_v6
<1>7. CASE /\ \A i \in 1..5 : seg[i] = 0
           /\ seg[6] = ffff
    BY <1>4, <1>7 DEF blocked_v6
<1>8. CASE \A i \in 1..6 : seg[i] = 0
    BY <1>4, <1>8 DEF blocked_v6
<1> QED BY <1>5, <1>6, <1>7, <1>8

(* Unless private addresses are allowed, no connection of any session goes  *)
(* to an address of a reserved network, of IPv4 or IPv6, nor to an address  *)
(* of IPv6 that embeds one of IPv4.                                         *)
THEOREM DialsPublicOnly == Spec => []PublicOnly
<1>1. RelayInv => PublicOnly
    <2> SUFFICES ASSUME RelayInv, ~Setups[setup].allow_private,
                        NEW a \in addrs, a \in ReservedAddrs
                 PROVE  FALSE
        BY DEF PublicOnly
    <2>1. setup \in DOMAIN Setups
        BY DEF RelayInv, PieceInv
    <2>2. a \in Setups[setup].addrs /\ ~is_blocked_ip(a)
        BY <2>1 DEF addrs, Resolved, resolve_allowed
    <2>3. a \in Addresses
        BY <2>1, <2>2, RelayAssumption
    <2>4. IF a.v = 4 THEN IsReserved4(a.o) ELSE IsReserved6(a.seg)
        BY DEF ReservedAddrs
    <2>5. CASE a \in [v : {4}, o : [1..4 -> 0..255]]
        <3>1. a.v = 4 /\ a.o \in [1..4 -> 0..255]
            BY <2>5
        <3>2. /\ a.o[1] \in Int /\ a.o[2] \in Int
              /\ a.o[3] \in Int /\ a.o[4] \in Int
            BY <3>1
        <3>3. IsReserved4(a.o)
            BY <2>4, <3>1
        <3>4. blocked_v4(a.o)
            BY <3>2, <3>3, ReservedBlocked DEF IsReserved4
        <3> QED BY <2>2, <3>1, <3>4 DEF is_blocked_ip
    <2>6. CASE a \in [v : {6}, seg : [1..8 -> Segments]]
        <3>1. a.v = 6 /\ a.seg \in [1..8 -> Segments]
            BY <2>6
        <3>2. IsReserved6(a.seg)
            BY <2>4, <3>1
        <3>3. \A i \in 1..8 : a.seg[i] \in Segments /\ a.seg[i] \in Int
            BY <3>1, SegmentsAreNumbers
        <3>4. blocked_v6(a.seg)
            BY <3>2, <3>3, NativeBlocked, ReservedBlocked6 DEF IsReserved6
        <3> QED BY <2>2, <3>1, <3>4 DEF is_blocked_ip
    <2> QED BY <2>3, <2>5, <2>6 DEF Addresses
<1> QED BY <1>1, RelayInvariant, PTL
=============================================================================
