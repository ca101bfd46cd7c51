---------------------------- MODULE ProfileCdpProofs ----------------------------
(***************************************************************************)
(* Proofs about ProfileCdp for every profile, any number of polls, client  *)
(* commands, resumes and faults, and whatever order the browser answers in.*)
(***************************************************************************)
EXTENDS ProfileCdp, SequenceTheorems, TLAPS

(* The inductive invariant behind the proofs. *)

params == sanitize(payload.cookies).params
Seeded == {ChromeCookie(p) : p \in params}

\* How many commands of apply_local_storage are completed, less than none
\* before it begins; the origins whose script is among the first v of them.
Done == Len(apply_local_storage) - Len(plan)
Row(o, e) == [origin |-> o, third |-> FALSE, name |-> e.name, text |-> e.text, compression |-> 0]
Written(v) ==
    UNION {{Row(Origin(i).origin, e) : e \in Origin(i).entries} :
              i \in {j \in DOMAIN payload.local : 2 * j + 2 <= v}}

(* The replies and events on their way. *)
Pipes == answers \cup {inbox[i] : i \in DOMAIN inbox}

(* What a stage still has to do. *)
SeedRest(p, k) ==
    /\ k <= 3
    /\ \A i \in DOMAIN p : i > k => p[i] = apply_local_storage[i - k]
    /\ k >= 1 => p[k] = Command("attachToTarget", "page")
    /\ k = 2 => p[1] \in {Command("getTargets", "page"), Command("createTarget", "none")}
    /\ k = 3 => p[1] = Command("setCookies", params) /\ p[2] = Command("getTargets", "page")
SeedPlan == SeedRest(plan, Len(plan) - Len(apply_local_storage))
PlanInv ==
    /\ stage \in {"seed", "cleaning", "capture"} <=> plan # <<>>
    /\ stage \notin {"seed", "cleaning", "capture"} => awaiting = 0
    /\ stage = "seed" => SeedPlan
    /\ stage = "cleaning" => \A i \in DOMAIN plan :
          plan[i] \in {Command("getTargets", "attached"), Command("detachFromTarget", "none"),
                       Command("setAutoAttach", "none"), Command("setDiscoverTargets", "none")}
    /\ stage = "capture" => plan = capture \/ (plan = Tail(capture) /\ awaiting = 0)

(* Whose messages there are, and under which ids. *)
Clients(s) == \A i \in DOMAIN s : s[i].owner = "client" => s[i].id \in 1..MaxClient
IdInv ==
    /\ Clients(sent) /\ Clients(inbox)
    /\ \A a \in answers : a.owner = "client" => a.id \in 1..MaxClient
    /\ \A a \in answers : a.owner \in {"server", "client"}
    /\ \A i \in DOMAIN inbox : inbox[i].id # 0 => inbox[i].owner \in {"server", "client"}
    /\ next_id >= 1
    /\ stage \in {"launch", "seed"} =>
          /\ \A i \in DOMAIN sent : sent[i].owner = "server" /\ sent[i].id \in 1..(next_id - 1)
          /\ \A a \in answers : a.owner = "server" /\ a.id \in 1..(next_id - 1)
          /\ \A i \in DOMAIN inbox : inbox[i].owner # "client" /\ inbox[i].id \in 0..(next_id - 1)
    /\ stage = "cleaning" =>
          next_id >= CLEANUP_FIRST_ID /\ (awaiting # 0 => awaiting >= CLEANUP_FIRST_ID)

(* While the server has the pipe for itself, no two messages have one id.   *)
UniqueInv ==
    stage = "seed" =>
        /\ \A i, j \in DOMAIN sent : sent[i].id = sent[j].id => i = j
        /\ \A i, j \in DOMAIN inbox : inbox[i].id = inbox[j].id /\ inbox[i].id # 0 => i = j
        /\ \A a, b \in answers : a.id = b.id => a = b
        /\ \A a \in answers, i \in DOMAIN sent : sent[i].id # a.id
        /\ \A a \in answers, i \in DOMAIN inbox : inbox[i].id # a.id
        /\ \A i \in DOMAIN sent, j \in DOMAIN inbox : sent[i].id # inbox[j].id

(* What is in the pipe to the browser: while seeding, the command that is   *)
(* awaited, besides answers to paused requests; later no command that seeds.*)
Awaited(c) == awaiting # 0 /\ c.id = awaiting /\ c.m = Head(plan).m /\ c.arg = Head(plan).arg
SentInv ==
    /\ \A i \in DOMAIN sent :
          /\ stage = "launch" => FALSE
          /\ stage = "seed" =>
                \/ Awaited(sent[i])
                \/ sent[i].id # awaiting /\ (sent[i].m = "fulfillRequest" \/ (sent[i].m = "navigate" /\ staleLoad))
          /\ stage \notin {"seed", "ended"} => sent[i].m \notin {"setCookies", "evaluate"}
          /\ sent[i].m = "setCookies" => \A p \in sent[i].arg : ChromeAccepts(p)
          /\ sent[i].m = "navigate" => sent[i].arg \in Documents

(* A reply to the awaited command is one to its method, and has its effect. *)
ReplyInv ==
    stage = "seed" =>
        \A r \in Pipes :
            /\ awaiting # 0 /\ r.id = awaiting => r.m = Head(plan).m
            /\ r.m = "setCookies" /\ r.ok => browser.cookies = Seeded
            /\ r.m = "attachToTarget" /\ r.ok => browser.page
            /\ r.m = "evaluate" /\ r.ok /\ awaiting # 0 /\ r.id = awaiting /\ ~staleLoad =>
                  browser.rows = Written(Done + 1)

(* How far the browser is seeded. *)
CookieInv ==
    /\ stage \in {"launch", "seed"} => browser.cookies \subseteq Seeded
    /\ stage = "seed" /\ Done >= -2 => browser.cookies = Seeded
RowInv ==
    /\ stage = "launch" => browser.rows = {} /\ ~browser.events
    /\ stage = "seed" /\ Done >= 0 => browser.page
    /\ stage = "seed" /\ ~staleLoad =>
          /\ awaiting = 0 \/ Head(plan).m # "evaluate" \/ (\E i \in DOMAIN sent : sent[i].m = "evaluate")
                => browser.rows = Written(Done)
          /\ Head(plan).m = "evaluate" =>
                /\ browser.loading = "none"
                /\ \E i \in DOMAIN payload.local : Done + 1 = 2 * i + 2 /\ browser.doc = Origin(i).origin

(* The load of an origin's document comes after the command for it, and     *)
(* its report ends the wait for it.                                         *)
Navigated == awaiting # 0 /\ Head(plan).m = "navigate" /\ \A i \in DOMAIN sent : sent[i].m # "navigate"
Loads == {i \in DOMAIN inbox : inbox[i].m = "loadEventFired" /\ inbox[i].data # "blank"}
LoadInv ==
    /\ stage = "launch" => inbox = <<>> /\ answers = {} /\ browser.loading \in {"none", "blank"}
    /\ stage = "seed" => \A a \in answers : a.m # "loadEventFired"
    /\ stage = "seed" /\ ~staleLoad =>
          /\ browser.loading \notin {"none", "blank"} =>
                Navigated /\ Head(plan).arg = browser.loading /\ Loads = {}
          /\ \A i \in Loads :
                /\ Navigated /\ Head(plan).arg = inbox[i].data
                /\ browser.doc = inbox[i].data /\ browser.loading = "none"
                /\ Loads = {i}

(* The browser from the hand-over to the client on. *)
KeptInv ==
    /\ \A r \in browser.rows : r.text \in Texts /\ r.compression \in 0..2
    /\ stage = "launch" => files = {}
    /\ stage \notin {"launch", "ended"} \/ captured.deposit =>
          files = {[path |-> payload.files[i], node |-> "file"] : i \in DOMAIN payload.files}
    /\ stage \in {"bridged", "cleaning", "capture", "closing"} \/ captured.deposit =>
          /\ ~changed => browser.cookies = Seeded
          /\ ~changed /\ ~staleLoad => browser.rows = Written(Len(apply_local_storage))

(* The capture's first command comes after all of the client's, and no      *)
(* earlier command of the server had its id and is left.                    *)
First(c) == c.owner = "server" /\ c.id = 1
FirstInv ==
    /\ stage = "seed" =>
          /\ next_id = 1 \/ awaiting = 1 => Done < 0
          /\ awaiting # 1 => \A i \in DOMAIN sent : ~First(sent[i])
          /\ awaiting # 1 => \A r \in Pipes : ~First(r)
    /\ stage \in {"bridged", "cleaning"} \/ (stage = "capture" /\ plan = capture /\ awaiting = 0) =>
          /\ \A i \in DOMAIN sent : ~First(sent[i])
          /\ \A r \in Pipes : ~First(r)
    /\ stage = "capture" =>
          /\ plan = capture => next_id = IF awaiting = 0 THEN 1 ELSE 2
          /\ awaiting \in {0, 1}
    /\ stage = "capture" /\ awaiting = 1 =>
          /\ \A i \in DOMAIN sent : First(sent[i]) => i = Len(sent) /\ sent[i].m = "getCookies"
          /\ \A r \in Pipes : First(r) => sent = <<>> /\ r.m = "getCookies" /\ r.data = browser.cookies
CaptureInv ==
    /\ captured.deposit =>
          /\ stage = "ended" /\ captured.files = pack_native(files, captured.packed)
          /\ captured.local = read_profile_local_storage(browser.disk, captured.opened)
    /\ captured.answered => stage \in {"capture", "closing", "ended"} /\ plan # capture
    /\ captured.answered /\ "capture" \notin mistaken =>
          /\ captured.cookies = browser.cookies
          /\ \A i \in DOMAIN sent : sent[i].m = "close"

CdpInv ==
    /\ OwnReplies /\ PlanInv /\ IdInv /\ UniqueInv /\ SentInv /\ ReplyInv /\ CookieInv /\ RowInv
    /\ LoadInv /\ KeptInv /\ FirstInv /\ CaptureInv

-----------------------------------------------------------------------------
(* A sequence, of whatever. *)
IsList(s) == \E S : s \in Seq(S)

(* What a sequence's first element and its rest are. *)
LEMMA ListFacts ==
    ASSUME NEW s, IsList(s)
    PROVE  /\ Len(s) \in Nat /\ DOMAIN s = 1..Len(s)
           /\ s = <<>> <=> Len(s) = 0
           /\ s # <<>> => /\ Head(s) = s[1] /\ IsList(Tail(s)) /\ Len(Tail(s)) = Len(s) - 1
                          /\ \A i \in 1..(Len(s) - 1) : Tail(s)[i] = s[i + 1]
<1>1. PICK S : s \in Seq(S)
    BY DEF IsList
<1>2. s # <<>> => Tail(s) \in Seq(S)
    BY <1>1
<1> QED BY <1>1, <1>2 DEF IsList

(* An element more at the end. *)
LEMMA ListAppend ==
    ASSUME NEW s, NEW e, IsList(s)
    PROVE  /\ IsList(Append(s, e)) /\ Len(Append(s, e)) = Len(s) + 1
           /\ Append(s, e)[Len(s) + 1] = e
           /\ \A i \in 1..Len(s) : Append(s, e)[i] = s[i]
<1>1. PICK S : s \in Seq(S)
    BY DEF IsList
<1>2. s \in Seq(S \cup {e}) /\ e \in S \cup {e}
    BY <1>1
<1>3. Append(s, e) \in Seq(S \cup {e})
    BY <1>2
<1> QED BY <1>2, <1>3 DEF IsList

(* One sequence after another. *)
LEMMA ListConcat ==
    ASSUME NEW s, NEW t, IsList(s), IsList(t)
    PROVE  /\ IsList(s \o t) /\ Len(s \o t) = Len(s) + Len(t)
           /\ \A i \in 1..Len(s) : (s \o t)[i] = s[i]
           /\ \A i \in (Len(s) + 1)..(Len(s) + Len(t)) : (s \o t)[i] = t[i - Len(s)]
<1>1. PICK S : s \in Seq(S)
    BY DEF IsList
<1>2. PICK T : t \in Seq(T)
    BY DEF IsList
<1>3. s \in Seq(S \cup T) /\ t \in Seq(S \cup T)
    BY <1>1, <1>2
<1>4. s \o t \in Seq(S \cup T)
    BY <1>3
<1> QED BY <1>3, <1>4 DEF IsList

(* No sequence has an element that is not of its set. *)
LEMMA ListElement ==
    ASSUME NEW S, NEW s \in Seq(S), NEW i \in DOMAIN s
    PROVE  s[i] \in S
OBVIOUS

(* A function on the first numbers is a sequence. *)
LEMMA ListFunction ==
    ASSUME NEW N \in Nat, NEW f, f = [k \in 1..N |-> f[k]]
    PROVE  IsList(f) /\ Len(f) = N
<1>1. f \in [1..N -> {f[k] : k \in 1..N}]
    OBVIOUS
<1>2. f \in Seq({f[k] : k \in 1..N})
    BY <1>1
<1>3. Len(f) = N
    BY <1>1
<1> QED BY <1>2, <1>3 DEF IsList

(* The empty sequence. *)
LEMMA ListEmpty == IsList(<<>>) /\ Len(<<>>) = 0
<1>1. <<>> \in Seq({})
    OBVIOUS
<1> QED BY <1>1 DEF IsList

(* The sequences that are written out. *)
LEMMA ListLiterals ==
    ASSUME NEW a, NEW b, NEW c
    PROVE  /\ IsList(<<a>>) /\ Len(<<a>>) = 1 /\ <<a>>[1] = a
           /\ IsList(<<a, b>>) /\ Len(<<a, b>>) = 2 /\ <<a, b>>[1] = a /\ <<a, b>>[2] = b
           /\ IsList(<<a, b, c>>) /\ Len(<<a, b, c>>) = 3
           /\ <<a, b, c>>[1] = a /\ <<a, b, c>>[2] = b /\ <<a, b, c>>[3] = c
<1>1. <<a>> \in Seq({a}) /\ <<a, b>> \in Seq({a, b})
      /\ <<a, b, c>> \in Seq({a, b, c})
    OBVIOUS
<1> QED BY <1>1 DEF IsList

(* The elements of a sequence's rest, and of one with an element more. *)
LEMMA TailElements ==
    ASSUME NEW s, IsList(s), s # <<>>
    PROVE  /\ IsList(Tail(s)) /\ 1 \in DOMAIN s /\ Head(s) = s[1] /\ DOMAIN s \subseteq Nat
           /\ \A i \in DOMAIN Tail(s) : i \in Nat /\ i + 1 \in DOMAIN s /\ i + 1 # 1 /\ Tail(s)[i] = s[i + 1]
           /\ \A i \in DOMAIN s : i # 1 => i - 1 \in DOMAIN Tail(s) /\ Tail(s)[i - 1] = s[i]
<1>1. /\ Len(s) \in Nat /\ DOMAIN s = 1..Len(s) /\ Len(s) # 0
      /\ Head(s) = s[1] /\ IsList(Tail(s)) /\ Len(Tail(s)) = Len(s) - 1
      /\ \A i \in 1..(Len(s) - 1) : Tail(s)[i] = s[i + 1]
    BY ListFacts
<1>2. DOMAIN Tail(s) = 1..(Len(s) - 1)
    BY <1>1, ListFacts
<1>3. PICK N \in Nat : N = Len(s)
    BY <1>1
<1>4. ASSUME NEW i \in DOMAIN s, i # 1 PROVE i - 1 \in DOMAIN Tail(s) /\ Tail(s)[i - 1] = s[i]
    <2>1. i \in 1..N /\ i - 1 \in 1..(N - 1) /\ (i - 1) + 1 = i
        BY <1>1, <1>3, <1>4
    <2>2. Tail(s)[i - 1] = s[(i - 1) + 1]
        BY <1>1, <1>3, <2>1
    <2> QED BY <1>2, <1>3, <2>1, <2>2
<1> QED BY <1>1, <1>2, <1>4

(* An element more at the end, element by element. *)
LEMMA AppendElements ==
    ASSUME NEW s, NEW e, IsList(s)
    PROVE  /\ IsList(Append(s, e)) /\ DOMAIN s \subseteq DOMAIN Append(s, e) /\ DOMAIN s \subseteq Nat
           /\ \A i \in DOMAIN s : Append(s, e)[i] = s[i]
           /\ \A i \in DOMAIN Append(s, e) :
                 \/ i \in DOMAIN s /\ Append(s, e)[i] = s[i]
                 \/ i = Len(s) + 1 /\ i \notin DOMAIN s /\ Append(s, e)[i] = e
<1>1. /\ IsList(Append(s, e)) /\ Len(Append(s, e)) = Len(s) + 1
      /\ Append(s, e)[Len(s) + 1] = e /\ \A i \in 1..Len(s) : Append(s, e)[i] = s[i]
    BY ListAppend
<1>2. Len(s) \in Nat /\ DOMAIN s = 1..Len(s) /\ DOMAIN Append(s, e) = 1..Len(Append(s, e))
    BY <1>1, ListFacts
<1> QED BY <1>1, <1>2

-----------------------------------------------------------------------------
(* What is known of a payload, which never changes. *)
LEMMA PayloadFacts ==
    ASSUME payload \in Payloads
    PROVE  /\ payload.cookies \subseteq CookieType
           /\ IsList(payload.local)
           /\ \A i \in DOMAIN payload.local :
                 /\ Origin(i).origin \in Documents \ {"blank", "none"}
                 /\ Origin(i).entries \subseteq EntryType
           /\ \A i, j \in DOMAIN payload.local : Origin(i).origin = Origin(j).origin => i = j
           /\ \A i \in DOMAIN payload.files : payload.files[i][1] \in NATIVE_STORES
<1>1. payload.local \in Seq([origin : STRING \ {"blank", "none"}, entries : SUBSET EntryType])
    BY PayloadsAssumption
<1>2. ASSUME NEW i \in DOMAIN payload.local
      PROVE  Origin(i) \in [origin : STRING \ {"blank", "none"}, entries : SUBSET EntryType]
    BY <1>1, ListElement DEF Origin
<1>3. ASSUME NEW i \in DOMAIN payload.local PROVE Origin(i).origin \in Documents
    BY DEF Documents, Origin
<1>4. IsList(payload.local)
    BY <1>1 DEF IsList
<1> QED BY <1>2, <1>3, <1>4, PayloadsAssumption, CapturedAssumption DEF Origin

(* The commands of apply_local_storage, one by one. *)
LEMMA LocalPlan ==
    ASSUME payload \in Payloads
    PROVE  LET n == Len(payload.local) IN
           /\ n \in Nat /\ DOMAIN payload.local = 1..n
           /\ IsList(apply_local_storage)
           /\ Len(apply_local_storage) = IF n = 0 THEN 0 ELSE 2 * n + 4
           /\ n > 0 =>
                 /\ apply_local_storage[1] = Command("Page.enable", "none")
                 /\ apply_local_storage[2] = Command("Fetch.enable", "none")
                 /\ \A k \in 1..n :
                       /\ apply_local_storage[2 * k + 1] = Command("navigate", Origin(k).origin)
                       /\ apply_local_storage[2 * k + 2] = Command("evaluate", Origin(k).entries)
                 /\ apply_local_storage[2 * n + 3] = Command("Fetch.disable", "none")
                 /\ apply_local_storage[2 * n + 4] = Command("navigate", "blank")
<1> DEFINE n == Len(payload.local)
           visit(k) == IF k % 2 = 1 THEN Command("navigate", Origin((k + 1) \div 2).origin)
                       ELSE Command("evaluate", Origin(k \div 2).entries)
           visits == [k \in 1..(2 * n) |-> visit(k)]
           front == enable_interception \o visits
<1>1. n \in Nat /\ DOMAIN payload.local = 1..n
    BY PayloadFacts, ListFacts
<1>2. CASE n = 0
    <2>1. apply_local_storage = <<>>
        BY <1>2 DEF apply_local_storage
    <2> QED BY <1>1, <1>2, <2>1, ListEmpty
<1>3. CASE n > 0
    <2>1. visits = [k \in 1..(2 * n) |-> visits[k]] /\ 2 * n \in Nat
        BY <1>1
    <2>2. IsList(visits) /\ Len(visits) = 2 * n
        <3> HIDE DEF visits, n
        <3> QED BY <2>1, ListFunction
    <2>3. /\ IsList(enable_interception) /\ Len(enable_interception) = 2
          /\ enable_interception[1] = Command("Page.enable", "none")
          /\ enable_interception[2] = Command("Fetch.enable", "none")
          /\ IsList(disable_interception) /\ Len(disable_interception) = 2
          /\ disable_interception[1] = Command("Fetch.disable", "none")
          /\ disable_interception[2] = Command("navigate", "blank")
        BY ListLiterals DEF enable_interception, disable_interception
    <2>4. ASSUME NEW k \in 1..n
          PROVE  /\ visits[2 * k - 1] = Command("navigate", Origin(k).origin)
                 /\ visits[2 * k] = Command("evaluate", Origin(k).entries)
        <3>1. 2 * k - 1 \in 1..(2 * n) /\ 2 * k \in 1..(2 * n)
            BY <1>1
        <3>2. (2 * k - 1) % 2 = 1 /\ (2 * k) % 2 = 0 /\ ((2 * k - 1) + 1) \div 2 = k /\ (2 * k) \div 2 = k
            BY <1>1
        <3> QED BY <3>1, <3>2
    <2> HIDE DEF visits, n
    <2>5. /\ IsList(front) /\ Len(front) = 2 * n + 2
          /\ front[1] = Command("Page.enable", "none") /\ front[2] = Command("Fetch.enable", "none")
          /\ \A i \in 3..(2 * n + 2) : front[i] = visits[i - 2]
        <3>1. IsList(front)
            BY <2>2, <2>3, ListConcat
        <3>2. Len(front) = Len(enable_interception) + Len(visits)
            BY <2>2, <2>3, ListConcat
        <3>3. \A i \in 1..Len(enable_interception) : front[i] = enable_interception[i]
            BY <2>2, <2>3, ListConcat
        <3>4. \A i \in (Len(enable_interception) + 1)..(Len(enable_interception) + Len(visits)) :
                 front[i] = visits[i - Len(enable_interception)]
            BY <2>2, <2>3, ListConcat
        <3> HIDE DEF front
        <3>5. Len(front) = 2 * n + 2
            BY <1>1, <2>2, <2>3, <3>2
        <3>6. front[1] = Command("Page.enable", "none") /\ front[2] = Command("Fetch.enable", "none")
            BY <2>3, <3>3
        <3>7. \A i \in 3..(2 * n + 2) : front[i] = visits[i - 2]
            BY <1>1, <2>2, <2>3, <3>4
        <3> QED BY <3>1, <3>5, <3>6, <3>7
    <2>6. apply_local_storage = front \o disable_interception
        BY <1>1, <1>3 DEF apply_local_storage, visits, n
    <2> HIDE DEF front
    <2>7. /\ IsList(apply_local_storage) /\ Len(apply_local_storage) = 2 * n + 4
          /\ \A i \in 1..(2 * n + 2) : apply_local_storage[i] = front[i]
          /\ apply_local_storage[2 * n + 3] = disable_interception[1]
          /\ apply_local_storage[2 * n + 4] = disable_interception[2]
        <3>1. IsList(apply_local_storage)
            BY <2>3, <2>5, <2>6, ListConcat
        <3>2. Len(apply_local_storage) = Len(front) + Len(disable_interception)
            BY <2>3, <2>5, <2>6, ListConcat
        <3>3. \A i \in 1..Len(front) : apply_local_storage[i] = front[i]
            BY <2>3, <2>5, <2>6, ListConcat
        <3>4. \A i \in (Len(front) + 1)..(Len(front) + Len(disable_interception)) :
                 apply_local_storage[i] = disable_interception[i - Len(front)]
            BY <2>3, <2>5, <2>6, ListConcat
        <3> QED BY <1>1, <2>3, <2>5, <3>1, <3>2, <3>3, <3>4
    <2>8. ASSUME NEW k \in 1..n
          PROVE  /\ apply_local_storage[2 * k + 1] = Command("navigate", Origin(k).origin)
                 /\ apply_local_storage[2 * k + 2] = Command("evaluate", Origin(k).entries)
        <3>1. /\ (2 * k + 1) - 2 = 2 * k - 1 /\ (2 * k + 2) - 2 = 2 * k
              /\ 2 * k + 1 \in 3..(2 * n + 2) /\ 2 * k + 2 \in 3..(2 * n + 2)
              /\ 2 * k + 1 \in 1..(2 * n + 2) /\ 2 * k + 2 \in 1..(2 * n + 2)
            BY <1>1
        <3> QED BY <2>4, <2>5, <2>7, <3>1
    <2>9. 1 \in 1..(2 * n + 2) /\ 2 \in 1..(2 * n + 2)
        BY <1>1, <1>3
    <2> QED BY <1>1, <1>3, <2>3, <2>5, <2>7, <2>8, <2>9 DEF n
<1>4. n = 0 \/ n > 0
    BY <1>1
<1> QED BY <1>2, <1>3, <1>4, Zenon

(* Its origins are numbered. *)
LEMMA LocalIndex ==
    ASSUME payload \in Payloads
    PROVE  \A i \in DOMAIN payload.local : i \in Nat /\ i >= 1
<1>1. Len(payload.local) \in Nat /\ DOMAIN payload.local = 1..Len(payload.local)
    BY PayloadFacts, ListFacts
<1> QED BY <1>1

(* So each is of one of these kinds. *)
LEMMA LocalCommands ==
    ASSUME payload \in Payloads, NEW v \in 1..Len(apply_local_storage)
    PROVE  LET c == apply_local_storage[v]  n == Len(payload.local) IN
           \/ c.m \in {"Page.enable", "Fetch.enable", "Fetch.disable"}
           \/ c = Command("navigate", "blank") /\ v = Len(apply_local_storage)
           \/ \E k \in DOMAIN payload.local :
                 \/ v = 2 * k + 1 /\ c = Command("navigate", Origin(k).origin)
                 \/ v = 2 * k + 2 /\ c = Command("evaluate", Origin(k).entries)
<1> DEFINE n == Len(payload.local)
<1>1. n \in Nat /\ DOMAIN payload.local = 1..n /\ n > 0 /\ v \in 1..(2 * n + 4)
      /\ Len(apply_local_storage) = 2 * n + 4
    BY LocalPlan
<1>2. \/ v = 1 \/ v = 2 \/ v = 2 * n + 3 \/ v = 2 * n + 4
      \/ \E k \in 1..n : v = 2 * k + 1 \/ v = 2 * k + 2
    <2>1. SUFFICES ASSUME v \in 3..(2 * n + 2) PROVE \E k \in 1..n : v = 2 * k + 1 \/ v = 2 * k + 2
        BY <1>1
    <2>2. (v - 1) \div 2 \in 1..n /\ (v = 2 * ((v - 1) \div 2) + 1 \/ v = 2 * ((v - 1) \div 2) + 2)
        BY <1>1, <2>1
    <2> QED BY <2>2
<1>3. CASE v \in {1, 2, 2 * n + 3, 2 * n + 4}
    <2>1. /\ apply_local_storage[1] = Command("Page.enable", "none")
          /\ apply_local_storage[2] = Command("Fetch.enable", "none")
          /\ apply_local_storage[2 * n + 3] = Command("Fetch.disable", "none")
          /\ apply_local_storage[2 * n + 4] = Command("navigate", "blank")
        BY <1>1, LocalPlan
    <2> QED BY <1>1, <1>3, <2>1 DEF Command
<1>4. ASSUME NEW k \in 1..n, v = 2 * k + 1 \/ v = 2 * k + 2
      PROVE  \/ v = 2 * k + 1 /\ apply_local_storage[v] = Command("navigate", Origin(k).origin)
             \/ v = 2 * k + 2 /\ apply_local_storage[v] = Command("evaluate", Origin(k).entries)
    BY <1>1, <1>4, LocalPlan
<1> QED BY <1>1, <1>2, <1>3, <1>4

(* sanitize passes on only what the browser accepts, and the browser makes  *)
(* of each parameter the cookie it came from.                               *)
LEMMA CookieFacts ==
    ASSUME payload \in Payloads
    PROVE  /\ \A p \in params : ChromeAccepts(p)
           /\ Seeded = Restorable
<1>1. ASSUME NEW c \in CookieType, DropReason(c) = "retained"
      PROVE  ChromeAccepts(to_param(c)) /\ ChromeCookie(to_param(c)) = c
    <2>1. /\ ~c.partition_key_opaque /\ ~c.oversized /\ c.expires # "past" /\ prefix_ok(c)
          /\ c.same_site = "None" => c.secure
        BY <1>1 DEF DropReason, CookieType
    <2> DEFINE p == to_param(c)
               all == {"name", "prefix", "expires", "same_site", "bare", "secure", "http_only",
                       "root_path", "dot_domain", "partition_key_opaque", "oversized"}
    <2>2. DOMAIN c = all /\ c = [k \in all |-> c[k]]
        BY DEF CookieType
    <2>3. /\ DOMAIN p = (IF c.expires = "session" THEN all \ {"partition_key_opaque", "oversized", "expires"}
                         ELSE all \ {"partition_key_opaque", "oversized"})
          /\ \A k \in DOMAIN p : p[k] = c[k]
        BY <2>2 DEF to_param
    <2> HIDE DEF p
    <2>4. ChromeAccepts(p)
        <3>1. /\ p.same_site = c.same_site /\ p.secure = c.secure /\ p.prefix = c.prefix
              /\ p.root_path = c.root_path /\ p.dot_domain = c.dot_domain /\ p.bare = c.bare
            BY <2>3
        <3>2. c.prefix \in {"none", "__Host-", "__Secure-"}
            BY DEF CookieType
        <3>3. /\ c.bare \in BOOLEAN /\ c.secure \in BOOLEAN /\ c.root_path \in BOOLEAN
              /\ c.dot_domain \in BOOLEAN
            BY DEF CookieType
        <3> QED BY <2>1, <3>1, <3>2, <3>3 DEF ChromeAccepts, prefix_ok
    <2>5. ChromeCookie(p) = c
        <3>1. DOMAIN p \cup {"expires", "partition_key_opaque", "oversized"} = all
            BY <2>3
        <3>2. c.partition_key_opaque = FALSE /\ c.oversized = FALSE
            BY <2>1 DEF CookieType
        <3>3. ASSUME NEW k \in all PROVE ChromeCookie(p)[k] = c[k]
            <4>1. CASE k \in DOMAIN p
                <5>1. ChromeCookie(p)[k] = p[k]
                    BY <3>1, <4>1, Zenon DEF ChromeCookie
                <5> QED BY <2>3, <4>1, <5>1
            <4>2. CASE k \notin DOMAIN p /\ k = "expires"
                BY <2>3, <3>1, <4>2 DEF ChromeCookie
            <4>3. CASE k \notin DOMAIN p /\ k # "expires"
                <5>1. k \in {"partition_key_opaque", "oversized"}
                    BY <2>3, <4>3
                <5>2. ChromeCookie(p)[k] = FALSE
                    BY <3>1, <4>3 DEF ChromeCookie
                <5> QED BY <3>2, <5>1, <5>2
            <4> QED BY <4>1, <4>2, <4>3
        <3>4. ChromeCookie(p) = [k \in all |-> ChromeCookie(p)[k]]
            BY <3>1, Zenon DEF ChromeCookie
        <3> QED BY <2>2, <3>3, <3>4
    <2> QED BY <2>4, <2>5 DEF p
<1>2. params = {to_param(c) : c \in Restorable} /\ Restorable \subseteq CookieType
    BY PayloadFacts DEF params, sanitize, Restorable
<1>3. \A c \in Restorable : DropReason(c) = "retained"
    BY DEF Restorable
<1>4. \A p \in params : ChromeAccepts(p)
    BY <1>1, <1>2, <1>3
<1>5. Seeded = Restorable
    BY <1>1, <1>2, <1>3 DEF Seeded
<1> QED BY <1>4, <1>5

-----------------------------------------------------------------------------
(* The shape of what the invariant is about. *)
BrowserShape(b) ==
    b = [alive |-> b.alive, page |-> b.page, doc |-> b.doc, events |-> b.events,
         loading |-> b.loading, held |-> b.held, fetch |-> b.fetch, cookies |-> b.cookies,
         rows |-> b.rows, disk |-> b.disk]
CapturedShape(c) ==
    c = [deposit |-> c.deposit, answered |-> c.answered, opened |-> c.opened,
         packed |-> c.packed, cookies |-> c.cookies, local |-> c.local, files |-> c.files]
ShapeInv ==
    /\ IsList(plan) /\ IsList(sent) /\ IsList(inbox)
    /\ BrowserShape(browser) /\ CapturedShape(captured)

Inv == CdpInv /\ ShapeInv

(* Seeding begins with all of its commands to do. *)
LEMMA SeedBegins ==
    ASSUME payload \in Payloads
    PROVE  LET k == Len(seed_profile) - Len(apply_local_storage) IN
           /\ IsList(seed_profile) /\ k \in {2, 3}
           /\ \A i \in DOMAIN seed_profile : i > k => seed_profile[i] = apply_local_storage[i - k]
           /\ seed_profile[k] = Command("attachToTarget", "page")
           /\ seed_profile[k - 1] = Command("getTargets", "page")
           /\ k = 3 => seed_profile[1] = Command("setCookies", params)
           /\ k = 2 => params = {}
<1>1. /\ IsList(attach_page_target) /\ Len(attach_page_target) = 2
      /\ attach_page_target[1] = Command("getTargets", "page")
      /\ attach_page_target[2] = Command("attachToTarget", "page")
    BY ListLiterals DEF attach_page_target
<1>2. IsList(apply_local_storage) /\ Len(apply_local_storage) \in Nat
    BY LocalPlan, ListFacts
<1>3. IsList(apply_cookies) /\ (params = {} => Len(apply_cookies) = 0)
      /\ (params # {} => Len(apply_cookies) = 1 /\ apply_cookies[1] = Command("setCookies", params))
    BY ListLiterals, ListEmpty DEF apply_cookies, params
<1> DEFINE front == apply_cookies \o attach_page_target
           k == Len(front)
<1>4. /\ IsList(front) /\ k = Len(apply_cookies) + 2
      /\ \A i \in 1..Len(apply_cookies) : front[i] = apply_cookies[i]
      /\ \A i \in (Len(apply_cookies) + 1)..(Len(apply_cookies) + 2) :
            front[i] = attach_page_target[i - Len(apply_cookies)]
    <2>1. IsList(front)
        BY <1>1, <1>3, ListConcat
    <2>2. k = Len(apply_cookies) + Len(attach_page_target)
        BY <1>1, <1>3, ListConcat
    <2>3. \A i \in 1..Len(apply_cookies) : front[i] = apply_cookies[i]
        BY <1>1, <1>3, ListConcat
    <2>4. \A i \in (Len(apply_cookies) + 1)..(Len(apply_cookies) + Len(attach_page_target)) :
             front[i] = attach_page_target[i - Len(apply_cookies)]
        BY <1>1, <1>3, ListConcat
    <2> HIDE DEF front
    <2> QED BY <1>1, <2>1, <2>2, <2>3, <2>4
<1>5. /\ IsList(seed_profile) /\ Len(seed_profile) = k + Len(apply_local_storage)
      /\ \A i \in 1..k : seed_profile[i] = front[i]
      /\ \A i \in (k + 1)..(k + Len(apply_local_storage)) :
            seed_profile[i] = apply_local_storage[i - k]
    <2>0. seed_profile = front \o apply_local_storage
        BY DEF seed_profile
    <2> HIDE DEF front
    <2>1. IsList(seed_profile)
        BY <1>2, <1>4, <2>0, ListConcat
    <2>2. Len(seed_profile) = k + Len(apply_local_storage)
        BY <1>2, <1>4, <2>0, ListConcat
    <2>3. \A i \in 1..k : seed_profile[i] = front[i]
        BY <1>2, <1>4, <2>0, ListConcat
    <2>4. \A i \in (k + 1)..(k + Len(apply_local_storage)) : seed_profile[i] = apply_local_storage[i - k]
        BY <1>2, <1>4, <2>0, ListConcat
    <2> QED BY <2>1, <2>2, <2>3, <2>4
<1> HIDE DEF front, k
<1>6. Len(apply_cookies) \in {0, 1} /\ k \in {2, 3} /\ (k = 2 <=> params = {})
    BY <1>3, <1>4
<1>7. /\ front[k] = Command("attachToTarget", "page") /\ front[k - 1] = Command("getTargets", "page")
      /\ k = 3 => front[1] = Command("setCookies", params)
    <2>1. Len(apply_cookies) \in {0, 1} /\ k = Len(apply_cookies) + 2
        BY <1>4, <1>6
    <2>2. front[k] = attach_page_target[2] /\ front[k - 1] = attach_page_target[1]
        BY <1>4, <2>1
    <2>3. k = 3 => front[1] = apply_cookies[1] /\ params # {}
        BY <1>3, <1>4, <2>1
    <2> QED BY <1>1, <1>3, <2>2, <2>3
<1>8. DOMAIN seed_profile = 1..Len(seed_profile)
    BY <1>5, ListFacts
<1>9. Len(seed_profile) - Len(apply_local_storage) = k
    BY <1>2, <1>5, <1>6
<1> QED BY <1>2, <1>5, <1>6, <1>7, <1>8, <1>9

-----------------------------------------------------------------------------
(* The steps, as the plan sees them. *)
Advances == /\ awaiting' = 0 /\ plan' = Tail(plan) /\ next_id' = next_id
            /\ stage' = IF Tail(plan) = <<>> THEN "bridged" ELSE stage
Repeats == /\ awaiting' = 0 /\ stage' = stage /\ next_id' = next_id
           /\ Head(plan).m = "getTargets"
           /\ \/ Head(plan).arg = "page" /\ plan' = plan
              \/ Head(plan).arg = "page" /\ plan' = <<Command("createTarget", "none")>> \o Tail(plan)
              \/ Head(plan).arg = "attached" /\ plan' = <<Command("detachFromTarget", "none")>> \o Tail(plan)
Ends == stage' = "ended" /\ plan' = <<>> /\ awaiting' = 0
Sends == /\ plan # <<>> /\ awaiting = 0 /\ awaiting' = next_id /\ next_id' = next_id + 1
         /\ UNCHANGED <<stage, plan>> /\ Head(plan).m # "close"
Closes == /\ Head(plan).m = "close" /\ awaiting = 0
          /\ stage' = "closing" /\ plan' = <<>> /\ awaiting' = 0
Fulfils == UNCHANGED <<stage, plan, awaiting>> /\ next_id' = next_id + 1
Begins == \/ stage = "launch" /\ Begin("seed", seed_profile, 1)
          \/ stage = "bridged" /\ Begin("cleaning", clean_slate, CLEANUP_FIRST_ID)
          \/ stage = "bridged" /\ Begin("capture", capture, 1)

(* What becomes of a message that is read while a command is awaited. *)
RecvSkips == UNCHANGED <<stage, plan, awaiting, next_id, sent, captured, mistaken, staleLoad>>
RecvPaused ==
    /\ Head(plan).m = "navigate"
    /\ sent' = Append(sent, With(next_id, "server", Command("fulfillRequest", "none")))
    /\ Fulfils /\ UNCHANGED <<captured, mistaken, staleLoad>>
RecvLoaded ==
    /\ Head(plan).m = "navigate" /\ inbox[1].m = "loadEventFired"
    /\ staleLoad' = (staleLoad \/ inbox[1].data # Head(plan).arg)
    /\ Advances /\ UNCHANGED <<sent, captured, mistaken>>
RecvReply ==
    /\ Head(plan).m # "navigate" /\ inbox[1].id = awaiting
    /\ mistaken' = (IF inbox[1].owner = "client" THEN mistaken \cup {stage} ELSE mistaken)
    /\ UNCHANGED <<sent, staleLoad, next_id>>
RecvOk ==
    /\ RecvReply /\ inbox[1].ok /\ (Advances \/ Repeats)
    /\ captured' = IF stage # "capture" THEN captured
                   ELSE [captured EXCEPT !.answered = TRUE,
                            !.cookies = IF inbox[1].m = "getCookies" THEN inbox[1].data ELSE {}]
RecvFails ==
    /\ RecvReply /\ ~inbox[1].ok /\ UNCHANGED captured
    /\ (stage # "seed" /\ Advances) \/ (stage = "seed" /\ Ends)

(* These are all. *)
LEMMA RecvCases ==
    ASSUME recv, ShapeInv, TypeOK
    PROVE  /\ awaiting # 0 /\ inbox # <<>> /\ inbox' = Tail(inbox)
           /\ UNCHANGED <<payload, answers, browser, files, bounds, changed>>
           /\ RecvSkips \/ RecvPaused \/ RecvLoaded \/ RecvOk \/ RecvFails
<1>1. /\ awaiting # 0 /\ inbox # <<>> /\ inbox' = Tail(inbox)
      /\ UNCHANGED <<payload, answers, browser, files, bounds, changed>>
    BY DEF recv
<1>2. Head(inbox) = inbox[1]
    BY <1>1, ListFacts DEF ShapeInv
<1>3. CASE Head(plan).m = "navigate"
    <2>1. navigate_stub(inbox[1])
        BY <1>2, <1>3 DEF recv
    <2>2. CASE inbox[1].m = "requestPaused"
        <3>1. RecvPaused
            BY <2>1, <2>2, <1>3 DEF navigate_stub, RecvPaused, Fulfils, TypeOK
        <3> QED BY <1>1, <3>1
    <2>3. CASE inbox[1].m = "loadEventFired"
        <3>1. RecvLoaded
            BY <2>1, <2>3, <1>3 DEF navigate_stub, RecvLoaded, Advances, Continue
        <3> QED BY <1>1, <3>1
    <2>4. CASE inbox[1].m \notin {"requestPaused", "loadEventFired"}
        <3>1. RecvSkips
            BY <2>1, <2>4 DEF navigate_stub, RecvSkips, TypeOK
        <3> QED BY <1>1, <3>1
    <2> QED BY <2>2, <2>3, <2>4
<1>4. CASE Head(plan).m # "navigate"
    <2>1. call_on(inbox[1]) /\ UNCHANGED staleLoad
        BY <1>2, <1>4 DEF recv
    <2>2. CASE inbox[1].id # awaiting
        <3>1. RecvSkips
            BY <2>1, <2>2 DEF call_on, RecvSkips
        <3> QED BY <1>1, <3>1
    <2>3. CASE inbox[1].id = awaiting /\ inbox[1].ok
        <3>1. RecvReply /\ Returned(inbox[1])
            BY <2>1, <2>3, <1>4 DEF call_on, RecvReply
        <3>2. captured' = IF stage # "capture" THEN captured
                   ELSE [captured EXCEPT !.answered = TRUE,
                            !.cookies = IF inbox[1].m = "getCookies" THEN inbox[1].data ELSE {}]
            BY <3>1 DEF Returned
        <3>3. next_id' = next_id
            BY <3>1 DEF RecvReply
        <3>4. (<<>> \o Tail(plan)) = Tail(plan)
            BY <1>1, ListFacts DEF ShapeInv, IsList, TypeOK
        <3>5. ASSUME NEW c PROVE plan # <<>> /\ <<c>> \o Tail(plan) # <<>>
            <4>1. plan # <<>> /\ IsList(plan)
                BY <1>1 DEF TypeOK, ShapeInv
            <4>2. IsList(Tail(plan)) /\ IsList(<<c>>) /\ Len(<<c>>) = 1 /\ Len(Tail(plan)) \in Nat
                BY <4>1, ListFacts, ListLiterals
            <4>3. Len(<<c>> \o Tail(plan)) = Len(<<c>>) + Len(Tail(plan))
                BY <4>2, ListConcat
            <4> QED BY <4>1, <4>2, <4>3, ListEmpty
        <3>6. Advances \/ Repeats
            BY <3>1, <3>3, <3>4, <3>5 DEF Returned, Continue, Advances, Repeats
        <3> QED BY <1>1, <2>3, <3>1, <3>2, <3>6 DEF RecvOk
    <2>4. CASE inbox[1].id = awaiting /\ ~inbox[1].ok
        <3>1. RecvReply /\ Failed
            BY <2>1, <2>4, <1>4 DEF call_on, RecvReply
        <3>2. UNCHANGED captured /\ ((stage # "seed" /\ Advances) \/ (stage = "seed" /\ Ends))
            BY <3>1 DEF Failed, RecvReply, Ends, Advances, Continue
        <3> QED BY <1>1, <2>4, <3>1, <3>2 DEF RecvFails
    <2> QED BY <2>2, <2>3, <2>4
<1> QED BY <1>3, <1>4

-----------------------------------------------------------------------------
(* What does not change as long as the payload does not. *)
LEMMA Constant ==
    ASSUME UNCHANGED payload
    PROVE  /\ UNCHANGED <<params, Seeded, apply_local_storage, seed_profile, Restorable>>
           /\ \A i : Origin(i)' = Origin(i)
           /\ \A v : Written(v)' = Written(v)
<1>1. UNCHANGED <<params, Seeded, Restorable>>
    BY DEF params, Seeded, Restorable
<1>2. \A i : Origin(i)' = Origin(i)
    BY DEF Origin
<1>3. UNCHANGED apply_local_storage
    BY DEF apply_local_storage, Origin
<1>4. UNCHANGED seed_profile
    BY <1>3 DEF seed_profile, apply_cookies, attach_page_target
<1>5. \A v : Written(v)' = Written(v)
    BY DEF Written, Origin
<1> QED BY <1>1, <1>2, <1>3, <1>4, <1>5

(* The next command of the seeding, by how many are completed. *)
LEMMA SeedHead ==
    ASSUME payload \in Payloads, ShapeInv, SeedPlan, plan # <<>>
    PROVE  /\ Head(plan) = plan[1] /\ Done \in -3..(Len(apply_local_storage) - 1)
           /\ Len(plan) = Len(apply_local_storage) - Done
           /\ Done = -3 => Head(plan) = Command("setCookies", params)
           /\ Done = -2 => Head(plan) \in {Command("getTargets", "page"), Command("createTarget", "none")}
           /\ Done = -1 => Head(plan) = Command("attachToTarget", "page")
           /\ Done >= 0 => Head(plan) = apply_local_storage[Done + 1]
<1>1. /\ Len(plan) \in Nat /\ Len(plan) # 0 /\ DOMAIN plan = 1..Len(plan) /\ Head(plan) = plan[1]
      /\ Len(apply_local_storage) \in Nat
    BY ListFacts, LocalPlan DEF ShapeInv
<1>2. PICK L \in Nat, N \in Nat : L = Len(apply_local_storage) /\ N = Len(plan)
    BY <1>1
<1>3. N # 0 /\ 1 \in DOMAIN plan /\ Done = L - N
    BY <1>1, <1>2 DEF Done
<1>4. /\ N - L <= 3
      /\ 1 > N - L => plan[1] = apply_local_storage[1 - (N - L)]
      /\ N - L >= 1 => plan[N - L] = Command("attachToTarget", "page")
      /\ N - L = 2 => plan[1] \in {Command("getTargets", "page"), Command("createTarget", "none")}
      /\ N - L = 3 => plan[1] = Command("setCookies", params)
    BY <1>2, <1>3 DEF SeedPlan, SeedRest
<1>5. Done \in Int /\ N - L = 0 - Done /\ N = L - Done /\ 1 - (N - L) = Done + 1
    BY <1>3
<1>6. Done \in -3..(L - 1)
    BY <1>3, <1>4, <1>5
<1>7. /\ Done = -3 => N - L = 3
      /\ Done = -2 => N - L = 2
      /\ Done = -1 => N - L = 1
      /\ Done >= 0 => 1 > N - L
    BY <1>5
<1> QED BY <1>1, <1>2, <1>4, <1>5, <1>6, <1>7

(* So the method tells which. *)
LEMMA SeedMethod ==
    ASSUME payload \in Payloads, ShapeInv, SeedPlan, plan # <<>>
    PROVE  /\ Head(plan).m = "setCookies" <=> Done = -3
           /\ Done = -3 => Head(plan).arg = params
           /\ Head(plan).m \in {"getTargets", "createTarget"} <=> Done = -2
           /\ Head(plan).m = "getTargets" => Head(plan).arg = "page"
           /\ Head(plan).m = "attachToTarget" <=> Done = -1
           /\ Head(plan).m \notin {"close", "change", "getCookies", "fulfillRequest", "loadEventFired"}
           /\ Head(plan).m = "navigate" =>
                 \/ Head(plan).arg = "blank" /\ Done = Len(apply_local_storage) - 1
                 \/ \E k \in DOMAIN payload.local : Done = 2 * k /\ Head(plan).arg = Origin(k).origin
           /\ Head(plan).m = "evaluate" <=> \E k \in DOMAIN payload.local : Done = 2 * k + 1
           /\ \A k \in DOMAIN payload.local : Done = 2 * k + 1 => Head(plan).arg = Origin(k).entries
           /\ Done = Len(apply_local_storage) - 1 => Head(plan).m \in {"navigate", "attachToTarget"}
<1>1. CASE Done < 0
    <2>1. Len(apply_local_storage) \in Nat /\ DOMAIN payload.local \subseteq Nat
        BY LocalPlan
    <2>2. Done \in -3..(Len(apply_local_storage) - 1)
        BY SeedHead
    <2>3. Done \in {-3, -2, -1} /\ (Done = Len(apply_local_storage) - 1 => Done = -1)
        BY <1>1, <2>1, <2>2
    <2> QED BY <2>1, <2>3, SeedHead DEF Command
<1>2. CASE Done >= 0
    <2> DEFINE v == Done + 1  n == Len(payload.local)
    <2>1. v \in 1..Len(apply_local_storage) /\ Head(plan) = apply_local_storage[v]
        <3>1. Len(apply_local_storage) \in Nat
            BY LocalPlan
        <3>2. Done \in -3..(Len(apply_local_storage) - 1) /\ Head(plan) = apply_local_storage[Done + 1]
            BY <1>2, SeedHead
        <3> QED BY <1>2, <3>1, <3>2
    <2>2. n \in Nat /\ n > 0 /\ DOMAIN payload.local = 1..n /\ Len(apply_local_storage) = 2 * n + 4
        BY <2>1, LocalPlan
    <2>4. Done \in Int
        BY SeedHead
    <2>3. \A k \in DOMAIN payload.local : Done = 2 * k + 1 => Head(plan) = Command("evaluate", Origin(k).entries)
        <3>1. SUFFICES ASSUME NEW k \in DOMAIN payload.local, Done = 2 * k + 1
                       PROVE  Head(plan) = Command("evaluate", Origin(k).entries)
            OBVIOUS
        <3>2. k \in 1..n /\ v = 2 * k + 2
            BY <2>2, <2>4, <3>1
        <3>3. apply_local_storage[2 * k + 2] = Command("evaluate", Origin(k).entries)
            BY <2>2, <3>2, LocalPlan
        <3> QED BY <2>1, <3>2, <3>3
    <2>5. CASE Head(plan).m \in {"Page.enable", "Fetch.enable", "Fetch.disable"}
        <3>1. Done # 2 * n + 3
            BY <2>1, <2>2, <2>4, <2>5, LocalPlan DEF Command
        <3> QED BY <1>2, <2>2, <2>3, <2>4, <2>5, <3>1 DEF Command
    <2>6. CASE Head(plan) = Command("navigate", "blank") /\ v = Len(apply_local_storage)
        BY <1>2, <2>2, <2>3, <2>4, <2>6 DEF Command
    <2>7. ASSUME NEW k \in DOMAIN payload.local, v = 2 * k + 1, Head(plan) = Command("navigate", Origin(k).origin)
          PROVE  /\ Head(plan).m = "navigate" /\ Head(plan).arg = Origin(k).origin /\ Done = 2 * k
                 /\ \A j \in DOMAIN payload.local : Done # 2 * j + 1
                 /\ Done # Len(apply_local_storage) - 1
        BY <2>2, <2>4, <2>7 DEF Command
    <2>8. ASSUME NEW k \in DOMAIN payload.local, v = 2 * k + 2, Head(plan) = Command("evaluate", Origin(k).entries)
          PROVE  /\ Head(plan).m = "evaluate" /\ Done = 2 * k + 1
                 /\ Done # Len(apply_local_storage) - 1
        BY <2>2, <2>4, <2>8 DEF Command
    <2>9. \A k \in DOMAIN payload.local : Done = 2 * k + 1 => Head(plan).arg = Origin(k).entries
        BY <2>3 DEF Command
    <2>10. \/ Head(plan).m \in {"Page.enable", "Fetch.enable", "Fetch.disable"}
           \/ Head(plan) = Command("navigate", "blank") /\ v = Len(apply_local_storage)
           \/ \E k \in DOMAIN payload.local :
                 \/ v = 2 * k + 1 /\ Head(plan) = Command("navigate", Origin(k).origin)
                 \/ v = 2 * k + 2 /\ Head(plan) = Command("evaluate", Origin(k).entries)
        <3> HIDE DEF v
        <3> QED BY <2>1, LocalCommands
    <2> QED BY <1>2, <2>4, <2>5, <2>6, <2>7, <2>8, <2>9, <2>10
<1>3. Done \in Int
    BY SeedHead
<1> QED BY <1>1, <1>2, <1>3

(* What a command changes of the browser, field by field. *)
LEMMA EffectFields ==
    ASSUME BrowserShape(browser), NEW c
    PROVE  /\ BrowserShape(Effect(c))
           /\ Effect(c).cookies = (IF c.m = "setCookies" THEN browser.cookies \cup {ChromeCookie(p) : p \in c.arg}
                                   ELSE IF c.m = "change" THEN browser.cookies \cup {NewCookie}
                                   ELSE browser.cookies)
           /\ Effect(c).rows = (IF c.m = "evaluate" THEN restore_script(browser.rows, browser.doc, c.arg)
                                ELSE IF c.m = "change" THEN browser.rows \cup {NewRow}
                                ELSE browser.rows)
           /\ Effect(c).loading = (IF c.m = "createTarget" THEN "blank"
                                   ELSE IF c.m = "navigate" THEN c.arg ELSE browser.loading)
           /\ Effect(c).page = (IF c.m = "createTarget" THEN TRUE ELSE browser.page)
           /\ Effect(c).doc = browser.doc
           /\ Effect(c).events = (IF c.m = "Page.enable" THEN TRUE ELSE browser.events)
           /\ Effect(c).alive = (IF c.m = "close" THEN FALSE ELSE browser.alive)
           /\ Effect(c).fetch \in {TRUE, FALSE, browser.fetch}
           /\ Effect(c).held \in {TRUE, FALSE, browser.held}
           /\ c.m # "close" => Effect(c).disk = browser.disk
<1>1. CASE c.m \in {"setCookies", "createTarget", "Page.enable"}
    BY <1>1 DEF Effect, BrowserShape
<1>2. CASE c.m \in {"Fetch.enable", "Fetch.disable", "fulfillRequest"}
    BY <1>2 DEF Effect, BrowserShape
<1>3. CASE c.m \in {"navigate", "evaluate"}
    BY <1>3 DEF Effect, BrowserShape
<1>4. CASE c.m \in {"change", "close"}
    BY <1>4 DEF Effect, BrowserShape
<1>5. CASE c.m \notin {"setCookies", "createTarget", "Page.enable", "Fetch.enable", "Fetch.disable",
                        "fulfillRequest", "navigate", "evaluate", "change", "close"}
    BY <1>5 DEF Effect, BrowserShape
<1> QED BY <1>1, <1>2, <1>3, <1>4, <1>5

(* The steps of the browser. *)
Reply(c, ok) == [id |-> c.id, owner |-> c.owner, m |-> c.m, ok |-> ok, data |-> Data(c)]
Takes ==
    /\ sent # <<>> /\ sent' = Tail(sent) /\ browser' = Effect(sent[1]) /\ ~Refused(sent[1])
    /\ answers' = answers \cup {Reply(sent[1], TRUE)}
    /\ changed' = (changed \/ sent[1].m = "change")
    /\ inbox' = inbox \/ inbox' = Append(inbox, Event("requestPaused", sent[1].arg))
Refuses ==
    /\ sent # <<>> /\ sent' = Tail(sent) /\ answers' = answers \cup {Reply(sent[1], FALSE)}
    /\ UNCHANGED <<browser, changed, inbox>>
    /\ faults' \in {faults, faults + 1}

(* A command is taken or refused; nothing else of the session changes. *)
LEMMA DispatchCases ==
    ASSUME Dispatch, ShapeInv
    PROVE  /\ Works /\ (Takes \/ Refuses)
           /\ UNCHANGED <<payload, stage, plan, awaiting, next_id, files, captured, mistaken, staleLoad>>
<1>1. sent # <<>> /\ Head(sent) = sent[1]
    BY ListFacts DEF Dispatch, ShapeInv
<1>2. Takes \/ Refuses
    BY <1>1 DEF Dispatch, Takes, Refuses, Reply
<1> QED BY <1>2 DEF Dispatch, server

(* The pipes at such a step, element by element. *)
Follows(s, t) == \A i \in DOMAIN t : i \in Nat /\ i + 1 \in DOMAIN s /\ i + 1 # 1 /\ t[i] = s[i + 1]
Extends(s, t, e) ==
    /\ DOMAIN s \subseteq DOMAIN t /\ \A i \in DOMAIN s : t[i] = s[i]
    /\ \A i \in DOMAIN t : i \notin DOMAIN s => i = Len(s) + 1 /\ t[i] = e

(* A sequence with an element more extends it. *)
LEMMA Extended ==
    ASSUME NEW s, NEW e, IsList(s)
    PROVE  Extends(s, Append(s, e), e) /\ Extends(s, s, e) /\ IsList(Append(s, e))
BY AppendElements DEF Extends

(* The rest of a sequence follows it. *)
LEMMA Followed ==
    ASSUME NEW s, IsList(s), s # <<>>
    PROVE  Follows(s, Tail(s)) /\ IsList(Tail(s)) /\ 1 \in DOMAIN s
BY TailElements DEF Follows

(* The command leaves its pipe, and one reply is under way. *)
LEMMA DispatchPipes ==
    ASSUME Dispatch, ShapeInv
    PROVE  /\ 1 \in DOMAIN sent /\ IsList(sent') /\ Follows(sent, sent') /\ sent' = Tail(sent)
           /\ IsList(inbox') /\ Extends(inbox, inbox', Event("requestPaused", sent[1].arg))
           /\ \E ok \in BOOLEAN : answers' = answers \cup {Reply(sent[1], ok)} /\ (ok => Takes) /\ (~ok => Refuses)
<1>1. CASE Takes
    <2>1. sent # <<>> /\ sent' = Tail(sent) /\ answers' = answers \cup {Reply(sent[1], TRUE)}
        BY <1>1 DEF Takes
    <2>2. inbox' = inbox \/ inbox' = Append(inbox, Event("requestPaused", sent[1].arg))
        BY <1>1 DEF Takes
    <2>3. IsList(inbox') /\ Extends(inbox, inbox', Event("requestPaused", sent[1].arg))
        BY <2>2, Extended DEF ShapeInv
    <2>4. 1 \in DOMAIN sent /\ IsList(sent') /\ Follows(sent, sent')
        BY <2>1, Followed DEF ShapeInv
    <2> QED BY <1>1, <2>1, <2>3, <2>4
<1>2. CASE Refuses
    <2>1. sent # <<>> /\ sent' = Tail(sent) /\ answers' = answers \cup {Reply(sent[1], FALSE)} /\ inbox' = inbox
        BY <1>2 DEF Refuses
    <2>2. IsList(inbox') /\ Extends(inbox, inbox', Event("requestPaused", sent[1].arg))
        BY <2>1, Extended DEF ShapeInv
    <2>3. 1 \in DOMAIN sent /\ IsList(sent') /\ Follows(sent, sent')
        BY <2>1, Followed DEF ShapeInv
    <2> QED BY <1>2, <2>1, <2>2, <2>3
<1> QED BY <1>1, <1>2, DispatchCases

(* One message leaves the pipe; only a paused request is answered at once. *)
LEMMA RecvPipes ==
    ASSUME recv, ShapeInv, TypeOK
    PROVE  /\ 1 \in DOMAIN inbox /\ IsList(inbox') /\ Follows(inbox, inbox')
           /\ IsList(sent') /\ Extends(sent, sent', With(next_id, "server", Command("fulfillRequest", "none")))
           /\ sent' # sent => RecvPaused
<1>1. inbox # <<>> /\ inbox' = Tail(inbox) /\ (RecvSkips \/ RecvPaused \/ RecvLoaded \/ RecvOk \/ RecvFails)
    BY RecvCases
<1>2. 1 \in DOMAIN inbox /\ IsList(inbox') /\ Follows(inbox, inbox')
    BY <1>1, Followed DEF ShapeInv
<1>3. sent' # sent => RecvPaused
    BY <1>1 DEF RecvSkips, RecvLoaded, RecvOk, RecvFails, RecvReply
<1>4. sent' = sent \/ sent' = Append(sent, With(next_id, "server", Command("fulfillRequest", "none")))
    BY <1>3 DEF RecvPaused
<1>5. IsList(sent') /\ Extends(sent, sent', With(next_id, "server", Command("fulfillRequest", "none")))
    BY <1>4, Extended DEF ShapeInv
<1> QED BY <1>2, <1>3, <1>5

(* A step as the plan sees it. *)
PlanMoves ==
    \/ UNCHANGED <<stage, plan, awaiting>>
    \/ /\ plan # <<>> /\ awaiting = 0 /\ awaiting' # 0 /\ Head(plan).m # "close"
       /\ UNCHANGED <<stage, plan>>
    \/ /\ plan # <<>> /\ Head(plan).m # "close" /\ awaiting' = 0 /\ plan' = Tail(plan)
       /\ stage' = IF Tail(plan) = <<>> THEN "bridged" ELSE stage
    \/ plan # <<>> /\ Repeats
    \/ stage' \in {"ended", "closing"} /\ plan' = <<>> /\ awaiting' = 0
    \/ Begins

(* Every step is one of them, and the payload stays. *)
LEMMA PlanCases ==
    ASSUME Inv, Next
    PROVE  UNCHANGED payload /\ PlanMoves
<1>1. /\ TypeOK /\ ShapeInv /\ next_id \in Nat /\ next_id >= 1
      /\ stage = "capture" => plan = capture \/ (plan = Tail(capture) /\ awaiting = 0)
      /\ stage \in {"closing", "bridged", "launch"} => plan = <<>> /\ awaiting = 0
    BY DEF Inv, CdpInv, OwnReplies, PlanInv, IdInv, TypeOK
<1>2. CASE create_seeded
    BY <1>2 DEF create_seeded, Begin, PlanMoves, Begins
<1>3. CASE send
    BY <1>1, <1>3 DEF send, PlanMoves
<1>4. CASE recv
    <2>1. awaiting # 0 /\ plan # <<>> /\ Head(plan).m # "close"
        <3>1. awaiting # 0 /\ plan # <<>>
            BY <1>1, <1>4 DEF recv, TypeOK
        <3>2. stage = "seed" => Head(plan).m # "close"
            BY <1>1, <3>1, SeedMethod DEF Inv, CdpInv, PlanInv, TypeOK
        <3>3. stage = "cleaning" => Head(plan).m # "close"
            BY <1>1, <3>1, ListFacts DEF Inv, CdpInv, PlanInv, Command, ShapeInv
        <3>4. stage = "capture" => Head(plan).m # "close"
            BY <1>1, <3>1 DEF capture, Command
        <3>5. stage \in {"seed", "cleaning", "capture"}
            BY <3>1 DEF Inv, CdpInv, PlanInv
        <3> QED BY <3>1, <3>2, <3>3, <3>4, <3>5
    <2>2. UNCHANGED payload /\ (RecvSkips \/ RecvPaused \/ RecvLoaded \/ RecvOk \/ RecvFails)
        BY <1>1, <1>4, RecvCases
    <2> QED BY <2>1, <2>2 DEF RecvSkips, RecvPaused, RecvLoaded, RecvOk, RecvFails, Advances, Ends, Fulfils, PlanMoves
<1>5. CASE PipeClosed
    BY <1>5 DEF PipeClosed, Begin, Failed, Continue, PlanMoves
<1>6. CASE CleanupTimeout
    <2>1. plan # <<>> /\ Head(plan).m # "close"
        BY <1>1, <1>6, ListFacts DEF CleanupTimeout, Inv, CdpInv, PlanInv, Command, ShapeInv
    <2> QED BY <1>6, <2>1 DEF CleanupTimeout, Failed, Continue, PlanMoves
<1>7. CASE Dispatch \/ Answer \/ LoadFires \/ BrowserActs
    BY <1>7 DEF Dispatch, Answer, LoadFires, BrowserActs, server, PlanMoves
<1>8. CASE ClientSends \/ Forward
    BY <1>8 DEF ClientSends, Forward, server, PlanMoves
<1>9. CASE serve_profile
    BY <1>9 DEF serve_profile, Begin, PlanMoves, Begins
<1>10. CASE destroy_capturing_native
    BY <1>1, <1>10 DEF destroy_capturing_native, server, PlanMoves
<1> QED BY <1>2, <1>3, <1>4, <1>5, <1>6, <1>7, <1>8, <1>9, <1>10 DEF Next

(* A plan of the seeding with one command less, or with the first replaced. *)
LEMMA SeedAdvances ==
    ASSUME payload \in Payloads, ShapeInv, SeedPlan, plan # <<>>, UNCHANGED payload, plan' = Tail(plan)
    PROVE  SeedPlan' /\ Done' = Done + 1
<1>1. /\ Len(plan) \in Nat /\ Len(plan) # 0 /\ DOMAIN plan = 1..Len(plan)
      /\ Len(apply_local_storage) \in Nat
      /\ Len(Tail(plan)) = Len(plan) - 1 /\ DOMAIN Tail(plan) = 1..(Len(plan) - 1)
      /\ \A i \in 1..(Len(plan) - 1) : Tail(plan)[i] = plan[i + 1]
    BY ListFacts, LocalPlan DEF ShapeInv
<1>11. Len(plan) \in Nat /\ Len(plan) - Len(apply_local_storage) \in Int
    BY <1>1
<1>2. PICK N \in Nat, k \in Int : N = Len(plan) /\ k = Len(plan) - Len(apply_local_storage)
    BY <1>11
<1>3. SeedRest(plan, k) /\ N >= 1 /\ k <= N
    BY <1>1, <1>2 DEF SeedPlan
<1>12. PICK q : q = Tail(plan)
    OBVIOUS
<1>4. DOMAIN plan = 1..N /\ DOMAIN q = 1..(N - 1) /\ \A i \in 1..(N - 1) : q[i] = plan[i + 1]
    BY <1>1, <1>2, <1>12
<1>5. UNCHANGED <<apply_local_storage, params>>
    BY Constant
<1>6. Len(plan') - Len(apply_local_storage') = k - 1 /\ Done' = Done + 1
    BY <1>1, <1>2, <1>5 DEF Done
<1>7. SeedRest(q, k - 1)
    <2>1. k <= 3
        BY <1>3 DEF SeedRest
    <2>2. ASSUME NEW i \in 1..(N - 1), i > k - 1 PROVE q[i] = apply_local_storage[i - (k - 1)]
        <3>1. i + 1 \in DOMAIN plan /\ i + 1 > k /\ (i + 1) - k = i - (k - 1)
            BY <1>4, <2>2
        <3>2. plan[i + 1] = apply_local_storage[(i + 1) - k]
            BY <1>3, <3>1 DEF SeedRest
        <3> QED BY <1>4, <3>1, <3>2
    <2>3. ASSUME k - 1 >= 1 PROVE q[k - 1] = Command("attachToTarget", "page")
        <3>1. k - 1 \in 1..(N - 1) /\ (k - 1) + 1 = k /\ k >= 1
            BY <1>3, <2>3
        <3>2. plan[k] = Command("attachToTarget", "page")
            BY <1>3, <3>1 DEF SeedRest
        <3>3. q[k - 1] = plan[(k - 1) + 1]
            BY <1>4, <3>1
        <3> QED BY <3>1, <3>2, <3>3
    <2>4. ASSUME k - 1 = 2 PROVE q[1] = Command("getTargets", "page")
        <3>1. k = 3 /\ 1 \in 1..(N - 1) /\ 1 + 1 = 2
            BY <1>3, <2>4
        <3>2. plan[2] = Command("getTargets", "page")
            BY <1>3, <3>1 DEF SeedRest
        <3>3. q[1] = plan[1 + 1]
            BY <1>4, <3>1
        <3> QED BY <3>1, <3>2, <3>3
    <2>5. k - 1 <= 2
        BY <2>1
    <2> QED BY <1>4, <2>2, <2>3, <2>4, <2>5 DEF SeedRest
<1>8. SeedRest(plan, k - 1)'
    BY <1>5, <1>7, <1>12 DEF SeedRest
<1> QED BY <1>6, <1>8 DEF SeedPlan

(* Polling for a page, or opening one, leaves as much to do. *)
LEMMA SeedRepeats ==
    ASSUME payload \in Payloads, ShapeInv, SeedPlan, plan # <<>>, UNCHANGED payload, Repeats
    PROVE  SeedPlan' /\ Done' = Done /\ Done = -2 /\ plan' # <<>> /\ IsList(plan')
<1>1. Done = -2 /\ Head(plan).arg = "page"
    BY SeedMethod DEF Repeats
<1>2. UNCHANGED <<apply_local_storage, params>>
    BY Constant
<1>3. CASE plan' = plan
    BY <1>1, <1>2, <1>3 DEF SeedPlan, SeedRest, Done, ShapeInv
<1>4. CASE plan' = <<Command("createTarget", "none")>> \o Tail(plan)
    <2> DEFINE c == Command("createTarget", "none")
    <2>1. /\ IsList(<<c>>) /\ Len(<<c>>) = 1 /\ <<c>>[1] = c /\ IsList(Tail(plan))
          /\ Len(Tail(plan)) = Len(plan) - 1 /\ Len(plan) \in Nat /\ DOMAIN plan = 1..Len(plan)
          /\ \A i \in 1..(Len(plan) - 1) : Tail(plan)[i] = plan[i + 1]
        BY ListFacts, ListLiterals DEF ShapeInv
    <2>2. /\ IsList(plan') /\ Len(plan') = Len(plan)
        BY <1>4, <2>1, ListConcat
    <2>3. plan'[1] = c
        <3>1. \A i \in 1..Len(<<c>>) : plan'[i] = <<c>>[i]
            BY <1>4, <2>1, ListConcat
        <3> QED BY <2>1, <3>1
    <2>4. ASSUME NEW i \in 2..Len(plan) PROVE plan'[i] = plan[i]
        <3>1. \A j \in (Len(<<c>>) + 1)..(Len(<<c>>) + Len(Tail(plan))) : plan'[j] = Tail(plan)[j - Len(<<c>>)]
            BY <1>4, <2>1, ListConcat
        <3>2. plan'[i] = Tail(plan)[i - 1] /\ i - 1 \in 1..(Len(plan) - 1) /\ (i - 1) + 1 = i
            BY <2>1, <3>1
        <3> QED BY <2>1, <3>2
    <2> HIDE DEF c
    <2>5. DOMAIN plan' = 1..Len(plan) /\ plan' # <<>>
        BY <2>1, <2>2, ListFacts
    <2>6. Len(plan) - Len(apply_local_storage) = 2
        <3>1. Len(apply_local_storage) \in Nat /\ Len(plan) = Len(apply_local_storage) - Done
            BY SeedHead, LocalPlan
        <3> QED BY <1>1, <2>1, <3>1
    <2>7. SeedRest(plan, 2)
        BY <2>6 DEF SeedPlan
    <2>8. SeedRest(plan', 2)
        <3>1. \A i \in 1..Len(plan) : i > 2 => plan'[i] = apply_local_storage[i - 2]
            BY <2>1, <2>4, <2>7 DEF SeedRest
        <3>2. Len(plan) >= 2
            BY <2>1, <2>6, LocalPlan
        <3>3. plan'[2] = Command("attachToTarget", "page")
            BY <2>1, <2>4, <2>7, <3>2 DEF SeedRest
        <3> QED BY <2>3, <2>5, <3>1, <3>3 DEF SeedRest, c
    <2>9. SeedRest(plan, 2)'
        BY <1>2, <2>8 DEF SeedRest
    <2> QED BY <1>1, <1>2, <2>2, <2>5, <2>6, <2>9 DEF Done, SeedPlan
<1> QED BY <1>1, <1>3, <1>4 DEF Repeats

(* A step leaves a plan of its stage. *)
LEMMA PlanStep ==
    ASSUME Inv, Next
    PROVE  PlanInv' /\ IsList(plan')
<1> DEFINE Cleaning == {Command("getTargets", "attached"), Command("detachFromTarget", "none"),
                        Command("setAutoAttach", "none"), Command("setDiscoverTargets", "none")}
<1>1. payload \in Payloads /\ ShapeInv /\ IsList(plan) /\ PlanInv
    BY DEF Inv, CdpInv, OwnReplies, TypeOK, ShapeInv
<1>2. UNCHANGED payload /\ UNCHANGED <<apply_local_storage, params>> /\ PlanMoves
    BY PlanCases, Constant
<1>3. SeedPlan' <=> SeedRest(plan, Len(plan) - Len(apply_local_storage))'
    BY DEF SeedPlan
<1>4. CASE UNCHANGED <<stage, plan, awaiting>>
    <2>1. SeedPlan' = SeedPlan
        BY <1>2, <1>4 DEF SeedPlan, SeedRest
    <2> QED BY <1>1, <1>4, <2>1 DEF PlanInv, capture
<1>5. CASE plan # <<>> /\ awaiting = 0 /\ awaiting' # 0 /\ Head(plan).m # "close" /\ UNCHANGED <<stage, plan>>
    <2>1. SeedPlan' = SeedPlan
        BY <1>2, <1>5 DEF SeedPlan, SeedRest
    <2>2. Head(Tail(capture)).m = "close"
        BY DEF capture, Command
    <2> QED BY <1>1, <1>5, <2>1, <2>2 DEF PlanInv, capture
<1>6. CASE /\ plan # <<>> /\ Head(plan).m # "close" /\ awaiting' = 0 /\ plan' = Tail(plan)
           /\ stage' = IF Tail(plan) = <<>> THEN "bridged" ELSE stage
    <2>1. IsList(plan') /\ DOMAIN plan' = 1..(Len(plan) - 1) /\ DOMAIN plan = 1..Len(plan) /\ Len(plan) \in Nat
          /\ \A i \in 1..(Len(plan) - 1) : plan'[i] = plan[i + 1]
        BY <1>1, <1>6, ListFacts
    <2>2. stage \in {"seed", "cleaning", "capture"}
        BY <1>1, <1>6 DEF PlanInv
    <2>3. stage = "seed" => SeedPlan'
        BY <1>1, <1>2, <1>6, SeedAdvances DEF PlanInv
    <2>4. stage = "cleaning" => \A i \in DOMAIN plan' : plan'[i] \in Cleaning
        BY <1>1, <2>1 DEF PlanInv
    <2>5. stage = "capture" => plan = capture /\ Tail(plan) # <<>>
        <3>1. Head(Tail(capture)).m = "close"
            BY DEF capture, Command
        <3>2. IsList(capture) /\ Len(capture) = 2 /\ capture # <<>>
            BY ListLiterals, ListEmpty DEF capture
        <3>3. IsList(Tail(capture)) /\ Len(Tail(capture)) = 1
            BY <3>2, ListFacts
        <3> QED BY <1>1, <1>6, <3>1, <3>3, ListEmpty DEF PlanInv
    <2>6. CASE Tail(plan) = <<>>
        BY <1>6, <2>1, <2>6 DEF PlanInv
    <2>7. CASE Tail(plan) # <<>>
        <3>1. stage' = stage /\ plan' # <<>> /\ awaiting' = 0
            BY <1>6, <2>7
        <3>2. stage' = "capture" => plan' = Tail(capture)'
            BY <1>6, <2>5, <3>1 DEF capture, Command
        <3> QED BY <2>1, <2>2, <2>3, <2>4, <3>1, <3>2 DEF PlanInv
    <2> QED BY <2>6, <2>7
<1>7. CASE plan # <<>> /\ Repeats
    <2>1. stage \in {"seed", "cleaning", "capture"} /\ stage' = stage /\ awaiting' = 0
        BY <1>1, <1>7 DEF PlanInv, Repeats
    <2>2. CASE stage = "seed"
        <3>1. SeedPlan' /\ plan' # <<>> /\ IsList(plan')
            BY <1>1, <1>2, <1>7, <2>2, SeedRepeats DEF PlanInv
        <3> QED BY <2>1, <2>2, <3>1 DEF PlanInv
    <2>3. CASE stage = "cleaning"
        <3>1. Head(plan) = plan[1] /\ 1 \in DOMAIN plan
            BY <1>1, <1>7, ListFacts
        <3>2. Head(plan).arg = "attached"
            BY <1>1, <1>7, <2>3, <3>1 DEF PlanInv, Repeats, Command
        <3> DEFINE c == Command("detachFromTarget", "none")
        <3>3. plan' = <<c>> \o Tail(plan)
            BY <1>7, <3>2 DEF Repeats
        <3>4. /\ IsList(<<c>>) /\ Len(<<c>>) = 1 /\ <<c>>[1] = c /\ IsList(Tail(plan))
              /\ Len(Tail(plan)) = Len(plan) - 1 /\ Len(plan) \in Nat /\ DOMAIN plan = 1..Len(plan)
              /\ \A i \in 1..(Len(plan) - 1) : Tail(plan)[i] = plan[i + 1]
            BY <1>1, <1>7, ListFacts, ListLiterals
        <3>5. IsList(plan') /\ Len(plan') = Len(plan)
            BY <3>3, <3>4, ListConcat
        <3>6. \A i \in 1..Len(<<c>>) : plan'[i] = <<c>>[i]
            BY <3>3, <3>4, ListConcat
        <3>7. \A j \in (Len(<<c>>) + 1)..(Len(<<c>>) + Len(Tail(plan))) : plan'[j] = Tail(plan)[j - Len(<<c>>)]
            BY <3>3, <3>4, ListConcat
        <3>8. DOMAIN plan' = 1..Len(plan) /\ plan' # <<>>
            BY <3>1, <3>4, <3>5, ListFacts
        <3>9. ASSUME NEW i \in 1..Len(plan) PROVE plan'[i] \in Cleaning
            <4>1. CASE i = 1
                BY <3>4, <3>6, <4>1
            <4>2. CASE i # 1
                <5>1. plan'[i] = Tail(plan)[i - 1] /\ i - 1 \in 1..(Len(plan) - 1) /\ (i - 1) + 1 = i
                    BY <3>4, <3>7, <4>2
                <5> QED BY <1>1, <2>3, <3>4, <5>1 DEF PlanInv
            <4> QED BY <4>1, <4>2
        <3> QED BY <2>1, <2>3, <3>5, <3>8, <3>9 DEF PlanInv
    <2>4. CASE stage = "capture"
        BY <1>1, <1>7, <2>4 DEF PlanInv, Repeats, capture, Command
    <2> QED BY <2>1, <2>2, <2>3, <2>4
<1>8. CASE stage' \in {"ended", "closing"} /\ plan' = <<>> /\ awaiting' = 0
    BY <1>8, ListEmpty DEF PlanInv
<1>9. CASE Begins
    <2>1. CASE stage = "launch" /\ Begin("seed", seed_profile, 1)
        <3>1. IsList(plan') /\ plan' # <<>>
            <4>1. IsList(seed_profile) /\ Len(seed_profile) - Len(apply_local_storage) \in {2, 3}
                  /\ Len(apply_local_storage) \in Nat
                BY <1>1, SeedBegins, LocalPlan
            <4>2. Len(seed_profile) # 0
                BY <4>1, ListFacts
            <4> QED BY <2>1, <4>1, <4>2, ListEmpty DEF Begin
        <3>2. PICK k \in {2, 3} : k = Len(seed_profile) - Len(apply_local_storage)
            BY <1>1, SeedBegins
        <3>3. /\ \A i \in DOMAIN seed_profile : i > k => seed_profile[i] = apply_local_storage[i - k]
              /\ seed_profile[k] = Command("attachToTarget", "page")
              /\ seed_profile[k - 1] = Command("getTargets", "page")
              /\ k = 3 => seed_profile[1] = Command("setCookies", params)
            BY <1>1, <3>2, SeedBegins
        <3>4. SeedRest(seed_profile, k)
            BY <3>3 DEF SeedRest
        <3>5. SeedRest(plan, k)' /\ k = Len(plan') - Len(apply_local_storage')
            BY <1>2, <2>1, <3>2, <3>4 DEF SeedRest, Begin
        <3>6. SeedPlan'
            BY <3>5 DEF SeedPlan
        <3> QED BY <2>1, <3>1, <3>6 DEF PlanInv, Begin
    <2>2. CASE stage = "bridged" /\ Begin("cleaning", clean_slate, CLEANUP_FIRST_ID)
        <3>1. IsList(clean_slate) /\ Len(clean_slate) = 3
              /\ clean_slate[1] = Command("getTargets", "attached")
              /\ clean_slate[2] = Command("setAutoAttach", "none")
              /\ clean_slate[3] = Command("setDiscoverTargets", "none")
            BY ListLiterals DEF clean_slate
        <3>2. DOMAIN clean_slate = 1..3 /\ clean_slate # <<>>
            BY <3>1, ListFacts
        <3> QED BY <2>2, <3>1, <3>2 DEF PlanInv, Begin
    <2>3. CASE stage = "bridged" /\ Begin("capture", capture, 1)
        <3>1. IsList(capture) /\ capture # <<>>
            BY ListLiterals, ListEmpty DEF capture
        <3> QED BY <2>3, <3>1 DEF PlanInv, Begin, capture
    <2> QED BY <1>9, <2>1, <2>2, <2>3 DEF Begins
<1> QED BY <1>2, <1>4, <1>5, <1>6, <1>7, <1>8, <1>9 DEF PlanMoves

(* Pipes, browser and capture keep their shape. *)
LEMMA ShapeStep ==
    ASSUME Inv, Next
    PROVE  ShapeInv'
<1>1. ShapeInv /\ TypeOK
    BY DEF Inv, CdpInv, OwnReplies
<1>2. IsList(sent) /\ IsList(inbox) /\ BrowserShape(browser) /\ CapturedShape(captured)
    BY <1>1 DEF ShapeInv
<1>3. IsList(plan')
    BY PlanStep
<1> SUFFICES IsList(sent') /\ IsList(inbox') /\ BrowserShape(browser') /\ CapturedShape(captured')
    BY <1>3 DEF ShapeInv, BrowserShape, CapturedShape
<1>4. CASE create_seeded \/ PipeClosed \/ CleanupTimeout \/ serve_profile
    BY <1>2, <1>4 DEF create_seeded, PipeClosed, CleanupTimeout, serve_profile, Failed
<1>5. CASE send
    BY <1>2, <1>5, AppendElements DEF send
<1>6. CASE recv
    <2>1. inbox # <<>> /\ inbox' = Tail(inbox) /\ browser' = browser
          /\ (RecvSkips \/ RecvPaused \/ RecvLoaded \/ RecvOk \/ RecvFails)
        BY <1>1, <1>6, RecvCases
    <2>2. IsList(inbox')
        BY <1>2, <2>1, TailElements
    <2>3. IsList(sent')
        BY <1>1, <1>6, RecvPipes
    <2>4. CapturedShape(captured')
        <3>1. CASE captured' = captured
            BY <1>2, <3>1
        <3>2. CASE captured' = [captured EXCEPT !.answered = TRUE,
                            !.cookies = IF inbox[1].m = "getCookies" THEN inbox[1].data ELSE {}]
            BY <1>2, <3>2 DEF CapturedShape
        <3> QED BY <2>1, <3>1, <3>2 DEF RecvSkips, RecvPaused, RecvLoaded, RecvOk, RecvFails
    <2> QED BY <1>2, <2>1, <2>2, <2>3, <2>4
<1>7. CASE Dispatch
    <2>1. Takes \/ Refuses
        BY <1>1, <1>7, DispatchCases
    <2>2. IsList(sent')
        BY <1>1, <1>7, DispatchPipes
    <2>3. IsList(inbox')
        BY <1>1, <1>7, DispatchPipes
    <2>4. BrowserShape(browser')
        BY <1>2, <2>1, EffectFields DEF Takes, Refuses
    <2> QED BY <1>2, <1>7, <2>2, <2>3, <2>4 DEF Dispatch
<1>8. CASE Answer
    BY <1>2, <1>8, AppendElements DEF Answer
<1>9. CASE LoadFires
    <2>1. BrowserShape(browser')
        BY <1>2, <1>9 DEF LoadFires, BrowserShape
    <2>2. IsList(inbox')
        BY <1>2, <1>9, AppendElements DEF LoadFires
    <2> QED BY <1>2, <1>9, <2>1, <2>2 DEF LoadFires
<1>10. CASE BrowserActs
    <2>1. BrowserShape(browser')
        BY <1>2, <1>10 DEF BrowserActs, BrowserShape
    <2> QED BY <1>2, <1>10, <2>1 DEF BrowserActs
<1>11. CASE ClientSends
    BY <1>2, <1>11, AppendElements DEF ClientSends
<1>12. CASE Forward
    BY <1>2, <1>12, TailElements DEF Forward
<1>13. CASE destroy_capturing_native
    <2>1. BrowserShape(browser') /\ CapturedShape(captured')
        BY <1>2, <1>13 DEF destroy_capturing_native, BrowserShape, CapturedShape
    <2> QED BY <1>2, <1>13, <2>1 DEF destroy_capturing_native
<1> QED BY <1>4, <1>5, <1>6, <1>7, <1>8, <1>9, <1>10, <1>11, <1>12, <1>13 DEF Next

(* Before the hand-off there is no message. *)
LEMMA LaunchFacts ==
    ASSUME Inv, stage = "launch"
    PROVE  /\ DOMAIN sent = {} /\ answers = {} /\ DOMAIN inbox = {} /\ sent = <<>> /\ inbox = <<>>
           /\ plan = <<>> /\ awaiting = 0
<1>1. plan = <<>> /\ awaiting = 0 /\ inbox = <<>> /\ answers = {} /\ IsList(sent)
    BY DEF Inv, CdpInv, PlanInv, LoadInv, ShapeInv
<1>2. DOMAIN sent = {}
    BY DEF Inv, CdpInv, SentInv
<1>3. Len(sent) \in Nat /\ DOMAIN sent = 1..Len(sent) /\ (sent = <<>> <=> Len(sent) = 0)
    BY <1>1, ListFacts
<1>4. Len(sent) # 0 => 1 \in DOMAIN sent
    BY <1>3
<1> QED BY <1>1, <1>2, <1>3, <1>4

(* Each message keeps to the ids of its sender. *)
LEMMA IdStep ==
    ASSUME Inv, Next
    PROVE  IdInv'
<1>1. ShapeInv /\ TypeOK /\ IdInv /\ IsList(sent) /\ IsList(inbox)
    BY DEF Inv, CdpInv, OwnReplies, ShapeInv
<1>2. next_id \in Nat /\ awaiting \in Nat /\ CLEANUP_FIRST_ID \in Nat /\ MaxClient \in Nat /\ CLEANUP_FIRST_ID > MaxClient + 1
    BY <1>1, CdpAssumption DEF TypeOK
<1>3. CASE create_seeded
    <2>1. DOMAIN sent = {} /\ answers = {} /\ DOMAIN inbox = {}
        BY <1>3, LaunchFacts DEF create_seeded
    <2>2. UNCHANGED <<sent, answers, inbox>> /\ next_id' = 1 /\ stage' # "cleaning"
        BY <1>3 DEF create_seeded, Begin
    <2> QED BY <2>1, <2>2 DEF IdInv, Clients
<1>4. CASE send
    <2>1. sent' = Append(sent, With(next_id, "server", Head(plan))) /\ next_id' = next_id + 1
          /\ UNCHANGED <<answers, inbox>>
        BY <1>4 DEF send
    <2>2. (stage' = stage /\ awaiting' = next_id) \/ stage' = "closing"
        BY <1>4 DEF send
    <2>3. With(next_id, "server", Head(plan)).owner = "server" /\ With(next_id, "server", Head(plan)).id = next_id
        BY DEF With
    <2>4. \A i \in DOMAIN sent' : (i \in DOMAIN sent /\ sent'[i] = sent[i]) \/ (sent'[i].owner = "server" /\ sent'[i].id = next_id)
        BY <1>1, <2>1, <2>3, AppendElements
    <2> HIDE DEF With
    <2> QED BY <1>1, <1>2, <2>1, <2>2, <2>4 DEF IdInv, Clients
<1>5. CASE recv
    <2>1. inbox # <<>> /\ inbox' = Tail(inbox) /\ answers' = answers /\ awaiting # 0
          /\ (RecvSkips \/ RecvPaused \/ RecvLoaded \/ RecvOk \/ RecvFails)
        BY <1>1, <1>5, RecvCases
    <2>2. \A i \in DOMAIN inbox' : i + 1 \in DOMAIN inbox /\ inbox'[i] = inbox[i + 1]
        BY <1>1, <2>1, TailElements
    <2>3. \/ sent' = sent /\ next_id' \in {next_id, next_id + 1}
          \/ /\ \A i \in DOMAIN sent' : (i \in DOMAIN sent /\ sent'[i] = sent[i]) \/ (sent'[i].owner = "server" /\ sent'[i].id = next_id)
             /\ next_id' = next_id + 1
        <3>1. CASE RecvPaused
            <4>1. \A i \in DOMAIN sent' : (i \in DOMAIN sent /\ sent'[i] = sent[i])
                                          \/ sent'[i] = With(next_id, "server", Command("fulfillRequest", "none"))
                BY <1>1, <3>1, AppendElements DEF RecvPaused
            <4> QED BY <3>1, <4>1 DEF RecvPaused, Fulfils, With
        <3>2. CASE RecvSkips \/ RecvLoaded \/ RecvOk \/ RecvFails
            BY <3>2 DEF RecvSkips, RecvLoaded, RecvOk, RecvFails, RecvReply, Advances
        <3> QED BY <2>1, <3>1, <3>2
    <2>4. stage' \in {stage, "bridged", "ended"} /\ (awaiting' = awaiting \/ awaiting' = 0)
        BY <2>1 DEF RecvSkips, RecvPaused, RecvLoaded, RecvOk, RecvFails, Advances, Repeats, Ends, Fulfils
    <2> QED BY <1>1, <1>2, <2>1, <2>2, <2>3, <2>4 DEF IdInv, Clients
<1>6. CASE PipeClosed \/ CleanupTimeout
    <2>1. UNCHANGED <<sent, answers, inbox, next_id>> /\ stage' \in {stage, "closing", "bridged", "ended"}
          /\ awaiting' = 0
        BY <1>6 DEF PipeClosed, CleanupTimeout, Begin, Failed, Continue
    <2> QED BY <1>1, <2>1 DEF IdInv, Clients
<1>7. CASE Dispatch
    <2>1. /\ Takes \/ Refuses
          /\ UNCHANGED <<stage, awaiting, next_id>>
        BY <1>1, <1>7, DispatchCases
    <2>2. PICK r : answers' = answers \cup {r} /\ r.id = sent[1].id /\ r.owner = sent[1].owner
        <3>1. PICK ok \in BOOLEAN : answers' = answers \cup {Reply(sent[1], ok)}
            BY <1>1, <1>7, DispatchPipes
        <3>2. Reply(sent[1], ok).id = sent[1].id /\ Reply(sent[1], ok).owner = sent[1].owner
            BY DEF Reply
        <3> QED BY <3>1, <3>2
    <2>3. 1 \in DOMAIN sent /\ \A i \in DOMAIN sent' : i + 1 \in DOMAIN sent /\ sent'[i] = sent[i + 1]
        BY <1>1, <1>7, DispatchPipes DEF Follows
    <2>4. \A i \in DOMAIN inbox' : (i \in DOMAIN inbox /\ inbox'[i] = inbox[i]) \/ (inbox'[i].id = 0 /\ inbox'[i].owner = "browser")
        <3>1. Extends(inbox, inbox', Event("requestPaused", sent[1].arg))
            BY <1>1, <1>7, DispatchPipes
        <3>2. Event("requestPaused", sent[1].arg).id = 0 /\ Event("requestPaused", sent[1].arg).owner = "browser"
            BY DEF Event
        <3> QED BY <3>1, <3>2 DEF Extends
    <2>5. sent[1].owner \in {"server", "client"}
        BY <1>1, <2>3 DEF TypeOK
    <2> QED BY <1>1, <1>2, <2>1, <2>2, <2>3, <2>4, <2>5 DEF IdInv, Clients
<1>8. CASE Answer
    <2>1. PICK a \in answers : answers' = answers \ {a} /\ inbox' = Append(inbox, a)
        BY <1>8 DEF Answer
    <2>2. \A i \in DOMAIN inbox' : (i \in DOMAIN inbox /\ inbox'[i] = inbox[i]) \/ inbox'[i] = a
        BY <1>1, <2>1, AppendElements
    <2>3. UNCHANGED <<stage, awaiting, next_id, sent>>
        BY <1>8 DEF Answer, server
    <2> QED BY <1>1, <1>2, <2>1, <2>2, <2>3 DEF IdInv, Clients
<1>9. CASE LoadFires
    <2>1. \A i \in DOMAIN inbox' : (i \in DOMAIN inbox /\ inbox'[i] = inbox[i]) \/ (inbox'[i].id = 0 /\ inbox'[i].owner = "browser")
        BY <1>1, <1>9, AppendElements DEF LoadFires, Event
    <2>2. UNCHANGED <<stage, awaiting, next_id, sent, answers>>
        BY <1>9 DEF LoadFires, server
    <2> QED BY <1>1, <1>2, <2>1, <2>2 DEF IdInv, Clients
<1>10. CASE BrowserActs \/ destroy_capturing_native
    <2>1. UNCHANGED <<awaiting, next_id, sent, answers, inbox>> /\ stage' \in {stage, "ended"}
        BY <1>10 DEF BrowserActs, destroy_capturing_native, server
    <2> QED BY <1>1, <2>1 DEF IdInv, Clients
<1>11. CASE ClientSends
    <2>1. PICK id \in 1..MaxClient, m \in {"getCookies", "change"} : sent' = Append(sent, With(id, "client", Command(m, "none")))
        BY <1>11 DEF ClientSends
    <2>2. \A i \in DOMAIN sent' : (i \in DOMAIN sent /\ sent'[i] = sent[i]) \/ sent'[i].id = id
        BY <1>1, <2>1, AppendElements DEF With
    <2>3. UNCHANGED <<stage, awaiting, next_id, answers, inbox>> /\ stage = "bridged"
        BY <1>11 DEF ClientSends, server
    <2> QED BY <1>1, <2>2, <2>3 DEF IdInv, Clients
<1>12. CASE Forward
    <2>1. \A i \in DOMAIN inbox' : i + 1 \in DOMAIN inbox /\ inbox'[i] = inbox[i + 1]
        BY <1>1, <1>12, TailElements DEF Forward
    <2>2. UNCHANGED <<stage, awaiting, next_id, sent, answers>> /\ stage = "bridged"
        BY <1>12 DEF Forward, server
    <2> QED BY <1>1, <2>1, <2>2 DEF IdInv, Clients
<1>13. CASE serve_profile
    <2>1. /\ UNCHANGED <<sent, answers, inbox>> /\ awaiting' = 0 /\ next_id' \in {1, CLEANUP_FIRST_ID, next_id}
          /\ stage' \in {"cleaning", "capture", "ended"} /\ (stage' = "cleaning" => next_id' = CLEANUP_FIRST_ID)
        BY <1>13 DEF serve_profile, Begin
    <2> QED BY <1>1, <1>2, <2>1 DEF IdInv, Clients
<1> QED BY <1>3, <1>4, <1>5, <1>6, <1>7, <1>8, <1>9, <1>10, <1>11, <1>12, <1>13 DEF Next

(* The steps of the seeding. *)
LEMMA SeedSteps ==
    ASSUME Inv, Next, stage' = "seed"
    PROVE  \/ create_seeded /\ Begin("seed", seed_profile, 1)
           \/ stage = "seed" /\ (send \/ recv \/ Dispatch \/ Answer \/ LoadFires \/ BrowserActs)
<1>1. CASE create_seeded
    BY <1>1 DEF create_seeded, Begin
<1>2. CASE send
    BY <1>2 DEF send
<1>3. CASE recv
    <2>1. RecvSkips \/ RecvPaused \/ RecvLoaded \/ RecvOk \/ RecvFails
        BY <1>3, RecvCases DEF Inv, CdpInv, OwnReplies
    <2>2. stage = "seed"
        BY <2>1 DEF RecvSkips, RecvPaused, RecvLoaded, RecvOk, RecvFails, Advances, Repeats, Ends, Fulfils
    <2> QED BY <1>3, <2>2
<1>4. CASE PipeClosed \/ CleanupTimeout \/ serve_profile
    BY <1>4 DEF PipeClosed, CleanupTimeout, serve_profile, Begin, Failed, Continue
<1>5. CASE Dispatch \/ Answer \/ LoadFires \/ BrowserActs
    BY <1>5 DEF Dispatch, Answer, LoadFires, BrowserActs
<1>6. CASE ClientSends \/ Forward \/ destroy_capturing_native
    BY <1>6 DEF ClientSends, Forward, destroy_capturing_native
<1> QED BY <1>1, <1>2, <1>3, <1>4, <1>5, <1>6 DEF Next

(* What the invariant says of the seeding. *)
LEMMA SeedFacts ==
    ASSUME Inv, stage = "seed"
    PROVE  /\ payload \in Payloads /\ ShapeInv /\ SeedPlan /\ plan # <<>>
           /\ awaiting \in Nat /\ next_id \in Nat /\ (awaiting # 0 => awaiting < next_id)
           /\ \A i \in DOMAIN sent : sent[i].owner = "server" /\ sent[i].id \in 1..(next_id - 1)
           /\ \A a \in answers : a.owner = "server" /\ a.id \in 1..(next_id - 1)
           /\ \A i \in DOMAIN inbox : inbox[i].owner # "client" /\ inbox[i].id \in 0..(next_id - 1)
BY DEF Inv, CdpInv, OwnReplies, TypeOK, PlanInv, IdInv

(* A load that ends the wait for an origin's document while the command for *)
(* it is still in the pipe is the load of another.                          *)
LEMMA LoadedEarly ==
    ASSUME Inv, stage = "seed", recv, RecvLoaded, NEW i \in DOMAIN sent, sent[i].m = "navigate",
           stage' = "seed"
    PROVE  staleLoad'
<1>1. CASE inbox[1].data # Head(plan).arg
    BY <1>1 DEF RecvLoaded
<1>2. CASE staleLoad
    BY <1>2 DEF RecvLoaded
<1>3. CASE inbox[1].data = Head(plan).arg /\ ~staleLoad
    <2>1. Head(plan).arg # "blank"
        <3>1. SUFFICES ASSUME Head(plan).arg = "blank" PROVE FALSE
            OBVIOUS
        <3>2. Done = Len(apply_local_storage) - 1
            BY <3>1, SeedFacts, SeedMethod, PayloadFacts DEF RecvLoaded
        <3>3. Len(plan) = 1
            <4>1. Len(plan) = Len(apply_local_storage) - Done /\ Len(apply_local_storage) \in Nat
                BY SeedFacts, SeedHead, LocalPlan
            <4> QED BY <3>2, <4>1
        <3>4. Tail(plan) = <<>>
            <4>1. IsList(Tail(plan)) /\ Len(Tail(plan)) = 0
                BY <3>3, SeedFacts, ListFacts DEF ShapeInv
            <4> QED BY <4>1, ListFacts
        <3> QED BY <3>4 DEF RecvLoaded, Advances
    <2>2. 1 \in Loads
        <3>1. 1 \in DOMAIN inbox
            BY RecvPipes DEF Inv, CdpInv, OwnReplies
        <3> QED BY <1>3, <2>1, <3>1 DEF RecvLoaded, Loads
    <2>3. Navigated
        BY <1>3, <2>2 DEF Inv, CdpInv, LoadInv
    <2> QED BY <2>3 DEF Navigated
<1> QED BY <1>1, <1>2, <1>3

(* A reply that is read leaves no command of its id in the pipe. *)
LEMMA RepliedGone ==
    ASSUME Inv, stage = "seed", recv, RecvReply
    PROVE  /\ awaiting # 0 /\ \A i \in DOMAIN sent : sent[i].id # awaiting
           /\ \A a \in answers : a.id # awaiting
           /\ \A i \in DOMAIN inbox : i # 1 => inbox[i].id # awaiting
<1>1. 1 \in DOMAIN inbox /\ awaiting # 0 /\ inbox[1].id = awaiting
    BY RecvPipes DEF Inv, CdpInv, OwnReplies, recv, RecvReply
<1> QED BY <1>1 DEF Inv, CdpInv, UniqueInv

(* Only the command that is awaited seeds, and only while seeding. *)
LEMMA SentStep ==
    ASSUME Inv, Next
    PROVE  SentInv'
<1>1. ShapeInv /\ TypeOK /\ SentInv /\ IsList(sent)
    BY DEF Inv, CdpInv, OwnReplies, ShapeInv
<1>2. CASE create_seeded
    BY <1>1, <1>2 DEF create_seeded, SentInv
<1>3. CASE send
    <2> DEFINE e == With(next_id, "server", Head(plan))
    <2>1. Extends(sent, sent', e) /\ plan # <<>> /\ awaiting = 0 /\ stage' # "launch" /\ UNCHANGED staleLoad
          /\ stage \in {"seed", "cleaning", "capture"}
        BY <1>1, <1>3, Extended DEF send, history, Inv, CdpInv, PlanInv
    <2>2. e.m = Head(plan).m /\ e.arg = Head(plan).arg /\ e.id = next_id
        BY DEF With
    <2> HIDE DEF e
    <2>3. CASE stage = "seed"
        <3>1. UNCHANGED <<plan, stage>> /\ awaiting' = next_id
            BY <1>3, <2>3, SeedFacts, SeedMethod DEF send
        <3>2. /\ e.m = "setCookies" => \A p \in e.arg : ChromeAccepts(p)
              /\ e.m = "navigate" => e.arg \in Documents
            <4>1. e.m = "setCookies" => e.arg = params
                BY <2>2, <2>3, SeedFacts, SeedMethod
            <4>2. e.m = "navigate" => e.arg = "blank" \/ \E k \in DOMAIN payload.local : e.arg = Origin(k).origin
                BY <2>2, <2>3, SeedFacts, SeedMethod
            <4> QED BY <2>3, <4>1, <4>2, SeedFacts, CookieFacts, PayloadFacts DEF Documents
        <3>3. ASSUME NEW i \in DOMAIN sent
              PROVE  sent[i].id # next_id /\ (sent[i].m = "fulfillRequest" \/ (sent[i].m = "navigate" /\ staleLoad))
            BY <1>1, <2>1, <2>3, SeedFacts DEF SentInv, Awaited
        <3>4. next_id # 0
            BY DEF Inv, CdpInv, IdInv
        <3>5. ASSUME NEW i \in DOMAIN sent', i \notin DOMAIN sent PROVE sent'[i] = e /\ Awaited(sent[i])'
            BY <2>1, <2>2, <3>1, <3>4, <3>5 DEF Extends, Awaited
        <3> QED BY <1>1, <2>1, <2>3, <3>1, <3>2, <3>3, <3>5 DEF SentInv, Extends
    <2>4. CASE stage \in {"cleaning", "capture"}
        <3>1. e.m \notin {"setCookies", "evaluate", "navigate"}
            <4>1. Head(plan) = plan[1] /\ 1 \in DOMAIN plan
                BY <1>1, <2>1, TailElements DEF ShapeInv
            <4>2. stage = "cleaning" => Head(plan).m \notin {"setCookies", "evaluate", "navigate"}
                BY <4>1 DEF Inv, CdpInv, PlanInv, Command
            <4>3. stage = "capture" => Head(plan).m \notin {"setCookies", "evaluate", "navigate"}
                BY DEF Inv, CdpInv, PlanInv, Command, capture
            <4> QED BY <2>2, <2>4, <4>2, <4>3
        <3>2. stage' \in {"cleaning", "capture", "closing"}
            BY <1>3, <2>4 DEF send
        <3> QED BY <1>1, <2>1, <2>4, <3>1, <3>2 DEF SentInv, Extends
    <2> QED BY <2>1, <2>3, <2>4
<1>4. CASE recv
    <2> DEFINE e == With(next_id, "server", Command("fulfillRequest", "none"))
    <2>1. Extends(sent, sent', e) /\ (sent' # sent => RecvPaused)
        BY <1>1, <1>4, RecvPipes
    <2>2. awaiting # 0 /\ (RecvSkips \/ RecvPaused \/ RecvLoaded \/ RecvOk \/ RecvFails)
        BY <1>1, <1>4, RecvCases
    <2>3. e.m = "fulfillRequest" /\ e.id = next_id
        BY DEF With, Command
    <2> HIDE DEF e
    <2>4. CASE RecvSkips
        BY <1>1, <2>4 DEF RecvSkips, SentInv, Awaited
    <2>5. CASE RecvPaused
        <3>1. UNCHANGED <<stage, plan, awaiting, staleLoad>> /\ next_id # awaiting
            BY <1>1, <2>2, <2>5 DEF RecvPaused, Fulfils, TypeOK
        <3>2. ASSUME NEW i \in DOMAIN sent PROVE Awaited(sent[i])' <=> Awaited(sent[i])
            BY <2>1, <3>1 DEF Extends, Awaited
        <3>3. stage # "launch"
            BY <2>2 DEF Inv, CdpInv, PlanInv
        <3> QED BY <1>1, <2>1, <2>3, <3>1, <3>2, <3>3 DEF SentInv, Extends
    <2>6. CASE RecvLoaded \/ RecvOk \/ RecvFails
        <3>1. sent' = sent /\ awaiting' = 0
            BY <2>6 DEF RecvLoaded, RecvOk, RecvFails, RecvReply, Advances, Repeats, Ends
        <3>2. stage \in {"seed", "cleaning", "capture"} /\ stage' \in {stage, "bridged", "ended"}
            BY <2>2, <2>6 DEF Inv, CdpInv, PlanInv, RecvLoaded, RecvOk, RecvFails, Advances, Repeats, Ends
        <3>3. CASE stage # "seed"
            BY <1>1, <3>1, <3>2, <3>3 DEF SentInv
        <3>4. CASE stage = "seed" /\ RecvLoaded
            <4>1. ASSUME NEW i \in DOMAIN sent PROVE sent[i].m \in {"fulfillRequest", "navigate"} /\ sent[i].id # 0
                BY <1>1, <3>4, SeedFacts DEF SentInv, Awaited, RecvLoaded
            <4>2. ASSUME NEW i \in DOMAIN sent, stage' = "seed", sent[i].m = "navigate" PROVE staleLoad'
                BY <1>4, <3>4, <4>2, LoadedEarly
            <4> QED BY <1>1, <3>1, <3>2, <4>1, <4>2 DEF SentInv, Awaited
        <3>5. CASE stage = "seed" /\ (RecvOk \/ RecvFails)
            <4>1. RecvReply /\ staleLoad' = staleLoad
                BY <3>5 DEF RecvOk, RecvFails, RecvReply
            <4>2. ASSUME NEW i \in DOMAIN sent
                  PROVE  sent[i].id # 0 /\ (sent[i].m = "fulfillRequest" \/ (sent[i].m = "navigate" /\ staleLoad))
                BY <1>1, <1>4, <3>5, <4>1, SeedFacts, RepliedGone DEF SentInv, Awaited
            <4> QED BY <1>1, <3>1, <3>2, <4>1, <4>2 DEF SentInv, Awaited
        <3> QED BY <2>6, <3>3, <3>4, <3>5
    <2> QED BY <2>2, <2>4, <2>5, <2>6
<1>5. CASE PipeClosed \/ CleanupTimeout
    <2>1. sent' = sent /\ stage' # "launch" /\ (stage' \notin {"seed", "ended"} => stage \notin {"seed", "ended"})
          /\ stage' # "seed"
        <3>1. stage \in {"seed", "cleaning", "capture"}
            BY <1>5 DEF PipeClosed, CleanupTimeout, Inv, CdpInv, PlanInv
        <3>2. stage = "seed" => Head(plan).m # "close"
            BY SeedFacts, SeedMethod
        <3> QED BY <1>5, <3>1, <3>2 DEF PipeClosed, CleanupTimeout, Begin, Failed, Continue
    <2> QED BY <1>1, <2>1 DEF SentInv
<1>6. CASE Dispatch
    <2>1. Follows(sent, sent') /\ UNCHANGED <<stage, plan, awaiting, staleLoad>>
        BY <1>1, <1>6, DispatchPipes, DispatchCases
    <2>2. ASSUME NEW i \in DOMAIN sent' PROVE Awaited(sent[i])' <=> Awaited(sent[i + 1])
        BY <2>1 DEF Follows, Awaited
    <2> QED BY <1>1, <2>1, <2>2 DEF SentInv, Follows
<1>7. CASE Answer \/ LoadFires \/ BrowserActs \/ Forward
    <2>1. UNCHANGED <<stage, plan, awaiting, staleLoad, sent>>
        BY <1>7 DEF Answer, LoadFires, BrowserActs, Forward, server, history
    <2> QED BY <1>1, <2>1 DEF SentInv, Awaited
<1>8. CASE ClientSends
    <2>1. stage = "bridged" /\ stage' = stage
        BY <1>8 DEF ClientSends
    <2>2. PICK id \in 1..MaxClient, m \in {"getCookies", "change"} :
             Extends(sent, sent', With(id, "client", Command(m, "none")))
        BY <1>1, <1>8, Extended DEF ClientSends
    <2>3. With(id, "client", Command(m, "none")).m = m
        BY DEF With, Command
    <2> QED BY <1>1, <2>1, <2>2, <2>3 DEF SentInv, Extends
<1>9. CASE serve_profile \/ destroy_capturing_native
    <2>1. sent' = sent /\ stage \in {"bridged", "closing"} /\ stage' \in {"cleaning", "capture", "ended"}
        BY <1>9 DEF serve_profile, destroy_capturing_native, Begin
    <2> QED BY <1>1, <2>1 DEF SentInv
<1> QED BY <1>2, <1>3, <1>4, <1>5, <1>6, <1>7, <1>8, <1>9 DEF Next

(* The types, and whose replies are taken. *)
LEMMA OwnStep ==
    ASSUME Inv, Next
    PROVE  OwnReplies'
<1>1. ShapeInv /\ TypeOK /\ OwnReplies /\ IsList(sent) /\ IsList(inbox) /\ BrowserShape(browser) /\ CapturedShape(captured)
    BY DEF Inv, CdpInv, OwnReplies, ShapeInv
<1>2. UNCHANGED payload /\ payload' \in Payloads /\ PlanMoves
    BY <1>1, PlanCases DEF TypeOK
<1>3. stage' \in {"launch", "seed", "bridged", "cleaning", "capture", "closing", "ended"}
    BY <1>1, <1>2 DEF PlanMoves, TypeOK, Repeats, Begins, Begin
<1>4. /\ awaiting' \in Nat /\ next_id' \in Nat
      /\ awaiting' # 0 => plan' # <<>> /\ awaiting' < next_id'
    <2>1. awaiting \in Nat /\ next_id \in Nat /\ CLEANUP_FIRST_ID \in Nat /\ (awaiting # 0 => plan # <<>> /\ awaiting < next_id)
        BY <1>1, CdpAssumption DEF TypeOK
    <2>2. CASE create_seeded \/ serve_profile \/ PipeClosed \/ CleanupTimeout
        BY <2>1, <2>2 DEF create_seeded, serve_profile, PipeClosed, CleanupTimeout, Begin, Failed, Continue
    <2>3. CASE send
        BY <2>1, <2>3 DEF send
    <2>4. CASE recv
        <3>1. RecvSkips \/ RecvPaused \/ RecvLoaded \/ RecvOk \/ RecvFails
            BY <1>1, <2>4, RecvCases
        <3> QED BY <2>1, <3>1 DEF RecvSkips, RecvPaused, RecvLoaded, RecvOk, RecvFails, RecvReply, Advances, Repeats,
                                  Ends, Fulfils
    <2>5. CASE Dispatch \/ Answer \/ LoadFires \/ BrowserActs \/ ClientSends \/ Forward \/ destroy_capturing_native
        BY <2>1, <2>5 DEF Dispatch, Answer, LoadFires, BrowserActs, ClientSends, Forward, destroy_capturing_native, server
    <2> QED BY <2>2, <2>3, <2>4, <2>5 DEF Next
<1>5. \A i \in DOMAIN sent' : sent'[i].owner \in {"server", "client"}
    <2>1. CASE send
        <3>1. Extends(sent, sent', With(next_id, "server", Head(plan)))
            BY <1>1, <2>1, Extended DEF send
        <3>2. With(next_id, "server", Head(plan)).owner = "server"
            BY DEF With
        <3> QED BY <1>1, <3>1, <3>2 DEF Extends, TypeOK
    <2>2. CASE recv
        <3>1. Extends(sent, sent', With(next_id, "server", Command("fulfillRequest", "none")))
            BY <1>1, <2>2, RecvPipes
        <3>2. With(next_id, "server", Command("fulfillRequest", "none")).owner = "server"
            BY DEF With
        <3> QED BY <1>1, <3>1, <3>2 DEF Extends, TypeOK
    <2>3. CASE Dispatch
        BY <1>1, <2>3, DispatchPipes DEF Follows, TypeOK
    <2>4. CASE ClientSends
        <3>1. PICK id \in 1..MaxClient, m \in {"getCookies", "change"} :
                 Extends(sent, sent', With(id, "client", Command(m, "none")))
            BY <1>1, <2>4, Extended DEF ClientSends
        <3>2. With(id, "client", Command(m, "none")).owner = "client"
            BY DEF With
        <3> QED BY <1>1, <3>1, <3>2 DEF Extends, TypeOK
    <2>5. CASE create_seeded \/ serve_profile \/ PipeClosed \/ CleanupTimeout \/ Answer \/ LoadFires
               \/ BrowserActs \/ Forward \/ destroy_capturing_native
        BY <1>1, <2>5 DEF create_seeded, serve_profile, PipeClosed, CleanupTimeout, Answer, LoadFires, BrowserActs,
                          Forward, destroy_capturing_native, TypeOK
    <2> QED BY <2>1, <2>2, <2>3, <2>4, <2>5 DEF Next
<1>6. /\ browser'.doc \in Documents /\ browser'.loading \in Documents \cup {"none"}
      /\ {browser'.alive, browser'.page, browser'.held, browser'.fetch, browser'.events} \subseteq BOOLEAN
    <2>1. /\ browser.doc \in Documents /\ browser.loading \in Documents \cup {"none"} /\ "blank" \in Documents
          /\ {browser.alive, browser.page, browser.held, browser.fetch, browser.events} \subseteq BOOLEAN
        BY <1>1 DEF TypeOK, Documents
    <2>2. CASE Dispatch
        <3>1. CASE Refuses
            BY <2>1, <3>1 DEF Refuses
        <3>2. CASE Takes
            <4>1. 1 \in DOMAIN sent /\ browser' = Effect(sent[1])
                BY <1>1, <2>2, <3>2, DispatchPipes DEF Takes
            <4>2. sent[1].m = "navigate" => sent[1].arg \in Documents
                BY <4>1 DEF Inv, CdpInv, SentInv
            <4> QED BY <1>1, <2>1, <4>1, <4>2, EffectFields
        <3> QED BY <1>1, <2>2, <3>1, <3>2, DispatchCases
    <2>3. CASE LoadFires
        BY <1>1, <2>1, <2>3 DEF LoadFires, BrowserShape
    <2>4. CASE BrowserActs \/ destroy_capturing_native
        BY <1>1, <2>1, <2>4 DEF BrowserActs, destroy_capturing_native, BrowserShape
    <2>5. CASE create_seeded \/ serve_profile \/ PipeClosed \/ CleanupTimeout \/ Answer \/ send \/ recv
               \/ ClientSends \/ Forward
        <3>1. browser' = browser
            BY <2>5 DEF create_seeded, serve_profile, PipeClosed, CleanupTimeout, Answer, send, recv, ClientSends, Forward
        <3> QED BY <2>1, <3>1
    <2> QED BY <2>2, <2>3, <2>4, <2>5 DEF Next
<1>7. {captured'.deposit, captured'.answered, captured'.opened, captured'.packed,
       staleLoad', changed'} \subseteq BOOLEAN
    <2>1. {captured.deposit, captured.answered, captured.opened, captured.packed,
           staleLoad, changed} \subseteq BOOLEAN
        BY <1>1 DEF TypeOK
    <2>2. CASE recv
        <3>1. UNCHANGED changed /\ (RecvSkips \/ RecvPaused \/ RecvLoaded \/ RecvOk \/ RecvFails)
            BY <1>1, <2>2, RecvCases
        <3>2. staleLoad' \in BOOLEAN
            BY <2>1, <3>1 DEF RecvSkips, RecvPaused, RecvLoaded, RecvOk, RecvFails, RecvReply
        <3>3. captured' = captured \/ captured' = [captured EXCEPT !.answered = TRUE,
                            !.cookies = IF inbox[1].m = "getCookies" THEN inbox[1].data ELSE {}]
            BY <3>1 DEF RecvSkips, RecvPaused, RecvLoaded, RecvOk, RecvFails, RecvReply
        <3>4. {captured'.deposit, captured'.answered, captured'.opened, captured'.packed} \subseteq BOOLEAN
            BY <1>1, <2>1, <3>3 DEF CapturedShape
        <3> QED BY <2>1, <3>1, <3>2, <3>4
    <2>3. CASE Dispatch
        BY <1>1, <2>1, <2>3, DispatchCases DEF Takes, Refuses
    <2>4. CASE destroy_capturing_native
        BY <1>1, <2>1, <2>4 DEF destroy_capturing_native, CapturedShape, history
    <2>5. CASE create_seeded \/ serve_profile \/ PipeClosed \/ CleanupTimeout \/ Answer \/ send \/ LoadFires
               \/ BrowserActs \/ ClientSends \/ Forward
        <3>1. UNCHANGED <<captured, staleLoad, changed>>
            BY <2>5 DEF create_seeded, serve_profile, PipeClosed, CleanupTimeout, Answer, send, LoadFires, BrowserActs,
                        ClientSends, Forward, history, Failed
        <3> QED BY <2>1, <3>1
    <2> QED BY <2>2, <2>3, <2>4, <2>5 DEF Next
<1>8. mistaken' \subseteq {"seed", "cleaning", "capture"} /\ mistaken' \cap {"seed", "cleaning"} = {}
    <2>1. mistaken \subseteq {"seed", "cleaning", "capture"} /\ mistaken \cap {"seed", "cleaning"} = {}
        BY <1>1 DEF OwnReplies, TypeOK
    <2>2. SUFFICES ASSUME mistaken' # mistaken PROVE mistaken' = mistaken \cup {"capture"}
        BY <2>1
    <2>3. recv
        BY <2>2 DEF Next, create_seeded, send, PipeClosed, CleanupTimeout, Dispatch, Answer, LoadFires, BrowserActs,
                    ClientSends, Forward, serve_profile, destroy_capturing_native, history
    <2>4. RecvReply /\ inbox[1].owner = "client" /\ awaiting # 0 /\ 1 \in DOMAIN inbox
        BY <1>1, <2>2, <2>3, RecvCases, RecvPipes DEF RecvSkips, RecvPaused, RecvLoaded, RecvOk, RecvFails, RecvReply
    <2>5. stage # "seed"
        BY <2>4, SeedFacts
    <2>6. stage # "cleaning"
        <3>1. inbox[1].id \in 1..MaxClient
            BY <2>4 DEF Inv, CdpInv, IdInv, Clients
        <3>2. stage = "cleaning" => awaiting >= CLEANUP_FIRST_ID
            BY <2>4 DEF Inv, CdpInv, IdInv
        <3>3. awaiting = inbox[1].id
            BY <2>4 DEF RecvReply
        <3> QED BY <3>1, <3>2, <3>3, CdpAssumption
    <2>7. stage = "capture"
        BY <2>4, <2>5, <2>6 DEF Inv, CdpInv, PlanInv
    <2> QED BY <2>2, <2>4, <2>7 DEF RecvReply
<1>9. resumes' \in 0..MaxResumes /\ faults' \in 0..MaxFaults /\ commands' \in 0..MaxClient
    <2>1. /\ resumes \in 0..MaxResumes /\ faults \in 0..MaxFaults /\ commands \in 0..MaxClient
          /\ MaxResumes \in Nat /\ MaxFaults \in Nat /\ MaxClient \in Nat
        BY <1>1, CdpAssumption DEF TypeOK
    <2>2. CASE Dispatch
        BY <2>1, <2>2 DEF Dispatch
    <2>3. CASE BrowserActs \/ ClientSends \/ serve_profile
        BY <2>1, <2>3 DEF BrowserActs, ClientSends, serve_profile
    <2>4. CASE create_seeded \/ PipeClosed \/ CleanupTimeout \/ Answer \/ send \/ recv \/ LoadFires
               \/ Forward \/ destroy_capturing_native
        <3>1. UNCHANGED <<resumes, faults, commands>>
            BY <2>4 DEF create_seeded, PipeClosed, CleanupTimeout, Answer, send, recv, LoadFires, Forward,
                        destroy_capturing_native, bounds
        <3> QED BY <2>1, <3>1
    <2> QED BY <2>2, <2>3, <2>4 DEF Next
<1> QED BY <1>2, <1>3, <1>4, <1>5, <1>6, <1>7, <1>8, <1>9 DEF OwnReplies, TypeOK

-----------------------------------------------------------------------------
(* What the scripts have written, as one more of them runs. *)
LEMMA WrittenMember ==
    ASSUME NEW v, NEW r
    PROVE  r \in Written(v) <=>
              \E i \in DOMAIN payload.local : 2 * i + 2 <= v /\ \E e \in Origin(i).entries : r = Row(Origin(i).origin, e)
BY DEF Written

(* A command that is no script writes nothing. *)
LEMMA WrittenSame ==
    ASSUME payload \in Payloads, NEW v \in Int, \A i \in DOMAIN payload.local : v # 2 * i + 1
    PROVE  Written(v + 1) = Written(v)
<1>1. \A i \in DOMAIN payload.local : i \in Nat
    BY LocalIndex
<1>2. ASSUME NEW i \in DOMAIN payload.local PROVE 2 * i + 2 <= v + 1 <=> 2 * i + 2 <= v
    <2>1. i \in Nat /\ v # 2 * i + 1
        BY <1>1
    <2> QED BY <2>1
<1>3. {j \in DOMAIN payload.local : 2 * j + 2 <= v + 1} = {j \in DOMAIN payload.local : 2 * j + 2 <= v}
    BY <1>2
<1> QED BY <1>3 DEF Written

(* An origin's script adds that origin's rows to those before it. *)
LEMMA WrittenMore ==
    ASSUME payload \in Payloads, NEW k \in DOMAIN payload.local
    PROVE  restore_script(Written(2 * k + 1), Origin(k).origin, Origin(k).entries) = Written((2 * k + 1) + 1)
<1> DEFINE new == {Row(Origin(k).origin, e) : e \in Origin(k).entries}
<1>1. \A i \in DOMAIN payload.local : i \in Nat /\ Origin(i).origin # "blank"
    BY LocalPlan, PayloadFacts
<1>2. restore_script(Written(2 * k + 1), Origin(k).origin, Origin(k).entries)
         = {r \in Written(2 * k + 1) : r.origin # Origin(k).origin \/ r.third} \cup new
    BY <1>1 DEF restore_script, Row
<1>3. ASSUME NEW r \in Written(2 * k + 1) PROVE r.origin # Origin(k).origin
    <2>1. PICK i \in DOMAIN payload.local : 2 * i + 2 <= 2 * k + 1 /\ \E e \in Origin(i).entries : r = Row(Origin(i).origin, e)
        BY WrittenMember
    <2>2. i # k
        BY <1>1, <2>1
    <2>3. r.origin = Origin(i).origin
        BY <2>1 DEF Row
    <2> QED BY <2>2, <2>3, PayloadFacts
<1>4. ASSUME NEW r PROVE r \in Written((2 * k + 1) + 1) <=> r \in Written(2 * k + 1) \cup new
    <2>1. \A i \in DOMAIN payload.local : 2 * i + 2 <= (2 * k + 1) + 1 <=> 2 * i + 2 <= 2 * k + 1 \/ i = k
        BY <1>1
    <2>2. r \in new <=> \E e \in Origin(k).entries : r = Row(Origin(k).origin, e)
        OBVIOUS
    <2> HIDE DEF new
    <2> QED BY <2>1, <2>2, WrittenMember
<1> QED BY <1>2, <1>3, <1>4

(* Before the hand-off only the browser moves. *)
LEMMA LaunchSteps ==
    ASSUME Inv, Next, stage' = "launch"
    PROVE  stage = "launch" /\ (LoadFires \/ BrowserActs) /\ sent = <<>> /\ answers = {} /\ inbox = <<>>
<1>1. stage = "launch"
    <2>1. PlanMoves
        BY PlanCases
    <2> QED BY <2>1 DEF PlanMoves, Repeats, Begins, Begin, Inv, CdpInv, PlanInv
<1>2. plan = <<>> /\ awaiting = 0 /\ inbox = <<>> /\ answers = {} /\ sent = <<>>
    BY <1>1, LaunchFacts
<1>4. LoadFires \/ BrowserActs
    BY <1>1, <1>2 DEF Next, create_seeded, Begin, send, recv, PipeClosed, CleanupTimeout, Dispatch, Answer,
                            ClientSends, Forward, serve_profile, destroy_capturing_native
<1> QED BY <1>1, <1>2, <1>4

(* While seeding, no two messages on their way share an id. *)
LEMMA UniqueStep ==
    ASSUME Inv, Next
    PROVE  UniqueInv'
<1> SUFFICES ASSUME stage' = "seed" PROVE UniqueInv'
    BY DEF UniqueInv
<1>1. ShapeInv /\ TypeOK /\ IsList(sent) /\ IsList(inbox)
    BY DEF Inv, CdpInv, OwnReplies, ShapeInv
<1>2. CASE create_seeded
    <2>1. DOMAIN sent = {} /\ answers = {} /\ DOMAIN inbox = {}
        BY <1>2, LaunchFacts DEF create_seeded
    <2>2. UNCHANGED <<sent, answers, inbox>>
        BY <1>2 DEF create_seeded
    <2> QED BY <2>1, <2>2 DEF UniqueInv
<1>3. ASSUME stage = "seed" PROVE UniqueInv /\ next_id \in Nat
    BY <1>3, SeedFacts DEF Inv, CdpInv
<1>4. CASE stage = "seed" /\ send
    <2>1. Extends(sent, sent', With(next_id, "server", Head(plan))) /\ UNCHANGED <<answers, inbox>>
        BY <1>1, <1>4, Extended DEF send
    <2>2. With(next_id, "server", Head(plan)).id = next_id
        BY DEF With
    <2>3. \A i \in DOMAIN sent' : (i \in DOMAIN sent /\ sent'[i] = sent[i]) \/ (i = Len(sent) + 1 /\ sent'[i].id = next_id)
        BY <2>1, <2>2 DEF Extends
    <2>4. /\ \A i \in DOMAIN sent : sent[i].id # next_id
          /\ \A a \in answers : a.id # next_id
          /\ \A i \in DOMAIN inbox : inbox[i].id # next_id
        BY <1>3, <1>4, SeedFacts
    <2> QED BY <1>3, <1>4, <2>1, <2>3, <2>4 DEF UniqueInv
<1>5. CASE stage = "seed" /\ recv
    <2>1. /\ Follows(inbox, inbox') /\ answers' = answers
          /\ Extends(sent, sent', With(next_id, "server", Command("fulfillRequest", "none")))
        BY <1>1, <1>5, RecvPipes, RecvCases
    <2>2. With(next_id, "server", Command("fulfillRequest", "none")).id = next_id
        BY DEF With
    <2>3. \A i \in DOMAIN sent' : (i \in DOMAIN sent /\ sent'[i] = sent[i]) \/ (i = Len(sent) + 1 /\ sent'[i].id = next_id)
        BY <2>1, <2>2 DEF Extends
    <2>4. /\ \A i \in DOMAIN sent : sent[i].id # next_id
          /\ \A a \in answers : a.id # next_id
          /\ \A i \in DOMAIN inbox : inbox[i].id # next_id
        BY <1>3, <1>5, SeedFacts
    <2>5. \A i \in DOMAIN inbox' : i \in Nat /\ i + 1 \in DOMAIN inbox /\ inbox'[i] = inbox[i + 1]
        BY <2>1 DEF Follows
    <2>6. \A i, j \in DOMAIN inbox' : i + 1 = j + 1 => i = j
        BY <2>5
    <2> QED BY <1>3, <1>5, <2>1, <2>3, <2>4, <2>5, <2>6 DEF UniqueInv
<1>6. CASE stage = "seed" /\ Dispatch
    <2>1. /\ 1 \in DOMAIN sent /\ Follows(sent, sent')
          /\ Extends(inbox, inbox', Event("requestPaused", sent[1].arg))
        BY <1>1, <1>6, DispatchPipes
    <2>2. PICK r : answers' = answers \cup {r} /\ r.id = sent[1].id
        <3>1. PICK ok \in BOOLEAN : answers' = answers \cup {Reply(sent[1], ok)}
            BY <1>1, <1>6, DispatchPipes
        <3>2. Reply(sent[1], ok).id = sent[1].id
            BY DEF Reply
        <3> QED BY <3>1, <3>2
    <2>3. Event("requestPaused", sent[1].arg).id = 0
        BY DEF Event
    <2>4. \A i \in DOMAIN inbox' : (i \in DOMAIN inbox /\ inbox'[i] = inbox[i]) \/ (i = Len(inbox) + 1 /\ inbox'[i].id = 0)
        BY <2>1, <2>3 DEF Extends
    <2>5. \A i \in DOMAIN sent' : i \in Nat /\ i + 1 \in DOMAIN sent /\ i + 1 # 1 /\ sent'[i] = sent[i + 1]
        BY <2>1 DEF Follows
    <2>6. \A i, j \in DOMAIN sent' : i + 1 = j + 1 => i = j
        BY <2>5
    <2>7. /\ \A i \in DOMAIN sent : sent[i].id # 0
          /\ \A a \in answers : a.id # 0
        BY <1>6, SeedFacts
    <2> QED BY <1>3, <1>6, <2>1, <2>2, <2>4, <2>5, <2>6, <2>7 DEF UniqueInv
<1>7. CASE stage = "seed" /\ Answer
    <2>1. PICK a \in answers : answers' = answers \ {a} /\ inbox' = Append(inbox, a)
        BY <1>7 DEF Answer
    <2>2. sent' = sent /\ Extends(inbox, inbox', a)
        BY <1>1, <1>7, <2>1, Extended DEF Answer
    <2>3. \A i \in DOMAIN inbox' : (i \in DOMAIN inbox /\ inbox'[i] = inbox[i]) \/ (i = Len(inbox) + 1 /\ inbox'[i] = a)
        BY <2>2 DEF Extends
    <2> QED BY <1>3, <1>7, <2>1, <2>2, <2>3 DEF UniqueInv
<1>8. CASE stage = "seed" /\ LoadFires
    <2>1. Extends(inbox, inbox', Event("loadEventFired", browser.loading)) /\ UNCHANGED <<sent, answers>>
        BY <1>1, <1>8, Extended DEF LoadFires
    <2>2. Event("loadEventFired", browser.loading).id = 0
        BY DEF Event
    <2>3. \A i \in DOMAIN inbox' : (i \in DOMAIN inbox /\ inbox'[i] = inbox[i]) \/ (i = Len(inbox) + 1 /\ inbox'[i].id = 0)
        BY <2>1, <2>2 DEF Extends
    <2>4. /\ \A i \in DOMAIN sent : sent[i].id # 0
          /\ \A a \in answers : a.id # 0
        BY <1>8, SeedFacts
    <2> QED BY <1>3, <1>8, <2>1, <2>3, <2>4 DEF UniqueInv
<1>9. CASE stage = "seed" /\ BrowserActs
    BY <1>3, <1>9 DEF BrowserActs, UniqueInv
<1> QED BY <1>2, <1>4, <1>5, <1>6, <1>7, <1>8, <1>9, SeedSteps

(* The arithmetic of the plan: scripts are at even places. *)
LEMMA Odd == \A d \in Int, i \in Nat : d + 1 = 2 * i + 2 <=> d = 2 * i + 1
OBVIOUS

(* What a command of the seeding does when the browser takes it. *)
LEMMA SeedTakes ==
    ASSUME Inv, stage = "seed", Dispatch, Takes
    PROVE  LET c == sent[1] IN
           /\ 1 \in DOMAIN sent /\ c.m # "change" /\ c.m # "close"
           /\ c.m \in {"fulfillRequest", "navigate"} \/ Awaited(c)
           /\ c.id = awaiting => Awaited(c)
           /\ c.m = "setCookies" => browser'.cookies = Seeded
           /\ c.m # "setCookies" => browser'.cookies = browser.cookies
           /\ c.m # "evaluate" => browser'.rows = browser.rows
           /\ c.m = "evaluate" /\ ~staleLoad => browser'.rows = Written(Done + 1)
           /\ browser.page => browser'.page
           /\ c.m = "attachToTarget" => browser'.page
<1> DEFINE c == sent[1]
<1>1. 1 \in DOMAIN sent /\ browser' = Effect(c) /\ BrowserShape(browser) /\ ~Refused(c)
    BY DispatchPipes DEF Inv, ShapeInv, Takes
<1>2. (c.m \in {"fulfillRequest", "navigate"} \/ Awaited(c)) /\ (c.id = awaiting => Awaited(c))
    BY <1>1 DEF Inv, CdpInv, SentInv
<1>3. c.m # "change" /\ c.m # "close"
    BY <1>2, SeedFacts, SeedMethod DEF Awaited
<1>4. c.m # "setCookies" => browser'.cookies = browser.cookies
    BY <1>1, <1>3, EffectFields
<1>5. c.m # "evaluate" => browser'.rows = browser.rows
    BY <1>1, <1>3, EffectFields
<1>6. c.m = "setCookies" => browser'.cookies = Seeded
    <2>1. SUFFICES ASSUME c.m = "setCookies" PROVE browser'.cookies = Seeded
        OBVIOUS
    <2>2. c.arg = params
        BY <1>2, <2>1, SeedFacts, SeedMethod DEF Awaited
    <2>3. browser'.cookies = browser.cookies \cup {ChromeCookie(p) : p \in c.arg}
        BY <1>1, <2>1, EffectFields
    <2>4. browser.cookies \subseteq Seeded
        BY DEF Inv, CdpInv, CookieInv
    <2> QED BY <2>2, <2>3, <2>4 DEF Seeded
<1>7. c.m = "evaluate" /\ ~staleLoad => browser'.rows = Written(Done + 1)
    <2>1. SUFFICES ASSUME c.m = "evaluate", ~staleLoad PROVE browser'.rows = Written(Done + 1)
        OBVIOUS
    <2>2. Awaited(c) /\ Head(plan).m = "evaluate" /\ c.arg = Head(plan).arg
        BY <1>2, <2>1 DEF Awaited
    <2>3. browser.rows = Written(Done) /\ \E i \in DOMAIN payload.local : Done + 1 = 2 * i + 2 /\ browser.doc = Origin(i).origin
        BY <1>1, <2>1, <2>2 DEF Inv, CdpInv, RowInv
    <2>4. PICK i \in DOMAIN payload.local : Done + 1 = 2 * i + 2 /\ browser.doc = Origin(i).origin
        BY <2>3
    <2>5. Done = 2 * i + 1
        <3>1. i \in Nat
            BY SeedFacts, LocalPlan
        <3>2. Done \in Int
            BY SeedFacts, SeedHead
        <3> QED BY <2>4, <3>1, <3>2, Odd
    <2>6. c.arg = Origin(i).entries
        BY <2>2, <2>5, SeedFacts, SeedMethod
    <2>7. browser'.rows = restore_script(browser.rows, browser.doc, c.arg)
        BY <1>1, <2>1, EffectFields
    <2> QED BY <2>3, <2>4, <2>5, <2>6, <2>7, SeedFacts, WrittenMore
<1>8. (browser.page => browser'.page) /\ (c.m = "attachToTarget" => browser'.page)
    BY <1>1, EffectFields DEF Refused
<1> QED BY <1>1, <1>2, <1>3, <1>4, <1>5, <1>6, <1>7, <1>8

(* A reply that is on its way says what the browser has done. *)
LEMMA ReplyStep ==
    ASSUME Inv, Next
    PROVE  ReplyInv'
<1> SUFFICES ASSUME stage' = "seed" PROVE ReplyInv'
    BY DEF ReplyInv
<1>1. ShapeInv /\ TypeOK /\ IsList(sent) /\ IsList(inbox) /\ BrowserShape(browser)
    BY DEF Inv, CdpInv, OwnReplies, ShapeInv
<1>2. UNCHANGED <<Seeded, apply_local_storage>> /\ \A v : Written(v)' = Written(v)
    BY PlanCases, Constant
<1>3. CASE create_seeded
    <2>1. answers' = {} /\ DOMAIN inbox' = {}
        BY <1>3, LaunchFacts DEF create_seeded
    <2> QED BY <2>1 DEF ReplyInv, Pipes
<1>4. ASSUME stage = "seed" PROVE ReplyInv
    BY <1>4 DEF Inv, CdpInv
<1>5. CASE stage = "seed" /\ send
    <2>1. UNCHANGED <<answers, inbox, browser>> /\ awaiting' = next_id
        <3>1. Head(plan).m # "close"
            BY <1>5, SeedFacts, SeedMethod
        <3> QED BY <1>5, <3>1 DEF send
    <2>2. Pipes' = Pipes /\ \A r \in Pipes : r.id # next_id
        BY <1>5, <2>1, SeedFacts DEF Pipes
    <2> QED BY <1>2, <1>4, <1>5, <2>1, <2>2 DEF ReplyInv
<1>6. CASE stage = "seed" /\ recv
    <2>1. /\ Pipes' \subseteq Pipes /\ browser' = browser
          /\ RecvSkips \/ RecvPaused \/ RecvLoaded \/ RecvOk \/ RecvFails
        <3>1. Follows(inbox, inbox') /\ answers' = answers
            BY <1>1, <1>6, RecvPipes, RecvCases
        <3>2. Pipes' \subseteq Pipes
            BY <3>1 DEF Follows, Pipes
        <3> QED BY <1>1, <1>6, <3>2, RecvCases
    <2>2. UNCHANGED <<awaiting, plan, staleLoad>> \/ awaiting' = 0
        BY <2>1 DEF RecvSkips, RecvPaused, RecvLoaded, RecvOk, RecvFails, Advances, Repeats, Ends, Fulfils
    <2>3. CASE UNCHANGED <<awaiting, plan, staleLoad>>
        <3>1. Done' = Done
            BY <1>2, <2>3 DEF Done
        <3> QED BY <1>2, <1>4, <1>6, <2>1, <2>3, <3>1 DEF ReplyInv
    <2>4. CASE awaiting' = 0
        BY <1>2, <1>4, <1>6, <2>1, <2>4 DEF ReplyInv
    <2> QED BY <2>2, <2>3, <2>4
<1>7. CASE stage = "seed" /\ Dispatch
    <2>1. UNCHANGED <<awaiting, plan, staleLoad>> /\ Done' = Done /\ 1 \in DOMAIN sent
        BY <1>1, <1>2, <1>7, DispatchCases, DispatchPipes DEF Done
    <2>2. PICK ok \in BOOLEAN : answers' = answers \cup {Reply(sent[1], ok)} /\ (ok => Takes) /\ (~ok => Refuses)
        BY <1>1, <1>7, DispatchPipes
    <2>3. ASSUME NEW r \in Pipes' PROVE r \in Pipes \/ r = Reply(sent[1], ok) \/ r = Event("requestPaused", sent[1].arg)
        <3>1. Extends(inbox, inbox', Event("requestPaused", sent[1].arg))
            BY <1>1, <1>7, DispatchPipes
        <3> QED BY <2>2, <2>3, <3>1 DEF Pipes, Extends
    <2>4. /\ Reply(sent[1], ok).id = sent[1].id /\ Reply(sent[1], ok).m = sent[1].m /\ Reply(sent[1], ok).ok = ok
          /\ Event("requestPaused", sent[1].arg).id = 0 /\ Event("requestPaused", sent[1].arg).m = "requestPaused"
        BY DEF Reply, Event
    <2>5. ok => Takes /\ (sent[1].id = awaiting => Awaited(sent[1]))
        BY <1>7, <2>2, SeedTakes
    <2>6. sent[1].id = awaiting => sent[1].m = Head(plan).m
        BY <1>7, <2>1 DEF Inv, CdpInv, SentInv, Awaited
    <2>7. CASE ok
        <3>1. \A r \in Pipes : r.m = "evaluate" /\ awaiting # 0 /\ r.id = awaiting => sent[1].m # "evaluate"
            <4>1. sent[1].m = "evaluate" => sent[1].id = awaiting
                BY <1>7, <2>2, <2>7, SeedTakes DEF Awaited
            <4>2. \A r \in Pipes : sent[1].id # r.id
                BY <1>7, <2>1 DEF Inv, CdpInv, UniqueInv, Pipes
            <4> QED BY <4>1, <4>2
        <3>2. /\ sent[1].m = "setCookies" => browser'.cookies = Seeded
              /\ sent[1].m # "setCookies" => browser'.cookies = browser.cookies
              /\ sent[1].m # "evaluate" => browser'.rows = browser.rows
              /\ sent[1].m = "evaluate" /\ ~staleLoad => browser'.rows = Written(Done + 1)
              /\ browser.page => browser'.page
              /\ sent[1].m = "attachToTarget" => browser'.page
            BY <1>7, <2>2, <2>7, SeedTakes
        <3>3. ASSUME NEW r \in Pipes'
              PROVE  /\ awaiting # 0 /\ r.id = awaiting => r.m = Head(plan).m
                     /\ r.m = "setCookies" /\ r.ok => browser'.cookies = Seeded
                     /\ r.m = "attachToTarget" /\ r.ok => browser'.page
                     /\ r.m = "evaluate" /\ r.ok /\ awaiting # 0 /\ r.id = awaiting /\ ~staleLoad =>
                           browser'.rows = Written(Done + 1)
            <4>1. CASE r \in Pipes
                BY <1>4, <1>7, <3>1, <3>2, <4>1 DEF ReplyInv
            <4>2. CASE r = Reply(sent[1], ok)
                BY <2>4, <2>6, <3>2, <4>2
            <4>3. CASE r = Event("requestPaused", sent[1].arg)
                BY <2>4, <4>3
            <4> QED BY <2>3, <4>1, <4>2, <4>3
        <3> QED BY <1>2, <2>1, <3>3 DEF ReplyInv
    <2>8. CASE ~ok
        <3>1. browser' = browser
            BY <2>2, <2>8 DEF Refuses
        <3> QED BY <1>2, <1>4, <1>7, <2>1, <2>3, <2>4, <2>6, <2>8, <3>1 DEF ReplyInv
    <2> QED BY <2>7, <2>8
<1>8. CASE stage = "seed" /\ Answer
    <2>1. PICK a \in answers : answers' = answers \ {a} /\ inbox' = Append(inbox, a)
        BY <1>8 DEF Answer
    <2>2. Pipes' \subseteq Pipes
        <3>1. Extends(inbox, inbox', a)
            BY <1>1, <2>1, Extended
        <3> QED BY <2>1, <3>1 DEF Pipes, Extends
    <2>3. UNCHANGED <<awaiting, plan, staleLoad, browser>> /\ Done' = Done
        BY <1>2, <1>8 DEF Answer, server, history, Done
    <2> QED BY <1>2, <1>4, <1>8, <2>2, <2>3 DEF ReplyInv
<1>9. CASE stage = "seed" /\ LoadFires
    <2>1. \A r \in Pipes' : r \in Pipes \/ r = Event("loadEventFired", browser.loading)
        <3>1. Extends(inbox, inbox', Event("loadEventFired", browser.loading)) /\ answers' = answers
            BY <1>1, <1>9, Extended DEF LoadFires
        <3> QED BY <3>1 DEF Pipes, Extends
    <2>2. Event("loadEventFired", browser.loading).id = 0 /\ Event("loadEventFired", browser.loading).m = "loadEventFired"
        BY DEF Event
    <2>3. UNCHANGED <<awaiting, plan, staleLoad>> /\ Done' = Done
        BY <1>2, <1>9 DEF LoadFires, server, history, Done
    <2>4. browser'.cookies = browser.cookies /\ browser'.rows = browser.rows /\ browser'.page = browser.page
        BY <1>1, <1>9 DEF LoadFires, BrowserShape
    <2> QED BY <1>2, <1>4, <1>9, <2>1, <2>2, <2>3, <2>4 DEF ReplyInv
<1>10. CASE stage = "seed" /\ BrowserActs
    <2>1. UNCHANGED <<awaiting, plan, staleLoad, answers, inbox>> /\ Done' = Done /\ Pipes' = Pipes
        BY <1>2, <1>10 DEF BrowserActs, server, history, Done, Pipes
    <2>2. browser'.cookies = browser.cookies /\ browser'.rows = browser.rows /\ (browser.page => browser'.page)
        BY <1>1, <1>10 DEF BrowserActs, BrowserShape
    <2> QED BY <1>2, <1>4, <1>10, <2>1, <2>2 DEF ReplyInv
<1> QED BY <1>3, <1>5, <1>6, <1>7, <1>8, <1>9, <1>10, SeedSteps

(* The next command, after the step. *)
HeadFacts ==
    /\ Done \in Int /\ Done <= Len(apply_local_storage) - 1
    /\ Head(plan).m = "evaluate" => \E k \in DOMAIN payload.local : Done = 2 * k + 1
    /\ Head(plan).m = "navigate" => Done >= 0

Seeding == payload \in Payloads /\ ShapeInv /\ SeedPlan /\ plan # <<>>

(* What the next command tells of the progress, *)
LEMMA HeadNow == Seeding => HeadFacts
<1> SUFFICES ASSUME payload \in Payloads, ShapeInv, SeedPlan, plan # <<>> PROVE HeadFacts
    BY DEF Seeding
<1>1. Done \in Int /\ Done <= Len(apply_local_storage) - 1
    <2>1. Done \in -3..(Len(apply_local_storage) - 1) /\ Len(apply_local_storage) \in Nat
        BY SeedHead, LocalPlan
    <2> QED BY <2>1
<1>2. Head(plan).m = "evaluate" => \E k \in DOMAIN payload.local : Done = 2 * k + 1
    BY SeedMethod
<1>3. Head(plan).m = "navigate" => Done >= 0
    <2>1. Done \in -3..(Len(apply_local_storage) - 1) /\ Len(apply_local_storage) \in Nat
        BY SeedHead, LocalPlan
    <2>2. /\ Head(plan).m = "navigate" => Done # -3 /\ Done # -2 /\ Done # -1
        BY SeedMethod
    <2> QED BY <2>1, <2>2
<1> QED BY <1>1, <1>2, <1>3 DEF HeadFacts

(* also after a step. *)
LEMMA HeadNext == Seeding' => HeadFacts'
BY HeadNow, PTL

(* So it is when the seeding goes on. *)
LEMMA SeedNext ==
    ASSUME Inv, Next, stage' = "seed"
    PROVE  HeadFacts' /\ plan' # <<>> /\ SeedPlan'
<1>1. PlanInv' /\ ShapeInv' /\ payload' \in Payloads
    BY PlanStep, ShapeStep, PlanCases DEF Inv, CdpInv, OwnReplies, TypeOK
<1>2. SeedPlan' /\ plan' # <<>>
    BY <1>1 DEF PlanInv
<1> QED BY <1>1, <1>2, HeadNext DEF Seeding

(* Reading while the seeding goes on. *)
LEMMA SeedRecv ==
    ASSUME Inv, recv, stage = "seed", stage' = "seed"
    PROVE  /\ awaiting # 0 /\ UNCHANGED <<payload, browser, answers>>
           /\ \/ UNCHANGED <<plan, awaiting, staleLoad>> /\ Done' = Done
              \/ RecvLoaded /\ awaiting' = 0 /\ Done' = Done + 1
              \/ /\ RecvReply /\ inbox[1].ok /\ inbox[1].m = Head(plan).m /\ awaiting' = 0
                 /\ Done' = Done + 1 \/ (Done' = Done /\ Done = -2)
<1>1. ShapeInv /\ TypeOK
    BY DEF Inv, CdpInv, OwnReplies
<1>2. /\ awaiting # 0 /\ UNCHANGED <<payload, browser, answers>>
      /\ RecvSkips \/ RecvPaused \/ RecvLoaded \/ RecvOk \/ RecvFails
    BY <1>1, RecvCases
<1>3. UNCHANGED apply_local_storage /\ payload \in Payloads /\ SeedPlan /\ plan # <<>>
    BY <1>2, Constant, SeedFacts
<1>4. CASE RecvSkips \/ RecvPaused
    <2>1. UNCHANGED <<plan, awaiting, staleLoad>>
        BY <1>4 DEF RecvSkips, RecvPaused, Fulfils
    <2> QED BY <1>2, <1>3, <2>1 DEF Done
<1>5. CASE RecvLoaded
    <2>1. Advances
        BY <1>5 DEF RecvLoaded
    <2>2. Done' = Done + 1 /\ awaiting' = 0
        BY <1>1, <1>2, <1>3, <2>1, SeedAdvances DEF Advances
    <2> QED BY <1>2, <1>5, <2>2
<1>6. CASE RecvOk
    <2>1. RecvReply /\ inbox[1].ok /\ (Advances \/ Repeats)
        BY <1>6 DEF RecvOk
    <2>2. inbox[1].m = Head(plan).m
        <3>1. inbox[1] \in Pipes
            BY <1>1, RecvPipes DEF Pipes
        <3> QED BY <1>2, <2>1, <3>1 DEF Inv, CdpInv, ReplyInv, RecvReply
    <2>3. Advances => Done' = Done + 1 /\ awaiting' = 0
        BY <1>1, <1>2, <1>3, SeedAdvances DEF Advances
    <2>4. Repeats => Done' = Done /\ Done = -2 /\ awaiting' = 0
        <3>1. Repeats => Done' = Done /\ Done = -2
            BY <1>1, <1>2, <1>3, SeedRepeats
        <3> QED BY <3>1 DEF Repeats
    <2> QED BY <1>2, <2>1, <2>2, <2>3, <2>4
<1>7. CASE RecvFails
    BY <1>7 DEF RecvFails, Ends
<1> QED BY <1>2, <1>4, <1>5, <1>6, <1>7

(* The cookies are set by the time their command is completed. *)
LEMMA CookieStep ==
    ASSUME Inv, Next
    PROVE  CookieInv'
<1>1. ShapeInv /\ TypeOK /\ BrowserShape(browser) /\ CookieInv
    BY DEF Inv, CdpInv, OwnReplies, ShapeInv
<1>2. UNCHANGED <<Seeded, apply_local_storage, seed_profile>>
    BY PlanCases, Constant
<1>3. ASSUME stage' = "launch" PROVE CookieInv'
    <2>1. stage = "launch" /\ (LoadFires \/ BrowserActs)
        BY <1>3, LaunchSteps
    <2>2. browser'.cookies = browser.cookies
        BY <1>1, <2>1 DEF LoadFires, BrowserActs, BrowserShape
    <2> QED BY <1>1, <1>2, <1>3, <2>1, <2>2 DEF CookieInv
<1>4. ASSUME stage' = "seed" PROVE CookieInv'
    <2>1. CASE create_seeded /\ Begin("seed", seed_profile, 1)
        <3>1. stage = "launch" /\ browser' = browser /\ plan' = seed_profile
            BY <2>1 DEF create_seeded, Begin
        <3>2. PICK k \in {2, 3} : k = Len(seed_profile) - Len(apply_local_storage) /\ (k = 2 => params = {})
            BY <1>1, SeedBegins DEF TypeOK
        <3>3. Len(seed_profile) \in Nat /\ Len(apply_local_storage) \in Nat
            BY <1>1, SeedBegins, LocalPlan, ListFacts DEF TypeOK
        <3>4. Done' = 0 - k
            BY <1>2, <3>1, <3>2, <3>3 DEF Done
        <3>5. k = 2 => Seeded = {}
            BY <3>2 DEF Seeded
        <3>6. Done' >= -2 => k = 2
            BY <3>4
        <3> QED BY <1>1, <1>2, <1>4, <3>1, <3>5, <3>6 DEF CookieInv
    <2>2. ASSUME stage = "seed" PROVE Done \in Int
        BY <2>2, SeedFacts, SeedHead
    <2>3. CASE stage = "seed" /\ recv
        <3>1. CASE Done' = Done
            BY <1>1, <1>2, <1>4, <2>3, <3>1, SeedRecv DEF CookieInv
        <3>2. CASE Done' # Done /\ Done = -3
            <4>1. Head(plan).m = "setCookies"
                BY <2>3, <3>2, SeedFacts, SeedMethod
            <4>2. RecvReply /\ inbox[1].ok /\ inbox[1].m = "setCookies" /\ browser' = browser
                BY <1>4, <2>3, <3>2, <4>1, SeedRecv DEF RecvLoaded
            <4>3. inbox[1] \in Pipes
                BY <1>1, <2>3, RecvPipes DEF Pipes
            <4>4. browser.cookies = Seeded
                BY <2>3, <4>2, <4>3 DEF Inv, CdpInv, ReplyInv
            <4> QED BY <1>2, <1>4, <4>2, <4>4 DEF CookieInv
        <3>3. CASE Done # -3
            <4>1. Done >= -2
                <5>1. Done \in -3..(Len(apply_local_storage) - 1) /\ Len(apply_local_storage) \in Nat
                    BY <2>3, SeedFacts, SeedHead, LocalPlan
                <5> QED BY <3>3, <5>1
            <4>2. browser' = browser
                BY <1>4, <2>3, SeedRecv
            <4> QED BY <1>1, <1>2, <1>4, <2>3, <4>1, <4>2 DEF CookieInv
        <3> QED BY <3>1, <3>2, <3>3
    <2>4. CASE stage = "seed" /\ (send \/ Answer \/ LoadFires \/ BrowserActs)
        <3>1. plan' = plan /\ browser'.cookies = browser.cookies
            <4>1. Head(plan).m # "close"
                BY <2>4, SeedFacts, SeedMethod
            <4> QED BY <1>1, <2>4, <4>1 DEF send, Answer, LoadFires, BrowserActs, BrowserShape, server
        <3>2. Done' = Done
            BY <1>2, <3>1 DEF Done
        <3> QED BY <1>1, <1>2, <1>4, <2>4, <3>1, <3>2 DEF CookieInv
    <2>5. CASE stage = "seed" /\ Dispatch
        <3>1. UNCHANGED plan /\ Done' = Done /\ (Takes \/ Refuses)
            BY <1>1, <1>2, <2>5, DispatchCases DEF Done
        <3>2. browser'.cookies = browser.cookies \/ browser'.cookies = Seeded
            BY <2>5, <3>1, SeedTakes DEF Refuses
        <3> QED BY <1>1, <1>2, <1>4, <2>5, <3>1, <3>2 DEF CookieInv
    <2> QED BY <1>4, <2>1, <2>3, <2>4, <2>5, SeedSteps
<1> QED BY <1>3, <1>4 DEF CookieInv

(* A load that is the awaited one, when the seeding goes on. *)
LEMMA LoadedRight ==
    ASSUME Inv, Next, recv, stage = "seed", stage' = "seed", RecvLoaded, ~staleLoad'
    PROVE  /\ ~staleLoad /\ 1 \in Loads /\ Loads = {1} /\ browser.loading = "none"
           /\ \E k \in DOMAIN payload.local : Done = 2 * k /\ browser.doc = Origin(k).origin
<1>1. Head(plan).m = "navigate" /\ inbox[1].m = "loadEventFired" /\ inbox[1].data = Head(plan).arg /\ ~staleLoad
      /\ plan' = Tail(plan) /\ UNCHANGED payload
    BY PlanCases DEF RecvLoaded, Advances
<1>2. ~(Done = Len(apply_local_storage) - 1)
    <2>1. Done' = Done + 1
        BY <1>1, SeedFacts, SeedAdvances
    <2>2. Done' <= Len(apply_local_storage) - 1
        BY <1>1, SeedNext, Constant DEF HeadFacts
    <2>3. Len(apply_local_storage) \in Nat
        BY SeedFacts, LocalPlan
    <2> QED BY <2>1, <2>2, <2>3
<1>3. PICK k \in DOMAIN payload.local : Done = 2 * k /\ Head(plan).arg = Origin(k).origin
    BY <1>1, <1>2, SeedFacts, SeedMethod
<1>4. 1 \in Loads
    <2>1. 1 \in DOMAIN inbox
        BY RecvPipes DEF Inv, CdpInv, OwnReplies
    <2>2. Origin(k).origin # "blank"
        BY SeedFacts, PayloadFacts
    <2> QED BY <1>1, <1>3, <2>1, <2>2 DEF Loads
<1>5. browser.doc = inbox[1].data /\ browser.loading = "none" /\ Loads = {1}
    BY <1>1, <1>4 DEF Inv, CdpInv, LoadInv
<1> QED BY <1>1, <1>3, <1>4, <1>5

(* The scripts run where and when they should. *)
LEMMA RowStep ==
    ASSUME Inv, Next
    PROVE  RowInv'
<1>1. ShapeInv /\ TypeOK /\ BrowserShape(browser) /\ IsList(sent)
    BY DEF Inv, CdpInv, OwnReplies, ShapeInv
<1>2. UNCHANGED <<Seeded, apply_local_storage, seed_profile, payload>> /\ (\A v : Written(v)' = Written(v))
      /\ (\A i : Origin(i)' = Origin(i))
    BY PlanCases, Constant
<1>3. ASSUME stage' = "launch" PROVE RowInv'
    <2>1. stage = "launch" /\ (LoadFires \/ BrowserActs)
        BY <1>3, LaunchSteps
    <2>2. browser'.rows = browser.rows /\ browser'.events = browser.events
        BY <1>1, <2>1 DEF LoadFires, BrowserActs, BrowserShape
    <2> QED BY <1>3, <2>1, <2>2 DEF RowInv, Inv, CdpInv
<1>4. ASSUME stage = "seed" PROVE RowInv /\ Done \in Int /\ payload \in Payloads
    BY <1>4, SeedFacts, SeedHead DEF Inv, CdpInv
<1>5. ASSUME stage' = "seed" PROVE RowInv'
    <2>1. CASE create_seeded /\ Begin("seed", seed_profile, 1)
        <3>1. stage = "launch" /\ browser' = browser /\ plan' = seed_profile
            BY <2>1 DEF create_seeded, Begin
        <3>2. PICK k \in {2, 3} : k = Len(seed_profile) - Len(apply_local_storage)
            BY <1>1, SeedBegins DEF TypeOK
        <3>3. Len(seed_profile) \in Nat /\ Len(apply_local_storage) \in Nat
            BY <1>1, SeedBegins, LocalPlan, ListFacts DEF TypeOK
        <3>4. Done' = 0 - k
            BY <1>2, <3>1, <3>2, <3>3 DEF Done
        <3>5. Done' < 0 /\ Done' \in Int
            BY <3>4
        <3>6. Written(Done') = {}
            <4>1. payload \in Payloads
                BY <1>1 DEF TypeOK
            <4>2. \A i \in DOMAIN payload.local : i \in Nat
                BY <4>1, LocalIndex
            <4>3. \A i \in DOMAIN payload.local : ~(2 * i + 2 <= Done')
                BY <3>5, <4>2
            <4> QED BY <4>3 DEF Written
        <3>7. browser.rows = {}
            BY <3>1 DEF Inv, CdpInv, RowInv
        <3>8. Head(plan').m # "evaluate"
            <4>1. HeadFacts'
                BY <1>5, SeedNext
            <4>2. payload \in Payloads
                BY <1>1 DEF TypeOK
            <4>3. \A i \in DOMAIN payload.local : i \in Nat
                BY <4>2, LocalIndex
            <4>4. \A i \in DOMAIN payload.local : Done' # 2 * i + 1
                BY <3>5, <4>3
            <4> QED BY <1>2, <4>1, <4>4 DEF HeadFacts
        <3>9. Written(Done)' = {}
            BY <1>2, <3>6 DEF Written
        <3> QED BY <1>5, <3>1, <3>5, <3>7, <3>8, <3>9 DEF RowInv
    <2>2. CASE stage = "seed" /\ send
        <3>1. UNCHANGED <<plan, browser, staleLoad>> /\ awaiting = 0 /\ Done' = Done
            <4>1. Head(plan).m # "close"
                BY <2>2, SeedFacts, SeedMethod
            <4> QED BY <1>2, <2>2, <4>1 DEF send, history, Done
        <3>2. Written(Done)' = Written(Done)
            BY <1>2, <3>1 DEF Written
        <3> QED BY <1>2, <1>4, <1>5, <2>2, <3>1, <3>2 DEF RowInv
    <2>3. CASE stage = "seed" /\ recv
        <3>1. browser' = browser /\ awaiting # 0
            BY <1>5, <2>3, SeedRecv
        <3>2. CASE UNCHANGED <<plan, awaiting, staleLoad>> /\ Done' = Done
            <4>1. Extends(sent, sent', With(next_id, "server", Command("fulfillRequest", "none")))
                BY <1>1, <2>3, RecvPipes
            <4>2. With(next_id, "server", Command("fulfillRequest", "none")).m = "fulfillRequest"
                BY DEF With, Command
            <4>3. (\E i \in DOMAIN sent' : sent'[i].m = "evaluate") => \E i \in DOMAIN sent : sent[i].m = "evaluate"
                BY <4>1, <4>2 DEF Extends
            <4>4. Written(Done)' = Written(Done)
                BY <1>2, <3>2 DEF Written
            <4> QED BY <1>2, <1>4, <1>5, <2>3, <3>1, <3>2, <4>3, <4>4 DEF RowInv
        <3>3. CASE RecvLoaded /\ awaiting' = 0 /\ Done' = Done + 1
            <4>1. Head(plan).m = "navigate"
                BY <3>3 DEF RecvLoaded
            <4>2. Done >= 0
                BY <2>3, <4>1, SeedFacts, HeadNow DEF Seeding, HeadFacts
            <4>3. ASSUME ~staleLoad' PROVE browser.rows = Written(Done')
                <5>1. ~staleLoad
                    BY <3>3, <4>3 DEF RecvLoaded
                <5>2. browser.rows = Written(Done)
                    BY <1>4, <2>3, <4>1, <5>1 DEF RowInv
                <5>3. \A i \in DOMAIN payload.local : Done # 2 * i + 1
                    BY <2>3, <4>1, SeedFacts, SeedMethod
                <5> QED BY <1>4, <2>3, <3>3, <5>2, <5>3, WrittenSame
            <4>4. ASSUME ~staleLoad', Head(plan').m = "evaluate"
                  PROVE  /\ browser.loading = "none"
                         /\ \E i \in DOMAIN payload.local : Done' + 1 = 2 * i + 2 /\ browser.doc = Origin(i).origin
                <5>1. PICK k \in DOMAIN payload.local : Done = 2 * k /\ browser.doc = Origin(k).origin
                    BY <1>5, <2>3, <3>3, <4>4, LoadedRight
                <5>2. browser.loading = "none"
                    BY <1>5, <2>3, <3>3, <4>4, LoadedRight
                <5>3. Done' + 1 = 2 * k + 2
                    <6>1. k \in Nat
                        BY <1>4, <2>3, LocalPlan
                    <6>2. (2 * k + 1) + 1 = 2 * k + 2
                        BY <6>1
                    <6> QED BY <3>3, <5>1, <6>2
                <5> QED BY <5>1, <5>2, <5>3
            <4>5. browser.page
                BY <1>4, <2>3, <4>2 DEF RowInv
            <4>6. Written(Done)' = Written(Done')
                BY <1>2 DEF Written
            <4> QED BY <1>2, <1>5, <3>1, <4>3, <4>4, <4>5, <4>6 DEF RowInv
        <3>4. CASE /\ RecvReply /\ inbox[1].ok /\ inbox[1].m = Head(plan).m /\ awaiting' = 0
                   /\ Done' = Done + 1 \/ (Done' = Done /\ Done = -2)
            <4>1. inbox[1] \in Pipes /\ inbox[1].id = awaiting /\ UNCHANGED staleLoad /\ Head(plan).m # "navigate"
                BY <1>1, <2>3, <3>4, RecvPipes DEF Pipes, RecvReply
            <4>2. Done' >= 0 => browser.page
                <5>1. CASE Done >= 0
                    BY <1>4, <2>3, <5>1 DEF RowInv
                <5>2. CASE Done = -1
                    <6>1. Head(plan).m = "attachToTarget"
                        BY <2>3, <5>2, SeedFacts, SeedMethod
                    <6> QED BY <2>3, <3>4, <4>1, <6>1 DEF Inv, CdpInv, ReplyInv
                <5>3. Done < -1 => Done' < 0
                    BY <1>4, <2>3, <3>4
                <5>4. Done \in Int /\ Done' \in Int
                    BY <1>4, <2>3, <3>4
                <5>5. Done >= 0 \/ Done = -1 \/ Done < -1
                    BY <5>4
                <5>6. Done' >= 0 => ~(Done < -1)
                    BY <5>3, <5>4
                <5> QED BY <5>1, <5>2, <5>5, <5>6
            <4>3. ASSUME ~staleLoad PROVE browser.rows = Written(Done')
                <5>1. CASE Head(plan).m = "evaluate"
                    <6>1. browser.rows = Written(Done + 1)
                        BY <2>3, <3>1, <3>4, <4>1, <4>3, <5>1 DEF Inv, CdpInv, ReplyInv
                    <6>2. Done # -2
                        BY <2>3, <5>1, SeedFacts, SeedMethod
                    <6> QED BY <3>4, <6>1, <6>2
                <5>2. CASE Head(plan).m # "evaluate"
                    <6>1. browser.rows = Written(Done)
                        BY <1>4, <2>3, <4>3, <5>2 DEF RowInv
                    <6>2. \A i \in DOMAIN payload.local : Done # 2 * i + 1
                        BY <2>3, <5>2, SeedFacts, SeedMethod
                    <6>3. Written(Done + 1) = Written(Done)
                        BY <1>4, <2>3, <6>2, WrittenSame
                    <6> QED BY <3>4, <6>1, <6>3
                <5> QED BY <5>1, <5>2
            <4>4. Head(plan').m # "evaluate"
                <5>1. Head(plan').m = "evaluate" => \E k \in DOMAIN payload.local : Done' = 2 * k + 1
                    BY <1>2, <1>5, SeedNext DEF HeadFacts
                <5>2. ASSUME NEW k \in DOMAIN payload.local, Done' = 2 * k + 1 PROVE FALSE
                    <6>1. k \in Nat /\ k >= 1 /\ k \in 1..Len(payload.local) /\ Len(payload.local) \in Nat
                        BY <1>4, <2>3, LocalPlan
                    <6>2. Done = 2 * k
                        BY <1>4, <2>3, <3>4, <5>2, <6>1
                    <6>3. Head(plan) = apply_local_storage[2 * k + 1] /\ Len(payload.local) > 0
                        <7>1. Done >= 0 => Head(plan) = apply_local_storage[Done + 1]
                            BY <2>3, SeedFacts, SeedHead
                        <7>2. Done >= 0 /\ Len(payload.local) > 0
                            BY <6>1, <6>2
                        <7> QED BY <6>2, <7>1, <7>2
                    <6>4. apply_local_storage[2 * k + 1] = Command("navigate", Origin(k).origin)
                        BY <1>4, <2>3, <6>1, <6>3, LocalPlan
                    <6> QED BY <4>1, <6>3, <6>4 DEF Command
                <5> QED BY <5>1, <5>2
            <4>5. Written(Done)' = Written(Done')
                BY <1>2 DEF Written
            <4> QED BY <1>2, <1>5, <3>1, <4>1, <4>2, <4>3, <4>4, <4>5 DEF RowInv
        <3> QED BY <1>5, <2>3, <3>2, <3>3, <3>4, SeedRecv
    <2>4. CASE stage = "seed" /\ Dispatch
        <3>1. UNCHANGED <<awaiting, plan, staleLoad>> /\ Done' = Done /\ (Takes \/ Refuses)
            BY <1>1, <1>2, <2>4, DispatchCases DEF Done
        <3>2. 1 \in DOMAIN sent /\ \A i \in DOMAIN sent' : i + 1 \in DOMAIN sent /\ i + 1 # 1 /\ sent'[i] = sent[i + 1]
            BY <1>1, <2>4, DispatchPipes DEF Follows
        <3>3. Written(Done)' = Written(Done)
            BY <1>2, <3>1 DEF Written
        <3>4. CASE Refuses
            <4>1. browser' = browser
                BY <3>4 DEF Refuses
            <4> QED BY <1>2, <1>4, <1>5, <2>4, <3>1, <3>2, <3>3, <4>1 DEF RowInv
        <3>5. CASE Takes
            <4>1. /\ sent[1].m # "evaluate" => browser'.rows = browser.rows
                  /\ browser.page => browser'.page
                BY <2>4, <3>5, SeedTakes
            <4>2. ASSUME ~staleLoad, sent[1].m = "evaluate"
                  PROVE  awaiting # 0 /\ Head(plan).m = "evaluate" /\ \A i \in DOMAIN sent' : sent'[i].m # "evaluate"
                <5>1. \A i \in DOMAIN sent : sent[i].m = "evaluate" => Awaited(sent[i])
                    BY <2>4 DEF Inv, CdpInv, SentInv
                <5>2. \A i \in DOMAIN sent : i # 1 => sent[i].id # sent[1].id
                    BY <2>4, <3>2 DEF Inv, CdpInv, UniqueInv
                <5> QED BY <3>2, <4>2, <5>1, <5>2 DEF Awaited
            <4>3. ASSUME ~staleLoad, Head(plan).m = "evaluate"
                  PROVE  browser'.loading = browser.loading /\ browser'.doc = browser.doc
                <5>1. sent[1].m \in {"fulfillRequest", "evaluate"}
                    BY <2>4, <3>2, <4>3 DEF Inv, CdpInv, SentInv, Awaited
                <5>2. browser' = Effect(sent[1])
                    BY <3>5 DEF Takes
                <5> QED BY <1>1, <5>1, <5>2, EffectFields
            <4> QED BY <1>2, <1>4, <1>5, <2>4, <3>1, <3>2, <3>3, <4>1, <4>2, <4>3 DEF RowInv
        <3> QED BY <3>1, <3>4, <3>5
    <2>5. CASE stage = "seed" /\ (Answer \/ LoadFires \/ BrowserActs)
        <3>1. UNCHANGED <<awaiting, plan, staleLoad, sent>> /\ Done' = Done
            BY <1>2, <2>5 DEF Answer, LoadFires, BrowserActs, server, history, Done
        <3>2. browser'.rows = browser.rows /\ (browser.page => browser'.page)
            BY <1>1, <2>5 DEF Answer, LoadFires, BrowserActs, BrowserShape
        <3>3. Written(Done)' = Written(Done)
            BY <1>2, <3>1 DEF Written
        <3>4. ASSUME browser.loading = "none", browser.page PROVE browser'.loading = "none" /\ browser'.doc = browser.doc
            BY <1>1, <2>5, <3>4 DEF Answer, LoadFires, BrowserActs, BrowserShape
        <3>5. ASSUME Head(plan).m = "evaluate" PROVE browser.page
            <4>1. PICK k \in DOMAIN payload.local : Done = 2 * k + 1
                BY <2>5, <3>5, SeedFacts, SeedMethod
            <4>2. Done >= 0
                <5>1. k \in Nat
                    BY <1>4, <2>5, LocalPlan
                <5>2. 2 * k + 1 >= 0
                    BY <5>1
                <5> QED BY <4>1, <5>2
            <4> QED BY <1>4, <2>5, <4>2 DEF RowInv
        <3> QED BY <1>2, <1>4, <1>5, <2>5, <3>1, <3>2, <3>3, <3>4, <3>5 DEF RowInv
    <2> QED BY <1>5, <2>1, <2>2, <2>3, <2>4, <2>5, SeedSteps
<1> QED BY <1>3, <1>5 DEF RowInv

(* The reports of loads that a step leaves, or adds, in the pipe. *)
LEMMA LoadsFollow ==
    ASSUME Follows(inbox, inbox')
    PROVE  \A i \in Loads' : i \in Nat /\ i + 1 \in Loads /\ i + 1 # 1 /\ inbox'[i] = inbox[i + 1]
BY DEF Follows, Loads

(* An element that reports no such load changes none of them. *)
LEMMA LoadsExtend ==
    ASSUME NEW e, Extends(inbox, inbox', e), e.m # "loadEventFired" \/ e.data = "blank"
    PROVE  Loads' = Loads /\ \A i \in Loads : inbox'[i] = inbox[i]
BY DEF Extends, Loads

(* A load is reported once, while it is waited for. *)
LEMMA LoadStep ==
    ASSUME Inv, Next
    PROVE  LoadInv'
<1>1. ShapeInv /\ TypeOK /\ BrowserShape(browser) /\ IsList(sent) /\ IsList(inbox) /\ LoadInv
    BY DEF Inv, CdpInv, OwnReplies, ShapeInv
<1>2. ASSUME stage' = "launch" PROVE LoadInv'
    <2>1. stage = "launch" /\ (LoadFires \/ BrowserActs) /\ answers = {} /\ inbox = <<>>
        BY <1>2, LaunchSteps
    <2>2. ~browser.events /\ browser.loading \in {"none", "blank"}
        BY <2>1 DEF Inv, CdpInv, RowInv, LoadInv
    <2>3. inbox' = <<>> /\ answers' = {} /\ browser'.loading \in {"none", "blank"}
        BY <1>1, <2>1, <2>2 DEF LoadFires, BrowserActs, BrowserShape
    <2> QED BY <1>2, <2>3 DEF LoadInv
<1>3. ASSUME stage' = "seed" PROVE LoadInv'
    <2>1. CASE create_seeded /\ Begin("seed", seed_profile, 1)
        <3>1. stage = "launch" /\ UNCHANGED <<browser, answers, inbox>>
            BY <2>1 DEF create_seeded
        <3>2. answers = {} /\ DOMAIN inbox = {} /\ browser.loading \in {"none", "blank"}
            BY <1>1, <3>1, LaunchFacts DEF LoadInv
        <3>3. Loads' = {}
            BY <3>1, <3>2 DEF Loads
        <3> QED BY <1>3, <3>1, <3>2, <3>3 DEF LoadInv
    <2>2. ASSUME stage = "seed", ~Navigated, ~staleLoad
          PROVE  browser.loading \in {"none", "blank"} /\ Loads = {}
        BY <1>1, <2>2 DEF LoadInv
    <2>3. CASE stage = "seed" /\ send
        <3>1. UNCHANGED <<browser, staleLoad, answers, inbox>> /\ awaiting = 0
            BY <2>3 DEF send, history
        <3>2. Loads' = Loads /\ ~Navigated
            BY <3>1 DEF Loads, Navigated
        <3> QED BY <1>1, <1>3, <2>2, <2>3, <3>1, <3>2 DEF LoadInv
    <2>4. CASE stage = "seed" /\ recv
        <3>1. awaiting # 0 /\ UNCHANGED <<browser, answers>>
            BY <1>3, <2>4, SeedRecv
        <3>2. \A i \in Loads' : i \in Nat /\ i + 1 \in Loads /\ i + 1 # 1 /\ inbox'[i] = inbox[i + 1]
            BY <1>1, <2>4, RecvPipes, LoadsFollow
        <3>3. CASE UNCHANGED <<plan, awaiting, staleLoad>> /\ Done' = Done
            <4>1. Extends(sent, sent', With(next_id, "server", Command("fulfillRequest", "none")))
                BY <1>1, <2>4, RecvPipes
            <4>2. With(next_id, "server", Command("fulfillRequest", "none")).m = "fulfillRequest"
                BY DEF With, Command
            <4>3. Navigated => Navigated'
                BY <3>3, <4>1, <4>2 DEF Extends, Navigated
            <4>4. ASSUME ~staleLoad, NEW i \in Loads', NEW j \in Loads' PROVE i = j
                <5>1. Loads = {i + 1} /\ j + 1 \in Loads /\ i \in Nat /\ j \in Nat
                    BY <1>1, <2>4, <3>2, <4>4 DEF LoadInv
                <5> QED BY <5>1
            <4>5. ASSUME ~staleLoad, NEW i \in Loads'
                  PROVE  /\ Navigated' /\ Head(plan').arg = inbox'[i].data
                         /\ browser'.doc = inbox'[i].data /\ browser'.loading = "none"
                BY <1>1, <2>4, <3>1, <3>2, <3>3, <4>3, <4>5 DEF LoadInv
            <4>6. ASSUME ~staleLoad, browser'.loading \notin {"none", "blank"}
                  PROVE  Navigated' /\ Head(plan').arg = browser'.loading /\ Loads' = {}
                BY <1>1, <2>4, <3>1, <3>2, <3>3, <4>3, <4>6 DEF LoadInv
            <4>7. \A a \in answers' : a.m # "loadEventFired"
                BY <1>1, <2>4, <3>1 DEF LoadInv
            <4> QED BY <1>3, <3>3, <4>4, <4>5, <4>6, <4>7 DEF LoadInv
        <3>4. CASE RecvLoaded
            <4>1. ASSUME ~staleLoad' PROVE Loads' = {} /\ browser'.loading = "none"
                <5>1. Loads = {1} /\ browser.loading = "none"
                    BY <1>3, <2>4, <3>4, <4>1, LoadedRight
                <5> QED BY <3>1, <3>2, <5>1
            <4>2. \A a \in answers' : a.m # "loadEventFired"
                BY <1>1, <2>4, <3>1 DEF LoadInv
            <4> QED BY <1>3, <4>1, <4>2 DEF LoadInv
        <3>5. CASE RecvReply
            <4>1. ~Navigated /\ UNCHANGED staleLoad
                BY <3>5 DEF RecvReply, Navigated
            <4>2. ASSUME ~staleLoad' PROVE Loads' = {} /\ browser'.loading \in {"none", "blank"}
                BY <2>2, <2>4, <3>1, <3>2, <4>1, <4>2
            <4>3. \A a \in answers' : a.m # "loadEventFired"
                BY <1>1, <2>4, <3>1 DEF LoadInv
            <4> QED BY <1>3, <4>2, <4>3 DEF LoadInv
        <3> QED BY <1>3, <2>4, <3>3, <3>4, <3>5, SeedRecv
    <2>5. CASE stage = "seed" /\ Dispatch
        <3>1. UNCHANGED <<awaiting, plan, staleLoad>> /\ (Takes \/ Refuses)
            BY <1>1, <2>5, DispatchCases
        <3>2. 1 \in DOMAIN sent /\ \A i \in DOMAIN sent' : i + 1 \in DOMAIN sent /\ i + 1 # 1 /\ sent'[i] = sent[i + 1]
            BY <1>1, <2>5, DispatchPipes DEF Follows
        <3>3. Loads' = Loads /\ \A i \in Loads : inbox'[i] = inbox[i]
            <4>1. Extends(inbox, inbox', Event("requestPaused", sent[1].arg))
                BY <1>1, <2>5, DispatchPipes
            <4>2. Event("requestPaused", sent[1].arg).m = "requestPaused"
                BY DEF Event
            <4> QED BY <4>1, <4>2, LoadsExtend
        <3>4. \/ Awaited(sent[1])
              \/ sent[1].m = "fulfillRequest" \/ (sent[1].m = "navigate" /\ staleLoad)
            BY <2>5, <3>2 DEF Inv, CdpInv, SentInv
        <3>5. \A a \in answers' : a.m # "loadEventFired"
            <4>1. sent[1].m # "loadEventFired"
                BY <2>5, <3>4, SeedFacts, SeedMethod DEF Awaited
            <4>2. PICK ok \in BOOLEAN : answers' = answers \cup {Reply(sent[1], ok)}
                BY <1>1, <2>5, DispatchPipes
            <4>3. Reply(sent[1], ok).m = sent[1].m
                BY DEF Reply
            <4> QED BY <1>1, <2>5, <4>1, <4>2, <4>3 DEF LoadInv
        <3>6. Navigated => Navigated'
            BY <3>1, <3>2 DEF Navigated
        <3>7. CASE browser'.loading = browser.loading /\ browser'.doc = browser.doc
            BY <1>1, <1>3, <2>5, <3>1, <3>3, <3>5, <3>6, <3>7 DEF LoadInv
        <3>8. CASE Refuses
            BY <3>7, <3>8 DEF Refuses
        <3>9. CASE Takes /\ sent[1].m = "createTarget"
            <4>1. ~Navigated
                BY <3>4, <3>9 DEF Awaited, Navigated
            <4>2. browser'.loading = "blank"
                BY <1>1, <3>9, EffectFields DEF Takes
            <4> QED BY <1>3, <2>2, <2>5, <3>1, <3>3, <3>5, <4>1, <4>2 DEF LoadInv
        <3>10. CASE Takes /\ sent[1].m = "navigate"
            <4>1. ASSUME ~staleLoad PROVE Navigated' /\ Head(plan').arg = browser'.loading /\ Loads' = {}
                <5>1. \A i \in DOMAIN sent : sent[i].m = "navigate" => Awaited(sent[i])
                    BY <2>5, <4>1 DEF Inv, CdpInv, SentInv
                <5>2. Awaited(sent[1])
                    BY <3>2, <3>10, <5>1
                <5>3. \A i \in DOMAIN sent : i # 1 => sent[i].id # sent[1].id
                    BY <2>5, <3>2 DEF Inv, CdpInv, UniqueInv
                <5>4. \A i \in DOMAIN sent' : sent'[i].m # "navigate"
                    BY <3>2, <5>1, <5>2, <5>3 DEF Awaited
                <5>5. ~Navigated
                    BY <3>2, <3>10 DEF Navigated
                <5>6. browser'.loading = sent[1].arg
                    BY <1>1, <3>10, EffectFields DEF Takes
                <5>7. awaiting # 0 /\ Head(plan).m = "navigate" /\ Head(plan).arg = sent[1].arg
                    BY <3>10, <5>2 DEF Awaited
                <5>8. Navigated'
                    BY <3>1, <5>4, <5>7 DEF Navigated
                <5>9. Loads' = {}
                    BY <2>2, <2>5, <3>3, <4>1, <5>5
                <5> QED BY <3>1, <5>6, <5>7, <5>8, <5>9
            <4> QED BY <1>3, <3>1, <3>5, <4>1 DEF LoadInv
        <3>11. CASE Takes /\ sent[1].m \notin {"createTarget", "navigate"}
            <4>1. browser'.loading = browser.loading /\ browser'.doc = browser.doc
                BY <1>1, <3>11, EffectFields DEF Takes
            <4> QED BY <3>7, <4>1
        <3> QED BY <3>1, <3>8, <3>9, <3>10, <3>11
    <2>6. CASE stage = "seed" /\ Answer
        <3>1. PICK a \in answers : answers' = answers \ {a} /\ inbox' = Append(inbox, a)
            BY <2>6 DEF Answer
        <3>2. a.m # "loadEventFired"
            BY <1>1, <2>6 DEF LoadInv
        <3>3. Loads' = Loads /\ \A i \in Loads : inbox'[i] = inbox[i]
            BY <1>1, <3>1, <3>2, Extended, LoadsExtend
        <3>4. UNCHANGED <<plan, awaiting, sent, browser, staleLoad>>
            BY <2>6 DEF Answer, server, history
        <3>5. Navigated' <=> Navigated
            BY <3>4 DEF Navigated
        <3> QED BY <1>1, <1>3, <2>6, <3>1, <3>3, <3>4, <3>5 DEF LoadInv
    <2>7. CASE stage = "seed" /\ LoadFires
        <3>1. /\ UNCHANGED <<plan, awaiting, sent, answers, staleLoad>> /\ browser.loading # "none"
              /\ browser'.doc = browser.loading /\ browser'.loading = "none"
              /\ inbox' = inbox \/ inbox' = Append(inbox, Event("loadEventFired", browser.loading))
            BY <1>1, <2>7 DEF LoadFires, server, history, BrowserShape
        <3>2. Navigated' <=> Navigated
            BY <3>1 DEF Navigated
        <3>3. Extends(inbox, inbox', Event("loadEventFired", browser.loading))
            BY <1>1, <3>1, Extended
        <3>4. /\ Event("loadEventFired", browser.loading).m = "loadEventFired"
              /\ Event("loadEventFired", browser.loading).data = browser.loading
            BY DEF Event
        <3>5. ~staleLoad => Loads = {}
            BY <1>1, <2>7, <3>1 DEF LoadInv
        <3>6. CASE browser.loading = "blank"
            <4>1. Loads' = Loads
                BY <3>3, <3>4, <3>6, LoadsExtend
            <4> QED BY <1>1, <1>3, <2>7, <3>1, <3>5, <4>1 DEF LoadInv
        <3>7. CASE browser.loading # "blank"
            <4>1. ASSUME ~staleLoad, NEW i \in Loads' PROVE i = Len(inbox) + 1 /\ inbox'[i].data = browser.loading
                BY <3>3, <3>4, <3>5, <4>1 DEF Loads, Extends
            <4>2. ASSUME ~staleLoad PROVE Navigated' /\ Head(plan').arg = browser.loading
                BY <1>1, <2>7, <3>1, <3>2, <3>7, <4>2 DEF LoadInv
            <4>3. ASSUME ~staleLoad, NEW i \in Loads' PROVE Loads' = {i}
                BY <4>1, <4>3
            <4> QED BY <1>1, <1>3, <2>7, <3>1, <4>1, <4>2, <4>3 DEF LoadInv
        <3> QED BY <3>6, <3>7
    <2>8. CASE stage = "seed" /\ BrowserActs
        <3>1. /\ UNCHANGED <<plan, awaiting, sent, answers, inbox, staleLoad>> /\ browser'.doc = browser.doc
              /\ browser'.loading = browser.loading \/ (browser'.loading = "blank" /\ ~browser.page)
            BY <1>1, <2>8 DEF BrowserActs, server, history, BrowserShape
        <3>2. Loads' = Loads /\ (Navigated' <=> Navigated)
            BY <3>1 DEF Loads, Navigated
        <3>3. ~browser.page => ~Navigated
            <4>1. ~browser.page => ~(Done >= 0)
                BY <2>8 DEF Inv, CdpInv, RowInv
            <4>2. Head(plan).m = "navigate" => Done >= 0
                BY <2>8, SeedFacts, HeadNow DEF Seeding, HeadFacts
            <4> QED BY <4>1, <4>2 DEF Navigated
        <3>4. CASE browser'.loading = browser.loading
            BY <1>1, <1>3, <2>8, <3>1, <3>2, <3>4 DEF LoadInv
        <3>5. CASE browser'.loading = "blank" /\ ~browser.page
            BY <1>1, <1>3, <2>2, <2>8, <3>1, <3>2, <3>3, <3>5 DEF LoadInv
        <3> QED BY <3>1, <3>4, <3>5
    <2> QED BY <1>3, <2>1, <2>3, <2>4, <2>5, <2>6, <2>7, <2>8, SeedSteps
<1> QED BY <1>2, <1>3 DEF LoadInv

(* A session that has ended does nothing more, and only its end deposits. *)
LEMMA StillOpen ==
    ASSUME Inv, Next
    PROVE  /\ stage # "ended" /\ ~captured.deposit
           /\ captured'.deposit => destroy_capturing_native
           /\ staleLoad => staleLoad'
           /\ create_seeded \/ UNCHANGED files
<1>1. ShapeInv /\ TypeOK /\ CapturedShape(captured)
    BY DEF Inv, CdpInv, OwnReplies, ShapeInv
<1>2. stage = "ended" => plan = <<>> /\ awaiting = 0
    BY DEF Inv, CdpInv, PlanInv
<1>3. stage # "ended"
    BY <1>2 DEF Next, create_seeded, send, recv, PipeClosed, CleanupTimeout, Dispatch, Answer, LoadFires,
           BrowserActs, Works, ClientSends, Forward, serve_profile, destroy_capturing_native
<1>4. ~captured.deposit
    BY <1>3 DEF Inv, CdpInv, CaptureInv
<1>5. CASE recv
    <2>1. RecvSkips \/ RecvPaused \/ RecvLoaded \/ RecvOk \/ RecvFails
        BY <1>1, <1>5, RecvCases
    <2>2. staleLoad => staleLoad'
        BY <2>1 DEF RecvSkips, RecvPaused, RecvLoaded, RecvOk, RecvFails, RecvReply
    <2>3. captured'.deposit = captured.deposit
        BY <1>1, <2>1 DEF RecvSkips, RecvPaused, RecvLoaded, RecvOk, RecvFails, CapturedShape
    <2>4. UNCHANGED files
        BY <1>5 DEF recv
    <2> QED BY <1>3, <1>4, <2>2, <2>3, <2>4
<1>6. CASE create_seeded \/ send \/ PipeClosed \/ CleanupTimeout
    <2>1. UNCHANGED <<staleLoad, captured>> /\ (create_seeded \/ UNCHANGED files)
        BY <1>6 DEF create_seeded, send, PipeClosed, CleanupTimeout, Failed, history
    <2> QED BY <1>3, <1>4, <2>1
<1>7. CASE Dispatch \/ Answer \/ LoadFires \/ BrowserActs \/ ClientSends \/ Forward \/ serve_profile
    <2>1. UNCHANGED <<staleLoad, captured, files>>
        BY <1>7 DEF Dispatch, Answer, LoadFires, BrowserActs, ClientSends, Forward, serve_profile, history
    <2> QED BY <1>3, <1>4, <2>1
<1>8. CASE destroy_capturing_native
    BY <1>3, <1>4, <1>8 DEF destroy_capturing_native, history
<1> QED BY <1>5, <1>6, <1>7, <1>8 DEF Next

(* Only a command that the browser takes changes what it holds. *)
LEMMA HoldsStill ==
    ASSUME Inv, Next
    PROVE  \/ Dispatch /\ Takes
           \/ browser'.cookies = browser.cookies /\ browser'.rows = browser.rows /\ UNCHANGED changed
<1>1. ShapeInv /\ TypeOK /\ BrowserShape(browser)
    BY DEF Inv, CdpInv, OwnReplies, ShapeInv
<1>2. CASE create_seeded \/ send \/ recv \/ PipeClosed \/ CleanupTimeout \/ Answer
    BY <1>2 DEF create_seeded, send, recv, PipeClosed, CleanupTimeout, Answer, history
<1>3. CASE LoadFires \/ BrowserActs \/ destroy_capturing_native
    BY <1>1, <1>3 DEF LoadFires, BrowserActs, destroy_capturing_native, history, BrowserShape
<1>4. CASE ClientSends \/ Forward \/ serve_profile
    BY <1>4 DEF ClientSends, Forward, serve_profile, history
<1>5. CASE Dispatch
    BY <1>1, <1>5, DispatchCases DEF Refuses
<1> QED BY <1>2, <1>3, <1>4, <1>5 DEF Next

(* How the seeding ends well: with the last command of its plan. *)
LEMMA HandsOver ==
    ASSUME Inv, Next, stage = "seed", stage' \in {"bridged", "cleaning", "capture", "closing"}
    PROVE  /\ recv /\ stage' = "bridged" /\ awaiting # 0
           /\ RecvLoaded \/ RecvReply
           /\ Done = Len(apply_local_storage) - 1
           /\ Head(plan).m \in {"navigate", "attachToTarget"}
<1>1. ShapeInv /\ TypeOK /\ payload \in Payloads /\ SeedPlan /\ plan # <<>> /\ IsList(plan)
    BY SeedFacts DEF Inv, CdpInv, OwnReplies, ShapeInv
<1>2. Head(plan).m # "close"
    BY <1>1, SeedMethod
<1>3. recv
    BY <1>2 DEF Next, create_seeded, send, PipeClosed, CleanupTimeout, Dispatch, Answer, LoadFires,
           BrowserActs, ClientSends, Forward, serve_profile, destroy_capturing_native, Failed
<1>4. awaiting # 0 /\ (RecvSkips \/ RecvPaused \/ RecvLoaded \/ RecvOk \/ RecvFails)
    BY <1>1, <1>3, RecvCases
<1>5. Advances /\ (RecvLoaded \/ RecvReply)
    BY <1>4 DEF RecvSkips, RecvPaused, Fulfils, RecvLoaded, RecvOk, RecvFails, Ends, Repeats
<1>6. Tail(plan) = <<>> /\ stage' = "bridged"
    BY <1>5 DEF Advances
<1>7. Done = Len(apply_local_storage) - 1
    <2>1. Len(plan) \in Nat /\ Len(Tail(plan)) = Len(plan) - 1
        BY <1>1, ListFacts
    <2>2. Len(Tail(plan)) = 0
        BY <1>6, ListEmpty
    <2>3. Len(plan) = 1
        BY <2>1, <2>2
    <2>4. Len(apply_local_storage) \in Nat
        BY <1>1, LocalPlan
    <2> QED BY <2>3, <2>4 DEF Done
<1>8. Head(plan).m \in {"navigate", "attachToTarget"}
    BY <1>1, <1>7, SeedMethod
<1> QED BY <1>3, <1>4, <1>5, <1>6, <1>7, <1>8

(* A command that the browser takes after the seeding. *)
LEMMA LateTakes ==
    ASSUME Inv, Dispatch, Takes, stage \notin {"launch", "seed", "ended"}
    PROVE  /\ 1 \in DOMAIN sent
           /\ \/ changed'
              \/ browser'.cookies = browser.cookies /\ browser'.rows = browser.rows /\ UNCHANGED changed
<1>1. ShapeInv /\ BrowserShape(browser)
    BY DEF Inv, CdpInv, ShapeInv
<1>2. 1 \in DOMAIN sent
    BY <1>1, DispatchPipes
<1>3. sent[1].m \notin {"setCookies", "evaluate"}
    BY <1>2 DEF Inv, CdpInv, SentInv
<1>4. changed \in BOOLEAN
    BY DEF Inv, CdpInv, OwnReplies, TypeOK
<1>5. browser' = Effect(sent[1]) /\ changed' = (changed \/ sent[1].m = "change")
    BY DEF Takes
<1>6. CASE sent[1].m # "change"
    BY <1>1, <1>2, <1>3, <1>4, <1>5, <1>6, EffectFields
<1>7. CASE sent[1].m = "change"
    BY <1>2, <1>5, <1>7
<1> QED BY <1>6, <1>7

(* The browser's rows are texts of some encoding. *)
LEMMA RowsTyped ==
    ASSUME Inv, Next
    PROVE  \A r \in browser'.rows : r.text \in Texts /\ r.compression \in 0..2
<1>1. ShapeInv /\ BrowserShape(browser) /\ \A r \in browser.rows : r.text \in Texts /\ r.compression \in 0..2
    BY DEF Inv, CdpInv, ShapeInv, KeptInv
<1>2. CASE browser'.rows = browser.rows
    BY <1>1, <1>2
<1>3. CASE Dispatch /\ Takes
    <2>1. 1 \in DOMAIN sent /\ browser' = Effect(sent[1]) /\ stage # "ended"
        BY <1>1, <1>3, DispatchPipes DEF Takes, Dispatch, Works
    <2>2. CASE sent[1].m = "evaluate"
        <3>1. stage = "seed"
            BY <2>1, <2>2 DEF Inv, CdpInv, SentInv
        <3>2. Awaited(sent[1])
            BY <1>3, <2>2, <3>1, SeedTakes
        <3>3. PICK k \in DOMAIN payload.local : sent[1].arg = Origin(k).entries
            BY <2>2, <3>1, <3>2, SeedFacts, SeedMethod DEF Awaited
        <3>4. sent[1].arg \subseteq EntryType
            BY <3>1, <3>3, SeedFacts, PayloadFacts
        <3>5. \A e \in sent[1].arg : e.text \in Texts
            BY <3>4 DEF EntryType
        <3>6. browser'.rows = restore_script(browser.rows, browser.doc, sent[1].arg)
            BY <1>1, <2>1, <2>2, EffectFields
        <3> QED BY <1>1, <3>5, <3>6 DEF restore_script
    <2>3. CASE sent[1].m = "change"
        <3>1. browser'.rows = browser.rows \cup {NewRow}
            BY <1>1, <2>1, <2>3, EffectFields
        <3> QED BY <1>1, <3>1, PayloadsAssumption
    <2>4. CASE sent[1].m \notin {"evaluate", "change"}
        BY <1>1, <1>2, <2>1, <2>4, EffectFields
    <2> QED BY <2>2, <2>3, <2>4
<1> QED BY <1>2, <1>3, HoldsStill

FilesOf == {[path |-> payload.files[i], node |-> "file"] : i \in DOMAIN payload.files}

(* The files that are written are the payload's. *)
LEMMA FilesStep ==
    ASSUME Inv, Next
    PROVE  /\ stage' = "launch" => files' = {}
           /\ stage' \notin {"launch", "ended"} \/ captured'.deposit => files' = FilesOf
<1>1. files = {} \/ stage # "launch"
    BY DEF Inv, CdpInv, KeptInv
<1>2. stage' = "launch" => files' = {}
    <2>1. stage' = "launch" => stage = "launch" /\ UNCHANGED files
        BY LaunchSteps DEF LoadFires, BrowserActs
    <2> QED BY <1>1, <2>1
<1>3. CASE create_seeded
    <2>1. stage = "launch" /\ files = {} /\ ~captured'.deposit
        BY <1>1, <1>3, StillOpen DEF create_seeded, destroy_capturing_native
    <2>2. ASSUME extract_into(payload.files, files).ok PROVE files' = FilesOf
        <3> DEFINE Taken(i) == \/ \E f \in files : f.path = payload.files[i]
                               \/ \E j \in 1..(i - 1) : payload.files[j] = payload.files[i]
                   bad == {i \in DOMAIN payload.files : ~safe_join(payload.files[i]) \/ Taken(i)}
                   done == {i \in DOMAIN payload.files : \A b \in bad : i < b}
                   tree == files \cup {[path |-> payload.files[i], node |-> "file"] : i \in done}
        <3>1. (extract_into(payload.files, files).ok <=> bad = {}) /\ extract_into(payload.files, files).tree = tree
            BY DEF extract_into
        <3>2. files' = extract_into(payload.files, files).tree
            BY <1>3, <2>2 DEF create_seeded
        <3> HIDE DEF bad
        <3>3. bad = {}
            BY <2>2, <3>1
        <3>4. done = DOMAIN payload.files
            BY <3>3
        <3> QED BY <2>1, <3>1, <3>2, <3>4 DEF FilesOf
    <2>3. ~extract_into(payload.files, files).ok => stage' = "ended"
        BY <1>3 DEF create_seeded, Begin
    <2> QED BY <1>2, <2>1, <2>2, <2>3
<1>4. CASE ~create_seeded
    <2>1. UNCHANGED files /\ (captured'.deposit => stage = "closing") /\ stage # "ended"
        BY <1>4, StillOpen DEF destroy_capturing_native
    <2>2. stage = "launch" => stage' = "launch"
        <3>1. stage = "launch" => plan = <<>> /\ awaiting = 0
            BY DEF Inv, CdpInv, PlanInv
        <3> QED BY <1>4, <3>1 DEF Next, send, recv, PipeClosed, CleanupTimeout, Dispatch, Answer, LoadFires,
               BrowserActs, ClientSends, Forward, serve_profile, destroy_capturing_native
    <2>3. stage \notin {"launch", "ended"} => files = FilesOf
        BY DEF Inv, CdpInv, KeptInv, FilesOf
    <2> QED BY <1>2, <2>1, <2>2, <2>3
<1> QED BY <1>3, <1>4

(* From the hand-over on the browser keeps what the seeding gave it. *)
LEMMA KeptStep ==
    ASSUME Inv, Next
    PROVE  KeptInv'
<1> DEFINE late == {"bridged", "cleaning", "capture", "closing"}
<1>1. UNCHANGED <<payload, Seeded, apply_local_storage>> /\ \A i : Origin(i)' = Origin(i)
    BY PlanCases, Constant
<1>2. UNCHANGED FilesOf
    BY <1>1 DEF FilesOf
<1>3. ASSUME stage' \in late \/ captured'.deposit
      PROVE  /\ ~changed' => browser'.cookies = Seeded
             /\ ~changed' /\ ~staleLoad' => browser'.rows = Written(Len(apply_local_storage))
    <2>1. CASE stage \in late
        <3>1. /\ ~changed => browser.cookies = Seeded
              /\ ~changed /\ ~staleLoad => browser.rows = Written(Len(apply_local_storage))
            BY <2>1 DEF Inv, CdpInv, KeptInv
        <3>2. \/ changed'
              \/ browser'.cookies = browser.cookies /\ browser'.rows = browser.rows /\ UNCHANGED changed
            BY <2>1, HoldsStill, LateTakes
        <3>3. staleLoad => staleLoad'
            BY StillOpen
        <3> QED BY <3>1, <3>2, <3>3
    <2>2. CASE stage = "seed" /\ stage' \in late
        <3>1. /\ Done = Len(apply_local_storage) - 1 /\ recv
              /\ Head(plan).m \in {"navigate", "attachToTarget"}
            BY <2>2, HandsOver
        <3>2. payload \in Payloads /\ Len(apply_local_storage) \in Nat /\ Done \in Int
            BY <2>2, <3>1, SeedFacts, LocalPlan
        <3>3. Done >= -1 /\ Done + 1 = Len(apply_local_storage)
            BY <3>1, <3>2
        <3>4. browser' = browser /\ UNCHANGED changed /\ (staleLoad => staleLoad')
            BY <3>1, StillOpen DEF recv
        <3>5. browser.cookies = Seeded
            BY <2>2, <3>2, <3>3 DEF Inv, CdpInv, CookieInv
        <3>6. ~staleLoad => browser.rows = Written(Done)
            BY <2>2, <3>1 DEF Inv, CdpInv, RowInv
        <3>7. Written(Done + 1) = Written(Done)
            <4>1. \A i \in DOMAIN payload.local : Done # 2 * i + 1
                BY <2>2, <3>1, SeedFacts, SeedMethod
            <4> QED BY <3>2, <4>1, WrittenSame
        <3> QED BY <3>3, <3>4, <3>5, <3>6, <3>7
    <2>3. stage \in late \/ (stage = "seed" /\ stage' \in late)
        <3>1. stage \in {"launch", "seed"} \cup late
            BY StillOpen DEF Inv, CdpInv, OwnReplies, TypeOK
        <3>2. captured'.deposit => stage = "closing"
            BY StillOpen DEF destroy_capturing_native
        <3>3. stage = "launch" => stage' \notin late
            <4>1. stage = "launch" => plan = <<>> /\ awaiting = 0
                BY DEF Inv, CdpInv, PlanInv
            <4> QED BY <4>1 DEF Next, create_seeded, Begin, send, recv, PipeClosed, CleanupTimeout, Dispatch, Answer, LoadFires,
                   BrowserActs, ClientSends, Forward, serve_profile, destroy_capturing_native
        <3> QED BY <1>3, <3>1, <3>2, <3>3
    <2> QED BY <2>1, <2>2, <2>3
<1>4. Written(Len(apply_local_storage))' = Written(Len(apply_local_storage))
    BY <1>1 DEF Written
<1>5. /\ stage' = "launch" => files' = {}
      /\ stage' \notin {"launch", "ended"} \/ captured'.deposit => files' = FilesOf'
    BY <1>2, FilesStep
<1> QED BY <1>1, <1>3, <1>4, <1>5, RowsTyped DEF KeptInv, FilesOf

(* No message on its way is one of the server's first. *)
Quiet == (\A i \in DOMAIN sent : ~First(sent[i])) /\ (\A r \in Pipes : ~First(r))

(* It stays so unless the server sends under its first id. *)
LEMMA StaysQuiet ==
    ASSUME Inv, Next, Quiet, next_id # 1 \/ ~(send \/ recv)
    PROVE  Quiet'
<1>1. ShapeInv /\ TypeOK /\ IsList(sent) /\ IsList(inbox)
    BY DEF Inv, CdpInv, OwnReplies, ShapeInv
<1>2. CASE create_seeded \/ PipeClosed \/ CleanupTimeout \/ serve_profile \/ BrowserActs \/ destroy_capturing_native
    <2>1. UNCHANGED <<sent, answers, inbox>>
        BY <1>2 DEF create_seeded, PipeClosed, CleanupTimeout, serve_profile, BrowserActs, destroy_capturing_native
    <2> QED BY <2>1 DEF Quiet, Pipes, First
<1>3. CASE send
    <2>1. sent' = Append(sent, With(next_id, "server", Head(plan))) /\ UNCHANGED <<answers, inbox>>
        BY <1>3 DEF send
    <2>2. ~First(With(next_id, "server", Head(plan)))
        BY <1>3 DEF With, First
    <2>3. \A i \in DOMAIN sent' : (i \in DOMAIN sent /\ sent'[i] = sent[i]) \/ sent'[i] = With(next_id, "server", Head(plan))
        BY <1>1, <2>1, AppendElements
    <2> QED BY <2>1, <2>2, <2>3 DEF Quiet, Pipes, First
<1>4. CASE recv
    <2>1. UNCHANGED answers /\ Follows(inbox, inbox')
        BY <1>1, <1>4, RecvPipes DEF recv
    <2>2. \A r \in Pipes' : r \in Pipes
        BY <2>1 DEF Pipes, Follows
    <2>3. Extends(sent, sent', With(next_id, "server", Command("fulfillRequest", "none")))
        BY <1>1, <1>4, RecvPipes
    <2>4. ~First(With(next_id, "server", Command("fulfillRequest", "none")))
        BY <1>4 DEF With, First
    <2>5. \A i \in DOMAIN sent' : ~First(sent'[i])
        BY <2>3, <2>4 DEF Quiet, Extends
    <2> QED BY <2>2, <2>5 DEF Quiet, First
<1>5. CASE Dispatch
    <2>1. 1 \in DOMAIN sent /\ Follows(sent, sent') /\ Extends(inbox, inbox', Event("requestPaused", sent[1].arg))
        BY <1>1, <1>5, DispatchPipes
    <2>2. PICK ok \in BOOLEAN : answers' = answers \cup {Reply(sent[1], ok)}
        BY <1>1, <1>5, DispatchPipes
    <2>3. ~First(Reply(sent[1], ok)) /\ ~First(Event("requestPaused", sent[1].arg))
        BY <2>1 DEF Quiet, First, Reply, Event
    <2>4. \A r \in Pipes' : r \in Pipes \/ r = Reply(sent[1], ok) \/ r = Event("requestPaused", sent[1].arg)
        BY <2>1, <2>2 DEF Pipes, Extends
    <2>5. \A i \in DOMAIN sent' : ~First(sent'[i])
        BY <2>1 DEF Quiet, Follows
    <2> QED BY <2>3, <2>4, <2>5 DEF Quiet, First
<1>6. CASE Answer
    <2>1. PICK a \in answers : answers' = answers \ {a} /\ inbox' = Append(inbox, a) /\ sent' = sent
        BY <1>6 DEF Answer
    <2>2. Extends(inbox, inbox', a)
        BY <1>1, <2>1, Extended
    <2>3. \A r \in Pipes' : r \in Pipes
        BY <2>1, <2>2 DEF Pipes, Extends
    <2> QED BY <2>1, <2>3 DEF Quiet, First
<1>7. CASE LoadFires
    <2>1. /\ UNCHANGED <<sent, answers>>
          /\ inbox' = inbox \/ inbox' = Append(inbox, Event("loadEventFired", browser.loading))
        BY <1>7 DEF LoadFires
    <2>2. Extends(inbox, inbox', Event("loadEventFired", browser.loading))
        BY <1>1, <2>1, Extended
    <2>3. ~First(Event("loadEventFired", browser.loading))
        BY DEF First, Event
    <2>4. \A r \in Pipes' : r \in Pipes \/ r = Event("loadEventFired", browser.loading)
        BY <2>1, <2>2 DEF Pipes, Extends
    <2> QED BY <2>1, <2>3, <2>4 DEF Quiet, First
<1>8. CASE ClientSends
    <2>1. PICK c : sent' = Append(sent, c) /\ c.owner = "client"
        BY <1>8 DEF ClientSends, With
    <2>2. \A i \in DOMAIN sent' : (i \in DOMAIN sent /\ sent'[i] = sent[i]) \/ sent'[i] = c
        BY <1>1, <2>1, AppendElements
    <2>3. UNCHANGED <<answers, inbox>>
        BY <1>8 DEF ClientSends
    <2> QED BY <2>1, <2>2, <2>3 DEF Quiet, Pipes, First
<1>9. CASE Forward
    <2>1. Follows(inbox, inbox') /\ UNCHANGED <<sent, answers>>
        BY <1>1, <1>9, Followed DEF Forward
    <2>2. \A r \in Pipes' : r \in Pipes
        BY <2>1 DEF Pipes, Follows
    <2> QED BY <2>1, <2>2 DEF Quiet, First
<1> QED BY <1>2, <1>3, <1>4, <1>5, <1>6, <1>7, <1>8, <1>9 DEF Next

(* When the seeding completes a command, none of the server's first is left. *)
LEMMA CompletesQuiet ==
    ASSUME Inv, Next, stage = "seed", recv, RecvLoaded \/ RecvReply
    PROVE  Quiet' /\ next_id > 1 /\ next_id' = next_id
<1>1. awaiting # 0 /\ awaiting < next_id /\ awaiting \in Nat /\ next_id \in Nat
    BY SeedFacts DEF recv
<1>2. next_id > 1 /\ next_id # 1
    BY <1>1
<1>3. next_id' = next_id
    BY DEF RecvLoaded, RecvReply, Advances
<1>4. awaiting # 1 => Quiet
    BY DEF Inv, CdpInv, FirstInv, Quiet
<1>5. CASE awaiting # 1
    BY <1>2, <1>3, <1>4, <1>5, StaysQuiet
<1>6. CASE awaiting = 1 /\ RecvLoaded
    <2>1. Head(plan).m = "navigate"
        BY <1>6 DEF RecvLoaded
    <2>2. Done \in Int /\ Done >= 0
        BY <2>1, SeedFacts, HeadNow DEF Seeding, HeadFacts
    <2>3. Done < 0
        BY <1>6 DEF Inv, CdpInv, FirstInv
    <2> QED BY <2>2, <2>3
<1>7. CASE awaiting = 1 /\ RecvReply
    <2>1. /\ \A i \in DOMAIN sent : sent[i].id # 1
          /\ \A a \in answers : a.id # 1
          /\ \A i \in DOMAIN inbox : i # 1 => inbox[i].id # 1
        BY <1>7, RepliedGone
    <2>2. UNCHANGED <<sent, answers>> /\ Follows(inbox, inbox')
        BY <1>7, RecvPipes DEF Inv, CdpInv, OwnReplies, recv, RecvReply
    <2>3. \A r \in Pipes' : r.id # 1
        BY <2>1, <2>2 DEF Pipes, Follows
    <2>4. Quiet'
        BY <2>1, <2>2, <2>3 DEF Quiet, First
    <2> QED BY <1>2, <1>3, <2>4
<1> QED BY <1>5, <1>6, <1>7

(* The seeding's part of FirstInv. *)
LEMMA FirstSeed ==
    ASSUME Inv, Next, stage' = "seed"
    PROVE  (next_id' = 1 \/ awaiting' = 1 => Done' < 0) /\ (awaiting' # 1 => Quiet')
<1>1. ShapeInv /\ TypeOK /\ UNCHANGED <<payload, apply_local_storage>>
    BY PlanCases, Constant DEF Inv, CdpInv, OwnReplies
<1>2. CASE create_seeded /\ Begin("seed", seed_profile, 1)
    <2>1. stage = "launch" /\ plan' = seed_profile /\ ~send /\ ~recv
        BY <1>2 DEF create_seeded, Begin, send, recv, Inv, CdpInv, PlanInv
    <2>2. Quiet
        BY <2>1, LaunchFacts DEF Quiet, Pipes
    <2>3. PICK k \in {2, 3} : k = Len(seed_profile) - Len(apply_local_storage)
        BY <1>1, SeedBegins DEF TypeOK
    <2>4. Len(seed_profile) \in Nat /\ Len(apply_local_storage) \in Nat
        BY <1>1, SeedBegins, LocalPlan, ListFacts DEF TypeOK
    <2>5. Done' = 0 - k
        BY <1>1, <2>1, <2>3, <2>4 DEF Done
    <2>6. Done' < 0
        BY <2>5
    <2> QED BY <2>1, <2>2, <2>6, StaysQuiet
<1>3. ASSUME stage = "seed"
      PROVE  /\ awaiting \in Nat /\ next_id \in Nat /\ next_id >= 1 /\ (awaiting # 0 => awaiting < next_id)
             /\ next_id = 1 \/ awaiting = 1 => Done < 0
             /\ awaiting # 1 => Quiet
    BY <1>3, SeedFacts DEF Inv, CdpInv, FirstInv, IdInv, Quiet
<1>4. CASE stage = "seed" /\ send
    <2>1. awaiting = 0 /\ awaiting' = next_id /\ next_id' = next_id + 1 /\ Done' = Done
        <3>1. Head(plan).m # "close"
            BY <1>4, SeedFacts, SeedMethod
        <3> QED BY <1>1, <1>4, <3>1 DEF send, Done
    <2>2. next_id' # 1
        BY <1>3, <1>4, <2>1
    <2>3. next_id # 1 => Quiet'
        BY <1>3, <1>4, <2>1, StaysQuiet
    <2> QED BY <1>3, <1>4, <2>1, <2>2, <2>3
<1>5. CASE stage = "seed" /\ recv
    <2>1. awaiting # 0
        BY <1>5 DEF recv
    <2>2. CASE UNCHANGED <<plan, awaiting, staleLoad>> /\ Done' = Done
        <3>1. next_id > 1 /\ next_id # 1
            BY <1>3, <1>5, <2>1
        <3>2. next_id' \in {next_id, next_id + 1}
            BY <1>5 DEF recv, call_on, navigate_stub
        <3>3. next_id' # 1
            BY <1>3, <1>5, <3>1, <3>2
        <3>4. awaiting # 1 => Quiet'
            BY <1>3, <1>5, <3>1, StaysQuiet
        <3> QED BY <1>3, <1>5, <2>2, <3>3, <3>4
    <2>3. CASE (RecvLoaded \/ RecvReply) /\ awaiting' = 0
        <3>1. Quiet' /\ next_id > 1 /\ next_id' = next_id
            BY <1>5, <2>3, CompletesQuiet
        <3>2. next_id' # 1
            BY <1>3, <1>5, <3>1
        <3> QED BY <2>3, <3>1, <3>2
    <2> QED BY <1>5, <2>2, <2>3, SeedRecv
<1>6. CASE stage = "seed" /\ (Dispatch \/ Answer \/ LoadFires \/ BrowserActs)
    <2>1. UNCHANGED <<plan, awaiting, next_id>>
        BY <1>6 DEF Dispatch, Answer, LoadFires, BrowserActs, server
    <2>2. Done' = Done
        BY <1>1, <2>1 DEF Done
    <2>3. (~send /\ ~recv) \/ next_id # 1
        <3>1. ASSUME send PROVE next_id # 1
            BY <1>3, <1>6, <2>1, <3>1 DEF send
        <3>2. ASSUME recv PROVE next_id # 1
            BY <1>3, <1>6, <3>2 DEF recv
        <3> QED BY <3>1, <3>2
    <2> QED BY <1>3, <1>6, <2>1, <2>2, <2>3, StaysQuiet
<1> QED BY <1>2, <1>4, <1>5, <1>6, SeedSteps

Asks == stage = "capture" /\ plan = capture /\ awaiting = 0

(* The clean slate's ids are not the first, so nothing of the server's      *)
(* first is on its way from the hand-over until the capture asks.           *)
LEMMA FirstLate ==
    ASSUME Inv, Next, stage' \in {"bridged", "cleaning"} \/ Asks'
    PROVE  Quiet'
<1>1. ShapeInv /\ TypeOK /\ CLEANUP_FIRST_ID \in Nat /\ CLEANUP_FIRST_ID > 1 /\ next_id \in Nat
    BY CdpAssumption DEF Inv, CdpInv, OwnReplies, TypeOK
<1>2. stage \in {"seed", "bridged", "cleaning"} \/ Asks
    <2>1. stage \in {"launch", "seed", "bridged", "cleaning", "capture", "closing"}
        BY StillOpen DEF Inv, CdpInv, OwnReplies, TypeOK
    <2>2. stage \in {"launch", "closing"} => plan = <<>> /\ awaiting = 0
        BY DEF Inv, CdpInv, PlanInv
    <2>3. stage # "launch"
        BY <2>2 DEF Next, create_seeded, Begin, Asks, send, recv, PipeClosed, CleanupTimeout, Dispatch, Answer, LoadFires,
               BrowserActs, ClientSends, Forward, serve_profile, destroy_capturing_native
    <2>4. stage # "closing"
        BY <2>2 DEF Next, create_seeded, Begin, Asks, send, recv, PipeClosed, CleanupTimeout, Dispatch, Answer, LoadFires,
               BrowserActs, ClientSends, Forward, serve_profile, destroy_capturing_native
    <2>5. ASSUME stage = "capture" PROVE Asks
        <3>1. plan # <<>> /\ (plan = capture \/ (plan = Tail(capture) /\ awaiting = 0))
            BY <2>5 DEF Inv, CdpInv, PlanInv
        <3>2. /\ Head(capture).m = "getCookies" /\ Tail(capture) = <<Command("close", "none")>>
              /\ Head(Tail(capture)).m = "close" /\ Tail(capture) # <<>> /\ capture # <<>> /\ Tail(capture) # capture
            BY DEF capture, Command
        <3>3. PlanMoves
            BY PlanCases
        <3>4. plan = capture
            BY <2>5, <3>1, <3>2, <3>3 DEF PlanMoves, Begins, Asks, Repeats
        <3>5. awaiting = 0
            BY <2>5, <3>2, <3>3, <3>4 DEF PlanMoves, Begins, Asks, Repeats
        <3> QED BY <2>5, <3>4, <3>5 DEF Asks
    <2> QED BY <2>1, <2>3, <2>4, <2>5
<1>3. CASE stage = "seed"
    <2>1. stage' = "bridged"
        BY <1>3, HandsOver DEF Asks
    <2> QED BY <1>3, <2>1, HandsOver, CompletesQuiet
<1>4. CASE stage \in {"bridged", "cleaning"} \/ Asks
    <2>1. Quiet
        BY <1>4 DEF Inv, CdpInv, FirstInv, Quiet, Asks
    <2>2. send \/ recv => next_id # 1
        <3>1. send \/ recv => plan # <<>>
            BY <1>1 DEF send, recv, TypeOK
        <3>2. stage = "cleaning" => next_id # 1
            BY <1>1 DEF Inv, CdpInv, IdInv
        <3>3. stage = "bridged" => plan = <<>>
            BY DEF Inv, CdpInv, PlanInv
        <3>4. ASSUME Asks PROVE ~send /\ ~recv
            <4>1. ~recv
                BY <3>4 DEF Asks, recv
            <4>2. Head(plan).m = "getCookies"
                BY <3>4 DEF Asks, capture, Command
            <4>3. ASSUME send PROVE FALSE
                <5>1. awaiting' = next_id /\ stage' = "capture"
                    BY <3>4, <4>2, <4>3 DEF send, Asks
                <5>2. next_id = 1
                    BY <3>4 DEF Inv, CdpInv, FirstInv, Asks
                <5> QED BY <5>1, <5>2 DEF Asks
            <4> QED BY <4>1, <4>3
        <3> QED BY <1>4, <3>1, <3>2, <3>3, <3>4
    <2> QED BY <2>1, <2>2, StaysQuiet
<1> QED BY <1>2, <1>3, <1>4

(* The capture's two commands. *)
LEMMA CaptureFacts ==
    /\ Head(capture) = Command("getCookies", "none") /\ Head(capture).m = "getCookies"
    /\ Tail(capture) = <<Command("close", "none")>> /\ Head(Tail(capture)).m = "close"
    /\ capture # <<>> /\ Tail(capture) # <<>> /\ Tail(capture) # capture
BY DEF capture, Command

(* The steps of the capture. *)
LEMMA CaptureSteps ==
    ASSUME Inv, Next, stage' = "capture"
    PROVE  \/ stage = "bridged" /\ serve_profile /\ Begin("capture", capture, 1)
           \/ /\ stage = "capture" /\ plan = capture /\ send
              /\ awaiting = 0 /\ awaiting' = 1 /\ next_id' = 2 /\ plan' = plan
              /\ sent' = Append(sent, With(1, "server", Command("getCookies", "none")))
              /\ UNCHANGED <<answers, inbox, captured, mistaken>>
           \/ /\ stage = "capture" /\ plan = capture /\ awaiting = 1 /\ recv
              /\ RecvSkips \/ (RecvOk /\ Advances) \/ (RecvFails /\ Advances)
           \/ /\ stage = "capture" /\ PipeClosed /\ plan = capture /\ awaiting' = 0 /\ plan' = Tail(capture)
              /\ UNCHANGED <<captured, mistaken>>
           \/ stage = "capture" /\ (Dispatch \/ Answer \/ LoadFires \/ BrowserActs)
<1>1. ShapeInv /\ TypeOK
    BY DEF Inv, CdpInv, OwnReplies
<1>2. CASE create_seeded \/ CleanupTimeout \/ ClientSends \/ Forward \/ destroy_capturing_native
    BY <1>2 DEF create_seeded, Begin, CleanupTimeout, Failed, Continue, ClientSends, Forward, destroy_capturing_native
<1>3. CASE serve_profile
    BY <1>3 DEF serve_profile, Begin
<1>4. CASE Dispatch \/ Answer \/ LoadFires \/ BrowserActs
    BY <1>4 DEF Dispatch, Answer, LoadFires, BrowserActs
<1>5. ASSUME stage = "capture" PROVE plan = capture \/ (plan = Tail(capture) /\ awaiting = 0)
    BY <1>5 DEF Inv, CdpInv, PlanInv
<1>6. ASSUME stage = "capture"
      PROVE  (plan = capture => next_id = IF awaiting = 0 THEN 1 ELSE 2) /\ awaiting \in {0, 1}
    BY <1>6 DEF Inv, CdpInv, FirstInv
<1>7. CASE send
    <2>1. stage = "capture" /\ awaiting = 0 /\ Head(plan).m # "close"
        BY <1>7 DEF send
    <2>2. plan = capture
        BY <1>5, <2>1, CaptureFacts
    <2>3. next_id = 1
        BY <1>6, <2>1, <2>2
    <2>4. /\ sent' = Append(sent, With(next_id, "server", Head(plan))) /\ next_id' = next_id + 1
          /\ awaiting' = next_id /\ plan' = plan /\ UNCHANGED <<answers, inbox, captured, mistaken>>
        BY <1>7, <2>1 DEF send, history
    <2> QED BY <1>7, <2>1, <2>2, <2>3, <2>4, CaptureFacts
<1>8. CASE recv
    <2>1. awaiting # 0 /\ (RecvSkips \/ RecvPaused \/ RecvLoaded \/ RecvOk \/ RecvFails)
        BY <1>1, <1>8, RecvCases
    <2>2. stage = "capture"
        BY <2>1 DEF RecvSkips, RecvPaused, RecvLoaded, RecvOk, RecvFails, Advances, Repeats, Ends, Fulfils
    <2>3. plan = capture /\ awaiting = 1 /\ Head(plan).m = "getCookies"
        BY <1>5, <1>6, <2>1, <2>2, CaptureFacts
    <2>4. RecvSkips \/ (RecvOk /\ Advances) \/ (RecvFails /\ Advances)
        BY <2>1, <2>2, <2>3 DEF RecvPaused, RecvLoaded, RecvOk, RecvFails, Repeats
    <2> QED BY <1>8, <2>2, <2>3, <2>4
<1>9. CASE PipeClosed
    <2>1. Head(plan).m # "close" /\ Failed /\ UNCHANGED <<mistaken, captured>> /\ stage = "capture"
        BY <1>9 DEF PipeClosed, Begin, Failed, Continue, history
    <2>2. plan = capture
        BY <1>5, <2>1, CaptureFacts
    <2>3. awaiting' = 0 /\ plan' = Tail(capture)
        BY <2>1, <2>2 DEF Failed, Continue
    <2> QED BY <1>9, <2>1, <2>2, <2>3
<1> QED BY <1>2, <1>3, <1>4, <1>7, <1>8, <1>9 DEF Next

(* The capture's own request is the last in the pipe, and the answer to it  *)
(* is what the browser holds.                                               *)
LEMMA FirstCapture ==
    ASSUME Inv, Next, stage' = "capture"
    PROVE  /\ (plan' = capture => next_id' = IF awaiting' = 0 THEN 1 ELSE 2) /\ awaiting' \in {0, 1}
           /\ awaiting' = 1 =>
                 /\ \A i \in DOMAIN sent' : First(sent'[i]) => i = Len(sent') /\ sent'[i].m = "getCookies"
                 /\ \A r \in Pipes' : First(r) => sent' = <<>> /\ r.m = "getCookies" /\ r.data = browser'.cookies
<1>1. ShapeInv /\ TypeOK /\ BrowserShape(browser) /\ IsList(sent) /\ IsList(inbox)
    BY DEF Inv, CdpInv, OwnReplies, ShapeInv
<1>2. CASE serve_profile /\ Begin("capture", capture, 1)
    BY <1>2 DEF Begin
<1>3. ASSUME stage = "capture"
      PROVE  /\ (plan = capture => next_id = IF awaiting = 0 THEN 1 ELSE 2) /\ awaiting \in {0, 1}
             /\ awaiting = 1 =>
                   /\ \A i \in DOMAIN sent : First(sent[i]) => i = Len(sent) /\ sent[i].m = "getCookies"
                   /\ \A r \in Pipes : First(r) => sent = <<>> /\ r.m = "getCookies" /\ r.data = browser.cookies
    BY <1>3 DEF Inv, CdpInv, FirstInv
<1>4. CASE /\ stage = "capture" /\ plan = capture /\ send
           /\ awaiting = 0 /\ awaiting' = 1 /\ next_id' = 2 /\ plan' = plan
           /\ sent' = Append(sent, With(1, "server", Command("getCookies", "none")))
           /\ UNCHANGED <<answers, inbox, captured, mistaken>>
    <2>1. Quiet
        BY <1>4 DEF Inv, CdpInv, FirstInv, Quiet
    <2>2. With(1, "server", Command("getCookies", "none")).m = "getCookies"
        BY DEF With, Command
    <2>3. Len(sent') = Len(sent) + 1 /\ Extends(sent, sent', With(1, "server", Command("getCookies", "none")))
        BY <1>1, <1>4, ListAppend, Extended
    <2>4. \A i \in DOMAIN sent' : First(sent'[i]) => i = Len(sent') /\ sent'[i].m = "getCookies"
        BY <2>1, <2>2, <2>3 DEF Extends, Quiet
    <2>5. Pipes' = Pipes
        BY <1>4 DEF Pipes
    <2> QED BY <1>4, <2>1, <2>4, <2>5 DEF Quiet
<1>5. CASE /\ stage = "capture" /\ plan = capture /\ awaiting = 1 /\ recv
           /\ RecvSkips \/ (RecvOk /\ Advances) \/ (RecvFails /\ Advances)
    <2>1. CASE Advances
        <3>1. awaiting' = 0 /\ plan' = Tail(capture)
            BY <1>5, <2>1 DEF Advances
        <3> QED BY <3>1, CaptureFacts
    <2>2. CASE RecvSkips
        <3>1. UNCHANGED <<plan, awaiting, next_id, sent, answers, browser>> /\ Follows(inbox, inbox')
            BY <1>1, <1>5, <2>2, RecvPipes DEF RecvSkips, recv
        <3>2. \A r \in Pipes' : r \in Pipes
            BY <3>1 DEF Pipes, Follows
        <3> QED BY <1>3, <1>5, <3>1, <3>2
    <2> QED BY <1>5, <2>1, <2>2
<1>6. CASE PipeClosed /\ awaiting' = 0 /\ plan' = Tail(capture)
    BY <1>6, CaptureFacts
<1>7. CASE stage = "capture" /\ Dispatch
    <2>1. UNCHANGED <<plan, awaiting, next_id>>
        BY <1>1, <1>7, DispatchCases
    <2>2. /\ 1 \in DOMAIN sent /\ Follows(sent, sent') /\ sent' = Tail(sent)
          /\ Extends(inbox, inbox', Event("requestPaused", sent[1].arg))
        BY <1>1, <1>7, DispatchPipes
    <2>3. PICK ok \in BOOLEAN : answers' = answers \cup {Reply(sent[1], ok)} /\ (ok => Takes) /\ (~ok => Refuses)
        BY <1>1, <1>7, DispatchPipes
    <2>4. Len(sent) \in Nat /\ DOMAIN sent = 1..Len(sent) /\ (sent = <<>> <=> Len(sent) = 0)
        BY <1>1, ListFacts
    <2>5. sent # <<>> /\ Len(sent') = Len(sent) - 1 /\ (sent' = <<>> <=> Len(sent') = 0) /\ IsList(sent')
        <3>1. sent # <<>>
            BY <2>2, <2>4
        <3>2. Len(Tail(sent)) = Len(sent) - 1 /\ IsList(Tail(sent))
            BY <1>1, <3>1, ListFacts
        <3>3. Tail(sent) = <<>> <=> Len(Tail(sent)) = 0
            BY <3>2, ListFacts
        <3> QED BY <2>2, <3>1, <3>2, <3>3
    <2>6. ASSUME awaiting = 1, NEW i \in DOMAIN sent', First(sent'[i])
          PROVE  i = Len(sent') /\ sent'[i].m = "getCookies"
        <3>1. i \in Nat /\ i + 1 \in DOMAIN sent /\ sent'[i] = sent[i + 1]
            BY <2>2, <2>6 DEF Follows
        <3>2. i + 1 = Len(sent) /\ sent[i + 1].m = "getCookies"
            BY <1>3, <1>7, <2>6, <3>1
        <3> QED BY <2>4, <2>5, <3>1, <3>2
    <2>7. ASSUME awaiting = 1, NEW r \in Pipes', First(r)
          PROVE  sent' = <<>> /\ r.m = "getCookies" /\ r.data = browser'.cookies
        <3>1. r \in Pipes \/ r = Reply(sent[1], ok) \/ r = Event("requestPaused", sent[1].arg)
            BY <2>2, <2>3 DEF Pipes, Extends
        <3>2. r \notin Pipes
            BY <1>3, <1>7, <2>5, <2>7
        <3>3. r # Event("requestPaused", sent[1].arg)
            BY <2>7 DEF First, Event
        <3>4. r.m = sent[1].m /\ r.data = Data(sent[1]) /\ First(sent[1])
            BY <2>7, <3>1, <3>2, <3>3 DEF Reply, First
        <3>5. 1 = Len(sent) /\ sent[1].m = "getCookies"
            BY <1>3, <1>7, <2>2, <2>7, <3>4
        <3>6. sent' = <<>>
            <4>1. PICK n \in Nat : n = Len(sent) /\ n = 1
                BY <3>5, Zenon
            <4>2. PICK k : k = Len(sent') /\ k = n - 1 /\ (sent' = <<>> <=> k = 0)
                BY <2>5, <4>1
            <4>3. k = 0
                BY <4>1, <4>2
            <4> QED BY <4>2, <4>3
        <3>7. Data(sent[1]) = browser.cookies
            BY <3>5 DEF Data
        <3>8. browser'.cookies = browser.cookies
            BY <1>1, <2>3, <3>5, EffectFields DEF Takes, Refuses
        <3> QED BY <3>4, <3>5, <3>6, <3>7, <3>8
    <2> QED BY <1>3, <1>7, <2>1, <2>6, <2>7
<1>8. CASE stage = "capture" /\ (Answer \/ LoadFires \/ BrowserActs)
    <2>1. UNCHANGED <<plan, awaiting, next_id, sent>> /\ browser'.cookies = browser.cookies
        BY <1>1, <1>8 DEF Answer, LoadFires, BrowserActs, server, BrowserShape
    <2>2. \A r \in Pipes' : r \in Pipes \/ ~First(r)
        <3>1. CASE Answer
            <4>1. PICK a \in answers : answers' = answers \ {a} /\ inbox' = Append(inbox, a)
                BY <3>1 DEF Answer
            <4>2. Extends(inbox, inbox', a)
                BY <1>1, <4>1, Extended
            <4> QED BY <4>1, <4>2 DEF Pipes, Extends
        <3>2. CASE LoadFires
            <4>1. /\ answers' = answers
                  /\ inbox' = inbox \/ inbox' = Append(inbox, Event("loadEventFired", browser.loading))
                BY <3>2 DEF LoadFires
            <4>3. Extends(inbox, inbox', Event("loadEventFired", browser.loading))
                BY <1>1, <4>1, Extended
            <4>2. ~First(Event("loadEventFired", browser.loading))
                BY DEF First, Event
            <4> QED BY <4>1, <4>2, <4>3 DEF Pipes, Extends
        <3>3. CASE BrowserActs
            BY <3>3 DEF BrowserActs, Pipes
        <3> QED BY <1>8, <3>1, <3>2, <3>3
    <2> QED BY <1>3, <1>8, <2>1, <2>2
<1> QED BY <1>2, <1>4, <1>5, <1>6, <1>7, <1>8, CaptureSteps

(* So replies to the capture's request cannot be stale. *)
LEMMA FirstStep ==
    ASSUME Inv, Next
    PROVE  FirstInv'
<1>1. stage' = "seed" => (next_id' = 1 \/ awaiting' = 1 => Done' < 0) /\ (awaiting' # 1 => Quiet')
    BY FirstSeed
<1>2. stage' \in {"bridged", "cleaning"} \/ Asks' => Quiet'
    BY FirstLate
<1>3. UNCHANGED capture
    BY DEF capture, Command
<1> QED BY <1>1, <1>2, <1>3, FirstCapture DEF FirstInv, Quiet, Asks, First

(* What is deposited is what was read. *)
LEMMA CaptureStep ==
    ASSUME Inv, Next
    PROVE  CaptureInv'
<1>1. ShapeInv /\ TypeOK /\ BrowserShape(browser) /\ CapturedShape(captured) /\ IsList(sent) /\ CaptureInv /\ PlanInv
    BY DEF Inv, CdpInv, OwnReplies, ShapeInv
<1>2. ~captured.deposit /\ stage # "ended" /\ captured.answered \in BOOLEAN
    BY StillOpen DEF Inv, CdpInv, OwnReplies, TypeOK
<1>3. captured.answered => stage \in {"capture", "closing"}
    BY <1>1, <1>2 DEF CaptureInv
<1>4. CASE destroy_capturing_native
    <2>1. /\ stage' = "ended" /\ UNCHANGED <<sent, mistaken, files, plan>>
          /\ captured'.files = pack_native(files, captured'.packed)
          /\ captured'.local = read_profile_local_storage(browser.disk, captured'.opened)
          /\ browser'.disk = browser.disk /\ browser'.cookies = browser.cookies
          /\ captured'.answered = captured.answered /\ captured'.cookies = captured.cookies
        BY <1>1, <1>4 DEF destroy_capturing_native, server, history, BrowserShape, CapturedShape
    <2>2. plan # capture
        BY <1>1, <1>4, CaptureFacts DEF PlanInv, destroy_capturing_native
    <2>3. /\ captured'.files = pack_native(files, captured.packed)'
          /\ captured'.local = read_profile_local_storage(browser.disk, captured.opened)'
        BY <2>1 DEF pack_native, read_profile_local_storage, FirstParty, decompress
    <2>4. captured'.answered => plan' # capture
        BY <2>1, <2>2
    <2>5. captured'.answered /\ "capture" \notin mistaken' =>
              captured'.cookies = browser'.cookies /\ \A i \in DOMAIN sent' : sent'[i].m = "close"
        BY <1>1, <2>1 DEF CaptureInv
    <2> QED BY <2>1, <2>3, <2>4, <2>5 DEF CaptureInv, capture, Command
<1>5. ASSUME ~destroy_capturing_native PROVE ~captured'.deposit
    BY <1>5, StillOpen
<1>6. CASE captured'.answered = FALSE /\ ~destroy_capturing_native
    BY <1>5, <1>6 DEF CaptureInv
<1>7. ASSUME captured.answered
      PROVE  plan # capture /\ awaiting = 0 /\ (stage = "capture" => plan = Tail(capture))
             /\ (stage = "closing" => plan = <<>>)
    BY <1>1, <1>3, <1>7 DEF CaptureInv, PlanInv
<1>8. CASE captured.answered /\ ~destroy_capturing_native
    <2>1. ~create_seeded /\ ~recv /\ ~CleanupTimeout /\ ~ClientSends /\ ~Forward /\ ~serve_profile
        BY <1>3, <1>7, <1>8 DEF create_seeded, recv, CleanupTimeout, ClientSends, Forward, serve_profile
    <2>2. captured.answered /\ "capture" \notin mistaken => captured.cookies = browser.cookies /\ \A i \in DOMAIN sent : sent[i].m = "close"
        BY <1>1 DEF CaptureInv
    <2>3. CASE send
        <3>1. stage = "capture" /\ plan = Tail(capture)
            BY <1>3, <1>7, <1>8, <2>3 DEF send
        <3>2. Head(plan).m = "close"
            BY <3>1, CaptureFacts
        <3>3. /\ sent' = Append(sent, With(next_id, "server", Head(plan))) /\ plan' = <<>> /\ stage' = "closing"
              /\ UNCHANGED <<browser, captured, mistaken>>
            BY <2>3, <3>2 DEF send, history
        <3>4. \A i \in DOMAIN sent' : (i \in DOMAIN sent /\ sent'[i] = sent[i]) \/ sent'[i] = With(next_id, "server", Head(plan))
            BY <1>1, <3>3, AppendElements
        <3>5. With(next_id, "server", Head(plan)).m = "close"
            BY <3>2 DEF With
        <3>6. plan' # capture
            BY <3>3, CaptureFacts
        <3>7. \A i \in DOMAIN sent' : (\A j \in DOMAIN sent : sent[j].m = "close") => sent'[i].m = "close"
            BY <3>4, <3>5
        <3> QED BY <1>5, <1>8, <2>2, <3>3, <3>6, <3>7 DEF CaptureInv, capture, Command
    <2>4. CASE PipeClosed
        <3>1. stage = "capture" /\ plan = Tail(capture)
            BY <1>3, <1>7, <1>8, <2>4 DEF PipeClosed
        <3>2. stage' = "closing" /\ plan' = <<>> /\ UNCHANGED <<sent, browser, captured, mistaken>>
            BY <2>4, <3>1, CaptureFacts DEF PipeClosed, Begin, history
        <3>3. plan' # capture
            BY <3>2, CaptureFacts
        <3> QED BY <1>5, <1>8, <2>2, <3>2, <3>3 DEF CaptureInv, capture, Command
    <2>5. CASE Answer \/ LoadFires \/ BrowserActs
        <3>1. UNCHANGED <<stage, plan, sent, captured, mistaken>> /\ browser'.cookies = browser.cookies
            BY <1>1, <2>5 DEF Answer, LoadFires, BrowserActs, server, history, BrowserShape
        <3> QED BY <1>3, <1>5, <1>7, <1>8, <2>2, <3>1 DEF CaptureInv, capture, Command
    <2>6. CASE Dispatch
        <3>1. UNCHANGED <<stage, plan, captured, mistaken>> /\ (Takes \/ Refuses)
            BY <1>1, <2>6, DispatchCases
        <3>2. 1 \in DOMAIN sent /\ Follows(sent, sent')
            BY <1>1, <2>6, DispatchPipes
        <3>3. sent[1].m = "close" => browser'.cookies = browser.cookies
            BY <1>1, <3>1, EffectFields DEF Takes, Refuses
        <3>4. (\A i \in DOMAIN sent : sent[i].m = "close") => \A i \in DOMAIN sent' : sent'[i].m = "close"
            BY <3>2 DEF Follows
        <3> QED BY <1>3, <1>5, <1>7, <1>8, <2>2, <3>1, <3>2, <3>3, <3>4 DEF CaptureInv, capture, Command
    <2> QED BY <1>8, <2>1, <2>3, <2>4, <2>5, <2>6 DEF Next
<1>9. CASE ~captured.answered /\ captured'.answered # FALSE /\ ~destroy_capturing_native
    <2>1. captured' # captured
        BY <1>2, <1>9
    <2>2. recv
        BY <1>9, <2>1 DEF Next, create_seeded, send, PipeClosed, CleanupTimeout, Failed, Dispatch, Answer, LoadFires,
               BrowserActs, ClientSends, Forward, serve_profile
    <2>3. RecvOk /\ stage = "capture" /\ awaiting # 0 /\ UNCHANGED browser
        BY <1>1, <2>1, <2>2, RecvCases DEF RecvSkips, RecvPaused, RecvLoaded, RecvFails, RecvOk
    <2>4. plan = capture /\ awaiting = 1
        BY <1>1, <2>3 DEF PlanInv, Inv, CdpInv, FirstInv
    <2>5. RecvReply /\ Advances
        BY <2>3, <2>4, CaptureFacts DEF RecvOk, Repeats
    <2>6. plan' = Tail(capture) /\ stage' = "capture" /\ UNCHANGED sent
        BY <2>3, <2>4, <2>5, CaptureFacts DEF Advances, RecvReply
    <2>7. captured'.cookies = IF inbox[1].m = "getCookies" THEN inbox[1].data ELSE {}
        BY <1>1, <2>3 DEF RecvOk, CapturedShape
    <2>8. ASSUME "capture" \notin mistaken' PROVE captured'.cookies = browser.cookies /\ sent = <<>>
        <3>1. inbox[1].owner # "client" /\ inbox[1].id = 1
            BY <2>3, <2>4, <2>5, <2>8 DEF RecvReply
        <3>2. 1 \in DOMAIN inbox
            BY <1>1, <2>2, RecvPipes
        <3>3. inbox[1].owner = "server"
            BY <3>1, <3>2 DEF Inv, CdpInv, IdInv
        <3>4. First(inbox[1]) /\ inbox[1] \in Pipes
            BY <3>1, <3>2, <3>3 DEF First, Pipes
        <3>5. sent = <<>> /\ inbox[1].m = "getCookies" /\ inbox[1].data = browser.cookies
            BY <2>3, <2>4, <3>4 DEF Inv, CdpInv, FirstInv
        <3> QED BY <2>7, <3>5
    <2>9. plan' # capture
        BY <2>6, CaptureFacts
    <2> QED BY <1>5, <1>9, <2>3, <2>6, <2>8, <2>9 DEF CaptureInv, capture, Command
<1> QED BY <1>2, <1>4, <1>6, <1>8, <1>9

-----------------------------------------------------------------------------
(* The invariant holds at first, *)
LEMMA CdpInit ==
    ASSUME Init
    PROVE  Inv
<1>1. /\ payload \in Payloads /\ stage = "launch" /\ plan = <<>> /\ awaiting = 0 /\ next_id = 1
      /\ sent = <<>> /\ answers = {} /\ inbox = <<>> /\ files = {} /\ captured = NoCapture
      /\ resumes = 0 /\ faults = 0 /\ commands = 0 /\ mistaken = {} /\ staleLoad = FALSE /\ changed = FALSE
    BY DEF Init
<1>2. /\ browser.alive = TRUE /\ browser.page \in BOOLEAN /\ browser.doc = "blank" /\ browser.events = FALSE
      /\ browser.loading \in {"blank", "none"} /\ browser.held = FALSE /\ browser.fetch = FALSE
      /\ browser.cookies = {} /\ browser.rows = {} /\ BrowserShape(browser)
    BY DEF Init, BrowserShape
<1>3. DOMAIN sent = {} /\ DOMAIN inbox = {} /\ Pipes = {}
    BY <1>1 DEF Pipes
<1>4. /\ captured.deposit = FALSE /\ captured.answered = FALSE
      /\ captured.opened = FALSE /\ captured.packed = FALSE /\ CapturedShape(captured)
    BY <1>1 DEF NoCapture, CapturedShape
<1>5. ShapeInv
    BY <1>1, <1>2, <1>4, ListEmpty DEF ShapeInv
<1>6. OwnReplies
    <2>1. MaxResumes \in Nat /\ MaxFaults \in Nat /\ MaxClient \in Nat
        BY CdpAssumption
    <2>2. resumes \in 0..MaxResumes /\ faults \in 0..MaxFaults /\ commands \in 0..MaxClient
        BY <1>1, <2>1
    <2>3. "blank" \in Documents
        BY DEF Documents
    <2> QED BY <1>1, <1>2, <1>3, <1>4, <2>2, <2>3 DEF OwnReplies, TypeOK
<1>7. PlanInv
    BY <1>1 DEF PlanInv
<1>8. IdInv
    BY <1>1, <1>3 DEF IdInv, Clients
<1>9. UniqueInv /\ SentInv /\ ReplyInv /\ CookieInv
    BY <1>1, <1>2, <1>3 DEF UniqueInv, SentInv, ReplyInv, CookieInv
<1>10. RowInv /\ LoadInv
    BY <1>1, <1>2, <1>3 DEF RowInv, LoadInv
<1>11. KeptInv /\ FirstInv /\ CaptureInv
    BY <1>1, <1>2, <1>3, <1>4 DEF KeptInv, FirstInv, CaptureInv
<1> QED BY <1>5, <1>6, <1>7, <1>8, <1>9, <1>10, <1>11 DEF Inv, CdpInv

(* and every step keeps it. *)
LEMMA CdpNext ==
    ASSUME Inv, [Next]_vars
    PROVE  Inv'
<1>1. CASE Next
    <2>1. OwnReplies' /\ PlanInv' /\ IdInv' /\ UniqueInv' /\ SentInv' /\ ReplyInv'
        BY <1>1, OwnStep, PlanStep, IdStep, UniqueStep, SentStep, ReplyStep
    <2>2. CookieInv' /\ RowInv' /\ LoadInv' /\ KeptInv' /\ FirstInv' /\ CaptureInv' /\ ShapeInv'
        BY <1>1, CookieStep, RowStep, LoadStep, KeptStep, FirstStep, CaptureStep, ShapeStep
    <2> QED BY <2>1, <2>2 DEF Inv, CdpInv
<1>2. CASE UNCHANGED vars
    <2>1. UNCHANGED <<payload, stage, plan, awaiting, next_id, sent, answers, inbox, browser, files,
                      captured, resumes, faults, commands, mistaken, staleLoad, changed>>
        BY <1>2 DEF vars
    <2>2. /\ UNCHANGED <<params, Seeded, apply_local_storage, seed_profile, Restorable>>
          /\ \A i : Origin(i)' = Origin(i)
        BY <2>1, Constant
    <2>3. Done' = Done /\ Pipes' = Pipes /\ Loads' = Loads /\ (Navigated' <=> Navigated) /\ UNCHANGED capture
        BY <2>1, <2>2 DEF Done, Pipes, Loads, Navigated, capture, Command
    <2>4. Written(Done)' = Written(Done) /\ Written(Done + 1)' = Written(Done + 1)
          /\ Written(Len(apply_local_storage))' = Written(Len(apply_local_storage))
        BY <2>1, <2>2, <2>3 DEF Written
    <2>5. OwnReplies'
        BY <2>1 DEF Inv, CdpInv, OwnReplies, TypeOK
    <2>6. ShapeInv'
        BY <2>1 DEF Inv, ShapeInv, BrowserShape, CapturedShape
    <2>7. PlanInv'
        BY <2>1, <2>2, <2>3 DEF Inv, CdpInv, PlanInv, SeedPlan, SeedRest, Command
    <2>8. IdInv'
        BY <2>1 DEF Inv, CdpInv, IdInv, Clients
    <2>9. UniqueInv'
        BY <2>1 DEF Inv, CdpInv, UniqueInv
    <2>10. SentInv'
        BY <2>1 DEF Inv, CdpInv, SentInv, Awaited, ChromeAccepts
    <2>11. ReplyInv'
        BY <2>1, <2>2, <2>3, <2>4 DEF Inv, CdpInv, ReplyInv
    <2>12. CookieInv'
        BY <2>1, <2>2, <2>3 DEF Inv, CdpInv, CookieInv
    <2>13. RowInv'
        BY <2>1, <2>2, <2>3, <2>4 DEF Inv, CdpInv, RowInv
    <2>14. LoadInv'
        BY <2>1, <2>2, <2>3 DEF Inv, CdpInv, LoadInv
    <2>15. KeptInv'
        BY <2>1, <2>2, <2>4 DEF Inv, CdpInv, KeptInv
    <2>16. FirstInv'
        BY <2>1, <2>3 DEF Inv, CdpInv, FirstInv, First
    <2>17. CaptureInv'
        BY <2>1, <2>3 DEF Inv, CdpInv, CaptureInv, pack_native, read_profile_local_storage, FirstParty, decompress
    <2> QED BY <2>5, <2>6, <2>7, <2>8, <2>9, <2>10, <2>11, <2>12, <2>13, <2>14, <2>15, <2>16, <2>17 DEF Inv, CdpInv
<1> QED BY <1>1, <1>2

(* The inductive invariant: what each stage still has to do, whose message  *)
(* is whose, and how far the browser is seeded (client.rs, profile/cdp.rs). *)
THEOREM CdpInvariant == Spec => []Inv
BY CdpInit, CdpNext, PTL DEF Spec

(* client.rs, with_first_id: neither the seeding nor the clean slate ever   *)
(* takes a reply to a client's command for its own, however late it comes;  *)
(* and a command is awaited only while there is one to complete.            *)
THEOREM RepliesAreOwn == Spec => []OwnReplies
<1>1. Inv => OwnReplies
    BY DEF Inv, CdpInv
<1> QED BY <1>1, CdpInvariant, PTL

(* cookie.rs, sanitize: no cookie that a profile can hold makes the browser *)
(* refuse the command that sets them all.                                   *)
THEOREM BatchIsAccepted == Spec => []BatchAccepted
<1>1. Inv => BatchAccepted
    <2> SUFFICES ASSUME Inv, NEW i \in DOMAIN sent, sent[i].m = "setCookies" PROVE ~Refused(sent[i])
        BY DEF BatchAccepted
    <2>1. \A p \in sent[i].arg : ChromeAccepts(p)
        BY DEF Inv, CdpInv, SentInv
    <2> QED BY <2>1 DEF Refused
<1> QED BY <1>1, CdpInvariant, PTL

(* What the scripts have written in the end is the payload's localStorage.  *)
LEMMA AllWritten ==
    ASSUME payload \in Payloads
    PROVE  Readable(Written(Len(apply_local_storage))) = LocalOf(payload)
<1> DEFINE all == Written(Len(apply_local_storage))
<1>1. \A i \in DOMAIN payload.local : 2 * i + 2 <= Len(apply_local_storage)
    <2>1. Len(payload.local) \in Nat /\ DOMAIN payload.local = 1..Len(payload.local)
          /\ Len(apply_local_storage) = IF Len(payload.local) = 0 THEN 0 ELSE 2 * Len(payload.local) + 4
        BY LocalPlan
    <2> QED BY <2>1
<1>2. \A r : r \in all <=> \E i \in DOMAIN payload.local : \E e \in Origin(i).entries : r = Row(Origin(i).origin, e)
    BY <1>1, WrittenMember
<1> HIDE DEF all
<1>3. \A i \in DOMAIN payload.local : \A e \in Origin(i).entries : e.text # "surrogate"
    BY PayloadFacts DEF EntryType
<1> DEFINE entry(o, e) == [origin |-> o, name |-> e.name, text |-> e.text]
<1>4. ASSUME NEW x
      PROVE  x \in LocalOf(payload) <=>
                \E i \in DOMAIN payload.local : \E e \in Origin(i).entries : x = entry(Origin(i).origin, e)
    BY DEF LocalOf, Origin
<1>5. ASSUME NEW x
      PROVE  x \in Readable(all) <=>
                \E r \in all : ~r.third /\ r.text # "surrogate" /\ x = entry(r.origin, r)
    BY DEF Readable
<1>6. ASSUME NEW i \in DOMAIN payload.local, NEW e \in Origin(i).entries
      PROVE  LET r == Row(Origin(i).origin, e) IN
             ~r.third /\ r.text # "surrogate" /\ entry(r.origin, r) = entry(Origin(i).origin, e)
    BY <1>3 DEF Row
<1> HIDE DEF entry
<1>7. ASSUME NEW x PROVE x \in Readable(all) <=> x \in LocalOf(payload)
    <2>1. ASSUME x \in Readable(all) PROVE x \in LocalOf(payload)
        BY <1>2, <1>4, <1>5, <1>6, <2>1
    <2>2. ASSUME x \in LocalOf(payload) PROVE x \in Readable(all)
        BY <1>2, <1>4, <1>5, <1>6, <2>2
    <2> QED BY <2>1, <2>2
<1> QED BY <1>7 DEF all

(* profile/cdp.rs, seed_profile: the browser that a client gets holds each  *)
(* cookie of the profile that can be restored, with all of its attributes,  *)
(* and each origin's localStorage in that origin, in whatever order the     *)
(* browser answers; unless a navigation ended with another document's load. *)
THEOREM SeedsWhole == Spec => []SeededWhole
<1>1. Inv => SeededWhole
    <2> SUFFICES ASSUME Inv, stage = "bridged", ~changed, ~staleLoad
                 PROVE  browser.cookies = Restorable /\ Readable(browser.rows) = LocalOf(payload)
        BY DEF SeededWhole
    <2>1. browser.cookies = Seeded /\ browser.rows = Written(Len(apply_local_storage)) /\ payload \in Payloads
        BY DEF Inv, CdpInv, KeptInv, OwnReplies, TypeOK
    <2> QED BY <2>1, CookieFacts, AllWritten
<1> QED BY <1>1, CdpInvariant, PTL

(* localstorage.rs, read_profile_local_storage: what the capture decodes of *)
(* the rows on disk is all of it that is text.                              *)
LEMMA ReadsAll ==
    ASSUME NEW rows, \A r \in rows : r.text \in Texts /\ r.compression \in 0..2
    PROVE  read_profile_local_storage(rows, TRUE) = Readable(rows)
<1>1. \A r \in rows : FirstParty(r) /\ decode_string(r.text) /\ decompress(r) <=> ~r.third /\ r.text # "surrogate"
    BY DEF FirstParty, decode_string, decompress, Texts
<1>2. {s \in rows : FirstParty(s) /\ decode_string(s.text) /\ decompress(s)}
         = {q \in rows : ~q.third /\ q.text # "surrogate"}
    BY <1>1
<1> QED BY <1>2 DEF read_profile_local_storage, Readable

(* server/ws.rs, profile_session: what is deposited is the profile as the   *)
(* browser had it at the end, and the profile that was handed off if no     *)
(* client changed it, each part of it where its own reading did not fail.   *)
THEOREM CapturesWhole == Spec => []CaptureWhole
<1>1. Inv => CaptureWhole
    <2> SUFFICES ASSUME Inv, captured.deposit
                 PROVE  /\ captured.answered /\ "capture" \notin mistaken =>
                              /\ captured.cookies = browser.cookies
                              /\ ~changed => captured.cookies = Restorable
                        /\ captured.opened /\ browser.disk = browser.rows =>
                              /\ captured.local = Readable(browser.rows)
                              /\ ~changed /\ ~staleLoad => captured.local = LocalOf(payload)
                        /\ captured.packed =>
                              captured.files = {payload.files[i] : i \in DOMAIN payload.files}
        BY DEF CaptureWhole
    <2>1. captured.answered /\ "capture" \notin mistaken => captured.cookies = browser.cookies
        BY DEF Inv, CdpInv, CaptureInv
    <2>2. captured.opened /\ browser.disk = browser.rows => captured.local = Readable(browser.rows)
        <3>1. /\ captured.local = read_profile_local_storage(browser.disk, captured.opened)
              /\ captured.opened \in BOOLEAN
            BY DEF Inv, CdpInv, CaptureInv, OwnReplies, TypeOK
        <3>2. \A r \in browser.rows : r.text \in Texts /\ r.compression \in 0..2
            BY DEF Inv, CdpInv, KeptInv
        <3> QED BY <3>1, <3>2, ReadsAll
    <2>3. payload \in Payloads
        BY DEF Inv, CdpInv, OwnReplies, TypeOK
    <2>4. captured.packed => captured.files = {payload.files[i] : i \in DOMAIN payload.files}
        <3> SUFFICES ASSUME captured.packed
                     PROVE  captured.files = {payload.files[i] : i \in DOMAIN payload.files}
            OBVIOUS
        <3>1. captured.files = pack_native(files, TRUE) /\ files = FilesOf
            <4>1. captured.packed = TRUE
                BY DEF Inv, CdpInv, OwnReplies, TypeOK
            <4> QED BY <4>1 DEF Inv, CdpInv, CaptureInv, KeptInv, FilesOf
        <3>2. \A i \in DOMAIN payload.files : payload.files[i][1] \in NATIVE_STORES
            BY <2>3, PayloadFacts
        <3>3. {g \in files : g.node = "file" /\ g.path[1] \in NATIVE_STORES} = files
            BY <3>1, <3>2 DEF FilesOf
        <3>4. captured.files = {f.path : f \in FilesOf}
            BY <3>1, <3>3, Zenon DEF pack_native
        <3>5. ASSUME NEW x PROVE x \in {f.path : f \in FilesOf} <=> x \in {payload.files[i] : i \in DOMAIN payload.files}
            <4> DEFINE file(p) == [path |-> p, node |-> "file"]
            <4>1. FilesOf = {file(payload.files[i]) : i \in DOMAIN payload.files}
                BY DEF FilesOf
            <4>2. \A i \in DOMAIN payload.files : file(payload.files[i]).path = payload.files[i]
                OBVIOUS
            <4> HIDE DEF file
            <4>3. ASSUME x \in {f.path : f \in FilesOf} PROVE x \in {payload.files[i] : i \in DOMAIN payload.files}
                <5>1. PICK f \in FilesOf : x = f.path
                    BY <4>3
                <5>2. PICK i \in DOMAIN payload.files : f = file(payload.files[i])
                    BY <4>1, <5>1
                <5> QED BY <4>2, <5>1, <5>2
            <4>4. ASSUME NEW i \in DOMAIN payload.files, x = payload.files[i] PROVE x \in {f.path : f \in FilesOf}
                <5>1. file(payload.files[i]) \in FilesOf
                    BY <4>1
                <5>2. x = file(payload.files[i]).path
                    BY <4>2, <4>4
                <5> QED BY <5>1, <5>2
            <4> QED BY <4>3, <4>4
        <3> QED BY <3>4, <3>5, Zenon
    <2>5. ~changed => browser.cookies = Seeded
        BY DEF Inv, CdpInv, KeptInv
    <2>6. ~changed /\ ~staleLoad => browser.rows = Written(Len(apply_local_storage))
        BY DEF Inv, CdpInv, KeptInv
    <2>7. Seeded = Restorable /\ Readable(Written(Len(apply_local_storage))) = LocalOf(payload)
        BY <2>3, CookieFacts, AllWritten
    <2> QED BY <2>1, <2>2, <2>4, <2>5, <2>6, <2>7
<1> QED BY <1>1, CdpInvariant, PTL
=============================================================================
