------------------------------- MODULE Relay -------------------------------
(***************************************************************************)
(* The relay that one session's browser uses as its proxy: its listener,   *)
(* the connections through it, and the handshake of each with the upstream *)
(* proxy (proxy/relay.rs, proxy/dial.rs, proxy/socks.rs).                  *)
(*                                                                         *)
(* The browser's end, the upstream proxy and the timers act at any moment. *)
(* What was written to each end is kept, piece by piece.                   *)
(***************************************************************************)
EXTENDS Proxy

CONSTANTS
    Conns,              \* connections that the browser tries
    Heads,              \* the first heads that it may send
    Setups,             \* a function to [raw, addrs, allow_private]
    max_connections

(* What the pieces that are written consist of besides the headers of the   *)
(* client's head.                                                           *)
Written == {"CONNECT", "login", "Connection: close", "early"}

ASSUME RelayAssumption ==
    /\ max_connections \in Nat \ {0} /\ IsFiniteSet(Conns)
    /\ Heads \subseteq HeadType
    /\ \A h \in Heads : (h.headers \cup h.connection) \cap Written = {}
    /\ \A s \in DOMAIN Setups : Setups[s].addrs \subseteq Addresses

VARIABLES
    setup, relay,       \* the proxy asked for; the Relay
    permits,            \* the semaphore
    st, head,           \* each connection: its stage, its head
    told,               \* what its client was sent
    upstream,           \* its stream to the upstream proxy
    toProxy, toTarget   \* what the proxy itself, and the target through it, got

vars == <<setup, relay, permits, st, head, told, upstream, toProxy, toTarget>>
streams == <<told, upstream, toProxy, toTarget>>

Dialling == {"dial", "greeting", "login", "socksReply", "connectReply"}
Live == Dialling \cup {"head", "established", "responding", "copying", "bad", "failed"}

Proxies == [s \in DOMAIN Setups |-> parse(Setups[s].raw)]
Resolved == [s \in DOMAIN Setups |->
                resolve_allowed(Setups[s].addrs, Setups[s].allow_private)]
proxy == Proxies[setup]
addrs == Resolved[setup]

(* Every variable holds a value of its type, and a permit is held by every  *)
(* connection that is served and by no other.                               *)
TypeOK ==
    /\ relay \in {"off", "running", "refused", "dropped"}
    /\ st \in [Conns -> Live \cup {"none", "refused", "closed"}]
    /\ upstream \in [Conns -> {"none", "open"}]
    /\ permits + Cardinality({c \in Conns : st[c] \in Live}) = max_connections
    /\ permits >= 0
    /\ \A c \in Conns : upstream[c] = "open" => st[c] \in Live

-----------------------------------------------------------------------------
Init ==
    /\ setup \in DOMAIN Setups /\ relay = "off" /\ permits = max_connections
    /\ st = [c \in Conns |-> "none"]
    /\ head = [c \in Conns |-> NoHead]
    /\ told = [c \in Conns |-> <<>>]
    /\ upstream = [c \in Conns |-> "none"]
    /\ toProxy = [c \in Conns |-> {}]
    /\ toTarget = [c \in Conns |-> <<>>]

\* requested_proxy's parse, then Relay::start: Dialer::new resolves and checks
\* the upstream; TLS may be unavailable, or no port free.
start ==
    /\ relay = "off"
    /\ \/ Parses(Setups[setup].raw) /\ addrs # {} /\ relay' = "running"
       \/ relay' = "refused"
    /\ UNCHANGED <<setup, permits, st, head, streams>>

\* accept_loop, one connection: one that is not of this host, or finds no
\* permit, is dropped. The select prefers nothing: one that waits may still be
\* taken after the token was cancelled.
accept(c) ==
    /\ relay \in {"running", "dropped"} /\ st[c] = "none"
    /\ \/ permits > 0 /\ permits' = permits - 1 /\ st' = [st EXCEPT ![c] = "head"]
       \/ permits' = permits /\ st' = [st EXCEPT ![c] = "refused"]
    /\ UNCHANGED <<setup, relay, head, streams>>

\* Dropping the Relay cancels its token: the listener closes.
Drop ==
    /\ relay = "running" /\ relay' = "dropped"
    /\ UNCHANGED <<setup, permits, st, head, streams>>

-----------------------------------------------------------------------------
Goto(c, stage) == st' = [st EXCEPT ![c] = stage]
Tell(c, items) == told' = [told EXCEPT ![c] = @ \o items]
ToProxy(c, items) == toProxy' = [toProxy EXCEPT ![c] = @ \cup items]
ToTarget(c, items) == toTarget' = [toTarget EXCEPT ![c] = @ \o items]
Early(c) == IF head[c].early THEN <<{"early"}>> ELSE <<>>

\* Mutant: the permit is dropped only where serve ends by itself.
End_keeps_permit(c) ==
    /\ permits' = (IF relay = "dropped" THEN permits ELSE permits + 1)
    /\ Goto(c, "closed") /\ upstream' = [upstream EXCEPT ![c] = "none"]

\* The task ends: its streams and its permit are dropped.
End(c) ==
    /\ permits' = permits + 1
    /\ Goto(c, "closed") /\ upstream' = [upstream EXCEPT ![c] = "none"]

\* Mutant: the token is looked at only once the streams are joined.
Cancelled_copying(c) ==
    /\ relay = "dropped" /\ st[c] = "copying" /\ End(c)
    /\ UNCHANGED <<setup, relay, head, told, toProxy, toTarget>>

\* The select on the token, at any of serve's waits.
Cancelled(c) ==
    /\ relay = "dropped" /\ st[c] \in Live /\ End(c)
    /\ UNCHANGED <<setup, relay, head, told, toProxy, toTarget>>

\* read_head: a head, an error (too large, cut short), or a clean close.
read_head == Heads \cup {[NoHead EXCEPT !.form = f] : f \in {"error", "closed"}}

\* serve, up to the dial: a clean close ends it, what does not parse is bad.
serve(c) ==
    /\ st[c] = "head"
    /\ \E h \in read_head :
          /\ head' = [head EXCEPT ![c] = h]
          /\ IF h.form = "closed" THEN End(c)
             ELSE /\ Goto(c, IF parse_request(h) = "bad" THEN "bad" ELSE "dial")
                  /\ UNCHANGED <<permits, upstream>>
    /\ UNCHANGED <<setup, relay, told, toProxy, toTarget>>

\* A tunnel is asked for by CONNECT, and for every request by SOCKS.
Tunnelled(c) == parse_request(head[c]) = "connect" \/ proxy.scheme = "socks5"

\* open_inner: TCP, and TLS for https; then the first message of the handshake.
open_inner(c) ==
    /\ st[c] = "dial"
    /\ upstream' = [upstream EXCEPT ![c] = "open"]
    /\ CASE ~Tunnelled(c) -> Goto(c, "established") /\ UNCHANGED toProxy
         [] Tunnelled(c) /\ proxy.scheme = "socks5" -> Goto(c, "greeting") /\ UNCHANGED toProxy
         [] OTHER -> /\ Goto(c, "connectReply")
                     /\ ToProxy(c, IF proxy.login THEN {"CONNECT", "login"} ELSE {"CONNECT"})
    /\ UNCHANGED <<setup, relay, permits, head, told, toTarget>>

\* socks::connect: the proxy's choice of method; then its answer to the login,
\* if it was to have one, and to the request.
socks_choice(c) ==
    /\ st[c] = "greeting"
    /\ \E choice \in {"no_auth", "user_pass", "no_acceptable", "other"} :
          CASE choice = "no_auth" -> Goto(c, "socksReply") /\ UNCHANGED toProxy
            [] choice = "user_pass" /\ proxy.login -> Goto(c, "login") /\ ToProxy(c, {"login"})
            [] OTHER -> Goto(c, "failed") /\ UNCHANGED toProxy
    /\ UNCHANGED <<setup, relay, permits, head, told, upstream, toTarget>>

socks_reply(c) ==
    /\ st[c] \in {"login", "socksReply"}
    /\ \E ok \in BOOLEAN :
          Goto(c, IF ~ok THEN "failed"
                  ELSE IF st[c] = "login" THEN "socksReply" ELSE "established")
    /\ UNCHANGED <<setup, relay, permits, head, streams>>

\* A response head's status, or that it has none, or that there is no head.
response_status == {"2xx", "401 or 407", "other", "malformed", "no head"}

http_connect(c) ==
    /\ st[c] = "connectReply"
    /\ \E status \in response_status :
          Goto(c, IF status = "2xx" THEN "established" ELSE "failed")
    /\ UNCHANGED <<setup, relay, permits, head, streams>>

\* The upstream cannot be reached, closes, breaks the protocol, or takes
\* longer than connect_timeout in all.
DialFails(c) ==
    /\ st[c] \in Dialling /\ Goto(c, "failed")
    /\ UNCHANGED <<setup, relay, permits, head, streams>>

\* Mutant: an error after the tunnel stands is reported like one before it.
connect_reports(c) ==
    /\ st[c] = "established" /\ parse_request(head[c]) = "connect"
    /\ Tell(c, <<"200">>) /\ st' \in {[st EXCEPT ![c] = s] : s \in {"copying", "failed"}}
    /\ UNCHANGED <<setup, relay, permits, head, upstream, toProxy, toTarget>>

\* connect: 200, what the proxy sent already, what the client sent already. A
\* write that fails ends the connection without another word.
connect(c) ==
    /\ st[c] = "established" /\ parse_request(head[c]) = "connect"
    /\ \/ Tell(c, <<"200", "rest">>) /\ ToTarget(c, Early(c)) /\ Goto(c, "copying")
          /\ UNCHANGED <<permits, upstream>>
       \/ \E written \in {<<>>, <<"200">>, <<"200", "rest">>} :
             Tell(c, written) /\ End(c) /\ UNCHANGED toTarget
    /\ UNCHANGED <<setup, relay, head, toProxy>>

\* Mutant: the login goes with every request, through a tunnel too.
forward_with_login(c) ==
    /\ st[c] = "established" /\ parse_request(head[c]) = "forward"
    /\ ToTarget(c, <<rewrite_request(head[c], proxy.login)>>) /\ Goto(c, "responding")
    /\ UNCHANGED <<setup, relay, permits, head, told, upstream, toProxy>>

\* forward: the head, with the login if it goes to the proxy itself, which
\* takes it off; then what the client sent already.
forward(c) ==
    /\ st[c] = "established" /\ parse_request(head[c]) = "forward"
    /\ LET rewritten == rewrite_request(head[c], ~Tunnelled(c) /\ proxy.login) IN
          /\ IF Tunnelled(c) THEN UNCHANGED toProxy ELSE ToProxy(c, rewritten)
          /\ \/ ToTarget(c, <<rewritten \ (IF Tunnelled(c) THEN {} ELSE {"login"})>> \o Early(c))
                /\ Goto(c, "responding")
             \/ Goto(c, "failed") /\ UNCHANGED toTarget
    /\ UNCHANGED <<setup, relay, permits, head, told, upstream>>

\* forward, the response: a login that failed and a close are reported. Where a
\* write of it to the client fails, so does the one of the 502 that serve then
\* sends: that client is gone.
response(c) ==
    /\ st[c] = "responding"
    /\ \/ \E status \in response_status :
             /\ IF status \in {"401 or 407", "no head"} THEN Goto(c, "failed") /\ UNCHANGED told
                ELSE Tell(c, <<"response">>) /\ Goto(c, "copying")
             /\ UNCHANGED <<permits, upstream>>
       \/ \E written \in {<<>>, <<"response">>} : Tell(c, written) /\ End(c)
    /\ UNCHANGED <<setup, relay, head, toProxy, toTarget>>

\* copy_bidirectional and forward's copy end when the streams do.
CopyEnds(c) ==
    /\ st[c] = "copying" /\ End(c)
    /\ UNCHANGED <<setup, relay, head, told, toProxy, toTarget>>

reply(c) ==
    /\ st[c] \in {"bad", "failed"}
    /\ Tell(c, IF st[c] = "bad" THEN <<"400">> ELSE <<"502">>) /\ End(c)
    /\ UNCHANGED <<setup, relay, head, toProxy, toTarget>>

-----------------------------------------------------------------------------
Own(c) == connect(c) \/ forward(c) \/ reply(c) \/ DialFails(c) \/ Cancelled(c)

Next ==
    \/ start \/ Drop
    \/ \E c \in Conns : \/ accept(c) \/ serve(c) \/ open_inner(c) \/ socks_choice(c)
                        \/ socks_reply(c) \/ http_connect(c) \/ response(c) \/ CopyEnds(c) \/ Own(c)

Spec == Init /\ [][Next]_vars

\* Tasks are polled, the dial's timer fires; the browser and the upstream
\* proxy may be silent for ever.
FairSpec == Spec /\ \A c \in Conns : WF_vars(Own(c))

-----------------------------------------------------------------------------
(* What the relay promises. *)

\* Whether an address of n parts of so many bits is in a network: the parts of
\* its first address, and how many bits of them count.
InNet(parts, net, n, width) ==
    \A i \in 1..n :
        LET bits == IF net[n + 1] >= width * i THEN width
                    ELSE IF net[n + 1] <= width * (i - 1) THEN 0
                    ELSE net[n + 1] - width * (i - 1)
        IN  parts[i] \div 2 ^ (width - bits) = net[i] \div 2 ^ (width - bits)

\* The ranges that is_blocked_ip's comment names, as networks, and those that
\* are reserved besides (0/8, 192.0.0/24, 240/4, fec0::/10).
Reserved ==
    {<<127, 0, 0, 0, 8>>, <<10, 0, 0, 0, 8>>, <<172, 16, 0, 0, 12>>, <<192, 168, 0, 0, 16>>,
     <<169, 254, 0, 0, 16>>, <<100, 64, 0, 0, 10>>, <<224, 0, 0, 0, 4>>, <<0, 0, 0, 0, 8>>,
     <<192, 0, 2, 0, 24>>, <<198, 51, 100, 0, 24>>, <<203, 0, 113, 0, 24>>,
     <<198, 18, 0, 0, 15>>, <<192, 0, 0, 0, 24>>, <<240, 0, 0, 0, 4>>}

\* ::, ::1, fc00::/7, fe80::/10, fec0::/10, ff00::/8, 2001:db8::/32.
Reserved6 ==
    {<<0, 0, 0, 0, 0, 0, 0, 0, 128>>, <<0, 0, 0, 0, 0, 0, 0, 1, 128>>,
     <<64512, 0, 0, 0, 0, 0, 0, 0, 7>>, <<65152, 0, 0, 0, 0, 0, 0, 0, 10>>,
     <<65216, 0, 0, 0, 0, 0, 0, 0, 10>>, <<65280, 0, 0, 0, 0, 0, 0, 0, 8>>,
     <<8193, 3512, 0, 0, 0, 0, 0, 0, 32>>}

\* IPv4-mapped, IPv4-compatible and NAT64 addresses.
Embeds(seg) ==
    \E prefix \in {<<0, 0, 0, 0, 0, ffff>>, <<0, 0, 0, 0, 0, 0>>, <<100, ff9b, 0, 0, 0, 0>>} :
        \A i \in 1..6 : seg[i] = prefix[i]

IsReserved4(o) == \E net \in Reserved : InNet(o, net, 4, 8)
IsReserved6(seg) ==
    \/ \E net \in Reserved6 : InNet(seg, net, 8, 16)
    \/ Embeds(seg) /\ IsReserved4(Embedded(seg))

ReservedAddrs ==
    {a \in UNION {Setups[s].addrs : s \in DOMAIN Setups} :
        IF a.v = 4 THEN IsReserved4(a.o) ELSE IsReserved6(a.seg)}

(* address.rs: no connection is made to "loopback, private, link-local,     *)
(* carrier-grade NAT, unique-local, multicast, ... benchmarking ranges, and *)
(* the IPv4-mapped / IPv4-compatible / NAT64 forms of any of those", in     *)
(* IPv4 or IPv6, unless allowed to.                                         *)
PublicOnly ==
    relay \in {"running", "dropped"} /\ ~Setups[setup].allow_private => addrs \cap ReservedAddrs = {}

(* The upstream's login goes to the upstream proxy and nowhere else, and of *)
(* the client's head nothing passes that belongs to its hop, whichever way  *)
(* the request takes and however the handshake goes.                        *)
LoginKept ==
    \A c \in Conns :
        /\ \A i \in DOMAIN toTarget[c] :
              toTarget[c][i] \cap ({"login"} \cup hop_by_hop(head[c])) = {}
        /\ "login" \in toProxy[c] => proxy.login

(* A client gets one status: nothing is reported into a tunnel or a         *)
(* response that has begun; and bytes that came with a head follow it.      *)
OneAnswer ==
    \A c \in Conns :
        /\ \A i \in DOMAIN told[c] : i > 1 => told[c][i] = "rest"
        /\ st[c] = "copying" /\ head[c].early =>
              toTarget[c] # <<>> /\ toTarget[c][Len(toTarget[c])] = {"early"}

(* Dropping the relay "closes every connection that passes through it" and  *)
(* gives back its permits, whatever each waits for; and no connection dials *)
(* for ever.                                                                *)
DropCloses ==
    /\ relay = "dropped" ~> \A c \in Conns : st[c] \notin Live /\ permits = max_connections
    /\ \A c \in Conns : st[c] \in Dialling ~> st[c] \notin Dialling
-----------------------------------------------------------------------------
(* The inductive invariant behind the proofs. *)

AnyHead == {NoHead} \cup read_head
Pieces == Written \cup UNION {h.headers : h \in Heads}
Words == {"200", "rest", "response", "400", "502"}

(* The types of what is kept of each connection. *)
PieceInv ==
    /\ setup \in DOMAIN Setups /\ permits \in Int
    /\ head \in [Conns -> AnyHead]
    /\ told \in [Conns -> Seq(Words)]
    /\ toProxy \in [Conns -> SUBSET Pieces]
    /\ toTarget \in [Conns -> Seq(SUBSET Pieces)]

(* The client is told nothing before a tunnel or a response begins, and the *)
(* target gets nothing before the handshake is over.                        *)
SilenceInv ==
    \A c \in Conns :
        /\ st[c] \notin {"copying", "closed"} => told[c] = <<>>
        /\ st[c] \in Dialling \cup {"none", "refused", "head", "established", "bad"} =>
              toTarget[c] = <<>>
        /\ st[c] = "responding" /\ head[c].early =>
              toTarget[c] # <<>> /\ toTarget[c][Len(toTarget[c])] = {"early"}

RelayInv == TypeOK /\ PieceInv /\ SilenceInv /\ LoginKept /\ OneAnswer
=============================================================================
