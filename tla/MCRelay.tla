------------------------------ MODULE MCRelay ------------------------------
EXTENDS Relay

Headers == {"host", "proxy-authorization", "connection", "x-hop"}
MCHeads ==
    {[form |-> "connect", authority |-> TRUE, headers |-> Headers, connection |-> {},
      early |-> TRUE],
     [form |-> "absolute", authority |-> TRUE, headers |-> Headers,
      connection |-> {"x-hop", "close"}, early |-> TRUE],
     [form |-> "origin", authority |-> TRUE, headers |-> {}, connection |-> {},
      early |-> FALSE]}

\* Addresses on both sides of each range's ends.
Boundary ==
    {V4(9, 255, 255, 255), V4(10, 0, 0, 0), V4(10, 255, 255, 255), V4(11, 0, 0, 0),
     V4(100, 63, 255, 255), V4(100, 64, 0, 0), V4(100, 127, 255, 255), V4(100, 128, 0, 0),
     V4(126, 255, 255, 255), V4(127, 0, 0, 1), V4(128, 0, 0, 0), V4(0, 0, 0, 0),
     V4(169, 253, 255, 255), V4(169, 254, 0, 0), V4(169, 255, 0, 0),
     V4(172, 15, 255, 255), V4(172, 16, 0, 0), V4(172, 31, 255, 255), V4(172, 32, 0, 0),
     V4(192, 0, 1, 255), V4(192, 0, 2, 0), V4(192, 0, 3, 0),
     V4(192, 167, 255, 255), V4(192, 168, 0, 0), V4(192, 169, 0, 0),
     V4(198, 17, 255, 255), V4(198, 18, 0, 0), V4(198, 19, 255, 255), V4(198, 20, 0, 0),
     V4(198, 51, 99, 255), V4(198, 51, 100, 0), V4(203, 0, 112, 255), V4(203, 0, 113, 0),
     V4(223, 255, 255, 255), V4(224, 0, 0, 0), V4(239, 255, 255, 255),
     V4(240, 0, 0, 0), V4(255, 255, 255, 255), V4(0, 255, 255, 255), V4(1, 0, 0, 0),
     V4(191, 255, 255, 255), V4(192, 0, 0, 0), V4(192, 0, 0, 255), V4(192, 0, 1, 0)}
\* The same for the ranges of IPv6: the first segments, then zeros or ones.
Boundary6 ==
    {V6(first \o [i \in 1..(8 - Len(first)) |-> rest]) :
        first \in {<<64511>>, <<64512>>, <<65023>>, <<65024>>, <<65151>>, <<65152>>, <<65215>>,
                  <<65216>>, <<65279>>, <<65280>>, <<65535>>, <<8193, 3511>>, <<8193, 3512>>,
                  <<8193, 3513>>},
        rest \in {0, 65535}}
        \cup {V6(<<0, 0, 0, 0, 0, 0, 0, n>>) : n \in 0..2}
Wrapped(prefix) ==
    {V6(prefix \o <<a.o[1] * 256 + a.o[2], a.o[3] * 256 + a.o[4]>>) : a \in Boundary}
Zeros(n) == [i \in 1..n |-> 0]
MCAddrs == Boundary \cup Boundary6 \cup Wrapped(Zeros(5) \o <<65535>>) \cup Wrapped(Zeros(6))
               \cup Wrapped(<<100, 65435, 0, 0, 0, 0>>)

Text(text, len) == [text |-> text, len |-> len]
Raw(scheme, user, port) ==
    [scheme |-> scheme, path |-> FALSE, user |-> user, pass |-> Text("secret", 6),
     host |-> "proxy.example", port |-> port]
Setup(raw) == [raw |-> raw, addrs |-> {V4(8, 8, 8, 8)}, allow_private |-> FALSE]
MCSetups ==
   <<[Setup(Raw("http", Text("user", 4), NoPort)) EXCEPT !.addrs = MCAddrs],
     Setup(Raw("socks5h", Text("user", 255), 1080)),
     Setup(Raw("socks5", Text("user", 256), 1080)),
     Setup(Raw("https", None, 65536)),
     [Setup(Raw("https", None, 8443)) EXCEPT !.addrs = {V4(127, 0, 0, 1)}],
     [Setup(Raw("https", None, 8443)) EXCEPT !.addrs = {V4(127, 0, 0, 1)},
                                             !.allow_private = TRUE]>>
=============================================================================
