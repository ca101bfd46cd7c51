------------------------------- MODULE Proxy -------------------------------
(***************************************************************************)
(* What a session's proxy is and what passes through it: the address a     *)
(* client gives (proxy/upstream.rs), the addresses that may be dialled     *)
(* (proxy/address.rs), and the heads of requests (proxy/head.rs). Text is  *)
(* given as the parts that the code cuts it into.                          *)
(***************************************************************************)
EXTENDS Integers, FiniteSets, Sequences

-----------------------------------------------------------------------------
(* ProxyUpstream. raw: scheme, whether a path follows, user and pass (None   *)
(* when they are not given), host and port (NoPort, or what it reads as).    *)

None == [text |-> "none", len |-> 0]
NoPort == -1
Schemes == {"http", "https", "socks5", "socks5h"}

default_port(scheme) == CASE scheme = "http" -> 80
                          [] scheme = "https" -> 443
                          [] OTHER -> 1080

\* validate_login, of the login after percent_decode.
validate_login(scheme, user, pass) ==
    user # None =>
        /\ user.text # "" /\ {user.text, pass.text} \cap {"control", "bad escape"} = {}
        /\ scheme \in {"http", "https"} => user.text # "colon"
        /\ scheme \in {"socks5", "socks5h"} => user.len <= 255 /\ pass.len <= 255

\* parse, with split_host_port.
Parses(raw) ==
    /\ raw.scheme \in Schemes /\ ~raw.path
    /\ raw.host \notin {"", "bad characters"}
    /\ raw.port = NoPort \/ raw.port \in 1..65535
    /\ validate_login(raw.scheme, raw.user, raw.pass)

parse(raw) ==
    [scheme |-> IF raw.scheme = "socks5h" THEN "socks5" ELSE raw.scheme,
     login |-> raw.user # None,
     port |-> IF raw.port = NoPort THEN default_port(raw.scheme) ELSE raw.port]

-----------------------------------------------------------------------------
(* Addresses: octets of IPv4, segments of IPv6. *)

Segments == 0..(256 * 256 - 1)
ffff == 65535
ff9b == 65435

Addresses == [v : {4}, o : [1..4 -> 0..255]] \cup [v : {6}, seg : [1..8 -> Segments]]

V4(a, b, c, d) == [v |-> 4, o |-> <<a, b, c, d>>]
V6(seg) == [v |-> 6, seg |-> seg]

blocked_v4(o) ==
    \/ o[1] \in {0, 10, 127} \/ o[1] \in 224..255       \* is_multicast, is_broadcast
    \/ o[1] = 172 /\ o[2] \in 16..31                    \* is_private
    \/ o[1] = 192 /\ o[2] = 168
    \/ o[1] = 169 /\ o[2] = 254                         \* is_link_local
    \/ o[1] = 100 /\ o[2] \in 64..127
    \/ o[1] = 192 /\ o[2] = 0 /\ o[3] \in {0, 2}
    \/ o[1] = 198 /\ o[2] \in {18, 19}
    \/ o[1] = 198 /\ o[2] = 51 /\ o[3] = 100
    \/ o[1] = 203 /\ o[2] = 0 /\ o[3] = 113

\* The IPv4 address in the last two segments.
Embedded(seg) == <<seg[7] \div 256, seg[7] % 256, seg[8] \div 256, seg[8] % 256>>

\* Mutant: of link-local addresses only fe80::/16 is known.
blocked_v6_narrow(seg) ==
    LET zeros(n) == \A i \in 1..n : seg[i] = 0
        local == zeros(7) /\ seg[8] \in {0, 1}
        mapped == zeros(5) /\ seg[6] = ffff
        compatible == zeros(6) /\ ~local
        nat64 == seg[1] = 100 /\ seg[2] = ff9b
    IN  IF mapped \/ compatible \/ nat64 THEN blocked_v4(Embedded(seg))
        ELSE \/ local \/ seg[1] \div 256 = 255 \/ seg[1] \div 512 = 126
             \/ seg[1] = 65152 \/ seg[1] \div 64 = 1019 \/ (seg[1] = 8193 /\ seg[2] = 3512)

blocked_v6(seg) ==
    LET zeros(n) == \A i \in 1..n : seg[i] = 0
        local == zeros(7) /\ seg[8] \in {0, 1}          \* unspecified, loopback
        mapped == zeros(5) /\ seg[6] = ffff
        compatible == zeros(6) /\ ~local
        nat64 == seg[1] = 100 /\ seg[2] = ff9b
    IN  IF mapped \/ compatible \/ nat64 THEN blocked_v4(Embedded(seg))
        ELSE \/ local \/ seg[1] \div 256 = 255
             \/ seg[1] \div 512 = 126                   \* fc00::/7
             \/ seg[1] \div 64 \in {1018, 1019}         \* fe80::/10, fec0::/10
             \/ seg[1] = 8193 /\ seg[2] = 3512          \* 2001:db8::/32

is_blocked_ip(ip) == IF ip.v = 4 THEN blocked_v4(ip.o) ELSE blocked_v6(ip.seg)

\* resolve_allowed: of what the name resolves to, once.
resolve_allowed(addrs, allow_private) == {a \in addrs : allow_private \/ ~is_blocked_ip(a)}

-----------------------------------------------------------------------------
(* Heads. A head: its form, whether its target is a good authority, the      *)
(* names of its headers, those that Connection lists, and whether bytes of   *)
(* the client followed it at once.                                           *)

HeadType == [form : STRING, authority : BOOLEAN, headers : SUBSET STRING,
             connection : SUBSET STRING, early : BOOLEAN]

NoHead == [form |-> "none", authority |-> FALSE, headers |-> {}, connection |-> {},
           early |-> FALSE]

\* parse_request with split_authority: the request, or why it is refused.
parse_request(h) ==
    CASE h.form = "malformed" -> "bad"
      [] h.form = "connect" -> IF h.authority THEN "connect" ELSE "bad"
      [] h.form = "absolute" -> IF h.authority THEN "forward" ELSE "bad"
      [] OTHER -> "bad"                 \* origin-form and every other shape

hop_by_hop(h) ==
    {"connection", "keep-alive", "proxy-authorization", "proxy-authenticate",
     "proxy-connection", "te", "trailer", "upgrade"} \cup h.connection

\* rewrite_request: what is left of the headers, Connection: close, the login.
rewrite_request(h, auth) ==
    (h.headers \ hop_by_hop(h)) \cup {"Connection: close"} \cup (IF auth THEN {"login"} ELSE {})
=============================================================================
