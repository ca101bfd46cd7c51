---------------------------- MODULE MCProfileCdp ----------------------------
EXTENDS ProfileCdp

Plain == [name |-> "c1", prefix |-> "none", bare |-> FALSE, secure |-> FALSE,
          http_only |-> TRUE, same_site |-> "Lax", expires |-> "session",
          root_path |-> TRUE, dot_domain |-> FALSE, partition_key_opaque |-> FALSE,
          oversized |-> FALSE]
Cookies ==
    {Plain,
     [Plain EXCEPT !.name = "c2", !.prefix = "__Host-", !.secure = TRUE, !.expires = "future"],
     [Plain EXCEPT !.name = "c3", !.prefix = "__Host-", !.secure = TRUE, !.root_path = FALSE],
     [Plain EXCEPT !.name = "c4", !.same_site = "None"],
     [Plain EXCEPT !.name = "c5", !.expires = "past"],
     [Plain EXCEPT !.name = "c6", !.partition_key_opaque = TRUE]}
Entry == [name |-> "k", text |-> "utf16"]
Local(origin) == [origin |-> origin, entries |-> {Entry}]
File(name) == <<"IndexedDB", name>>

\* Two origins and a file; cookies of all sorts, resumable; the same, read-only;
\* and a list of files that cannot be written.
MCPayloads ==
    {[cookies |-> {Plain}, local |-> <<Local("a"), Local("b")>>, files |-> <<File("f")>>,
      read_only |-> FALSE, resumable |-> FALSE],
     [cookies |-> Cookies, local |-> <<>>, files |-> <<>>, read_only |-> FALSE,
      resumable |-> TRUE],
     [cookies |-> {Plain}, local |-> <<>>, files |-> <<>>, read_only |-> TRUE,
      resumable |-> FALSE],
     [cookies |-> {}, local |-> <<>>, files |-> <<File("f"), File("f")>>,
      read_only |-> FALSE, resumable |-> FALSE]}
MCNewCookie == [Plain EXCEPT !.name = "new"]
MCNewRow == [origin |-> "a", third |-> TRUE, name |-> "p", text |-> "latin1",
             compression |-> 1]
=============================================================================
