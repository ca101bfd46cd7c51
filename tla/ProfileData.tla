----------------------------- MODULE ProfileData -----------------------------
(***************************************************************************)
(* What a profile consists of, and how its parts pass between the payload, *)
(* the protocol and the disk (profile/cookie.rs, profile/localstorage.rs,  *)
(* profile/manifest.rs). Cookies, localStorage rows and files are records  *)
(* of the attributes that the code tells apart; lists whose order does not *)
(* matter are sets.                                                        *)
(***************************************************************************)
EXTENDS Integers, FiniteSets, Sequences

-----------------------------------------------------------------------------
(* Cookies. name is an identity, prefix what the name starts with, bare     *)
(* whether nothing follows it; expires is "session", "past" or "future".    *)

DropReasons == {"opaque_partition", "same_site_none_insecure", "expired",
                "invalid_prefix", "oversized"}

CookieType ==
    [name : STRING, prefix : {"none", "__Host-", "__Secure-"}, expires : {"session", "past", "future"},
     same_site : STRING, bare : BOOLEAN, secure : BOOLEAN, http_only : BOOLEAN,
     root_path : BOOLEAN, dot_domain : BOOLEAN, partition_key_opaque : BOOLEAN,
     oversized : BOOLEAN]

\* Mutant: __Host- is taken to ask for secure only.
prefix_ok_secure_only(c) == c.prefix = "none" \/ (~c.bare /\ c.secure)

prefix_ok(c) ==
    CASE c.prefix = "__Host-" -> ~c.bare /\ c.secure /\ c.root_path /\ ~c.dot_domain
      [] c.prefix = "__Secure-" -> ~c.bare /\ c.secure
      [] OTHER -> TRUE

\* to_param's checks, in their order; "retained" when it passes them.
DropReason(c) ==
    IF c.partition_key_opaque THEN "opaque_partition"
    ELSE IF c.same_site = "None" /\ ~c.secure THEN "same_site_none_insecure"
    ELSE IF c.expires = "past" THEN "expired"
    ELSE IF ~prefix_ok(c) THEN "invalid_prefix"
    ELSE IF c.oversized THEN "oversized"
    ELSE "retained"

\* Mutant: one of the attributes is not carried over.
to_param_readable(c) ==
    [k \in DOMAIN c \ {"partition_key_opaque", "oversized"} |->
        IF k = "http_only" THEN FALSE ELSE c[k]]

\* to_param: all attributes as they are; a session cookie has no expiry.
to_param(c) ==
    LET fields == DOMAIN c \ {"partition_key_opaque", "oversized"}
    IN  [k \in IF c.expires = "session" THEN fields \ {"expires"} ELSE fields |-> c[k]]

\* sanitize, with the counts of count_drop.
sanitize(cookies) ==
    [params |-> {to_param(c) : c \in {d \in cookies : DropReason(d) = "retained"}},
     dropped |-> [reason \in DropReasons |->
                     Cardinality({c \in cookies : DropReason(c) = reason})]]

\* External: Chrome's rules for one entry of Storage.setCookies, which sets all
\* of its cookies or none, and the cookie that it makes of a parameter.
ChromeAccepts(p) ==
    /\ p.same_site = "None" => p.secure
    /\ p.prefix = "__Secure-" => p.secure
    /\ p.prefix = "__Host-" => p.secure /\ p.root_path /\ ~p.dot_domain
    /\ p.prefix # "none" => ~p.bare

ChromeCookie(p) ==
    [k \in DOMAIN p \cup {"expires", "partition_key_opaque", "oversized"} |->
        IF k \in DOMAIN p THEN p[k] ELSE IF k = "expires" THEN "session" ELSE FALSE]

-----------------------------------------------------------------------------
(* localStorage. A row of Chrome's store: the storage key it is under, its   *)
(* name, and how Chrome encoded its text. third marks a partitioned key.     *)

Texts == {"latin1", "utf16", "surrogate"}
EntryType == [name : STRING, text : Texts \ {"surrogate"}]

\* decode_string: Latin-1 and well-formed UTF-16; a JavaScript string with a
\* surrogate of no pair is neither.
decode_string(text) == text \in {"latin1", "utf16"}

\* origin_from_storage_key, parse_data_key: first-party keys only.
FirstParty(row) == ~row.third

\* decompress: none, zstd and snappy.
decompress(row) == row.compression \in 0..2

\* Mutant: entries of partitioned keys pass for the origin's own.
read_profile_partitioned(rows, opens) ==
    {[origin |-> r.origin, name |-> r.name, text |-> r.text] :
        r \in {s \in rows : opens /\ decode_string(s.text) /\ decompress(s)}}

\* read_profile_local_storage: read_sqlite or read_local_storage. A store that
\* does not open, or a row that cannot be read, makes it empty.
read_profile_local_storage(rows, opens) ==
    {[origin |-> r.origin, name |-> r.name, text |-> r.text] :
        r \in {s \in rows : opens /\ FirstParty(s) /\ decode_string(s.text) /\ decompress(s)}}

\* restore_script, run in a document of origin doc: clear, then set each. A
\* document without an origin of its own throws, which the script catches.
restore_script(rows, doc, entries) ==
    IF doc = "blank" THEN rows
    ELSE {r \in rows : r.origin # doc \/ r.third}
             \cup {[origin |-> doc, third |-> FALSE, name |-> e.name, text |-> e.text,
                    compression |-> 0] : e \in entries}

-----------------------------------------------------------------------------
(* The native layer: files of some stores, as a list of paths. A path is     *)
(* what Path::components makes of it: "/" is a root, ".." a parent, and "."  *)
(* can only be the first, as it is dropped from anywhere else.               *)

NATIVE_STORES == {"IndexedDB", "Service Worker"}

\* pack_native and pack_walk: regular files below the stores, nothing else, and
\* with one that cannot be read, none.
pack_native(tree, reads) ==
    {f.path : f \in {g \in tree : reads /\ g.node = "file" /\ g.path[1] \in NATIVE_STORES}}

\* safe_join: normal components only, and at least one of them.
safe_join(path) == path # <<>> /\ \A i \in DOMAIN path : path[i] \notin {"/", "..", "."}

\* extract_into, with write_no_follow: stops at the first path that is unsafe
\* or that an earlier entry, or what was there before, has taken.
extract_into(paths, tree) ==
    LET Taken(i) == \/ \E f \in tree : f.path = paths[i]
                    \/ \E j \in 1..(i - 1) : paths[j] = paths[i]
        bad == {i \in DOMAIN paths : ~safe_join(paths[i]) \/ Taken(i)}
        done == {i \in DOMAIN paths : \A b \in bad : i < b}
    IN  [ok |-> bad = {},
         tree |-> tree \cup {[path |-> paths[i], node |-> "file"] : i \in done}]
=============================================================================
