------------------------------ MODULE Metadata ------------------------------
(***************************************************************************)
(* The texts a worker lives on in: the metadata it restarts from, and the   *)
(* upgrade data a new version takes over. Both are put together by hand     *)
(* around dump and read with the JSON parser for bytes; the statistics are  *)
(* stored apart and read with the one for strings. What may happen to a     *)
(* text on its way is the subject of Persist and Upgrade.                   *)
(*                                                                          *)
(* A definition introduced as a Variant is a mistaken form of the one that  *)
(* follows it; no specification uses it.                                    *)
(***************************************************************************)
EXTENDS Json

CONSTANTS
    Paths,          \* of srd: characters, without quotes and backslashes
    Hashes,         \* of srd and files: HashLength bytes
    KeyPairs,       \* two bytes, of which the first is the public key
    Accounts,       \* characters
    Heights,        \* of reports
    Sizes,          \* of files, none of them 0
    Statuses,       \* of files, among those of g_file_status
    INT_RANGE,      \* how many values an int has: 2^32 in the build
    MaxHashes,      \* bound: srd per path
    MaxFiles        \* bound: files

ASSUME MetadataAssumption ==
    /\ \A p \in Paths \cup Accounts :
           Range(p) \cap ({HASH_TAG, "end"} \cup DOMAIN Escapes) = {}
    /\ \A h \in Hashes : h \in [1..HashLength -> 0..255]
    /\ \A k \in KeyPairs : k \in [1..2 -> 0..255]
    /\ Heights \subseteq Nat /\ Sizes \subseteq Nat \ {0}
    /\ Statuses \subseteq {"0", "1", "2", "3"}
    /\ INT_RANGE \in Nat \ {0} /\ {MaxHashes, MaxFiles} \subseteq Nat

VARIABLES
    wl,         \* the workload and identity of the running enclave
    meta,       \* ID_METADATA
    wl_spec,    \* DB_WL_SPEC_INFO
    stored      \* ghost: what was last stored; the enclave itself before that

vars == <<wl, meta, wl_spec, stored>>

NoKey == <<>>

(***************************************************************************)
(* Files and their statistics                                               *)
(***************************************************************************)

\* Hash, size and the three status characters of a file; the other members of
\* an item are hashes and sizes, too.
File(hash, old_size, status) ==
    Object(<<"hash">> :> Hash(hash) @@ <<"old_size">> :> Integral(old_size)
           @@ <<"status">> :> String(status))

g_file_status ==
    "0" :> <<"unconfirmed">> @@ "1" :> <<"valid">> @@ "2" :> <<"lost">>
    @@ "3" :> <<"deleted">>

\* CURRENT_STATUS
StatusOf(file) == Member(file, <<"status">>).string[1]

SizeOf(file) == ToInt(Member(file, <<"old_size">>))

Counts(num, sum) ==
    Object(<<"num">> :> Integral(num) @@ <<"size">> :> Integral(sum))

\* The statistics of the constructor.
ZeroSpec ==
    Object([s \in {g_file_status[c] : c \in {"0", "1", "2"}} |-> Counts(0, 0)])

\* The conversion of a number to the parameter change, an int.
AsInt(n) ==
    LET m == n % INT_RANGE
    IN  IF m >= INT_RANGE \div 2 THEN m - INT_RANGE ELSE m

\* Variant: a file is counted by its size.
set_wl_spec_by_size(spec, status, n) ==
    LET name == g_file_status[status]
        old == Member(spec, name)
        new == Counts(ToInt(Member(old, <<"num">>)) + AsInt(n),
                      ToInt(Member(old, <<"size">>)) + AsInt(n))
    IN  Object((name :> new) @@ spec.map)

set_wl_spec(spec, status, n) ==
    LET name == g_file_status[status]
        old == Member(spec, name)
        change == AsInt(n)
        new == Counts(ToInt(Member(old, <<"num">>))
                          + (IF change > 0 THEN 1 ELSE -1),
                      ToInt(Member(old, <<"size">>)) + change)
    IN  Object((name :> new) @@ spec.map)

(***************************************************************************)
(* Writing                                                                  *)
(***************************************************************************)

Entry(key, text) == Quoted(key) \o <<":">> \o text

Braced(texts) == <<"{">> \o Joined(texts, <<",">>) \o <<"}">>

Bracketed(texts) == <<"[">> \o Joined(texts, <<",">>) \o <<"]">>

remove_char(text, c) == SelectSeq(text, LAMBDA d : d # c)

Compact(v) ==
    remove_char(remove_char(remove_char(dump(v), "\n"), "\\"), " ")

SerializeSrd(srd) ==
    LET paths == SetToSeq(DOMAIN srd)
        HashesOf(p) == [j \in DOMAIN srd[p] |-> Quoted(hexstring(srd[p][j]))]
    IN  Braced([i \in DOMAIN paths |->
                   Entry(paths[i], Bracketed(HashesOf(paths[i])))])

SerializeFile(files) ==
    Bracketed([i \in DOMAIN files |-> Compact(files[i])])

PreKeyEntry(key) == <<Entry(<<"pre_pub_key">>, key)>>

\* Variant: an enclave that took over from no other one writes null.
PreKeyNull(w) ==
    PreKeyEntry(IF w.pre = NoKey THEN <<"null">> ELSE Quoted(hexstring(w.pre)))
PreKey(w) ==
    IF w.pre = NoKey THEN <<>> ELSE PreKeyEntry(Quoted(hexstring(w.pre)))

\* In the order of the code.
MetaMembers(w) ==
    <<Entry(<<"workload">>, SerializeSrd(w.srd)),
      Entry(<<"id_key_pair">>, Quoted(hexstring(w.key))),
      Entry(<<"report_height">>, to_string(w.height)),
      Entry(<<"chain_account_id">>, Quoted(w.account))>>
    \o PreKey(w) \o <<Entry(<<"files">>, SerializeFile(w.files))>>

\* Variant: spaces are removed from the whole text.
MetaTextStripped(w) == <<"tag">> \o remove_char(Braced(MetaMembers(w)), " ")
\* SWORKER_PRIVATE_TAG is in front.
MetaText(w) == <<"tag">> \o Braced(MetaMembers(w))

id_store_metadata ==
    /\ wl_spec' = Compact(wl.spec)
    /\ meta' = MetaText(wl)
    /\ stored' = wl
    /\ UNCHANGED wl

PubKey(w) == SubSeq(w.key, 1, 1)

\* Block hash, roots and signature are more members of the same kind.
UpgradeText(w, height) ==
    Braced(<<Entry(<<"pub_key">>, Quoted(hexstring(PubKey(w)))),
             Entry(<<"block_height">>, to_string(height)),
             Entry(<<"upgrade_srd">>, SerializeSrd(w.srd)),
             Entry(<<"upgrade_file">>, SerializeFile(w.files))>>)

(***************************************************************************)
(* Reading                                                                  *)
(***************************************************************************)

\* Paths come to be with their first hash.
restore_srd(g_hashs) ==
    LET paths == {p \in DOMAIN g_hashs.map : size(g_hashs.map[p]) > 0}
    IN  [p \in paths |->
            [i \in 1..size(g_hashs.map[p]) |->
                hex_string_to_bytes(AsString(g_hashs.map[p].list[i]))]]

\* The files of an array, and the statistics counted from zero.
RestoredSpec(files) ==
    FoldLeft(LAMBDA spec, f : set_wl_spec(spec, StatusOf(f), SizeOf(f)),
             ZeroSpec, files)

\* The process starts again and finds its metadata.
id_restore_metadata ==
    LET m == Load("bytes", Tail(meta))
    IN  /\ meta # <<>> /\ size(m) > 0
        /\ wl' = [srd |-> restore_srd(Member(m, <<"workload">>)),
                  files |-> Member(m, <<"files">>).list,
                  key |-> hex_string_to_bytes(
                              AsString(Member(m, <<"id_key_pair">>))),
                  height |-> ToInt(Member(m, <<"report_height">>)),
                  account |-> AsString(Member(m, <<"chain_account_id">>)),
                  pre |-> hex_string_to_bytes(
                              AsString(Member(m, <<"pre_pub_key">>))),
                  spec |-> Load("string", wl_spec)]
        /\ UNCHANGED <<meta, wl_spec, stored>>

\* A new version with a key of its own takes over and reports for the height
\* it was told.
id_restore_from_upgrade ==
    \E key \in KeyPairs \ {wl.key}, height \in Heights :
        LET u == Load("bytes", UpgradeText(wl, height))
            files == Member(u, <<"upgrade_file">>).list
        IN  /\ wl' = [wl EXCEPT
                         !.srd = restore_srd(Member(u, <<"upgrade_srd">>)),
                         !.files = files,
                         !.key = key,
                         !.height = ToInt(Member(u, <<"block_height">>)),
                         !.pre = hex_string_to_bytes(
                                     AsString(Member(u, <<"pub_key">>))),
                         !.spec = RestoredSpec(files)]
            /\ meta' = <<>> /\ wl_spec' = <<>> /\ stored' = wl'

(***************************************************************************)
(* Specification                                                            *)
(***************************************************************************)

SrdMaps ==
    UNION {[P -> BoundedSeq(Hashes, MaxHashes)] : P \in SUBSET Paths}

Files == {File(h, s, <<c, "0", "0">>) : h \in Hashes, s \in Sizes,
                                        c \in Statuses}

\* Statistics that are off: a number of -1 is within reach.
OffSpec == set_wl_spec(set_wl_spec(ZeroSpec, "0", -12), "1", 120)

\* No hash is there twice (FileReport).
FileLists ==
    {files \in BoundedSeq(Files, MaxFiles) :
        IsInjective([i \in DOMAIN files |-> Member(files[i], <<"hash">>)])}

\* A worker of the first version, with any work.
Init ==
    /\ wl \in [srd : SrdMaps, files : FileLists,
               key : {CHOOSE k \in KeyPairs : TRUE}, height : Heights,
               account : Accounts, pre : {NoKey}, spec : {OffSpec}]
    /\ meta = <<>> /\ wl_spec = <<>> /\ stored = wl

Next ==
    \/ id_store_metadata
    \/ id_restore_metadata
    \/ id_restore_from_upgrade

Spec == Init /\ [][Next]_vars

(***************************************************************************)
(* Properties                                                               *)
(***************************************************************************)

\* Paths without srd are dropped on the way through a text.
Kept(srd) == [p \in {q \in DOMAIN srd : srd[q] # <<>>} |-> srd[p]]

\* A worker that starts again, and again, goes on with exactly what it stored,
\* whatever its paths, hashes, numbers and statuses look like in the text
\* (id_store_metadata, id_restore_metadata).
RestartGivesBack == wl \in {stored, [stored EXCEPT !.srd = Kept(stored.srd)]}

\* The two copies of the parser read the same from everything that is stored,
\* although they differ (parse_null).
CopiesAgree ==
    \A t \in {meta, wl_spec} \ {<<>>} :
        LET body == IF Head(t) = "tag" THEN Tail(t) ELSE t
        IN  Load("bytes", body) = Load("string", body)

\* The new version counts the files of status c one by one.
Number(w, c) == ToInt(Member(Member(w.spec, g_file_status[c]), <<"num">>))
FilesOf(w, c) == SelectSeq(w.files, LAMBDA f : StatusOf(f) = c)

\* A new version has the srd and the files of the old one, and its statistics,
\* counted anew, are right where the old ones were off: for every status
\* whose files are of sizes an int holds. A file of 2 to 4 GiB is counted
\* down (serialize_srd, serialize_file, restore_file, set_wl_spec).
UpgradeGivesWork ==
    [][wl'.key # wl.key =>
          /\ wl'.srd = Kept(wl.srd) /\ wl'.files = wl.files
          /\ wl'.pre = PubKey(wl)
          /\ \A c \in Statuses :
                (\A f \in Range(FilesOf(wl, c)) : SizeOf(f) < INT_RANGE \div 2)
                => Number(wl', c) = Len(FilesOf(wl, c))]_vars
=============================================================================
