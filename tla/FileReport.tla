----------------------------- MODULE FileReport -----------------------------
(***************************************************************************)
(* The life of a meaningful file inside the sWorker enclave: sealed by an   *)
(* HTTP thread into new_files, merged by the main loop into checked_files,  *)
(* confirmed, validated (VALID <-> LOST), deleted, and published to the     *)
(* chain by work reports that list what was added and deleted since the     *)
(* last accepted report.                                                    *)
(*                                                                          *)
(* Threads: the main loop (ecall_main_loop: validate_meaningful_file, then  *)
(* id_store_metadata), HTTP clients (ecall_seal_file, ecall_confirm_file,   *)
(* ecall_delete_file) and the threads that run gen_and_upload_work_report.  *)
(* A critical section that is entered and left without waiting for anything *)
(* else is one action; a lock held across several steps is a variable.      *)
(*                                                                          *)
(* The numbers the report gate looks at (heights, proofs, flags) belong to  *)
(* other parts of the enclave: here the gate may refuse any report.         *)
(*                                                                          *)
(* A definition introduced as a Variant is a mistaken form of the one that  *)
(* follows it. No specification uses it: it stands in for that definition   *)
(* when a property is tried against the mistake.                            *)
(***************************************************************************)
EXTENDS Integers, Sequences, SequencesExt, FiniteSets

CONSTANTS
    Files,        \* sealed root hashes (FILE_HASH); sealing never repeats one
    Size,         \* Size[f]: FILE_OLD_SIZE of file f, in bytes
    INT_RANGE,    \* how many values an int has: 2^32 in the build
    Clients,      \* HTTP threads of the app that call into the enclave
    Reporters,    \* threads inside ecall_gen_and_upload_work_report
    Upgraders,    \* threads inside id_gen_upgrade_data
    Main, Free,   \* the main loop as a lock holder, and an unlocked mutex
    NoFile,       \* no request in progress; no hash in an item
    FILE_NUMBER_UPPER_LIMIT,
    WORKREPORT_FILE_LIMIT,
    MEANINGFUL_VALIDATE_MIN_NUM,
    MaxCalls,     \* bound: confirm and delete requests in a behaviour
    MaxCrashes,   \* bound: kills of the worker process in a behaviour
    MaxFlips,     \* bound: validations that find a file's blocks changed
    MaxStores,    \* bound: metadata stores that reach the database
    MaxLost       \* bound: accepted reports whose reply never arrives

Reps == Reporters \cup Upgraders

ASSUME ConstantsAssumption ==
    /\ Free # Main
    /\ Free \notin Reps /\ Main \notin Reps
    /\ Reporters \cap Upgraders = {}
    /\ NoFile \notin Files /\ IsFiniteSet(Clients)
    /\ Size \in [Files -> Nat] /\ INT_RANGE \in Nat \ {0}
    /\ FILE_NUMBER_UPPER_LIMIT \in Nat
    /\ WORKREPORT_FILE_LIMIT \in Nat
    /\ MEANINGFUL_VALIDATE_MIN_NUM \in Nat
    /\ MaxCalls \in Nat /\ MaxFlips \in Nat /\ MaxCrashes \in Nat
    /\ MaxStores \in Nat /\ MaxLost \in Nat

VARIABLES
    checked_files,         \* Workload::checked_files
    new_files,             \* Workload::new_files
    reported_files_idx,    \* Workload::reported_files_idx
    wl_spec_info,          \* Workload::wl_spec_info, the "num" of each status
    g_work_report,         \* the report last generated
    g_checked_files_mutex, \* its holder, or Free
    g_gen_work_report,     \* its holder, or Free
    tree,                  \* files whose MerkleTree is in the database
    db,                    \* metadata and statistics in the database
    client,                \* per HTTP thread: step, file, count, old status
    reporter,              \* per report thread: its step
    purge_it,              \* iterator of the purge loop, of the thread in it
    main,                  \* the main loop: step and locals
    chain,                 \* files the chain counts as stored by this worker
    sealed,                \* hashes handed out by sealing so far
    calls, flips, crashes, stores, lost  \* how much of each bound is used up

fileVars  == <<checked_files, new_files>>
lockVars  == <<g_checked_files_mutex, g_gen_work_report>>
reportVars == <<reporter, purge_it>>
boundVars == <<calls, flips, crashes, stores, lost>>
vars == <<fileVars, reported_files_idx, wl_spec_info, g_work_report, lockVars,
          tree, db, client, reportVars, main, chain, sealed, boundVars>>

(***************************************************************************)
(* Data                                                                     *)
(***************************************************************************)

Status == {"unconfirmed", "valid", "lost", "deleted"}

\* What get_char finds: a status, or "none" where the item has no string. It
\* is also what wl_spec_info is indexed by: "none" stands for the name "".
StatusName == Status \cup {"none"}

\* One element of the file vectors: the hash and the three status characters.
FileItem == [file : Files, cur : Status, wait : Status, orig : Status]

\* A JSON value without members, which a vector may hold after a restart. Its
\* hash matches no other, and set_char leaves it as it is.
NullItem == [file |-> NoFile, cur |-> "none", wait |-> "none", orig |-> "none"]

Item == FileItem \cup {NullItem}

\* Variant: the origin status is left out of the new entry.
NewItemNoOrigin(f) ==
    [file |-> f, cur |-> "unconfirmed", wait |-> "unconfirmed", orig |-> ""]
NewItem(f) ==
    [file |-> f, cur |-> "unconfirmed", wait |-> "unconfirmed",
     orig |-> "unconfirmed"]

\* A client between two requests.
Idle == [pc |-> "idle", file |-> NoFile, num |-> 0, old |-> "unconfirmed"]

\* The main loop at the top of an iteration.
MainStart ==
    [pc |-> "validate", rem |-> 0, num |-> 0, it |-> 1, changed |-> {},
     buf |-> <<>>, comma |-> FALSE]

NoReport == [added |-> {}, deleted |-> {}, valid |-> {}]

\* Variant: losses are published although the chain never counted the file.
PendingLostUnknown(it) ==
    \/ it.cur = "valid" /\ it.orig \in {"unconfirmed", "lost"}
    \/ it.cur \in {"lost", "deleted"} /\ it.orig \in {"valid", "unconfirmed"}
\* Variant: deletions are not published.
PendingNoDelete(it) ==
    \/ it.cur = "valid" /\ it.orig \in {"unconfirmed", "lost"}
    \/ it.cur = "lost" /\ it.orig = "valid"
\* A difference to what the chain knows that a report has to publish.
Pending(it) ==
    \/ it.cur = "valid" /\ it.orig \in {"unconfirmed", "lost"}
    \/ it.cur \in {"lost", "deleted"} /\ it.orig = "valid"

\* A deleted item that the chain does not count is dropped from the vector.
Erasable(it) ==
    it.cur = "deleted" /\ it.orig \in {"lost", "deleted", "unconfirmed"}

Matches(s, f) == {i \in 1..Len(s) : s[i].file = f}

Names(s) == {s[i].file : i \in 1..Len(s)}

\* The files whose last acknowledged status is VALID.
AckedIn(s) == {s[i].file : i \in {j \in 1..Len(s) : s[j].orig = "valid"}}
Acked == AckedIn(checked_files)

\* set_wl_spec takes the size as an int and counts one file up or down by the
\* sign of what is left of it.
IntOf(n) ==
    LET m == n % INT_RANGE
    IN IF m >= INT_RANGE \div 2 THEN m - INT_RANGE ELSE m
\* Variant: the count only ever goes up.
NumStepUp(size) == 1
NumStep(size) == IF IntOf(size) > 0 THEN 1 ELSE -1

\* set_wl_spec(status, change) and set_wl_spec(status, related, change).
SpecAdd(spec, s, size) == [spec EXCEPT ![s] = @ + NumStep(size)]
SpecMove(spec, to, from, size) ==
    IF to = from THEN spec
    ELSE [spec EXCEPT ![to] = @ + NumStep(size), ![from] = @ - NumStep(size)]

Init ==
    /\ checked_files = <<>>
    /\ new_files = <<>>
    /\ reported_files_idx = {}
    /\ wl_spec_info = [s \in StatusName |-> 0]
    /\ g_work_report = NoReport
    /\ g_checked_files_mutex = Free
    /\ g_gen_work_report = Free
    /\ tree = {}
    /\ db = [files |-> <<>>, comma |-> FALSE, spec |-> [s \in StatusName |-> 0]]
    /\ client = [c \in Clients |-> Idle]
    /\ reporter = [r \in Reps |-> "idle"]
    /\ purge_it = 1
    /\ main = MainStart
    /\ chain = {}
    /\ sealed = {}
    /\ calls = 0 /\ flips = 0 /\ crashes = 0 /\ stores = 0 /\ lost = 0

(***************************************************************************)
(* storage_seal_file                                                        *)
(***************************************************************************)

\* The first half of the limit check: checked_files is counted under its lock.
SealBegin(c) ==
    /\ client[c].pc = "idle"
    /\ sealed # Files
    /\ g_checked_files_mutex = Free
    /\ client' = [client EXCEPT ![c].pc = "sealCount",
                                ![c].num = Len(checked_files)]
    /\ UNCHANGED <<fileVars, reported_files_idx, wl_spec_info, g_work_report,
                   lockVars, tree, db, reportVars, main, chain, sealed,
                   boundVars>>

\* The second half, under the other lock, and CRUST_FILE_NUMBER_EXCEED.
SealCount(c) ==
    /\ client[c].pc = "sealCount"
    /\ client' = [client EXCEPT ![c] =
           IF client[c].num + Len(new_files) >= FILE_NUMBER_UPPER_LIMIT
           THEN Idle
           ELSE [Idle EXCEPT !.pc = "seal"]]
    /\ UNCHANGED <<fileVars, reported_files_idx, wl_spec_info, g_work_report,
                   lockVars, tree, db, reportVars, main, chain, sealed,
                   boundVars>>

\* The tree and its _meta entry are stored, then the item joins new_files.
SealStore(c) ==
    /\ client[c].pc = "seal"
    /\ \E f \in Files \ sealed :
          /\ sealed' = sealed \cup {f}
          /\ tree' = tree \cup {f}
          /\ new_files' = Append(new_files, NewItem(f))
          /\ client' = [client EXCEPT ![c].pc = "sealSpec", ![c].file = f]
    /\ UNCHANGED <<checked_files, reported_files_idx, wl_spec_info,
                   g_work_report, lockVars, db, reportVars, main, chain,
                   boundVars>>

\* Sealing, renaming or storing failed: either before the tree was stored or
\* between the tree and its _meta entry, which leaves a tree nobody owns.
SealFail(c) ==
    /\ client[c].pc = "seal"
    /\ client' = [client EXCEPT ![c] = Idle]
    /\ \/ UNCHANGED <<tree, sealed>>
       \/ \E f \in Files \ sealed :
             tree' = tree \cup {f} /\ sealed' = sealed \cup {f}
    /\ UNCHANGED <<fileVars, reported_files_idx, wl_spec_info, g_work_report,
                   lockVars, db, reportVars, main, chain, boundVars>>

SealSpec(c) ==
    /\ client[c].pc = "sealSpec"
    /\ wl_spec_info' = SpecAdd(wl_spec_info, "unconfirmed", Size[client[c].file])
    /\ client' = [client EXCEPT ![c] = Idle]
    /\ UNCHANGED <<fileVars, reported_files_idx, g_work_report, lockVars, tree,
                   db, reportVars, main, chain, sealed, boundVars>>

(***************************************************************************)
(* storage_confirm_file and storage_delete_file                             *)
(***************************************************************************)

\* The ecall announces itself to the scheduler and goes for the file lock.
Request(c, op, f) ==
    /\ client[c].pc = "idle"
    /\ calls < MaxCalls
    /\ calls' = calls + 1
    /\ client' = [client EXCEPT ![c].pc = op, ![c].file = f]
    /\ UNCHANGED <<fileVars, reported_files_idx, wl_spec_info, g_work_report,
                   lockVars, tree, db, reportVars, main, chain, sealed, flips,
                   crashes, stores, lost>>

\* The caller knows a hash from the reply of the seal request.
RequestAny(c) ==
    \E f \in sealed : Request(c, "confirm", f) \/ Request(c, "delete", f)

\* Variant: the status of the item is not looked at.
ConfirmedAlways(s, i) == [s EXCEPT ![i].cur = "valid"]
Confirmed(s, i) ==
    IF s[i].cur = "unconfirmed" THEN [s EXCEPT ![i].cur = "valid"] ELSE s

\* checked_files first, from the back; an item found there counts as
\* confirmed whatever its status was.
ConfirmFile(c) ==
    /\ client[c].pc = "confirm"
    /\ g_checked_files_mutex = Free
    /\ LET inChecked == Matches(checked_files, client[c].file)
           inNew == {i \in Matches(new_files, client[c].file) :
                         new_files[i].cur = "unconfirmed"}
       IN \/ \E i \in inChecked :
               /\ \A j \in inChecked : j <= i
               /\ checked_files' = Confirmed(checked_files, i)
               /\ client' = [client EXCEPT ![c].pc = "confirmSpec"]
               /\ UNCHANGED new_files
          \/ /\ inChecked = {}
             /\ \E i \in inNew :
                  /\ \A j \in inNew : j <= i
                  /\ new_files' = [new_files EXCEPT ![i].cur = "valid"]
                  /\ client' = [client EXCEPT ![c].pc = "confirmSpec"]
             /\ UNCHANGED checked_files
          \/ /\ inChecked = {} /\ inNew = {}
             /\ client' = [client EXCEPT ![c] = Idle]
             /\ UNCHANGED fileVars
    /\ UNCHANGED <<reported_files_idx, wl_spec_info, g_work_report, lockVars,
                   tree, db, reportVars, main, chain, sealed, boundVars>>

ConfirmSpec(c) ==
    /\ client[c].pc = "confirmSpec"
    /\ wl_spec_info' = SpecMove(wl_spec_info, "valid", "unconfirmed",
                                Size[client[c].file])
    /\ client' = [client EXCEPT ![c] = Idle]
    /\ UNCHANGED <<fileVars, reported_files_idx, g_work_report, lockVars, tree,
                   db, reportVars, main, chain, sealed, boundVars>>

\* An item of checked_files is marked, an item of new_files is erased.
DeleteFile(c) ==
    /\ client[c].pc = "delete"
    /\ g_checked_files_mutex = Free
    /\ LET inChecked == Matches(checked_files, client[c].file)
           inNew == Matches(new_files, client[c].file)
       IN \/ \E i \in inChecked :
               /\ \A j \in inChecked : i <= j
               /\ checked_files' = [checked_files EXCEPT ![i].cur = "deleted"]
               /\ client' = [client EXCEPT ![c].pc = "deleteSpec",
                                           ![c].old = checked_files[i].cur]
               /\ UNCHANGED new_files
          \/ /\ inChecked = {}
             /\ \E i \in inNew :
                  /\ \A j \in inNew : j <= i
                  /\ new_files' = RemoveAt(new_files, i)
                  /\ client' = [client EXCEPT ![c].pc = "deleteSpec",
                                              ![c].old = new_files[i].cur]
             /\ UNCHANGED checked_files
          \/ /\ inChecked = {} /\ inNew = {}
             /\ client' = [client EXCEPT ![c] = Idle]
             /\ UNCHANGED fileVars
    /\ UNCHANGED <<reported_files_idx, wl_spec_info, g_work_report, lockVars,
                   tree, db, reportVars, main, chain, sealed, boundVars>>

\* The tree and its _meta entry leave the database, the statistics follow.
DeleteSpec(c) ==
    /\ client[c].pc = "deleteSpec"
    /\ tree' = tree \ {client[c].file}
    /\ wl_spec_info' = SpecAdd(wl_spec_info, client[c].old, -Size[client[c].file])
    /\ client' = [client EXCEPT ![c] = Idle]
    /\ UNCHANGED <<fileVars, reported_files_idx, g_work_report, lockVars, db,
                   reportVars, main, chain, sealed, boundVars>>

(***************************************************************************)
(* validate_meaningful_file                                                 *)
(***************************************************************************)

\* How many random indexes are drawn: all of a short vector, 2% of a long one.
CheckNum(n) == IF n > MEANINGFUL_VALIDATE_MIN_NUM THEN n \div 50 ELSE n

\* sched_check(SCHED_VALIDATE_FILE): some announced call wants the file lock.
SchedBlocked ==
    \/ \E c \in Clients :
          client[c].pc \in {"confirm", "confirmSpec", "delete", "deleteSpec"}
    \/ \E r \in Reporters : reporter[r] # "idle"

\* The upgrade is over (its status belongs to another part): no validation.
ValidateSkip ==
    /\ main.pc = "validate"
    /\ main' = [main EXCEPT !.pc = "storeSpec"]
    /\ UNCHANGED <<fileVars, reported_files_idx, wl_spec_info, g_work_report,
                   lockVars, tree, db, client, reportVars, chain, sealed,
                   boundVars>>

\* Variant: the merged items stay in new_files.
MergeKeepsNew ==
    /\ checked_files' = checked_files \o new_files
    /\ UNCHANGED new_files
MergeNew ==
    /\ checked_files' = checked_files \o new_files
    /\ new_files' = <<>>

\* new_files joins checked_files; ocall_validate_init may fail, which ends
\* this validation.
ValidateBegin ==
    /\ main.pc = "validate"
    /\ g_checked_files_mutex = Free
    /\ MergeNew
    /\ \/ /\ g_checked_files_mutex' = Main
          /\ LET n == Len(checked_files \o new_files)
             IN main' = [main EXCEPT !.pc = "check", !.num = n,
                                     !.rem = CheckNum(n)]
       \/ /\ main' = [main EXCEPT !.pc = "storeSpec"]
          /\ UNCHANGED g_checked_files_mutex
    /\ UNCHANGED <<reported_files_idx, wl_spec_info, g_work_report,
                   g_gen_work_report, tree, db, client, reportVars, chain,
                   sealed, boundVars>>

ValidateYield ==
    /\ main.pc = "check"
    /\ main.rem > 0
    /\ SchedBlocked
    /\ g_checked_files_mutex' = Free
    /\ main' = [main EXCEPT !.pc = "yield"]
    /\ UNCHANGED <<fileVars, reported_files_idx, wl_spec_info, g_work_report,
                   g_gen_work_report, tree, db, client, reportVars, chain,
                   sealed, boundVars>>

\* One iteration of the loop. The index was drawn against the size the vector
\* had at the start; good says whether every block came back intact. Only
\* changes of the blocks count against MaxFlips, not a missing tree.
CheckFile(i, good) ==
    LET it     == checked_files[i]
        inTree == it.file \in tree
        flip   == /\ i \in 1..Len(checked_files)
                  /\ \/ it.cur = "valid" /\ ~(good /\ inTree)
                     \/ it.cur = "lost" /\ good /\ inTree
        next   == IF it.cur = "valid" THEN "lost" ELSE "valid"
        change == [idx |-> i, file |-> it.file, from |-> it.cur]
    IN \/ /\ flip
          /\ inTree => flips < MaxFlips
          /\ flips' = IF inTree THEN flips + 1 ELSE flips
          /\ checked_files' = [checked_files EXCEPT ![i].cur = next]
          /\ main' = [main EXCEPT !.pc = "check", !.rem = @ - 1,
                        !.changed = {m \in @ : m.idx # i} \cup {change}]
       \/ /\ ~flip
          /\ main' = [main EXCEPT !.pc = "check", !.rem = @ - 1]
          /\ UNCHANGED <<checked_files, flips>>

ValidateCheck ==
    /\ \/ main.pc = "check" /\ ~SchedBlocked
       \/ main.pc = "yield" /\ g_checked_files_mutex = Free
    /\ main.rem > 0
    /\ g_checked_files_mutex' = Main
    /\ \E i \in 1..main.num, good \in BOOLEAN : CheckFile(i, good)
    /\ UNCHANGED <<new_files, reported_files_idx, wl_spec_info, g_work_report,
                   g_gen_work_report, tree, db, client, reportVars, chain,
                   sealed, calls, crashes, stores, lost>>

\* FILE_OLD_SIZE of an item: an absent number reads as 0.
OldSize(it) == IF it.file = NoFile THEN 0 ELSE Size[it.file]

\* The statistics are settled by index: whatever item the index denotes now.
\* An index past the end reads a destroyed element: any status (stale) and any
\* sign of the size (d) may come out.
Account(spec, changed, stale, d) ==
    LET known(m) == m.idx \in 1..Len(checked_files)
        to(m)    == IF known(m) THEN checked_files[m.idx].cur ELSE stale
        step(m)  == IF known(m) THEN NumStep(OldSize(checked_files[m.idx]))
                                ELSE d
        net(S)   == Cardinality({m \in S : step(m) = 1})
                    - Cardinality({m \in S : step(m) = -1})
        moved    == {m \in changed : to(m) # m.from}
    IN [s \in StatusName |-> spec[s] + net({m \in moved : to(m) = s})
                                     - net({m \in moved : m.from = s})]

ValidateEnd ==
    /\ main.pc = "check"
    /\ main.rem = 0
    /\ \E stale \in StatusName, d \in {1, -1} :
          wl_spec_info' = Account(wl_spec_info, main.changed, stale, d)
    /\ g_checked_files_mutex' = Free
    /\ main' = [MainStart EXCEPT !.pc = "storeSpec"]
    /\ UNCHANGED <<fileVars, reported_files_idx, g_work_report,
                   g_gen_work_report, tree, db, client, reportVars, chain,
                   sealed, boundVars>>

(***************************************************************************)
(* id_store_metadata, run by the main loop without the file lock            *)
(***************************************************************************)

StoreSpec ==
    /\ main.pc = "storeSpec"
    /\ stores < MaxStores
    /\ stores' = stores + 1
    /\ db' = [db EXCEPT !.spec = wl_spec_info]
    /\ main' = [main EXCEPT !.pc = "storeFiles"]
    /\ UNCHANGED <<fileVars, reported_files_idx, wl_spec_info, g_work_report,
                   lockVars, tree, client, reportVars, chain, sealed, calls,
                   flips, crashes, lost>>

\* Nothing was stored: the upgrade is over, or no write reached the database.
StoreSkip ==
    /\ main.pc = "storeSpec"
    /\ main' = MainStart
    /\ UNCHANGED <<fileVars, reported_files_idx, wl_spec_info, g_work_report,
                   lockVars, tree, db, client, reportVars, chain, sealed,
                   boundVars>>

\* The item the index denotes now is dumped into the buffer.
StoreFile ==
    /\ main.pc = "storeFiles"
    /\ main.it <= Len(checked_files)
    /\ main' = [main EXCEPT !.pc = "storeComma", !.it = @ + 1,
                            !.buf = Append(@, checked_files[main.it]),
                            !.comma = FALSE]
    /\ UNCHANGED <<fileVars, reported_files_idx, wl_spec_info, g_work_report,
                   lockVars, tree, db, client, reportVars, chain, sealed,
                   boundVars>>

\* A comma follows unless the item just dumped is the last by the size the
\* vector has now; a report may have erased items since.
StoreComma ==
    /\ main.pc = "storeComma"
    /\ main' = [main EXCEPT !.pc = "storeFiles",
                            !.comma = main.it - 1 # Len(checked_files)]
    /\ UNCHANGED <<fileVars, reported_files_idx, wl_spec_info, g_work_report,
                   lockVars, tree, db, client, reportVars, chain, sealed,
                   boundVars>>

\* persist_set writes the metadata, or fails and is only logged.
StoreEnd ==
    /\ main.pc = "storeFiles"
    /\ main.it > Len(checked_files)
    /\ \/ db' = [db EXCEPT !.files = main.buf, !.comma = main.comma]
       \/ UNCHANGED db
    /\ main' = MainStart
    /\ UNCHANGED <<fileVars, reported_files_idx, wl_spec_info, g_work_report,
                   lockVars, tree, client, reportVars, chain, sealed,
                   boundVars>>

(***************************************************************************)
(* gen_and_upload_work_report                                               *)
(***************************************************************************)

ReportBegin(r) ==
    /\ reporter[r] = "idle"
    /\ reporter' = [reporter EXCEPT ![r] = "lock"]
    /\ UNCHANGED <<fileVars, reported_files_idx, wl_spec_info, g_work_report,
                   lockVars, tree, db, client, purge_it, main, chain, sealed,
                   boundVars>>

\* Variant: gen_and_upload_work_report takes no lock.
ReportUnlocked == TRUE
ReportLockFree == g_gen_work_report = Free

\* Height, restart flag, validated proof and file flag decide.
ReportGate(r, passed) ==
    /\ reporter[r] = "lock"
    /\ ReportLockFree
    /\ \/ /\ passed
          /\ g_gen_work_report' = r
          /\ reporter' = [reporter EXCEPT ![r] = "files"]
       \/ /\ ~passed
          /\ reporter' = [reporter EXCEPT ![r] = "idle"]
          /\ UNCHANGED g_gen_work_report
    /\ UNCHANGED <<fileVars, reported_files_idx, wl_spec_info, g_work_report,
                   g_checked_files_mutex, tree, db, client, purge_it, main,
                   chain, sealed, boundVars>>

ReportLockFiles(r) ==
    /\ reporter[r] = "files"
    /\ g_checked_files_mutex = Free
    /\ g_checked_files_mutex' = r
    /\ reporter' = [reporter EXCEPT ![r] = "purge"]
    /\ purge_it' = 1
    /\ UNCHANGED <<fileVars, reported_files_idx, wl_spec_info, g_work_report,
                   g_gen_work_report, tree, db, client, main, chain, sealed,
                   boundVars>>

\* One turn of the loop that erases what need not be tracked any more.
ReportPurge(r) ==
    /\ reporter[r] = "purge"
    /\ purge_it <= Len(checked_files)
    /\ \/ /\ Erasable(checked_files[purge_it])
          /\ checked_files' = RemoveAt(checked_files, purge_it)
          /\ UNCHANGED purge_it
       \/ /\ ~Erasable(checked_files[purge_it])
          /\ purge_it' = purge_it + 1
          /\ UNCHANGED checked_files
    /\ UNCHANGED <<new_files, reported_files_idx, wl_spec_info, g_work_report,
                   lockVars, tree, db, client, reporter, main, chain, sealed,
                   boundVars>>

PendingIdx(s) == {i \in 1..Len(s) : Pending(s[i])}

\* Variant: the limit counts every item, not only the pending ones.
ReportedIdxFirst(s) == {i \in PendingIdx(s) : i <= WORKREPORT_FILE_LIMIT}
\* The first WORKREPORT_FILE_LIMIT indexes with something to publish.
ReportedIdx(s) ==
    {i \in PendingIdx(s) :
        Cardinality({j \in PendingIdx(s) : j < i}) < WORKREPORT_FILE_LIMIT}

\* What the report says about the vector s when the indexes I are published.
ReportOf(s, I) ==
    LET ids(J) == {s[i].file : i \in J}
        del == {i \in I : s[i].cur \in {"lost", "deleted"}}
        add == {i \in I : s[i].cur = "valid"}
        old == {i \in 1..Len(s) : s[i].orig = "valid"}
    IN [added |-> ids(add), deleted |-> ids(del),
        valid |-> ids((old \ del) \cup add)]

\* Variant: WAITING is not written.
MarkedForgotten(s) == s
Marked(s) == [i \in 1..Len(s) |-> [s[i] EXCEPT !.wait = s[i].cur]]

\* WAITING takes CURRENT everywhere, the indexes are recorded, the file lock
\* is released and the report is signed; a failed signature leaves the marks.
ReportGenerate(r) ==
    /\ reporter[r] = "purge"
    /\ purge_it > Len(checked_files)
    /\ checked_files' = Marked(checked_files)
    /\ reported_files_idx' = ReportedIdx(checked_files)
    /\ g_checked_files_mutex' = Free
    /\ purge_it' = 1
    /\ \/ /\ g_work_report' =
               ReportOf(checked_files, ReportedIdx(checked_files))
          /\ reporter' = [reporter EXCEPT ![r] = "upload"]
          /\ UNCHANGED g_gen_work_report
       \/ /\ g_gen_work_report' = Free
          /\ reporter' = [reporter EXCEPT ![r] = "idle"]
          /\ UNCHANGED g_work_report
    /\ UNCHANGED <<new_files, wl_spec_info, tree, db, client, main, chain,
                   sealed, boundVars>>

\* The chain applies the report and its reply reaches the worker.
UploadAccepted(r) ==
    /\ reporter[r] = "upload"
    /\ chain' = (chain \ g_work_report.deleted) \cup g_work_report.added
    /\ reporter' = [reporter EXCEPT ![r] = "accepted"]
    /\ UNCHANGED <<fileVars, reported_files_idx, wl_spec_info, g_work_report,
                   lockVars, tree, db, client, purge_it, main, sealed,
                   boundVars>>

\* Every post of the retry loop failed: the chain never took the report, or
\* it did and the replies were lost.
UploadFailed(r) ==
    /\ reporter[r] = "upload"
    /\ reporter' = [reporter EXCEPT ![r] = "idle"]
    /\ g_gen_work_report' = Free
    /\ \/ UNCHANGED <<chain, lost>>
       \/ /\ lost < MaxLost
          /\ lost' = lost + 1
          /\ chain' = (chain \ g_work_report.deleted) \cup g_work_report.added
    /\ UNCHANGED <<fileVars, reported_files_idx, wl_spec_info, g_work_report,
                   g_checked_files_mutex, tree, db, client, purge_it, main,
                   sealed, calls, flips, crashes, stores>>

\* Variant: the status of now counts, not that of the report.
SettledCurrent(s, I) ==
    [i \in 1..Len(s) |-> IF i \in I THEN [s[i] EXCEPT !.orig = s[i].cur]
                                   ELSE s[i]]
Settled(s, I) ==
    [i \in 1..Len(s) |-> IF i \in I THEN [s[i] EXCEPT !.orig = s[i].wait]
                                   ELSE s[i]]

\* handle_report_result: ORIGIN takes WAITING at the recorded indexes. The
\* upgrade keeps the report lock until its data is generated.
ReportResult(r) ==
    /\ reporter[r] = "accepted"
    /\ g_checked_files_mutex = Free
    /\ checked_files' = Settled(checked_files, reported_files_idx)
    /\ reported_files_idx' = {}
    /\ \/ /\ r \in Reporters
          /\ g_gen_work_report' = Free
          /\ reporter' = [reporter EXCEPT ![r] = "idle"]
       \/ /\ r \in Upgraders
          /\ reporter' = [reporter EXCEPT ![r] = "data"]
          /\ UNCHANGED g_gen_work_report
    /\ UNCHANGED <<new_files, wl_spec_info, g_work_report,
                   g_checked_files_mutex, tree, db, client, purge_it, main,
                   chain, sealed, boundVars>>

\* The rest of id_gen_upgrade_data reads the vectors and releases the lock. The
\* copy of a hash that an item lacks aborts the enclave.
UpgradeData(r) ==
    /\ reporter[r] = "data"
    /\ NoFile \notin Names(checked_files)
    /\ g_gen_work_report' = Free
    /\ reporter' = [reporter EXCEPT ![r] = "idle"]
    /\ UNCHANGED <<fileVars, reported_files_idx, wl_spec_info, g_work_report,
                   g_checked_files_mutex, tree, db, client, purge_it, main,
                   chain, sealed, boundVars>>

(***************************************************************************)
(* The process is killed and started again: id_restore_metadata             *)
(***************************************************************************)

\* What the parser makes of the stored array: a null item that was dumped stops
\* it, and an array that does not end well is empty; a comma before the bracket
\* is followed by an element without a value.
Loaded(text) ==
    IF NullItem \in Range(text.files) THEN <<>>
    ELSE IF text.comma THEN Append(text.files, NullItem)
    ELSE text.files

CrashRestart ==
    /\ crashes < MaxCrashes
    /\ crashes' = crashes + 1
    /\ checked_files' = Loaded(db)
    /\ wl_spec_info' = db.spec
    /\ new_files' = <<>>
    /\ reported_files_idx' = {}
    /\ g_work_report' = NoReport
    /\ g_checked_files_mutex' = Free
    /\ g_gen_work_report' = Free
    /\ client' = [c \in Clients |-> Idle]
    /\ reporter' = [r \in Reps |-> "idle"]
    /\ purge_it' = 1
    /\ main' = MainStart
    /\ UNCHANGED <<tree, db, chain, sealed, calls, flips, stores, lost>>

(***************************************************************************)
(* Specification                                                            *)
(***************************************************************************)

ClientStep(c) ==
    \/ SealBegin(c) \/ SealCount(c)
    \/ SealStore(c) \/ SealFail(c) \/ SealSpec(c)
    \/ RequestAny(c)
    \/ ConfirmFile(c) \/ ConfirmSpec(c)
    \/ DeleteFile(c) \/ DeleteSpec(c)

MainStep ==
    \/ ValidateSkip \/ ValidateBegin
    \/ ValidateYield \/ ValidateCheck \/ ValidateEnd
    \/ StoreSpec \/ StoreSkip \/ StoreFile \/ StoreComma \/ StoreEnd

ReportStep(r) ==
    \/ ReportBegin(r)
    \/ \E passed \in BOOLEAN : ReportGate(r, passed)
    \/ ReportLockFiles(r) \/ ReportPurge(r) \/ ReportGenerate(r)
    \/ UploadAccepted(r) \/ UploadFailed(r) \/ ReportResult(r)
    \/ UpgradeData(r)

Next ==
    \/ \E c \in Clients : ClientStep(c)
    \/ MainStep
    \/ \E r \in Reps : ReportStep(r)
    \/ CrashRestart

Spec == Init /\ [][Next]_vars

\* A signature that succeeds.
ReportSigned(r) == ReportGenerate(r) /\ reporter'[r] = "upload"

\* Whoever holds a lock keeps running; a mutex queues its waiters, so nobody
\* is passed over forever; and for the thread of the report loop the gate
\* passes, a signature succeeds and the chain accepts again and again. Nothing
\* is asked of the HTTP clients.
Fairness ==
    /\ WF_vars(MainStep)
    /\ \A r \in Reps :
          /\ WF_vars(ReportPurge(r) \/ ReportGenerate(r))
          /\ WF_vars(UploadAccepted(r) \/ UploadFailed(r))
          /\ WF_vars(UpgradeData(r))
          /\ SF_vars(ReportLockFiles(r)) /\ SF_vars(ReportResult(r))
    /\ \A r \in Reporters :
          /\ WF_vars(ReportBegin(r)) /\ SF_vars(ReportGate(r, TRUE))
          /\ SF_vars(ReportSigned(r)) /\ SF_vars(UploadAccepted(r))

FairSpec == Spec /\ Fairness

(***************************************************************************)
(* Properties                                                               *)
(***************************************************************************)

ClientPc ==
    {"idle", "sealCount", "seal", "sealSpec", "confirm", "confirmSpec",
     "delete", "deleteSpec"}
ReporterPc == {"idle", "lock", "files", "purge", "upload", "accepted", "data"}
MainPc ==
    {"validate", "check", "yield", "storeSpec", "storeFiles", "storeComma"}

WorkReport ==
    [added : SUBSET Files, deleted : SUBSET Files, valid : SUBSET Files]
Stored == [files : Seq(Item), comma : BOOLEAN, spec : [StatusName -> Int]]
ClientState ==
    [pc : ClientPc, file : Files \cup {NoFile}, num : Nat, old : Status]
Change == [idx : Nat, file : Files, from : Status]
MainState == [pc : MainPc, rem : Nat, num : Nat, it : Nat \ {0},
              changed : SUBSET Change, buf : Seq(Item), comma : BOOLEAN]

\* Every variable holds a value the code's types allow.
TypeOK ==
    /\ checked_files \in Seq(Item) /\ new_files \in Seq(Item)
    /\ reported_files_idx \in SUBSET Nat
    /\ wl_spec_info \in [StatusName -> Int]
    /\ g_work_report \in WorkReport
    /\ g_checked_files_mutex \in Reps \cup {Free, Main}
    /\ g_gen_work_report \in Reps \cup {Free}
    /\ tree \in SUBSET Files
    /\ db \in Stored
    /\ client \in [Clients -> ClientState]
    /\ reporter \in [Reps -> ReporterPc] /\ purge_it \in Nat \ {0}
    /\ main \in MainState
    /\ chain \in SUBSET Files /\ sealed \in SUBSET Files
    /\ calls \in Nat /\ flips \in Nat /\ crashes \in Nat
    /\ stores \in Nat /\ lost \in Nat

\* The worker was never killed and no reply of the chain was ever lost.
Undisturbed == crashes = 0 /\ lost = 0

\* While a report is on its way, the recorded indexes still denote exactly the
\* files the report names: handle_report_result cannot touch another file
\* (Workload.cpp, handle_report_result).
ReportedIdxStable ==
    \A r \in Reps : reporter[r] \in {"upload", "accepted"} =>
        /\ reported_files_idx \subseteq 1..Len(checked_files)
        /\ g_work_report.added \cup g_work_report.deleted
             = {checked_files[i].file : i \in reported_files_idx}

\* What the worker believes the chain counts is what the chain counts, up to a
\* report whose result is still being handled (ORIGIN_STATUS after
\* handle_report_result).
AckedIsChain ==
    Undisturbed =>
        IF \E r \in Reps : reporter[r] = "accepted"
        THEN chain = (Acked \ g_work_report.deleted) \cup g_work_report.added
        ELSE chain = Acked

\* A report on its way fits the chain it will meet: it deletes only files the
\* chain counts, adds only files it does not, and its total is the chain's
\* total after both (Report.cpp, gen_work_report).
FitsChain(wr) ==
    /\ wr.deleted \subseteq chain
    /\ wr.added \cap chain = {}
    /\ wr.valid = (chain \ wr.deleted) \cup wr.added
ReportFitsChain ==
    Undisturbed /\ (\E r \in Reps : reporter[r] = "upload")
        => FitsChain(g_work_report)

\* A file that is not being deleted keeps its MerkleTree in the database, so
\* that validation never loses a file for want of its tree (Storage.cpp,
\* storage_delete_file, which removes the tree outside the file lock).
LiveFilesHaveTree ==
    crashes = 0 =>
        \A s \in {checked_files, new_files} : \A i \in 1..Len(s) :
            s[i].cur # "deleted" => s[i].file \in tree

InFlight(pcs) == Cardinality({c \in Clients : client[c].pc \in pcs})
Count(s, st) == Cardinality({i \in 1..Len(s) : s[i].cur = st})
Live == Count(checked_files, "unconfirmed") + Count(checked_files, "valid")
        + Count(checked_files, "lost") + Len(new_files)
\* No sealed file is one whose size, as an int, changes its sign: in the build,
\* none of 2 to 4 GiB, nor of 4 GiB more than that.
SignsKept == \A f \in sealed : 2 * (Size[f] % INT_RANGE) <= INT_RANGE
\* As long as no size changes its sign, the statistics of /workload never add
\* up to more files than are tracked, whatever the order in which the vectors
\* and wl_spec_info are updated, and although a validation settles its changes
\* by indexes that may denote another item, or none (Validator.cpp:427).
NeverOvercounts ==
    crashes = 0 /\ SignsKept =>
        wl_spec_info["unconfirmed"] + wl_spec_info["valid"]
            + wl_spec_info["lost"] + wl_spec_info["deleted"]
            + wl_spec_info["none"]
          <= Live + InFlight({"deleteSpec"}) - InFlight({"sealSpec"})

Distinct(s) == \A i, j \in 1..Len(s) : s[i].file = s[j].file => i = j
\* A sealed hash is tracked at most once, in one of the two vectors, also when
\* the vector comes back from metadata stored while a report erased items
\* (Identity.cpp, id_store_metadata reads checked_files without its lock). All
\* that such metadata brings with it is one item that is no file.
DistinctFiles ==
    /\ Distinct(checked_files)
    /\ Distinct(new_files)
    /\ Names(checked_files) \cap Names(new_files) = {}
    /\ Names(new_files) \subseteq sealed
    /\ Names(checked_files) \subseteq sealed \cup {NoFile}
    /\ crashes = 0 => NoFile \notin Names(checked_files)

\* A report whose result is still being handled.
Unsettled ==
    IF \E r \in Reps : reporter[r] = "accepted"
    THEN {[added |-> g_work_report.added, deleted |-> g_work_report.deleted]}
    ELSE {}

\* What metadata, and the text of it that is put together, says the chain counts.
Saved == AckedIn(db.files) \cup AckedIn(main.buf)

\* The reports implement the ledger, with kills and lost replies: what the
\* worker has acknowledged is what the items' ORIGIN statuses say, in memory and
\* in what is stored of them.
Ledger == INSTANCE ReportLedger WITH
    ledger <- chain,
    acked <- Acked,
    pending <- Unsettled,
    saved <- Saved,
    calm <- Undisturbed
LedgerSpec == Ledger!Spec

HasCur(f, st) ==
    \E i \in 1..Len(checked_files) :
        checked_files[i].file = f /\ checked_files[i].cur = st

\* A deleted file leaves the chain.
DeletedLeavesChain == \A f \in Files : HasCur(f, "deleted") ~> f \notin chain

\* A valid file reaches the chain unless validation or a caller takes it away.
ValidReachesChain ==
    \A f \in Files : HasCur(f, "valid") ~> (f \in chain \/ ~HasCur(f, "valid"))

(***************************************************************************)
(* The inductive invariant                                                  *)
(***************************************************************************)

Holding == {"files", "purge", "upload", "accepted", "data"}

\* Each lock belongs to the thread whose step says so.
LockInv ==
    /\ g_checked_files_mutex = Main <=> main.pc = "check"
    /\ \A r \in Reps : g_checked_files_mutex = r <=> reporter[r] = "purge"
    /\ \A r \in Reps : g_gen_work_report = r <=> reporter[r] \in Holding

\* What is stored, or about to be, could be loaded without a duplicate.
StoreInv ==
    /\ Distinct(main.buf) /\ Names(main.buf) \subseteq sealed \cup {NoFile}
    /\ \A i \in 1..Len(checked_files), j \in 1..Len(main.buf) :
          i >= main.it => checked_files[i].file # main.buf[j].file
    /\ main.pc \notin {"storeFiles", "storeComma"} => main.buf = <<>>
    /\ Distinct(db.files) /\ Names(db.files) \subseteq sealed \cup {NoFile}

\* The report on its way is made of the marks at the recorded indexes.
MarkInv ==
    (\E r \in Reps : reporter[r] \in {"upload", "accepted"}) =>
        /\ reported_files_idx \subseteq 1..Len(checked_files)
        /\ \A i \in reported_files_idx :
              LET it == checked_files[i]
              IN \/ /\ it.wait = "valid" /\ it.orig # "valid"
                    /\ it.file \in g_work_report.added
                 \/ /\ it.wait \in {"lost", "deleted"} /\ it.orig = "valid"
                    /\ it.file \in g_work_report.deleted
        /\ g_work_report.added \cup g_work_report.deleted
             = {checked_files[i].file : i \in reported_files_idx}
        /\ g_work_report.added \cap g_work_report.deleted = {}
        /\ g_work_report.valid
             = (Acked \ g_work_report.deleted) \cup g_work_report.added

\* The chain has never heard of an item that was not merged yet.
NewInv == \A i \in 1..Len(new_files) : new_files[i].orig = "unconfirmed"

\* The hashes of the items nobody deleted.
AliveIn(s) == {s[i].file : i \in {j \in 1..Len(s) : s[j].cur # "deleted"}}
Alive == AliveIn(checked_files) \cup AliveIn(new_files)

\* A tree is removed only once no live item needs it, and an item that was not
\* merged yet is erased rather than marked.
TreeInv ==
    /\ crashes = 0 => Alive \subseteq tree
    /\ \A c \in Clients : client[c].pc \in {"delete", "deleteSpec"} =>
          client[c].file \in sealed
    /\ \A c \in Clients : client[c].pc = "deleteSpec" =>
          client[c].file \notin Alive
    /\ \A i \in 1..Len(new_files) : new_files[i].cur # "deleted"

\* Everything the proofs of the properties rest on.
IInv ==
    /\ TypeOK /\ LockInv /\ DistinctFiles /\ StoreInv /\ MarkInv /\ NewInv
    /\ AckedIsChain /\ TreeInv
=============================================================================
