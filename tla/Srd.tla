-------------------------------- MODULE Srd --------------------------------
(***************************************************************************)
(* SRD space: the 1G folders of sealed random data a worker keeps on its    *)
(* disks. The enclave's main loop validates and changes them, pool threads  *)
(* of the application seal new ones, the reserve thread of the application  *)
(* gives space back when a disk runs low, work reports read them, and HTTP  *)
(* clients ask for more or less.                                            *)
(*                                                                          *)
(* Entries of one path are interchangeable, so srd_path2hashs_m is a map    *)
(* from a path to the length of its vector. std::map and JSON objects are   *)
(* functions whose domain is the set of keys.                               *)
(*                                                                          *)
(* A definition introduced as a Variant is a mistaken form of the one that  *)
(* follows it; no specification uses it.                                    *)
(***************************************************************************)
EXTENDS Integers, FiniteSets, FiniteSetsExt

CONSTANTS
    Paths,                  \* disks
    DiskSize,               \* size of a disk in G
    ReservedSpace,          \* g_srd_reserved_space
    Workers,                \* threads of the sealing pool
    Clients,                \* HTTP threads
    Requests,               \* changes a client asks for
    InitCapacity,           \* srd_init_capacity of the configuration
    SRD_MAX_PER_TURN,
    SRD_NUMBER_UPPER_LIMIT,
    SRD_VALIDATE_MIN_NUM,
    ValidateDiv,            \* 1 / SRD_VALIDATE_RATE
    SRD_PUNISH_FACTOR,
    MaxRequests,            \* bound: requests of all clients
    MaxOther,               \* bound: G other programs come to use
    MaxFaults               \* bound: things that go wrong

ASSUME SrdAssumption ==
    /\ IsFiniteSet(Paths) /\ Paths # {} /\ IsFiniteSet(Workers)
    /\ DiskSize \in Nat /\ ReservedSpace \in Nat
    /\ Requests \subseteq Int \ {0}
    /\ InitCapacity \in Nat
    /\ SRD_MAX_PER_TURN \in Nat \ {0}
    /\ SRD_NUMBER_UPPER_LIMIT \in Nat
    /\ SRD_VALIDATE_MIN_NUM \in Nat
    /\ ValidateDiv \in Nat \ {0}
    /\ SRD_PUNISH_FACTOR \in Nat \ {0}
    /\ MaxRequests \in Nat /\ MaxOther \in Nat /\ MaxFaults \in Nat
    /\ "main" \notin Workers \cup Clients

VARIABLES
    srd,        \* srd_path2hashs_m: length of the vector of every path
    srd_info,   \* srd_info_json: "assigned" of every path
    change,     \* g_srd_change
    db,         \* record DB_SRD_INFO
    meta,       \* srd part of the sealed metadata
    stuck,      \* g_metadata_mutex was left locked
    folders,    \* G folders on each disk
    other,      \* G other programs use on each disk
    upgrade,    \* upgrade status of the enclave
    lock,       \* g_srd_mutex
    main,       \* main loop thread, its ocall_srd_change included
    queue,      \* G still to be handed to the pool, per path
    worker,     \* pool threads
    check,      \* srd_check_reserved thread
    report,     \* the srd part of a work report
    setting,    \* ecall_srd_set_change in progress, per thread
    requests, faults, alive

vars == <<srd, srd_info, change, db, meta, folders, other, upgrade, lock,
          stuck, main, queue, worker, check, report, setting, requests,
          faults, alive>>

disk == <<folders, other>>
threads == <<main, queue, worker, check, report, setting>>
bounds == <<requests, faults, alive, stuck>>

(***************************************************************************)
(* Maps                                                                     *)
(***************************************************************************)

Has(map, p) == IF p \in DOMAIN map THEN map[p] ELSE 0

Put(map, p, n) ==
    [q \in DOMAIN map \cup {p} |-> IF q = p THEN n ELSE map[q]]

Total(map) == MapThenSumSet(LAMBDA p : map[p], DOMAIN map)

Lesser(m, n) == IF m < n THEN m ELSE n
AtLeast0(n) == IF n < 0 THEN 0 ELSE n

\* Variant: the sum is stored as it is.
SetSrdInfoUnclamped(p, d) == Put(srd_info, p, Has(srd_info, p) + d)

\* set_srd_info
SetSrdInfo(p, d) == Put(srd_info, p, AtLeast0(Has(srd_info, p) + d))

\* The record: {} when it was never written, or {map}.
Read(stored) == IF stored = {} THEN [p \in {} |-> 0]
                ELSE CHOOSE map \in stored : TRUE

Avail(p) == AtLeast0(DiskSize - folders[p] - other[p])

Procs == {"main"} \cup Workers \cup Clients
NotSetting == [pc |-> "no", val |-> 0]
Setting(n) == [pc |-> "get", val |-> n]

NoSel == [p \in {} |-> {}]
NoCount == [p \in {} |-> 0]
MainAt(pc) == [pc |-> pc, todo |-> {}, sel |-> NoSel, num |-> 0,
               del |-> NoCount]
Idle == [pc |-> "idle", path |-> CHOOSE p \in Paths : TRUE]
Asleep == [pc |-> "sleep", plan |-> NoCount]
NoQueue == [p \in Paths |-> 0]

\* The change that fits under the upper limit when num G exist.
Limited(n, num) ==
    IF num >= SRD_NUMBER_UPPER_LIMIT THEN 0
    ELSE Lesser(n, SRD_NUMBER_UPPER_LIMIT - num)

\* A worker that starts for the first time: no metadata, the configured
\* capacity is asked for.
Init ==
    /\ srd = NoCount /\ srd_info = NoCount
    /\ change = Limited(InitCapacity, 0)
    /\ db = {} /\ meta = {}
    /\ folders = [p \in Paths |-> 0] /\ other = [p \in Paths |-> 0]
    /\ upgrade = "none"
    /\ lock = "free"
    /\ main = MainAt("validate")
    /\ queue = NoQueue
    /\ worker = [w \in Workers |-> Idle]
    /\ check = Asleep
    /\ report = "no"
    /\ setting = [x \in Procs |-> NotSetting]
    /\ requests = 0 /\ faults = 0 /\ alive = TRUE /\ stuck = FALSE

Fault == faults < MaxFaults /\ faults' = faults + 1

(***************************************************************************)
(* ecall_srd_set_change, run by clients, pool threads and the main loop     *)
(***************************************************************************)

\* get_srd_change, plus the change asked for
GetChange(x) ==
    /\ setting[x].pc = "get"
    /\ LET n == change + setting[x].val
       IN setting' = [setting EXCEPT
              ![x] = [pc |-> IF n > 0 THEN "limit" ELSE "put", val |-> n]]
    /\ UNCHANGED <<srd, srd_info, change, db, meta, disk, upgrade, lock, main,
                   queue, worker, check, report, bounds>>

LimitChange(x) ==
    /\ setting[x].pc = "limit"
    /\ lock = "free"
    /\ setting' = [setting EXCEPT
           ![x] = [pc |-> "put", val |-> Limited(setting[x].val, Total(srd))]]
    /\ UNCHANGED <<srd, srd_info, change, db, meta, disk, upgrade, lock, main,
                   queue, worker, check, report, bounds>>

PutChange(x) ==
    /\ setting[x].pc = "put"
    /\ change' = setting[x].val
    /\ setting' = [setting EXCEPT ![x] = NotSetting]
    /\ UNCHANGED <<srd, srd_info, db, meta, disk, upgrade, lock, main, queue,
                   worker, check, report, bounds>>

\* POST /srd/change
ClientRequest(c, n) ==
    /\ requests < MaxRequests
    /\ requests' = requests + 1
    /\ setting[c].pc = "no"
    /\ setting' = [setting EXCEPT ![c] = Setting(n)]
    /\ UNCHANGED <<srd, srd_info, change, db, meta, disk, upgrade, lock, main,
                   queue, worker, check, report, faults, alive,
                   stuck>>

(***************************************************************************)
(* validate_srd                                                             *)
(***************************************************************************)

Indexes == UNION {{p} \X (0..(srd[p] - 1)) : p \in DOMAIN srd}

\* How many of num entries are validated.
ValidateNum(num) ==
    IF num >= ValidateDiv * SRD_VALIDATE_MIN_NUM THEN num \div ValidateDiv
    ELSE Lesser(num, SRD_VALIDATE_MIN_NUM)

\* The sets of entries that may be drawn; a pair may be drawn twice.
Drawn ==
    LET n == ValidateNum(Total(srd))
    IN IF n < Total(srd)
       THEN {s \in SUBSET Indexes : Cardinality(s) \in 1..n}
            \cup (IF n = 0 THEN {{}} ELSE {})
       ELSE {Indexes}

ValidateSrd ==
    /\ main.pc = "validate"
    /\ \/ /\ upgrade = "success"
          /\ main' = MainAt("take")
          /\ UNCHANGED <<lock, alive, faults>>
       \/ /\ upgrade # "success" /\ lock = "free"
          /\ \/ /\ lock' = "main"
                /\ \E s \in Drawn :
                       main' = [MainAt("check") EXCEPT !.todo = s]
                /\ UNCHANGED <<alive, faults>>
             \/ \* a path without entries is drawn: division by its size
                \* (once more than MaxFaults, to let it follow a fault)
                /\ ValidateNum(Total(srd)) \in 1..(Total(srd) - 1)
                /\ \E p \in DOMAIN srd : srd[p] = 0
                /\ faults <= MaxFaults /\ faults' = faults + 1
                /\ alive' = FALSE
                /\ UNCHANGED <<lock, main>>
    /\ UNCHANGED <<srd, srd_info, change, db, meta, disk, upgrade, queue,
                   worker, check, report, setting, requests, stuck>>

\* g_block_func_m: who makes sched_check give the lock away.
ReserveRuns == check.pc \notin {"sleep", "enter"}
BlocksValidate == report # "no" \/ ReserveRuns
BlocksReserve == report # "no"

ValidateYield ==
    /\ main.pc = "check" /\ main.todo # {} /\ BlocksValidate
    /\ lock' = "free"
    /\ main' = [main EXCEPT !.pc = "relock"]
    /\ UNCHANGED <<srd, srd_info, change, db, meta, disk, upgrade, queue,
                   worker, check, report, setting, bounds>>

\* One entry: gone meanwhile, sound, or its files are missing or changed.
ValidateEntry(e) ==
    /\ \/ main.pc = "check" /\ ~BlocksValidate
       \/ main.pc = "relock" /\ lock = "free"
    /\ e \in main.todo
    /\ lock' = "main"
    /\ \/ /\ main' = [main EXCEPT !.pc = "check", !.todo = @ \ {e}]
          /\ UNCHANGED faults
       \/ /\ e \in Indexes /\ Fault
          /\ main' = [main EXCEPT !.pc = "check", !.todo = @ \ {e},
                 !.sel = [q \in DOMAIN @ \cup {e[1]} |->
                             (IF q \in DOMAIN @ THEN @[q] ELSE {})
                             \cup (IF q = e[1] THEN {e[2]} ELSE {})]]
    /\ UNCHANGED <<srd, srd_info, change, db, meta, disk, upgrade, queue,
                   worker, check, report, setting, requests, alive, stuck>>

(***************************************************************************)
(* srd_decrease: called under the lock by the validation, and without it    *)
(* by ecall_srd_decrease                                                    *)
(***************************************************************************)

Count(sel) == Total([p \in DOMAIN sel |-> Cardinality(sel[p])])

\* sel and the last s entries of every path.
WithLast(sel, s) ==
    [p \in DOMAIN srd |->
        (IF p \in DOMAIN sel THEN sel[p] ELSE {})
        \cup {i \in 0..(srd[p] - 1) : i >= srd[p] - s}]

\* Variant: the round that reaches n is not the last.
ChosenOneRoundMore(sel, n) ==
    LET rounds == {s \in 0..Total(srd) : Count(WithLast(sel, s)) >= n}
    IN WithLast(sel, Min(rounds) + 1)

\* Rounds over the paths, from the back, until n entries are chosen.
Chosen(sel, n) ==
    LET rounds == {s \in 0..Total(srd) : Count(WithLast(sel, s)) >= n}
    IN WithLast(sel, Min(rounds))

\* The main loop starts to decrease by n, with the entries of sel first;
\* it goes on at next when there is nothing to delete.
Decrease(sel, n, next) ==
    LET num == Lesser(n, Total(srd))
    IN main' = IF num = 0 THEN MainAt(next)
               ELSE [MainAt("erase") EXCEPT !.sel = Chosen(sel, num)]

\* The end of validate_srd, srd_random_delete included.
Punish ==
    /\ main.pc = "check" /\ main.todo = {}
    /\ Decrease(main.sel, SRD_PUNISH_FACTOR * Count(main.sel), "take")
    /\ lock' = IF main'.pc = "take" THEN "free" ELSE "main"
    /\ UNCHANGED <<srd, srd_info, change, db, meta, disk, upgrade, queue,
                   worker, check, report, setting, bounds>>

InRange(sel) == \A p \in DOMAIN sel : sel[p] \subseteq 0..(srd[p] - 1)

\* The chosen entries leave the vectors. An index past the end frees an
\* entry again and erases behind the end: the enclave aborts, or the vector
\* loses its last entry instead.
Erase ==
    /\ main.pc = "erase"
    /\ LET cut == [p \in DOMAIN main.sel |-> Cardinality(main.sel[p])]
       IN \/ /\ \A p \in DOMAIN cut : cut[p] <= srd[p]
             /\ srd' = [p \in DOMAIN srd |-> srd[p] - Has(cut, p)]
             /\ main' = [MainAt("delete") EXCEPT
                    !.del = [p \in {q \in DOMAIN cut : cut[q] > 0} |-> cut[p]]]
             /\ UNCHANGED alive
          \/ /\ ~InRange(main.sel)
             /\ alive' = FALSE
             /\ UNCHANGED <<srd, main>>
    /\ UNCHANGED <<srd_info, change, db, meta, disk, upgrade, lock, queue,
                   worker, check, report, setting, requests, faults, stuck>>

\* n folders of p are deleted; one may be left behind.
DeleteFolders(p, n) ==
    \/ /\ folders' = [folders EXCEPT ![p] = AtLeast0(@ - n)]
       /\ UNCHANGED faults
    \/ /\ n > 0 /\ Fault
       /\ folders' = [folders EXCEPT ![p] = AtLeast0(@ - (n - 1))]

DeletePath(p) ==
    /\ main.pc = "delete" /\ p \in DOMAIN main.del
    /\ DeleteFolders(p, main.del[p])
    /\ srd_info' = SetSrdInfo(p, -main.del[p])
    /\ main' = [main EXCEPT !.del =
           [q \in DOMAIN main.del \ {p} |-> main.del[q]]]
    /\ UNCHANGED <<srd, change, db, meta, other, upgrade, lock, queue, worker,
                   check, report, setting, requests, alive, stuck>>

\* Variant: the validation returns without unlocking.
DeletedLocked ==
    /\ main.pc = "delete" /\ main.del = NoCount
    /\ main' = MainAt(IF lock = "main" THEN "take" ELSE "persist")
    /\ UNCHANGED <<srd, srd_info, change, db, meta, disk, upgrade, lock,
                   queue, worker, check, report, setting, bounds>>

Deleted ==
    /\ main.pc = "delete" /\ main.del = NoCount
    /\ \/ lock = "main" /\ lock' = "free" /\ main' = MainAt("take")
       \/ lock # "main" /\ main' = MainAt("persist") /\ UNCHANGED lock
    /\ UNCHANGED <<srd, srd_info, change, db, meta, disk, upgrade, queue,
                   worker, check, report, setting, bounds>>

(***************************************************************************)
(* srd_change of the enclave and, through ocall_srd_change, of the          *)
(* application. Config::srd_capacity, which the latter adds to, is read     *)
(* only when a worker starts for the first time and is left out.            *)
(***************************************************************************)

TakeChange ==
    /\ main.pc = "take"
    /\ LET n == Lesser(change, SRD_MAX_PER_TURN)
       IN /\ change' = change - n
          /\ main' = [MainAt(CASE n = 0 -> "persist" [] n > 0 -> "grow"
                               [] n < 0 -> "shrink") EXCEPT !.num = n]
    /\ UNCHANGED <<srd, srd_info, db, meta, disk, upgrade, lock, queue,
                   worker, check, report, setting, bounds>>

\* What may still be sealed on a disk.
Room(p) == AtLeast0(Avail(p) - ReservedSpace)

\* get_increase_srd_info: n G dealt to the disks in turns.
Deal(n) ==
    {f \in [Paths -> 0..n] :
        /\ \A p \in Paths : f[p] <= Room(p)
        /\ Total(f) = n
        /\ \A p, q \in Paths : f[p] > f[q] + 1 => f[q] = Room(q)}

\* What does not fit is added to the next turn, if that ecall gets in.
Grow ==
    /\ main.pc = "grow"
    /\ LET n == Lesser(main.num, Total([p \in Paths |-> Room(p)]))
       IN /\ queue' \in Deal(n)
          /\ \/ /\ n < main.num
                /\ setting' = [setting EXCEPT
                       !["main"] = Setting(main.num - n)]
                /\ UNCHANGED faults
             \/ /\ n < main.num /\ Fault
                /\ UNCHANGED setting
             \/ /\ n = main.num
                /\ UNCHANGED <<setting, faults>>
    /\ main' = MainAt("pool")
    /\ UNCHANGED <<srd, srd_info, change, db, meta, disk, upgrade, lock,
                   worker, check, report, requests, alive, stuck>>

\* A pool thread takes the next G. The ecall may not get into the enclave,
\* and then the G is added to the next turn; during an upgrade it returns at
\* once.
StartSeal(w, p) ==
    /\ main.pc = "pool" /\ setting["main"].pc = "no"
    /\ worker[w].pc = "idle" /\ setting[w].pc = "no" /\ queue[p] > 0
    /\ queue' = [queue EXCEPT ![p] = @ - 1]
    /\ \/ /\ Fault
          /\ setting' = [setting EXCEPT ![w] = Setting(1)]
          /\ UNCHANGED worker
       \/ /\ worker' = [worker EXCEPT ![w] =
                 IF upgrade = "process" THEN Idle
                 ELSE [pc |-> "seal", path |-> p]]
          /\ UNCHANGED <<setting, faults>>
    /\ UNCHANGED <<srd, srd_info, change, db, meta, disk, upgrade, lock, main,
                   check, report, requests, alive, stuck>>

\* srd_increase: the folder is made, or it fails and the G is forgotten.
\* The results of writing and renaming are not looked at.
Seal(w) ==
    /\ worker[w].pc = "seal"
    /\ \/ /\ Fault
          /\ worker' = [worker EXCEPT ![w] = Idle]
          /\ UNCHANGED folders
       \/ /\ folders' = [folders EXCEPT ![worker[w].path] =
                 IF Avail(worker[w].path) > 0 THEN @ + 1 ELSE @]
          /\ worker' = [worker EXCEPT ![w].pc = "push"]
          /\ UNCHANGED faults
    /\ UNCHANGED <<srd, srd_info, change, db, meta, other, upgrade, lock,
                   main, queue, check, report, setting, requests, alive, stuck>>

PushHash(w) ==
    /\ worker[w].pc = "push" /\ lock = "free"
    /\ srd' = Put(srd, worker[w].path, Has(srd, worker[w].path) + 1)
    /\ worker' = [worker EXCEPT ![w].pc = "info"]
    /\ UNCHANGED <<srd_info, change, db, meta, disk, upgrade, lock, main,
                   queue, check, report, setting, bounds>>

AddInfo(w) ==
    /\ worker[w].pc = "info"
    /\ srd_info' = SetSrdInfo(worker[w].path, 1)
    /\ worker' = [worker EXCEPT ![w] = Idle]
    /\ UNCHANGED <<srd, change, db, meta, disk, upgrade, lock, main, queue,
                   check, report, setting, bounds>>

\* All futures are ready.
PoolDone ==
    /\ main.pc = "pool" /\ setting["main"].pc = "no" /\ queue = NoQueue
    /\ \A w \in Workers : worker[w] = Idle /\ setting[w].pc = "no"
    /\ main' = MainAt("persist")
    /\ UNCHANGED <<srd, srd_info, change, db, meta, disk, upgrade, lock,
                   queue, worker, check, report, setting, bounds>>

\* srd_info_mutex of the application: held by the reserve thread.
InfoLocked == check.pc \in {"pop", "relock"}

\* get_decrease_srd_info: n, or what the record says is assigned.
Assigned(n) == IF db = {} THEN n ELSE Lesser(n, Total(Read(db)))

\* ecall_srd_decrease may not get in.
Shrink ==
    /\ main.pc = "shrink" /\ ~InfoLocked
    /\ LET n == Assigned(-main.num)
       IN \/ Decrease(NoSel, n, "persist") /\ UNCHANGED faults
          \/ n > 0 /\ Fault /\ main' = MainAt("persist")
    /\ UNCHANGED <<srd, srd_info, change, db, meta, disk, upgrade, lock,
                   queue, worker, check, report, setting, requests, alive, stuck>>

\* The record is written under srd_info_mutex, or the write fails.
PersistInfo ==
    /\ main.pc = "persist" /\ ~InfoLocked
    /\ \/ db' = {srd_info} /\ UNCHANGED faults
       \/ Fault /\ UNCHANGED db
    /\ main' = MainAt("store")
    /\ UNCHANGED <<srd, srd_info, change, meta, disk, upgrade, lock, queue,
                   worker, check, report, setting, requests, alive, stuck>>

\* id_store_metadata. A failed allocation returns with g_metadata_mutex
\* locked: the loop goes round once more and waits at its next store for
\* ever. sel keeps the entries there are when the walk over the map begins.
StoreMetadata ==
    /\ main.pc = "store"
    /\ \/ /\ upgrade = "success" /\ main' = MainAt("validate")
          /\ UNCHANGED <<stuck, faults>>
       \/ /\ upgrade # "success" /\ ~stuck
          /\ \/ /\ main' = [MainAt("walk") EXCEPT
                       !.sel = [p \in DOMAIN srd |-> 0..(srd[p] - 1)]]
                /\ UNCHANGED <<stuck, faults>>
             \/ /\ Fault /\ stuck' = TRUE
                /\ main' = MainAt("validate")
    /\ UNCHANGED <<srd, srd_info, change, db, meta, disk, upgrade, lock,
                   queue, worker, check, report, setting, requests, alive>>

\* The walk does not lock the map, and its separators look at the lengths
\* again. Of a path that lost entries meanwhile the text has any number
\* between the two lengths, or ends in a comma: an entry without a hash,
\* which restore_srd refuses. A path that was added meanwhile may cut the
\* object short, and the key pair behind it is not read.
Seen(p) == IF p \in DOMAIN main.sel THEN Cardinality(main.sel[p]) ELSE 0

Texts ==
    [srd : {map \in [DOMAIN srd -> 0..Count(main.sel)] :
                \A p \in DOMAIN srd : srd[p] <= map[p] /\ map[p] <= Seen(p)},
     cut : {FALSE} \cup {DOMAIN srd # DOMAIN main.sel}]

Refused == \E p \in DOMAIN srd : srd[p] < Seen(p)

\* Metadata that cannot be read or is refused is as good as none; persist_set
\* may also fail between two of its pieces.
StoreEnd ==
    /\ main.pc = "walk"
    /\ \/ /\ \/ \E t \in Texts : meta' = {t}
             \/ Refused /\ meta' = {}
          /\ UNCHANGED faults
       \/ Fault /\ meta' \in {meta, {}}
    /\ main' = MainAt("validate")
    /\ UNCHANGED <<srd, srd_info, change, db, disk, upgrade, lock, queue,
                   worker, check, report, setting, requests, alive, stuck>>

(***************************************************************************)
(* srd_check_reserved and srd_update_metadata                               *)
(***************************************************************************)

\* Variant: one G short.
ReservePlanShort ==
    [p \in {q \in DOMAIN Read(db) : Avail(q) < ReservedSpace} |->
        Lesser(ReservedSpace - Avail(p) - 1, Read(db)[p])]

\* What to give back on the disks the record names that run low.
ReservePlan ==
    [p \in {q \in DOMAIN Read(db) : Avail(q) < ReservedSpace} |->
        Lesser(ReservedSpace - Avail(p), Read(db)[p])]

ReadInfo ==
    /\ check.pc = "sleep"
    /\ ReservePlan # NoCount
    /\ check' = [pc |-> "enter", plan |-> ReservePlan]
    /\ UNCHANGED <<srd, srd_info, change, db, meta, disk, upgrade, lock, main,
                   queue, worker, report, setting, bounds>>

\* The ecall gets in and announces itself, or it does not get in.
EnterReserve ==
    /\ check.pc = "enter"
    /\ \/ check' = [check EXCEPT !.pc = "lock"] /\ UNCHANGED faults
       \/ Fault /\ check' = Asleep
    /\ UNCHANGED <<srd, srd_info, change, db, meta, disk, upgrade, lock, main,
                   queue, worker, report, setting, requests, alive, stuck>>

LockReserve ==
    /\ check.pc = "lock" /\ lock = "free"
    /\ lock' = "check"
    /\ check' = [check EXCEPT !.pc = "pop"]
    /\ UNCHANGED <<srd, srd_info, change, db, meta, disk, upgrade, main,
                   queue, worker, report, setting, bounds>>

ReserveYield ==
    /\ check.pc = "pop" /\ check.plan # NoCount /\ BlocksReserve
    /\ lock' = "free"
    /\ check' = [check EXCEPT !.pc = "relock"]
    /\ UNCHANGED <<srd, srd_info, change, db, meta, disk, upgrade, main,
                   queue, worker, report, setting, bounds>>

\* Variant: what is left of the path is no longer counted.
PopEntriesForget(p, n) ==
    /\ srd' = Put(srd, p, Has(srd, p) - n)
    /\ DeleteFolders(p, n)
    /\ srd_info' = IF n = 0 THEN srd_info ELSE Put(srd_info, p, 0)

\* n entries of p leave from the back with their folders; an entry whose
\* folder stays is not taken off the info.
PopEntries(p, n) ==
    /\ srd' = Put(srd, p, Has(srd, p) - n)
    /\ DeleteFolders(p, n)
    /\ srd_info' = IF n = 0 THEN srd_info
                   ELSE SetSrdInfo(p, (faults' - faults) - n)

PopPath(p) ==
    /\ \/ check.pc = "pop" /\ ~BlocksReserve
       \/ check.pc = "relock" /\ lock = "free"
    /\ p \in DOMAIN check.plan
    /\ lock' = "check"
    /\ PopEntries(p, Lesser(check.plan[p], Has(srd, p)))
    /\ check' = [pc |-> "pop", plan |->
           [q \in DOMAIN check.plan \ {p} |-> check.plan[q]]]
    /\ UNCHANGED <<change, db, meta, other, upgrade, main, queue, worker,
                   report, setting, requests, alive, stuck>>

ReserveDone ==
    /\ check.pc = "pop" /\ check.plan = NoCount
    /\ \/ db' = {srd_info} /\ UNCHANGED faults
       \/ Fault /\ UNCHANGED db
    /\ lock' = "free"
    /\ check' = Asleep
    /\ UNCHANGED <<srd, srd_info, change, meta, disk, upgrade, main, queue,
                   worker, report, setting, requests, alive, stuck>>

(***************************************************************************)
(* The srd part of gen_work_report                                          *)
(***************************************************************************)

StartReport ==
    /\ report = "no"
    /\ report' = "wait"
    /\ UNCHANGED <<srd, srd_info, change, db, meta, disk, upgrade, lock, main,
                   queue, worker, check, setting, bounds>>

\* The lock is held while the hashes are copied; a failed allocation leaves
\* it locked for ever.
ReadSrd ==
    /\ report = "wait" /\ lock = "free"
    /\ report' = "read"
    /\ \/ UNCHANGED <<lock, faults>>
       \/ Fault /\ lock' = "leaked"
    /\ UNCHANGED <<srd, srd_info, change, db, meta, disk, upgrade, main,
                   queue, worker, check, setting, requests, alive, stuck>>

\* The rest of the report, and sched_del.
EndReport ==
    /\ report = "read"
    /\ report' = "no"
    /\ UNCHANGED <<srd, srd_info, change, db, meta, disk, upgrade, lock, main,
                   queue, worker, check, setting, bounds>>

(***************************************************************************)
(* Environment                                                              *)
(***************************************************************************)

OtherGrows(p) ==
    /\ Total(other) < MaxOther /\ Avail(p) > 0
    /\ other' = [other EXCEPT ![p] = @ + 1]
    /\ UNCHANGED <<srd, srd_info, change, db, meta, folders, upgrade, lock,
                   threads, bounds>>

\* An upgrade proceeds, succeeds or is given up (see module Upgrade).
SetUpgrade(u) ==
    /\ upgrade # u /\ Fault
    /\ upgrade' = u
    /\ UNCHANGED <<srd, srd_info, change, db, meta, disk, lock, threads,
                   requests, alive, stuck>>

\* A kill, also between two pieces of the metadata.
Crash ==
    /\ Fault
    /\ alive' = FALSE
    /\ \/ UNCHANGED meta
       \/ main.pc = "walk" /\ meta' = {}
    /\ UNCHANGED <<srd, srd_info, change, db, disk, upgrade, lock, threads,
                   requests, stuck>>

\* What restore_srd makes of the metadata: a path without hashes is not made
\* again.
RestoreSrd ==
    /\ srd' = IF meta = {} THEN NoCount
              ELSE LET map == (CHOOSE t \in meta : TRUE).srd
                   IN [p \in {q \in DOMAIN map : map[q] > 0} |-> map[p]]
    /\ srd_info' = srd'

\* The process is launched again: id_restore_metadata, or a first start when
\* it fails. The record is written anew when srd was restored.
Restart ==
    /\ ~alive /\ alive' = TRUE
    /\ RestoreSrd
    /\ change' = IF \E t \in meta : ~t.cut THEN 0
                 ELSE Limited(InitCapacity, Total(srd'))
    /\ \/ db' = (IF meta = {} THEN db ELSE {srd_info'}) /\ UNCHANGED faults
       \/ \* the write fails (once more than MaxFaults, to follow a kill)
          /\ meta # {} /\ UNCHANGED db
          /\ faults <= MaxFaults /\ faults' = faults + 1
    /\ upgrade' = "none" /\ lock' = "free" /\ stuck' = FALSE
    /\ main' = MainAt("validate") /\ queue' = NoQueue
    /\ worker' = [w \in Workers |-> Idle]
    /\ check' = Asleep /\ report' = "no"
    /\ setting' = [x \in Procs |-> NotSetting]
    /\ UNCHANGED <<meta, disk, requests>>

SetChange(x) == GetChange(x) \/ LimitChange(x) \/ PutChange(x)

MainLoop ==
    \/ ValidateSrd \/ ValidateYield \/ Punish \/ Erase \/ Deleted
    \/ \E e \in main.todo : ValidateEntry(e)
    \/ \E p \in Paths : DeletePath(p)
    \/ TakeChange \/ Grow \/ PoolDone \/ Shrink
    \/ PersistInfo \/ StoreMetadata \/ StoreEnd
    \/ SetChange("main")

Worker(w) ==
    \/ \E p \in Paths : StartSeal(w, p)
    \/ Seal(w) \/ PushHash(w) \/ AddInfo(w)
    \/ SetChange(w)

Reserve ==
    \/ ReadInfo \/ EnterReserve \/ LockReserve \/ ReserveYield
    \/ \E p \in Paths : PopPath(p)
    \/ ReserveDone

Report == ReadSrd \/ EndReport

Running ==
    \/ MainLoop
    \/ \E w \in Workers : Worker(w)
    \/ \E c \in Clients : SetChange(c)
    \/ \E c \in Clients, n \in Requests : ClientRequest(c, n)
    \/ Reserve
    \/ StartReport \/ Report
    \/ \E p \in Paths : OtherGrows(p)
    \/ \E u \in {"none", "process", "success"} : SetUpgrade(u)
    \/ Crash

Next == (alive /\ Running) \/ Restart

\* Threads go on, and a mutex of the enclave is handed to its waiters in
\* turn. Nothing in the code restarts a worker that died.
Fairness ==
    /\ SF_vars(alive /\ MainLoop)
    /\ \A w \in Workers : SF_vars(alive /\ Worker(w))
    /\ SF_vars(alive /\ Reserve)
    /\ SF_vars(alive /\ Report)

Spec == Init /\ [][Next]_vars
FairSpec == Spec /\ Fairness

(***************************************************************************)
(* Properties                                                               *)
(***************************************************************************)

TypeOK ==
    /\ DOMAIN srd \subseteq Paths /\ \A p \in DOMAIN srd : srd[p] \in Nat
    /\ DOMAIN srd_info \subseteq Paths
    /\ \A p \in DOMAIN srd_info : srd_info[p] \in Nat
    /\ change \in Int
    /\ folders \in [Paths -> Nat] /\ other \in [Paths -> Nat]
    /\ lock \in {"free", "main", "check", "leaked"}
    /\ queue \in [Paths -> Nat]
    /\ report \in {"no", "wait", "read"}
    /\ alive \in BOOLEAN /\ stuck \in BOOLEAN

\* G of p that are in the map and not yet added to the info.
Uncounted(p) ==
    Cardinality({w \in Workers : worker[w] = [pc |-> "info", path |-> p]})

\* The info the application plans with never says less than there is: the
\* map and the info are updated in separate steps by pool threads, the main
\* loop and the reserve thread, with a clamp at zero.
InfoCoversSrd ==
    \A p \in DOMAIN srd : Has(srd_info, p) + Uncounted(p) >= srd[p]

\* What the main loop is about to ask of srd_decrease: the punishment for the
\* entries that failed, or the change it took.
Asked ==
    Lesser(IF main.pc = "check" THEN SRD_PUNISH_FACTOR * Count(main.sel)
           ELSE -main.num,
           Total(srd))

\* srd_decrease chooses at least what it is asked for, so a punishment is
\* never short, and its rounds over the paths take less than one G per path
\* too much, also when entries were chosen beforehand.
DecreaseIsTight ==
    [][main.pc \in {"check", "shrink"} /\ main'.pc = "erase" =>
           LET n == Count(main'.sel)
           IN /\ n < Max({Asked, Count(main.sel)}) + Cardinality(DOMAIN srd)
              /\ main.pc = "check" => n >= Asked]_vars

\* A mutex the code left locked, or a dead worker: nothing gets over them.
Lost == lock = "leaked" \/ stuck \/ ~alive

\* A disk that runs low gets its reserve back or has no srd left, although
\* reports, the validation and the main loop's decreases work on the same
\* entries, unless a mutex leaked or the worker died (srd_check_reserved).
ReserveRestored ==
    \A p \in Paths :
        (Avail(p) < ReservedSpace) ~>
            (Avail(p) >= ReservedSpace \/ Has(srd, p) = 0 \/ Lost)

\* The main loop comes round for ever: the pool, the reserve thread and the
\* reports never wait for each other in a circle, unless a mutex leaked or
\* the worker died (ecall_main_loop).
MainLoopTurns == []<>(main.pc = "validate" \/ Lost)
=============================================================================
