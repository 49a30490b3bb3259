------------------------------- MODULE Upgrade -------------------------------
(***************************************************************************)
(* The hand-over of the workload from a running worker A to a new version   *)
(* B. B asks over HTTP: start, metadata (polled), complete. In A the HTTP    *)
(* threads and the check loop move the status of the application, the       *)
(* enclave has a status of its own, storage calls, validation and the srd   *)
(* threads go on changing the workload, and a tryout ends an upgrade that   *)
(* hangs. Answers get lost, B may die and be launched again.                *)
(*                                                                          *)
(* A definition introduced as a Variant is a mistaken form of the one that  *)
(* follows it; no specification uses it.                                    *)
(***************************************************************************)
EXTENDS Integers

CONSTANTS
    Threads,        \* HTTP threads of A that serve the upgrade
    Calls,          \* storage calls of clients
    StartTries, MetaTries, CompleteTries,     \* of B
    Tryout,         \* turns of the check loop an upgrade may take
    MaxChanges,     \* bound: changes of the workload during a collection
    MaxLaunches     \* bound: launches of B

ASSUME UpgradeAssumption ==
    /\ "loop" \notin Threads /\ "none" \notin Threads
    /\ {StartTries, MetaTries, CompleteTries, Tryout, MaxChanges,
        MaxLaunches} \subseteq Nat

VARIABLES
    alive,      \* A's process
    ended,      \* a work thread of A has seen EXIT and returned
    status,     \* upgrade_status of the application
    enclave,    \* upgrade_status of the enclave
    setter,     \* per thread: what set_upgrade_status has left to do
    files, srd, \* changes of the workload since its collection began
    locks,      \* g_gen_work_report, g_srd_mutex, g_checked_files_mutex: free,
                \* one held by another thread, or one never unlocked again
    thread,     \* HTTP threads
    call,       \* storage calls
    loop,       \* check loop, with the data under construction
    tryout,
    data,       \* upgrade data kept by the application
    b, launches

vars == <<alive, ended, status, enclave, setter, files, srd, locks, thread,
          call, loop, tryout, data, b, launches>>

workload == <<files, srd, locks>>
worker == <<alive, ended, status, enclave, setter, thread, call, loop, tryout,
            data>>

Setters == Threads \cup {"loop"}
Serving == {"none", "stop"}

\* The vectors, the roots that are signed, and whether all pieces are stored;
\* at is a ghost: the srd A had when the files were written.
NoData == [srd |-> 0, files |-> 0, rootSrd |-> 0, rootFiles |-> 0,
           at |-> 0, whole |-> FALSE]
NoB == [pc |-> "off", tries |-> 0, on |-> "none", data |-> NoData,
        res |-> FALSE]

Init ==
    /\ alive = TRUE /\ ended = FALSE /\ status = "none" /\ enclave = "none"
    /\ setter = [a \in Setters |-> "idle"]
    /\ files = 0 /\ srd = 0 /\ locks = "free"
    /\ thread = [t \in Threads |-> "idle"]
    /\ call = [c \in Calls |-> "idle"]
    /\ loop = [pc |-> "process", made |-> NoData]
    /\ tryout = Tryout
    /\ data = NoData
    /\ b = NoB /\ launches = 0

(***************************************************************************)
(* The workload of A                                                        *)
(***************************************************************************)

\* The data B gets is only compared with itself: a version counts from the
\* moment its vector is written to the moment its root is computed, changes at
\* other times are of no account. The root of the files covers their hashes,
\* not their statuses: what changes it is a validation that takes in the new
\* files, or a report that purges. No validation is begun once the upgrade
\* succeeded, but one begun before may end at any time.
ChangeFiles ==
    /\ alive /\ loop.pc \in {"rootSrd", "rootFiles"}
    /\ files + srd < MaxChanges
    /\ files' = files + 1
    /\ UNCHANGED <<worker, srd, locks, b, launches>>

\* The main loop and the reserve thread change srd at any time.
ChangeSrd ==
    /\ alive /\ loop.pc \in {"files", "rootSrd"} /\ files + srd < MaxChanges
    /\ srd' = srd + 1
    /\ UNCHANGED <<worker, files, locks, b, launches>>

\* Reports, validation, storage calls and the srd threads take the locks the
\* collection needs; while it does not wait for one they are of no account.
\* A failed allocation in gen_work_report leaves g_srd_mutex locked.
OtherLocks ==
    /\ alive /\ loop.pc \in {"report", "srd", "files"} /\ locks = "free"
    /\ locks' = "other"
    /\ UNCHANGED <<worker, files, srd, b, launches>>

OtherUnlocks ==
    /\ alive /\ locks = "other"
    /\ locks' = "free"
    /\ UNCHANGED <<worker, files, srd, b, launches>>

OtherLeaks ==
    /\ alive /\ locks = "other"
    /\ locks' = "leaked"
    /\ UNCHANGED <<worker, files, srd, b, launches>>

(***************************************************************************)
(* Storage calls of clients                                                 *)
(***************************************************************************)

\* The HTTP handler lets the request in.
CallPasses(c) ==
    /\ alive /\ call[c] = "idle" /\ status \in Serving
    /\ call' = [call EXCEPT ![c] = "passed"]
    /\ UNCHANGED <<alive, ended, status, enclave, setter, workload, thread,
                   loop, tryout, data, b, launches>>

\* The call takes its place in the queue of the enclave, where it counts.
CallCounts(c) ==
    /\ alive /\ call[c] = "passed"
    /\ call' = [call EXCEPT ![c] = "counted"]
    /\ UNCHANGED <<alive, ended, status, enclave, setter, workload, thread,
                   loop, tryout, data, b, launches>>

\* The enclave turns it away during an upgrade, or runs it: a call changes
\* statuses and the new files, which are in no root.
CallRuns(c) ==
    /\ alive /\ call[c] = "counted"
    /\ call' = [call EXCEPT ![c] = "idle"]
    /\ UNCHANGED <<alive, ended, status, enclave, setter, workload, thread,
                   loop, tryout, data, b, launches>>

(***************************************************************************)
(* set_upgrade_status                                                       *)
(***************************************************************************)

\* The locked part.
SetStatus(a, s) ==
    /\ status' = s
    /\ setter' = [setter EXCEPT ![a] = IF status = s THEN "idle"
                                       ELSE "reread"]

\* Variant: the enclave is opened again by the upgrade that gave up only.
RereadOnce(a) ==
    /\ alive /\ setter[a] = "reread"
    /\ setter' = [setter EXCEPT ![a] = IF status = "none" /\ a # "loop"
                                       THEN "disable" ELSE "idle"]
    /\ UNCHANGED <<alive, ended, status, enclave, workload, thread, call, loop,
                   tryout, data, b, launches>>

\* After the unlock the status is read again: the enclave is opened when it
\* is NONE by then.
Reread(a) ==
    /\ alive /\ setter[a] = "reread"
    /\ setter' = [setter EXCEPT ![a] = IF status = "none" THEN "disable"
                                       ELSE "idle"]
    /\ UNCHANGED <<alive, ended, status, enclave, workload, thread, call, loop,
                   tryout, data, b, launches>>

\* Ecall_disable_upgrade
Disable(a) ==
    /\ alive /\ setter[a] = "disable"
    /\ setter' = [setter EXCEPT ![a] = "idle"]
    /\ enclave' = "none"
    /\ UNCHANGED <<alive, ended, status, workload, thread, call, loop, tryout,
                   data, b, launches>>

(***************************************************************************)
(* B                                                                        *)
(***************************************************************************)

BLaunch ==
    /\ b.pc = "off" /\ launches < MaxLaunches
    /\ launches' = launches + 1
    /\ b' = [NoB EXCEPT !.pc = "start", !.tries = StartTries]
    /\ UNCHANGED <<worker, workload>>

\* upgrade_try_start: anything but 200 and 404 is asked again.
Started(code) ==
    IF code = 200
    THEN [b EXCEPT !.pc = "meta", !.tries = MetaTries, !.on = "none"]
    ELSE IF code = 404 \/ b.tries - 1 < 0 THEN NoB
    ELSE [b EXCEPT !.tries = @ - 1, !.on = "none"]

\* The polling of upgrade_try_restore; a failure is told to A.
Fetched(code) ==
    IF code = 200
    THEN [b EXCEPT !.pc = "restore", !.on = "none", !.data = data]
    ELSE IF code = 404 \/ b.tries - 1 < 0
    THEN [b EXCEPT !.pc = "complete", !.tries = CompleteTries, !.on = "none"]
    ELSE [b EXCEPT !.tries = @ - 1, !.on = "none"]

\* upgrade_try_complete: B goes its way also when A cannot be told.
Completed(code) ==
    IF code \notin {200, 404} /\ b.tries - 1 > 0
    THEN [b EXCEPT !.tries = @ - 1, !.on = "none"]
    ELSE IF b.res THEN [b EXCEPT !.pc = "running", !.on = "none"]
    ELSE NoB

\* What B does with the answer to the request it has sent.
Answered(code) ==
    CASE b.pc = "start" -> Started(code)
      [] b.pc = "meta" -> Fetched(code)
      [] b.pc = "complete" -> Completed(code)

Request ==
    CASE b.pc = "start" -> "start"
      [] b.pc = "meta" -> "meta"
      [] b.pc = "complete" -> IF b.res THEN "succeed" ELSE "fail"

Free == {t \in Threads : thread[t] = "idle" /\ setter[t] = "idle"}

\* Which of the free threads takes the request makes no difference.
BSend ==
    /\ b.pc \in {"start", "meta", "complete"} /\ b.on = "none"
    /\ alive /\ Free # {}
    /\ LET t == CHOOSE t \in Free : TRUE
       IN /\ thread' = [thread EXCEPT ![t] = Request]
          /\ b' = [b EXCEPT !.on = t]
    /\ UNCHANGED <<alive, ended, status, enclave, setter, workload, call, loop,
                   tryout, data, launches>>

\* The connection fails or A is gone: B's client reports 404, a request on
\* its way is served all the same.
BLost ==
    /\ b.pc \in {"start", "meta", "complete"}
    /\ b' = Answered(404)
    /\ UNCHANGED <<worker, workload, launches>>

\* Variant: B trusts the roots it was sent.
VerifiedFilesOnly(d) == d.whole /\ d.files = d.rootFiles

\* id_restore_from_upgrade recomputes the roots from the vectors it was sent
\* and checks them against the signed ones.
Verified(d) == d.whole /\ d.srd = d.rootSrd /\ d.files = d.rootFiles

\* A new enclave with a new key restores the data, enters the network and
\* reports. Each may fail; a quote that cannot be made is retried in another
\* enclave, with the same data.
BRestore ==
    /\ b.pc = "restore"
    /\ \/ /\ Verified(b.data)
          /\ b' = [b EXCEPT !.pc = "complete", !.tries = CompleteTries,
                            !.res = TRUE]
       \/ b' = [b EXCEPT !.pc = "complete", !.tries = CompleteTries,
                         !.data = NoData]
    /\ UNCHANGED <<worker, workload, launches>>

\* Also when its components do not start.
BDies ==
    /\ b.pc # "off"
    /\ b' = NoB
    /\ UNCHANGED <<worker, workload, launches>>

(***************************************************************************)
(* HTTP threads of A                                                        *)
(***************************************************************************)

\* Thread t answers, and B, if it still waits for t, goes on.
Answer(t, code) ==
    /\ thread' = [thread EXCEPT ![t] = "idle"]
    /\ b' = IF b.on = t THEN Answered(code) ELSE b

Handles(t, request) ==
    alive /\ thread[t] = request /\ setter[t] = "idle"

\* Nothing is served in EXIT.
Refuse(t) ==
    /\ \E r \in {"start", "meta", "succeed", "fail"} : Handles(t, r)
    /\ status = "exit"
    /\ Answer(t, 503)
    /\ UNCHANGED <<alive, ended, status, enclave, setter, workload, call, loop,
                   tryout, data, launches>>

StartStop(t) ==
    /\ Handles(t, "start")
    /\ \/ /\ status \in Serving
          /\ SetStatus(t, "stop")
          /\ thread' = [thread EXCEPT ![t] = "enable"]
          /\ UNCHANGED b
       \/ /\ status \notin Serving /\ status # "exit"
          /\ Answer(t, 300)
          /\ UNCHANGED <<status, setter>>
    /\ UNCHANGED <<alive, ended, enclave, workload, call, loop, tryout, data,
                   launches>>

\* The chain does not answer or the report gate refuses, or the enclave
\* closes.
StartEnable(t) ==
    /\ Handles(t, "enable")
    /\ \/ /\ Answer(t, 402)
          /\ UNCHANGED enclave
       \/ /\ enclave' = "process"
          /\ thread' = [thread EXCEPT ![t] = "enabled"]
          /\ UNCHANGED b
    /\ UNCHANGED <<alive, ended, status, setter, workload, call, loop, tryout,
                   data, launches>>

StartProcess(t) ==
    /\ Handles(t, "enabled")
    /\ SetStatus(t, "process")
    /\ thread' = [thread EXCEPT ![t] = "sleep"]
    /\ UNCHANGED <<alive, ended, enclave, workload, call, loop, tryout, data,
                   b, launches>>

StartAnswer(t) ==
    /\ Handles(t, "sleep")
    /\ Answer(t, 200)
    /\ UNCHANGED <<alive, ended, status, enclave, setter, workload, call, loop,
                   tryout, data, launches>>

Metadata(t) ==
    /\ Handles(t, "meta") /\ status # "exit"
    /\ \/ /\ status = "complete"
          /\ thread' = [thread EXCEPT ![t] = "read"]
          /\ UNCHANGED b
       \/ /\ status # "complete"
          /\ Answer(t, 300)
    /\ UNCHANGED <<alive, ended, status, enclave, setter, workload, call, loop,
                   tryout, data, launches>>

MetadataAnswer(t) ==
    /\ Handles(t, "read")
    /\ Answer(t, 200)
    /\ UNCHANGED <<alive, ended, status, enclave, setter, workload, call, loop,
                   tryout, data, launches>>

\* upgrade/complete, whatever the status is; with success the metadata of A
\* is put aside first.
Complete(t) ==
    /\ status # "exit"
    /\ \/ Handles(t, "fail") /\ SetStatus(t, "none")
       \/ Handles(t, "succeed") /\ SetStatus(t, "exit")
    /\ thread' = [thread EXCEPT ![t] = "sleep"]
    /\ UNCHANGED <<alive, ended, enclave, workload, call, loop, tryout, data,
                   b, launches>>

(***************************************************************************)
(* Check loop of A                                                          *)
(***************************************************************************)

LoopAt(pc) == alive /\ loop.pc = pc /\ setter["loop"] = "idle"
LoopTo(pc) == loop' = [loop EXCEPT !.pc = pc]

\* work_report_loop or srd_check_reserved polls the status.
TaskEnds ==
    /\ alive /\ status = "exit" /\ ~ended
    /\ ended' = TRUE
    /\ UNCHANGED <<alive, status, enclave, setter, workload, thread, call,
                   loop, tryout, data, b, launches>>

\* A thread that ended is started anew outside of EXIT, and the loop, whose
\* copy of the task holds the only future, waits until it ends as well.
LoopProcess ==
    /\ LoopAt("process") /\ (ended => status = "exit")
    /\ LoopTo(IF status = "process" THEN "calls" ELSE "end")
    /\ UNCHANGED <<alive, ended, status, enclave, setter, workload, thread,
                   call, tryout, data, b, launches>>

\* get_upgrade_ecalls_num
Counted == {c \in Calls : call[c] = "counted"}

LoopCalls ==
    /\ LoopAt("calls")
    /\ LoopTo("end")
    /\ IF Counted = {} THEN SetStatus("loop", "end")
       ELSE UNCHANGED <<status, setter>>
    /\ UNCHANGED <<alive, ended, enclave, workload, thread, call, tryout, data,
                   b, launches>>

\* The data is asked for, if there is a block header.
LoopEnd ==
    /\ LoopAt("end")
    /\ \/ status = "end" /\ LoopTo("report")
       \/ LoopTo("exit")
    /\ UNCHANGED <<alive, ended, status, enclave, setter, workload, thread,
                   call, tryout, data, b, launches>>

\* id_gen_upgrade_data: first a report, under g_gen_work_report; the gate or
\* the upload may fail, and a failed allocation leaves g_srd_mutex locked.
GenReport ==
    /\ LoopAt("report") /\ locks = "free"
    /\ \/ LoopTo("srd") /\ UNCHANGED locks
       \/ LoopTo("exit") /\ locks' \in {"free", "leaked"}
    /\ UNCHANGED <<files, srd>>

\* Then srd and files are written one after the other, each under its own
\* lock, and the roots that are signed are computed, without a lock, from
\* what is there afterwards.
SerializeSrd ==
    /\ LoopAt("srd") /\ locks = "free"
    /\ loop' = [pc |-> "files", made |-> [NoData EXCEPT !.srd = srd]]
    /\ UNCHANGED workload

\* A failed allocation returns with g_checked_files_mutex locked.
SerializeFile ==
    /\ LoopAt("files") /\ locks = "free"
    /\ \/ /\ loop' = [loop EXCEPT !.pc = "rootSrd", !.made.files = files,
                                  !.made.at = srd]
          /\ UNCHANGED workload
       \/ /\ loop' = [pc |-> "exit", made |-> NoData]
          /\ files' = 0 /\ srd' = 0 /\ locks' = "leaked"

GenWorkloadInfo ==
    \/ /\ LoopAt("rootSrd")
       /\ loop' = [loop EXCEPT !.pc = "rootFiles", !.made.rootSrd = srd]
       /\ UNCHANGED workload
    \/ /\ LoopAt("rootFiles")
       /\ loop' = [loop EXCEPT !.pc = "store", !.made.rootFiles = files]
       /\ files' = 0 /\ srd' = 0 /\ UNCHANGED locks

Collect ==
    /\ GenReport \/ SerializeSrd \/ SerializeFile \/ GenWorkloadInfo
    /\ UNCHANGED <<alive, ended, status, enclave, setter, thread, call, tryout,
                   data, b, launches>>

\* The data is stored in pieces; signing may fail before.
StoreData ==
    /\ \/ /\ LoopAt("store")
          /\ \/ /\ data' = loop.made
                /\ LoopTo("more")
             \/ /\ loop' = [pc |-> "exit", made |-> NoData]
                /\ UNCHANGED data
       \/ /\ LoopAt("more")
          /\ data' = [loop.made EXCEPT !.whole = TRUE]
          /\ loop' = [pc |-> "success", made |-> NoData]
    /\ UNCHANGED <<alive, ended, status, enclave, setter, workload, thread,
                   call, tryout, b, launches>>

LoopSuccess ==
    /\ LoopAt("success")
    /\ enclave' = "success"
    /\ LoopTo("complete")
    /\ UNCHANGED <<alive, ended, status, setter, workload, thread, call,
                   tryout, data, b, launches>>

LoopComplete ==
    /\ LoopAt("complete")
    /\ SetStatus("loop", "complete")
    /\ LoopTo("exit")
    /\ UNCHANGED <<alive, ended, enclave, workload, thread, call, tryout, data,
                   b, launches>>

LoopExit ==
    /\ LoopAt("exit")
    /\ IF status = "exit" THEN alive' = FALSE /\ UNCHANGED loop
       ELSE LoopTo("tryout") /\ UNCHANGED alive
    /\ UNCHANGED <<ended, status, enclave, setter, workload, thread, call,
                   tryout, data, b, launches>>

\* Variant: only the waiting for calls is limited.
LoopTryoutProcess ==
    /\ LoopAt("tryout")
    /\ LoopTo("process")
    /\ IF status # "process"
       THEN UNCHANGED <<tryout, status, setter>>
       ELSE IF tryout - 1 < 0
       THEN tryout' = Tryout /\ SetStatus("loop", "none")
       ELSE tryout' = tryout - 1 /\ UNCHANGED <<status, setter>>
    /\ UNCHANGED <<alive, ended, enclave, workload, thread, call, data, b,
                   launches>>

\* A turn in an upgrade uses up a try; without tries left it is given up.
LoopTryout ==
    /\ LoopAt("tryout")
    /\ LoopTo("process")
    /\ IF status = "none"
       THEN UNCHANGED <<tryout, status, setter>>
       ELSE IF tryout - 1 < 0
       THEN tryout' = Tryout /\ SetStatus("loop", "none")
       ELSE tryout' = tryout - 1 /\ UNCHANGED <<status, setter>>
    /\ UNCHANGED <<alive, ended, enclave, workload, thread, call, data, b,
                   launches>>

CheckLoop ==
    \/ LoopProcess \/ LoopCalls \/ LoopEnd \/ Collect \/ StoreData
    \/ LoopSuccess \/ LoopComplete \/ LoopExit \/ LoopTryout

Next ==
    \/ ChangeSrd \/ ChangeFiles
    \/ OtherLocks \/ OtherUnlocks \/ OtherLeaks
    \/ \E c \in Calls :
           CallPasses(c) \/ CallCounts(c) \/ CallRuns(c)
    \/ \E a \in Setters : Reread(a) \/ Disable(a)
    \/ BLaunch \/ BSend \/ BLost \/ BRestore \/ BDies
    \/ \E t \in Threads :
           \/ Refuse(t)
           \/ StartStop(t) \/ StartEnable(t) \/ StartProcess(t)
           \/ StartAnswer(t)
           \/ Metadata(t) \/ MetadataAnswer(t) \/ Complete(t)
    \/ TaskEnds \/ CheckLoop

Spec == Init /\ [][Next]_vars

\* The check loop sleeps 15 seconds a turn and waits for other threads in two
\* places: for a work thread it has started anew, and for the locks of the
\* collection, which are handed over in the order they were asked for (hence
\* strong fairness) and which every holder gives back that does not leak them.
FairSpec ==
    /\ Spec
    /\ SF_vars(CheckLoop \/ Reread("loop") \/ Disable("loop"))
    /\ WF_vars(OtherUnlocks)

(***************************************************************************)
(* Properties                                                               *)
(***************************************************************************)

\* B only takes over a workload A really had at one moment, although srd and
\* files are collected one after the other, from a running worker, and stored
\* in pieces that a metadata request may read between.
TakesOneWorkload ==
    b.res => b.data.srd = b.data.at

\* Some thread of A is between two steps that move the statuses.
Moving ==
    \/ \E a \in Setters : setter[a] # "idle"
    \/ \E t \in Threads : thread[t] = "enabled"
    \/ loop.pc = "complete"

\* A worker that is in no upgrade is open: however start, complete and the
\* tryout interleave, the enclave does not stay closed behind a status NONE,
\* where the tryout would not open it any more.
IdleMeansOpen == status = "none" /\ ~Moving => enclave = "none"

\* An upgrade ends: A goes back to work or exits, whatever B does and however
\* often the collection waits for other threads, unless an EXIT was taken back
\* after a work thread had seen it, or a failed allocation left a lock of the
\* workload locked for good.
UpgradeEnds ==
    status # "none" ~>
        status = "none" \/ ~alive \/ ended \/ locks = "leaked"
=============================================================================
