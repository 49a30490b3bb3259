---------------------------- MODULE EnclaveTasks ----------------------------
(***************************************************************************)
(* Admission of application threads to the enclave. Every Ecall_* wrapper   *)
(* calls try_get_enclave before and free_enclave after its ecall; both keep *)
(* counters of what waits, what is invoked and what runs. A thread inside   *)
(* an ecall may come out through an ocall and call a wrapper again.         *)
(*                                                                          *)
(* g_task_mutex is held only around steps that are one action here, so it   *)
(* is no variable. g_running_task_num changes only under it; the other      *)
(* counters are plain ints that threads increment and decrement without a   *)
(* lock, so an update may overwrite one made at the same time.              *)
(*                                                                          *)
(* A definition introduced as a Variant is a mistaken form of the one that  *)
(* follows it; no specification uses it.                                    *)
(***************************************************************************)
EXTENDS Integers, Sequences, FiniteSets

CONSTANTS
    Threads,        \* thread ids; an id is used again once its thread ended
    Calls,          \* Calls[t]: the ecalls thread t makes from the application
    ENC_MAX_THREAD_NUM,
    ENC_RESERVED_THREAD_NUM,
    ENC_PERMANENT_TASK_NUM,
    ENC_TASK_TIMEOUT,
    MaxRaces        \* bound: updates lost to an unsynchronised counter

\* g_task_priority_um, by priority.
TasksOf(p) ==
    CASE p = 0 -> {"restore_metadata", "gen_key_pair", "cmp_chain_account_id",
                   "get_quote_report", "verify_and_upload_identity",
                   "gen_sgx_measurement", "main_loop",
                   "gen_and_upload_work_report", "confirm_file", "delete_file",
                   "gen_upgrade_data", "restore_from_upgrade",
                   "enable_upgrade", "disable_upgrade"}
      [] p = 1 -> {"seal_file", "unseal_file", "srd_decrease",
                   "srd_update_metadata", "srd_set_change"}
      [] p = 2 -> {"srd_increase"}
      [] p = 3 -> {"id_get_info", "get_workload"}

Prios == 0..3
Tasks == UNION {TasksOf(p) : p \in Prios}
Prio(task) == CHOOSE p \in Prios : task \in TasksOf(p)

ENC_HIGHEST_PRIORITY == 0
ENC_PRIO_TIMEOUT_THRESHOLD == 1

\* g_block_tasks_um
BlockTasks(task) ==
    CASE task = "srd_increase" -> {"seal_file", "unseal_file",
                                   "gen_and_upload_work_report",
                                   "confirm_file"}
      [] task \in {"confirm_file", "delete_file"} ->
            {"gen_and_upload_work_report"}
      [] OTHER -> {}

\* g_upgrade_block_task
UpgradeBlockTasks ==
    {"seal_file", "unseal_file", "srd_decrease", "srd_increase",
     "confirm_file", "delete_file"}

\* What an ecall calls back: the main loop through ocall_srd_change, the
\* restore of an upgrade through ocall_entry_network.
Callbacks(task) ==
    CASE task = "main_loop" -> {"srd_set_change", "srd_decrease"}
      [] task = "restore_from_upgrade" ->
            {"get_quote_report", "verify_and_upload_identity"}
      [] OTHER -> {}

\* Ecalls that never return.
Permanent == {"main_loop"}

ASSUME TasksAssumption ==
    /\ IsFiniteSet(Threads)
    /\ Calls \in [Threads -> SUBSET Tasks]
    /\ ENC_MAX_THREAD_NUM \in Nat /\ ENC_RESERVED_THREAD_NUM \in Nat
    /\ ENC_PERMANENT_TASK_NUM \in Nat /\ ENC_TASK_TIMEOUT \in Nat \ {0}
    /\ MaxRaces \in Nat
\* Only the thread that starts the process restores from an upgrade.
ASSUME OneRestorer ==
    \A t, u \in Threads :
        "restore_from_upgrade" \in Calls[t] \cap Calls[u] => t = u

VARIABLES
    g_waiting_task_sum_v, \* per priority
    g_invoked_ecalls_um,  \* per ecall
    g_running_task_um,    \* thread ids that have an entry
    g_running_task_num,
    thread,               \* per thread: calls in progress, innermost last
    network,              \* the last call entry_network made for a restore
    races                 \* updates lost so far

vars == <<g_waiting_task_sum_v, g_invoked_ecalls_um, g_running_task_um,
          g_running_task_num, thread, network, races>>

\* stack: the ecalls in progress; the other fields belong to the innermost.
ThreadAt(stack, pc) ==
    [stack |-> stack, pc |-> pc, status |-> "ok", timeout |-> 0]

Top(t) == thread[t].stack[Len(thread[t].stack)]

\* The thread after its innermost wrapper returned.
Returned(t) ==
    LET n == Len(thread[t].stack)
    IN ThreadAt(SubSeq(thread[t].stack, 1, n - 1),
                IF n = 1 THEN "idle" ELSE "in")

Init ==
    /\ g_waiting_task_sum_v = [p \in Prios |-> 0]
    /\ g_invoked_ecalls_um = [task \in Tasks |-> 0]
    /\ g_running_task_um = {}
    /\ g_running_task_num = 0
    /\ thread = [t \in Threads |-> ThreadAt(<<>>, "idle")]
    /\ network = "none"
    /\ races = 0

\* Threads about to update one of the unsynchronised counters.
Updating == {t \in Threads : thread[t].pc \in {"idle", "in", "out", "freed"}}

\* The counters after thread t added d to the waiting count of priority p and
\* e to the invoked count of an ecall; an update made at the same time by
\* another thread may win.
Count(t, p, d, task, e) ==
    \/ /\ g_waiting_task_sum_v' = [g_waiting_task_sum_v EXCEPT ![p] = @ + d]
       /\ g_invoked_ecalls_um' = [g_invoked_ecalls_um EXCEPT ![task] = @ + e]
       /\ UNCHANGED races
    \/ /\ races < MaxRaces
       /\ races' = races + 1
       /\ Updating \ {t} # {}
       /\ \/ /\ g_waiting_task_sum_v' =
                  [g_waiting_task_sum_v EXCEPT ![p] = @ + d]
             /\ UNCHANGED g_invoked_ecalls_um
          \/ /\ g_invoked_ecalls_um' =
                  [g_invoked_ecalls_um EXCEPT ![task] = @ + e]
             /\ UNCHANGED g_waiting_task_sum_v

(***************************************************************************)
(* try_get_enclave                                                          *)
(***************************************************************************)

\* Variant: a restore that failed after it called back is tried again.
FromOutsideAgain(t, task) ==
    /\ thread[t].pc = "idle"
    /\ task \in Calls[t]
    /\ network' = IF task = "restore_from_upgrade" THEN "none" ELSE network
\* A restore that got into the network is the process's last: a failed one ends
\* the process.
FromOutside(t, task) ==
    /\ thread[t].pc = "idle"
    /\ task \in Calls[t]
    /\ task = "restore_from_upgrade" => network = "none"
    /\ UNCHANGED network

FromMainLoop(t, task) ==
    /\ thread[t].pc = "in"
    /\ Top(t) = "main_loop"
    /\ task \in Callbacks("main_loop")
    /\ UNCHANGED network

\* entry_network asks for the quote, then hands in the answer to it.
FromRestore(t, task) ==
    /\ thread[t].pc = "in"
    /\ Top(t) = "restore_from_upgrade"
    /\ \/ network = "none" /\ task = "get_quote_report"
       \/ network = "get_quote_report" /\ task = "verify_and_upload_identity"
    /\ network' = task

Invoke(t, task) ==
    /\ FromOutside(t, task) \/ FromMainLoop(t, task) \/ FromRestore(t, task)
    /\ thread' = [thread EXCEPT ![t] =
           ThreadAt(Append(thread[t].stack, task), "check")]
    /\ Count(t, Prio(task), 1, task, 1)
    /\ UNCHANGED <<g_running_task_um, g_running_task_num>>

Blocked(task) == \E b \in BlockTasks(task) : g_invoked_ecalls_um[b] > 0

\* A blocking ecall is invoked: the status turns busy, and stays so.
BlockCheck(t) ==
    /\ thread[t].pc = "check"
    /\ \/ /\ Blocked(Top(t))
          /\ thread' = [thread EXCEPT ![t].pc = "loop", ![t].status = "busy"]
       \/ /\ ~Blocked(Top(t))
          /\ thread' = [thread EXCEPT ![t].pc = "acquire"]
    /\ UNCHANGED <<g_waiting_task_sum_v, g_invoked_ecalls_um,
                   g_running_task_um, g_running_task_num, network, races>>

\* get_higher_prio_waiting_task_num
HigherWaiting(p) ==
    LET waiting(q) == IF q < p THEN g_waiting_task_sum_v[q] ELSE 0
    IN waiting(0) + waiting(1) + waiting(2)

\* Variant: both limits are one too high.
MayEnterOneMore(p) ==
    /\ g_running_task_num <= ENC_MAX_THREAD_NUM
    /\ p > ENC_HIGHEST_PRIORITY =>
          ENC_MAX_THREAD_NUM - g_running_task_num >= ENC_RESERVED_THREAD_NUM
    /\ HigherWaiting(p) - ENC_PERMANENT_TASK_NUM <= 0
\* Variant: no thread is held in reserve.
MayEnterUnreserved(p) ==
    /\ g_running_task_num < ENC_MAX_THREAD_NUM
    /\ HigherWaiting(p) - ENC_PERMANENT_TASK_NUM <= 0
MayEnter(p) ==
    /\ g_running_task_num < ENC_MAX_THREAD_NUM
    /\ p > ENC_HIGHEST_PRIORITY =>
          ENC_MAX_THREAD_NUM - g_running_task_num > ENC_RESERVED_THREAD_NUM
    /\ HigherWaiting(p) - ENC_PERMANENT_TASK_NUM <= 0

\* A thread that has an entry already does not count again.
Acquire(t) ==
    /\ thread[t].pc = "acquire"
    /\ MayEnter(Prio(Top(t)))
    /\ g_running_task_um' = g_running_task_um \cup {t}
    /\ g_running_task_num' = IF t \in g_running_task_um
                             THEN g_running_task_num
                             ELSE g_running_task_num + 1
    /\ thread' = [thread EXCEPT ![t].pc = "out"]
    /\ UNCHANGED <<g_waiting_task_sum_v, g_invoked_ecalls_um, network, races>>

\* No permission, or try_lock failed, as it may whenever it likes.
NotAcquired(t) ==
    /\ thread[t].pc = "acquire"
    /\ thread' = [thread EXCEPT ![t].pc = "loop"]
    /\ UNCHANGED <<g_waiting_task_sum_v, g_invoked_ecalls_um,
                   g_running_task_um, g_running_task_num, network, races>>

\* Variant: the rounds are not counted.
PatienceForever(t) == thread[t].timeout
\* How many rounds the thread has waited, this one included, if that counts.
Patience(t) ==
    IF Prio(Top(t)) > ENC_PRIO_TIMEOUT_THRESHOLD
    THEN thread[t].timeout + 1
    ELSE 0

\* The end of a round: a task of low priority gives up after a while.
Loop(t) ==
    /\ thread[t].pc = "loop"
    /\ \/ /\ Patience(t) >= ENC_TASK_TIMEOUT
          /\ g_running_task_um' = g_running_task_um \ {t}
          /\ thread' = [thread EXCEPT ![t].pc = "out", ![t].status = "timeout"]
       \/ /\ Patience(t) < ENC_TASK_TIMEOUT
          /\ thread' = [thread EXCEPT ![t].pc = "check",
                                      ![t].timeout = Patience(t)]
          /\ UNCHANGED g_running_task_um
    /\ UNCHANGED <<g_waiting_task_sum_v, g_invoked_ecalls_um,
                   g_running_task_num, network, races>>

\* Variant: every call leaves the queue of invoked ecalls once it is admitted.
InvokedDropped(t) == -1
\* If invoking failed, the call leaves the queue of invoked ecalls.
InvokedChange(t) == IF thread[t].status = "ok" THEN 0 ELSE -1

\* The wrapper goes on into the ecall or returns the error to its caller.
Leave(t) ==
    /\ thread[t].pc = "out"
    /\ Count(t, Prio(Top(t)), -1, Top(t), InvokedChange(t))
    /\ thread' = [thread EXCEPT ![t] =
           IF thread[t].status = "ok" THEN [thread[t] EXCEPT !.pc = "in"]
           ELSE Returned(t)]
    /\ UNCHANGED <<g_running_task_um, g_running_task_num, network>>

(***************************************************************************)
(* free_enclave                                                             *)
(***************************************************************************)

\* The thread loses its entry and the number goes down, also when the calls it
\* made from inside have removed the entry and the count of it before.
Free(t) ==
    /\ thread[t].pc = "in"
    /\ Top(t) \notin Permanent
    /\ g_running_task_um' = g_running_task_um \ {t}
    /\ g_running_task_num' = g_running_task_num - 1
    /\ thread' = [thread EXCEPT ![t].pc = "freed"]
    /\ network' = IF Top(t) = "restore_from_upgrade" /\ network # "none"
                  THEN "over" ELSE network
    /\ UNCHANGED <<g_waiting_task_sum_v, g_invoked_ecalls_um, races>>

FreeInvoked(t) ==
    /\ thread[t].pc = "freed"
    /\ Count(t, Prio(Top(t)), 0, Top(t), -1)
    /\ thread' = [thread EXCEPT ![t] = Returned(t)]
    /\ UNCHANGED <<g_running_task_um, g_running_task_num, network>>

\* get_upgrade_ecalls_num: the upgrade waits until it returns 0.
UpgradeMayGoOn ==
    \A task \in UpgradeBlockTasks : g_invoked_ecalls_um[task] <= 0

(***************************************************************************)
(* Specification                                                            *)
(***************************************************************************)

Step(t) ==
    \/ BlockCheck(t) \/ Acquire(t) \/ NotAcquired(t) \/ Loop(t) \/ Leave(t)
    \/ Free(t) \/ FreeInvoked(t)

Next == \E t \in Threads : (\E task \in Tasks : Invoke(t, task)) \/ Step(t)

Spec == Init /\ [][Next]_vars

\* A thread that has called in keeps running, and an ecall that can return
\* does; nobody has to call in.
FairSpec == Spec /\ \A t \in Threads : WF_vars(Step(t))

(***************************************************************************)
(* Properties                                                               *)
(***************************************************************************)

Pc == {"idle", "check", "acquire", "loop", "out", "in", "freed"}
ThreadState == [stack : Seq(Tasks), pc : Pc,
                status : {"ok", "busy", "timeout"}, timeout : Nat]

\* What a restore from an upgrade takes off the running number for good: its
\* thread is uncounted by the calls it made from inside, and once more at the
\* end.
Lent == IF network = "over" THEN 1 ELSE 0

\* Every variable has its type; the running number, an int in the code that
\* is decremented unconditionally, stays between 0 (or -1, after a restore from
\* an upgrade) and the limit.
TypeOK ==
    /\ g_waiting_task_sum_v \in [Prios -> Int]
    /\ g_invoked_ecalls_um \in [Tasks -> Int]
    /\ g_running_task_um \in SUBSET Threads
    /\ g_running_task_num \in (-Lent)..ENC_MAX_THREAD_NUM
    /\ thread \in [Threads -> ThreadState]
    /\ network \in {"none", "over"} \cup Callbacks("restore_from_upgrade")
    /\ races \in Nat

\* Threads inside the enclave, each on one of its ENC_MAX_THREAD_NUM slots.
Inside == {t \in Threads : thread[t].pc = "in" \/ Len(thread[t].stack) > 1}
Outer(t) == thread[t].stack[1]
\* Threads whose ecall may call back into the enclave.
Nesting == {t \in Inside : Callbacks(Outer(t)) # {}}

\* The threads in the enclave never outnumber its slots, except by those that
\* call back from inside it and, in a process that restored from an upgrade, by
\* one more, whatever is lost of the unsynchronised counters (try_get_enclave,
\* free_enclave).
WithinCapacity ==
    Cardinality(Inside \ Nesting) <= ENC_MAX_THREAD_NUM + Lent

\* Threads that got in with a priority below the highest.
LowInside ==
    {t \in Inside \ Nesting : Prio(Outer(t)) > ENC_HIGHEST_PRIORITY}
\* The slots they may take.
Unreserved ==
    IF ENC_MAX_THREAD_NUM + Lent >= ENC_RESERVED_THREAD_NUM
    THEN ENC_MAX_THREAD_NUM + Lent - ENC_RESERVED_THREAD_NUM ELSE 0

\* Tasks below the highest priority never fill the slots that are reserved for
\* it, except for the one a restore from an upgrade leaves uncounted (rule 2 of
\* try_get_enclave).
ReserveKept == Cardinality(LowInside) <= Unreserved

\* How threads hold the slots of the enclave: only an ecall that calls back is
\* left for a nested call, a thread that was admitted has an entry in
\* g_running_task_um (but for one whose nested calls remove it), no entry is
\* missing from g_running_task_num but the one Lent stands for, and the tasks
\* of lower priority leave the reserve alone.
CallsBack == Permanent \cup {"restore_from_upgrade"}
Nested(task) ==
    \/ task \in Permanent
    \/ task = "restore_from_upgrade" /\ network # "none"
Shape ==
    \A t \in Threads :
        LET stack == thread[t].stack
        IN /\ stack = <<>> <=> thread[t].pc = "idle"
           /\ \A i \in 1..(Len(stack) - 1) : Nested(stack[i])
           /\ \A i \in 1..Len(stack) :
                  stack[i] = "restore_from_upgrade" =>
                      /\ "restore_from_upgrade" \in Calls[t] /\ i = 1
                      /\ network = "over" =>
                            thread[t].pc = "freed" /\ i = Len(stack)
Admitted(t) ==
    \/ thread[t].pc = "out" /\ thread[t].status # "timeout"
    \/ thread[t].pc = "in" /\ ~Nested(Top(t))
LowAdmitted ==
    {t \in Threads : /\ Len(thread[t].stack) = 1 /\ Admitted(t)
                     /\ Prio(Outer(t)) > ENC_HIGHEST_PRIORITY}
Slots ==
    /\ \A t \in Threads : Admitted(t) => t \in g_running_task_um
    /\ Cardinality(g_running_task_um) <= g_running_task_num + Lent
LowSlots == Cardinality(LowAdmitted) <= Unreserved
SlotInv == TypeOK /\ Shape /\ Slots /\ LowSlots

\* The upgrade goes on only when no call that it waits for is in progress,
\* also none that is still trying to get in or that failed to
\* (get_upgrade_ecalls_num).
UpgradeSeesCalls ==
    races = 0 /\ UpgradeMayGoOn =>
        \A t \in Threads : \A i \in 1..Len(thread[t].stack) :
            thread[t].stack[i] \notin UpgradeBlockTasks

\* A task of low priority gets in or gives up: it never waits for ever
\* (ENC_TASK_TIMEOUT).
ImpatientReturn ==
    \A t \in Threads :
        (thread[t].pc \in {"check", "acquire", "loop"}
             /\ Prio(Top(t)) > ENC_PRIO_TIMEOUT_THRESHOLD)
          ~> thread[t].pc \notin {"check", "acquire", "loop"}
=============================================================================
