------------------------- MODULE EnclaveTasksProofs -------------------------
(***************************************************************************)
(* Proofs about EnclaveTasks, for every finite set of threads, whatever     *)
(* they call, every value of the limits and any number of lost updates.     *)
(***************************************************************************)
EXTENDS EnclaveTasks, FiniteSetTheorems, SequenceTheorems, TLAPS

\* The ecalls that call back: those that never return, and the restore.
LEMMA WhoCallsBack ==
    ASSUME NEW task
    PROVE  Callbacks(task) # {} <=> task \in CallsBack
<1>1. CASE task \in CallsBack
  BY <1>1 DEF CallsBack, Callbacks, Permanent
<1>2. CASE task \notin CallsBack
  BY <1>2 DEF CallsBack, Callbacks, Permanent
<1>. QED  BY <1>1, <1>2

\* What is called from inside calls nothing back.
LEMMA CallbackTasks ==
    ASSUME NEW t, NEW task, FromMainLoop(t, task) \/ FromRestore(t, task)
    PROVE  /\ thread[t].pc = "in" /\ Top(t) \in CallsBack
           /\ task # "restore_from_upgrade"
BY DEF FromMainLoop, FromRestore, Callbacks, CallsBack, Permanent

\* Calling pushes on a thread's stack; what was there stays below.
LEMMA PushProperties ==
    ASSUME NEW s \in Seq(Tasks), NEW task \in Tasks
    PROVE  /\ Append(s, task) \in Seq(Tasks)
           /\ Len(Append(s, task)) = Len(s) + 1
           /\ Len(s) \in Nat
           /\ Append(s, task)[Len(s) + 1] = task
           /\ \A i \in 1..Len(s) : Append(s, task)[i] = s[i]
           /\ Append(s, task) # <<>>
BY AppendProperties, LenProperties

\* Returning pops it.
LEMMA PopProperties ==
    ASSUME NEW s \in Seq(Tasks), s # <<>>
    PROVE  LET n == Len(s)
               r == SubSeq(s, 1, n - 1)
           IN /\ r \in Seq(Tasks)
              /\ n \in Nat /\ n >= 1
              /\ Len(r) = n - 1
              /\ \A i \in 1..(n - 1) : r[i] = s[i]
              /\ r = <<>> <=> n = 1
<1>1. Len(s) \in Nat /\ Len(s) >= 1
  BY EmptySeq, LenProperties
<1>. DEFINE r == SubSeq(s, 1, Len(s) - 1)
<1>2. /\ r \in Seq(Tasks) /\ Len(r) = Len(s) - 1
      /\ \A i \in 1..(Len(s) - 1) : r[i] = s[i]
  <2>. DEFINE n == Len(s) - 1
  <2>1. n \in Nat /\ \A i \in 1..n : s[i] \in Tasks
    BY <1>1
  <2>. HIDE DEF n
  <2>2. /\ SubSeq(s, 1, n) \in Seq(Tasks)
        /\ Len(SubSeq(s, 1, n)) = IF 1 <= n THEN n - 1 + 1 ELSE 0
        /\ \A i \in 1..(n - 1 + 1) : SubSeq(s, 1, n)[i] = s[1 + i - 1]
    BY <2>1, SubSeqProperties
  <2>3. /\ Len(SubSeq(s, 1, n)) = n
        /\ \A i \in 1..n : SubSeq(s, 1, n)[i] = s[i]
    BY <2>1, <2>2
  <2>. QED  BY <2>2, <2>3 DEF n
<1>3. r = <<>> <=> Len(r) = 0
  BY <1>2, EmptySeq
<1>. QED  BY <1>1, <1>2, <1>3

\* A thread is in the middle of at most the calls Shape allows: where a task
\* that calls nothing back is at the bottom of the stack it is the whole stack.
LEMMA OuterIsTop ==
    ASSUME TypeOK, Shape, NEW t \in Threads,
           thread[t].stack # <<>>, Outer(t) \notin CallsBack
    PROVE  Len(thread[t].stack) = 1 /\ Top(t) = Outer(t)
<1>. DEFINE n == Len(thread[t].stack)
<1>1. thread[t].stack \in Seq(Tasks)
  BY DEF TypeOK, ThreadState
<1>2. n \in Nat /\ n >= 1
  BY <1>1, PopProperties
<1>3. 1 \notin 1..(n - 1)
  BY DEF Shape, Outer, Nested, CallsBack
<1>. HIDE DEF n
<1>4. n = 1
  BY <1>2, <1>3
<1>. QED  BY <1>4 DEF Top, Outer, n

\* The number of entries is a natural number, also of a part of them.
LEMMA Counting ==
    ASSUME NEW S, S \subseteq Threads
    PROVE  /\ IsFiniteSet(S) /\ Cardinality(S) \in Nat
           /\ \A T \in SUBSET S : Cardinality(T) <= Cardinality(S)
           /\ \A t : Cardinality(S \cup {t}) =
                       IF t \in S THEN Cardinality(S) ELSE Cardinality(S) + 1
           /\ \A t : Cardinality(S \ {t}) =
                       IF t \in S THEN Cardinality(S) - 1 ELSE Cardinality(S)
<1>1. IsFiniteSet(Threads)
  BY TasksAssumption
<1>2. IsFiniteSet(S)
  BY <1>1, FS_Subset
<1>3. Cardinality(S) \in Nat
  BY <1>2, FS_CardinalityType
<1>4. \A T \in SUBSET S : Cardinality(T) <= Cardinality(S)
  BY <1>2, FS_Subset
<1>5. ASSUME NEW t
      PROVE  Cardinality(S \cup {t}) =
               IF t \in S THEN Cardinality(S) ELSE Cardinality(S) + 1
  BY <1>2, FS_AddElement
<1>6. ASSUME NEW t
      PROVE  Cardinality(S \ {t}) =
               IF t \in S THEN Cardinality(S) - 1 ELSE Cardinality(S)
  BY <1>2, FS_RemoveElement
<1>. QED  BY <1>2, <1>3, <1>4, <1>5, <1>6

\* Updating the unsynchronised counters keeps them integers, whatever is lost.
LEMMA CountType ==
    ASSUME TypeOK, NEW t, NEW p, NEW d \in {-1, 0, 1}, NEW task,
           NEW e \in {-1, 0, 1}, Count(t, p, d, task, e)
    PROVE  /\ g_waiting_task_sum_v' \in [Prios -> Int]
           /\ g_invoked_ecalls_um' \in [Tasks -> Int]
           /\ races' \in Nat
<1>1. g_waiting_task_sum_v' \in {g_waiting_task_sum_v,
          [g_waiting_task_sum_v EXCEPT ![p] = @ + d]}
  BY Zenon DEF Count
<1>2. g_invoked_ecalls_um' \in {g_invoked_ecalls_um,
          [g_invoked_ecalls_um EXCEPT ![task] = @ + e]}
  BY Zenon DEF Count
<1>3. races' \in {races, races + 1}
  BY Zenon DEF Count
<1>4. g_waiting_task_sum_v' \in [Prios -> Int]
  BY <1>1 DEF TypeOK
<1>5. g_invoked_ecalls_um' \in [Tasks -> Int]
  BY <1>2 DEF TypeOK
<1>6. races' \in Nat
  BY <1>3 DEF TypeOK
<1>. QED  BY <1>4, <1>5, <1>6

\* A step that changes one thread and admits nobody keeps the reserve.
LEMMA LowSlotsShrink ==
    ASSUME LowSlots, LowAdmitted' \subseteq LowAdmitted,
           network = "over" => network' = "over"
    PROVE  LowSlots'
<1>1. LowAdmitted \subseteq Threads
  BY DEF LowAdmitted
<1>2. Cardinality(LowAdmitted) \in Nat /\ Cardinality(LowAdmitted') \in Nat
      /\ Cardinality(LowAdmitted') <= Cardinality(LowAdmitted)
  BY <1>1, Counting
<1>3. Lent \in {0, 1} /\ Lent' \in {0, 1} /\ Lent <= Lent'
  BY DEF Lent
<1>4. Unreserved <= Unreserved' /\ Unreserved \in Nat /\ Unreserved' \in Nat
  <2>. DEFINE n == ENC_MAX_THREAD_NUM
              k == ENC_RESERVED_THREAD_NUM
              a == Lent
              b == Lent'
  <2>1. n \in Nat /\ k \in Nat /\ a \in Nat /\ b \in Nat /\ a <= b
    BY <1>3, TasksAssumption
  <2>2. /\ Unreserved = IF n + a >= k THEN n + a - k ELSE 0
        /\ Unreserved' = IF n + b >= k THEN n + b - k ELSE 0
    BY DEF Unreserved
  <2>. HIDE DEF n, k, a, b
  <2>. QED  BY <2>1, <2>2
<1>. QED  BY <1>2, <1>4 DEF LowSlots

(***************************************************************************)
(* Every step changes one thread. What is left to show of it is what it     *)
(* does to that thread, to the network, to the entries and to the running   *)
(* number.                                                                  *)
(***************************************************************************)
Restore == "restore_from_upgrade"
NestedAt(task, net) ==
    \/ task \in Permanent
    \/ task = Restore /\ net # "none"
GoodThread(t, th, net) ==
    /\ th \in ThreadState
    /\ th.stack = <<>> <=> th.pc = "idle"
    /\ \A i \in 1..(Len(th.stack) - 1) : NestedAt(th.stack[i], net)
    /\ \A i \in 1..Len(th.stack) :
           th.stack[i] = Restore =>
               /\ Restore \in Calls[t] /\ i = 1
               /\ net = "over" => th.pc = "freed" /\ i = Len(th.stack)

\* What a step of thread t does to the network leaves the others as they are.
Onward(t) ==
    /\ network' \in {"none", "over"} \cup Callbacks(Restore)
    /\ network # "none" => network' # "none"
    /\ network = "over" => network' = "over"
    /\ \A u \in Threads \ {t} : GoodThread(u, thread[u], network')

LEMMA OneThread ==
    ASSUME SlotInv, NEW t \in Threads, NEW th, GoodThread(t, th, network'),
           Onward(t), thread' = [thread EXCEPT ![t] = th]
    PROVE  /\ thread' \in [Threads -> ThreadState]
           /\ thread'[t] = th
           /\ Shape'
           /\ \A u \in Threads \ {t} : Admitted(u)' => Admitted(u)
           /\ LowAdmitted' \ {t} \subseteq LowAdmitted
<1>1. thread \in [Threads -> ThreadState]
  BY DEF SlotInv, TypeOK
<1>2. thread' \in [Threads -> ThreadState] /\ thread'[t] = th
  BY <1>1 DEF GoodThread
<1>3. \A u \in Threads \ {t} : thread'[u] = thread[u]
  BY <1>1
<1>4. \A u \in Threads : GoodThread(u, thread'[u], network')
  BY <1>2, <1>3 DEF Onward
<1>5. Shape'
  BY <1>4 DEF Shape, GoodThread, Nested, NestedAt, Restore
<1>6. \A u \in Threads \ {t} : Admitted(u)' => Admitted(u)
  BY <1>3 DEF Admitted, Top, Nested, Onward
<1>7. LowAdmitted' \ {t} \subseteq LowAdmitted
  BY <1>3, <1>6 DEF LowAdmitted, Outer
<1>. QED  BY <1>2, <1>5, <1>6, <1>7

LEMMA ThreadFacts ==
    ASSUME SlotInv, NEW t \in Threads
    PROVE  GoodThread(t, thread[t], network)
BY DEF SlotInv, TypeOK, Shape, GoodThread, Nested, NestedAt, Restore

\* Most steps leave the network alone.
LEMMA SameNetwork ==
    ASSUME SlotInv, NEW t \in Threads, network' = network
    PROVE  Onward(t)
<1>1. network \in {"none", "over"} \cup Callbacks(Restore)
  BY DEF SlotInv, TypeOK, Restore
<1>. QED  BY <1>1, ThreadFacts DEF Onward

\* A restore that calls back.
LEMMA NextNetwork ==
    ASSUME SlotInv, NEW t \in Threads, NEW task, FromRestore(t, task)
    PROVE  Onward(t)
<1>1. /\ network' \in Callbacks(Restore) /\ network # "over"
      /\ network' # "none" /\ network' # "over"
  BY DEF FromRestore, Callbacks, Restore
<1>2. \A u \in Threads : GoodThread(u, thread[u], network')
  BY <1>1, ThreadFacts DEF GoodThread, NestedAt
<1>. QED  BY <1>1, <1>2 DEF Onward

\* The innermost call is one of the ecalls.
LEMMA TopFacts ==
    ASSUME SlotInv, NEW t \in Threads, thread[t].pc # "idle"
    PROVE  Top(t) \in Tasks /\ thread[t].stack \in Seq(Tasks)
           /\ thread[t].stack # <<>>
<1>1. thread[t].stack \in Seq(Tasks) /\ thread[t].stack # <<>>
  BY DEF SlotInv, TypeOK, ThreadState, Shape
<1>2. Len(thread[t].stack) \in 1..Len(thread[t].stack)
  BY <1>1, PopProperties
<1>. QED  BY <1>1, <1>2 DEF Top

\* A wrapper that returns leaves a good thread, back in the ecall that called it
\* or idle.
LEMMA ReturnedGood ==
    ASSUME SlotInv, NEW t \in Threads, thread[t].pc # "idle"
    PROVE  /\ GoodThread(t, Returned(t), network)
           /\ Returned(t).pc \in {"idle", "in"}
           /\ Returned(t).pc = "in" =>
                 /\ Returned(t).stack # <<>>
                 /\ Nested(Returned(t).stack[Len(Returned(t).stack)])
<1>. DEFINE s == thread[t].stack
            n == Len(s)
            r == SubSeq(s, 1, n - 1)
<1>1. s \in Seq(Tasks) /\ s # <<>>
  BY TopFacts
<1>2. /\ r \in Seq(Tasks)
      /\ n \in Nat /\ n >= 1
      /\ Len(r) = n - 1
      /\ \A i \in 1..(n - 1) : r[i] = s[i]
      /\ r = <<>> <=> n = 1
  BY <1>1, PopProperties
<1>3. /\ \A i \in 1..(n - 1) : Nested(s[i])
      /\ \A i \in 1..n : s[i] = Restore =>
             /\ Restore \in Calls[t] /\ i = 1
             /\ network = "over" => i = n
  BY DEF SlotInv, Shape, Restore
<1>4. Returned(t) = [stack |-> r, pc |-> IF n = 1 THEN "idle" ELSE "in",
                     status |-> "ok", timeout |-> 0]
  BY DEF Returned, ThreadAt
<1>. HIDE DEF s, r, n
<1>5. Returned(t) \in ThreadState
  BY <1>2, <1>4 DEF ThreadState, Pc
<1>6. \A i \in 1..(Len(r) - 1) : Nested(r[i])
  BY <1>2, <1>3
<1>7. n # 1 => r # <<>> /\ Nested(r[Len(r)])
  BY <1>2, <1>3
<1>8. ASSUME NEW i \in 1..Len(r), r[i] = Restore
      PROVE  Restore \in Calls[t] /\ network # "over" /\ i = 1
  <2>1. i \in 1..(n - 1) /\ i \in 1..n /\ s[i] = Restore /\ i # n
    BY <1>2, <1>8
  <2>. QED  BY <1>3, <2>1
<1>9. /\ Returned(t).stack = r
      /\ Returned(t).pc = IF n = 1 THEN "idle" ELSE "in"
  BY <1>4
<1>10. GoodThread(t, Returned(t), network)
  BY <1>2, <1>5, <1>6, <1>8, <1>9 DEF GoodThread, Nested, NestedAt, Restore
<1>. QED  BY <1>7, <1>9, <1>10

(***************************************************************************)
(* The steps that admit nobody and give no slot back.                       *)
(***************************************************************************)
LEMMA NoSlotStep ==
    ASSUME SlotInv, NEW t \in Threads, NEW th, GoodThread(t, th, network'),
           Onward(t), thread' = [thread EXCEPT ![t] = th],
           g_waiting_task_sum_v' \in [Prios -> Int],
           g_invoked_ecalls_um' \in [Tasks -> Int],
           races' \in Nat,
           g_running_task_um' = g_running_task_um,
           g_running_task_num' = g_running_task_num,
           Admitted(t)' => Admitted(t),
           t \in LowAdmitted' => t \in LowAdmitted
    PROVE  SlotInv'
<1>1. /\ thread' \in [Threads -> ThreadState]
      /\ Shape'
      /\ \A u \in Threads \ {t} : Admitted(u)' => Admitted(u)
      /\ LowAdmitted' \ {t} \subseteq LowAdmitted
  BY OneThread
<1>2. /\ Lent \in {0, 1} /\ Lent' \in {0, 1} /\ Lent <= Lent'
      /\ network = "over" => network' = "over"
      /\ network' \in {"none", "over"} \cup Callbacks(Restore)
  BY DEF Lent, Onward
<1>3. g_running_task_num' \in (-Lent')..ENC_MAX_THREAD_NUM
  <2>. DEFINE n == g_running_task_num
              max == ENC_MAX_THREAD_NUM
              a == Lent
              b == Lent'
  <2>1. n \in (-a)..max /\ max \in Nat /\ a \in Nat /\ b \in Nat /\ a <= b
    BY <1>2, TasksAssumption DEF SlotInv, TypeOK
  <2>. HIDE DEF n, max, a, b
  <2>2. n \in (-b)..max
    BY <2>1
  <2>. QED  BY <2>2 DEF n, max, b
<1>4. TypeOK'
  BY <1>1, <1>2, <1>3 DEF SlotInv, TypeOK, Restore
<1>5. \A u \in Threads : Admitted(u)' => u \in g_running_task_um'
  BY <1>1 DEF SlotInv, Slots
<1>6. Cardinality(g_running_task_um') <= g_running_task_num' + Lent'
  <2>1. /\ Cardinality(g_running_task_um) \in Nat
        /\ Cardinality(g_running_task_um) <= g_running_task_num + Lent
        /\ g_running_task_num \in Int
    BY Counting, <1>2, TasksAssumption DEF SlotInv, Slots, TypeOK
  <2>. QED  BY <1>2, <2>1
<1>7. LowAdmitted' \subseteq LowAdmitted
  BY <1>1
<1>8. LowSlots'
  BY <1>2, <1>7, LowSlotsShrink DEF SlotInv
<1>. QED  BY <1>1, <1>4, <1>5, <1>6, <1>8 DEF SlotInv, Slots

\* The stack of a thread that calls in, and what the network makes of it.
LEMMA Pushed ==
    ASSUME SlotInv, NEW t \in Threads, NEW task \in Tasks, Invoke(t, task)
    PROVE  /\ GoodThread(t, ThreadAt(Append(thread[t].stack, task), "check"),
                         network')
           /\ Onward(t)
<1>. DEFINE s == thread[t].stack
            th == ThreadAt(Append(s, task), "check")
<1>1. s \in Seq(Tasks) /\ Len(s) \in Nat
  BY LenProperties DEF SlotInv, TypeOK, ThreadState
<1>2. Onward(t)
  <2>1. CASE FromRestore(t, task)
    BY <2>1, NextNetwork
  <2>2. CASE FromOutside(t, task) \/ FromMainLoop(t, task)
    BY <2>2, SameNetwork DEF FromOutside, FromMainLoop
  <2>. QED  BY <2>1, <2>2 DEF Invoke
<1>3. /\ \A i \in 1..Len(s) : NestedAt(s[i], network')
      /\ \A i \in 1..Len(s) : s[i] = Restore =>
             Restore \in Calls[t] /\ network' # "over" /\ i = 1
      /\ task = Restore =>
             Restore \in Calls[t] /\ network' # "over" /\ Len(s) = 0
  <2>1. CASE FromOutside(t, task)
    <3>1. s = <<>>
      BY <2>1 DEF FromOutside, SlotInv, Shape
    <3>2. 1..Len(s) = {} /\ Len(s) = 0
      BY <3>1
    <3>. QED  BY <2>1, <3>2 DEF FromOutside, Restore
  <2>2. CASE FromMainLoop(t, task) \/ FromRestore(t, task)
    <3>1. /\ thread[t].pc = "in" /\ task # Restore
          /\ s[Len(s)] \in CallsBack
      BY <2>2, CallbackTasks DEF Top, Restore
    <3>2. NestedAt(s[Len(s)], network')
      BY <2>2 DEF FromMainLoop, FromRestore, Top, NestedAt, Permanent, Restore
    <3>3. /\ \A i \in 1..(Len(s) - 1) : NestedAt(s[i], network)
          /\ \A i \in 1..Len(s) : s[i] = Restore =>
                 Restore \in Calls[t] /\ network # "over" /\ i = 1
      BY <3>1, ThreadFacts DEF GoodThread
    <3>4. (network # "none" => network' # "none")
          /\ (network # "over" => network' # "over")
      BY <2>2 DEF FromMainLoop, FromRestore
    <3>5. \A i \in 1..(Len(s) - 1) : NestedAt(s[i], network')
      BY <3>3, <3>4 DEF NestedAt
    <3>6. \A i \in 1..Len(s) : i = Len(s) \/ i \in 1..(Len(s) - 1)
      <4>. DEFINE n == Len(s)
      <4>1. n \in Nat
        BY <1>1
      <4>. HIDE DEF n
      <4>2. \A i \in 1..n : i = n \/ i \in 1..(n - 1)
        BY <4>1
      <4>. QED  BY <4>2 DEF n
    <3>. HIDE DEF s
    <3>. QED  BY <3>1, <3>2, <3>3, <3>4, <3>5, <3>6
  <2>. QED  BY <2>1, <2>2 DEF Invoke
<1>4. /\ th.stack = Append(s, task) /\ th.pc = "check"
      /\ th.status = "ok" /\ th.timeout = 0
  BY DEF ThreadAt
<1>5. /\ Append(s, task) \in Seq(Tasks) /\ Append(s, task) # <<>>
      /\ Len(Append(s, task)) = Len(s) + 1
      /\ \A i \in 1..Len(s) : Append(s, task)[i] = s[i]
      /\ Append(s, task)[Len(s) + 1] = task
  BY <1>1, PushProperties
<1>6. th \in ThreadState
  BY <1>5 DEF ThreadAt, ThreadState, Pc
<1>. HIDE DEF s, th
<1>7. \A i \in 1..(Len(th.stack) - 1) : NestedAt(th.stack[i], network')
  BY <1>1, <1>3, <1>4, <1>5
<1>8. ASSUME NEW i \in 1..Len(th.stack), th.stack[i] = Restore
      PROVE  Restore \in Calls[t] /\ network' # "over" /\ i = 1
  <2>1. CASE i \in 1..Len(s)
    BY <1>3, <1>4, <1>5, <1>8, <2>1
  <2>2. CASE i = Len(s) + 1
    BY <1>3, <1>4, <1>5, <1>8, <2>2
  <2>. QED  BY <1>1, <1>4, <1>5, <1>8, <2>1, <2>2
<1>9. GoodThread(t, th, network')
  BY <1>4, <1>5, <1>6, <1>7, <1>8 DEF GoodThread
<1>. QED  BY <1>2, <1>9 DEF th, s

LEMMA InvokeKeeps ==
    ASSUME SlotInv, NEW t \in Threads, NEW task \in Tasks, Invoke(t, task)
    PROVE  SlotInv'
<1>. DEFINE th == ThreadAt(Append(thread[t].stack, task), "check")
<1>1. thread' = [thread EXCEPT ![t] = th] /\ Count(t, Prio(task), 1, task, 1)
      /\ g_running_task_um' = g_running_task_um
      /\ g_running_task_num' = g_running_task_num
  BY DEF Invoke
<1>2. GoodThread(t, th, network') /\ Onward(t)
  BY Pushed
<1>3. thread'[t] = th
  BY <1>1, <1>2, OneThread
<1>4. th.pc = "check"
  BY DEF ThreadAt
<1>. HIDE DEF th
<1>5. ~Admitted(t)' /\ t \notin LowAdmitted'
  BY <1>3, <1>4 DEF Admitted, LowAdmitted
<1>6. TypeOK
  BY DEF SlotInv
<1>7. /\ g_waiting_task_sum_v' \in [Prios -> Int]
      /\ g_invoked_ecalls_um' \in [Tasks -> Int] /\ races' \in Nat
  BY <1>1, <1>6, CountType
<1>. QED  BY <1>1, <1>2, <1>5, <1>7, NoSlotStep

\* Within a call only the position in it changes, and only free_enclave gets
\* past a restore that is over.
LEMMA SameCall ==
    ASSUME SlotInv, NEW t \in Threads,
           thread[t].pc \notin {"idle", "freed"},
           NEW pc \in Pc \ {"idle"}, NEW status \in {"ok", "busy", "timeout"},
           NEW timeout \in Nat
    PROVE  GoodThread(t, [stack |-> thread[t].stack, pc |-> pc,
                          status |-> status, timeout |-> timeout], network)
<1>. DEFINE s == thread[t].stack
            th == [stack |-> s, pc |-> pc,
                   status |-> status, timeout |-> timeout]
<1>1. s \in Seq(Tasks) /\ s # <<>>
  BY TopFacts
<1>2. /\ \A i \in 1..(Len(s) - 1) : NestedAt(s[i], network)
      /\ \A i \in 1..Len(s) : s[i] = Restore =>
             Restore \in Calls[t] /\ network # "over" /\ i = 1
  BY ThreadFacts DEF GoodThread
<1>3. th \in ThreadState /\ th.stack = s /\ th.pc = pc
  BY <1>1 DEF ThreadState, Pc
<1>. HIDE DEF th
<1>4. GoodThread(t, th, network)
  BY <1>1, <1>2, <1>3 DEF GoodThread
<1>. QED  BY <1>4 DEF th

\* The fields of a thread, one by one.
LEMMA ThreadFields ==
    ASSUME SlotInv, NEW t \in Threads
    PROVE  /\ thread[t].pc \in Pc
           /\ thread[t].status \in {"ok", "busy", "timeout"}
           /\ thread[t].timeout \in Nat
           /\ thread[t] = [stack |-> thread[t].stack, pc |-> thread[t].pc,
                            status |-> thread[t].status,
                            timeout |-> thread[t].timeout]
BY DEF SlotInv, TypeOK, ThreadState

\* Updating two fields of a thread, as a record.
LEMMA UpdateStatus ==
    ASSUME NEW r \in ThreadState, NEW a, NEW b
    PROVE  [r EXCEPT !.pc = a, !.status = b] = [stack |-> r.stack, pc |-> a,
            status |-> b, timeout |-> r.timeout]
<1>1. [r EXCEPT !.pc = a] = [stack |-> r.stack, pc |-> a,
            status |-> r.status, timeout |-> r.timeout]
  BY DEF ThreadState
<1>2. [r EXCEPT !.pc = a, !.status = b] = [[r EXCEPT !.pc = a] EXCEPT !.status = b]
  BY DEF ThreadState
<1>3. [[stack |-> r.stack, pc |-> a,
            status |-> r.status, timeout |-> r.timeout]
          EXCEPT !.status = b] = [stack |-> r.stack, pc |-> a,
            status |-> b, timeout |-> r.timeout]
  OBVIOUS
<1>. QED  BY <1>1, <1>2, <1>3, Zenon

LEMMA UpdateTimeout ==
    ASSUME NEW r \in ThreadState, NEW a, NEW b
    PROVE  [r EXCEPT !.pc = a, !.timeout = b] = [stack |-> r.stack, pc |-> a,
            status |-> r.status, timeout |-> b]
<1>1. [r EXCEPT !.pc = a] = [stack |-> r.stack, pc |-> a,
            status |-> r.status, timeout |-> r.timeout]
  BY DEF ThreadState
<1>2. [r EXCEPT !.pc = a, !.timeout = b] = [[r EXCEPT !.pc = a] EXCEPT !.timeout = b]
  BY DEF ThreadState
<1>3. [[stack |-> r.stack, pc |-> a,
            status |-> r.status, timeout |-> r.timeout]
          EXCEPT !.timeout = b] = [stack |-> r.stack, pc |-> a,
            status |-> r.status, timeout |-> b]
  OBVIOUS
<1>. QED  BY <1>1, <1>2, <1>3, Zenon

LEMMA CounterTypes ==
    ASSUME SlotInv
    PROVE  /\ g_waiting_task_sum_v \in [Prios -> Int]
           /\ g_invoked_ecalls_um \in [Tasks -> Int] /\ races \in Nat
BY DEF SlotInv, TypeOK

LEMMA CheckKeeps ==
    ASSUME SlotInv, NEW t \in Threads, BlockCheck(t) \/ NotAcquired(t)
    PROVE  SlotInv'
<1>. DEFINE at(pc, status) ==
              [stack |-> thread[t].stack, pc |-> pc, status |-> status,
               timeout |-> thread[t].timeout]
<1>1. thread \in [Threads -> ThreadState]
  BY DEF SlotInv, TypeOK
<1>2. PICK pc \in {"loop", "acquire"}, status \in {"ok", "busy", "timeout"} :
        thread' = [thread EXCEPT ![t] = at(pc, status)]
  BY <1>1, ThreadFields DEF BlockCheck, NotAcquired, ThreadState
<1>3. thread[t].pc \notin {"idle", "freed"} /\ ~Admitted(t)
  BY DEF BlockCheck, NotAcquired, Admitted
<1>0. network' = network /\ Onward(t)
  BY SameNetwork DEF BlockCheck, NotAcquired
<1>4. GoodThread(t, at(pc, status), network')
  BY <1>0, <1>3, SameCall, ThreadFields DEF Pc
<1>5. thread'[t] = at(pc, status)
  BY <1>0, <1>2, <1>4, OneThread
<1>6. ~Admitted(t)' /\ t \notin LowAdmitted'
  BY <1>5 DEF Admitted, LowAdmitted
<1>7. UNCHANGED <<g_waiting_task_sum_v, g_invoked_ecalls_um,
                  g_running_task_um, g_running_task_num, races>>
  BY DEF BlockCheck, NotAcquired
<1>. HIDE DEF at
<1>8. /\ g_waiting_task_sum_v' \in [Prios -> Int]
      /\ g_invoked_ecalls_um' \in [Tasks -> Int] /\ races' \in Nat
  BY <1>7, CounterTypes
<1>. QED  BY <1>0, <1>2, <1>4, <1>6, <1>7, <1>8, NoSlotStep

LEMMA LoopKeeps ==
    ASSUME SlotInv, NEW t \in Threads, Loop(t)
    PROVE  SlotInv'
<1>. DEFINE at(pc, status, timeout) ==
              [stack |-> thread[t].stack, pc |-> pc, status |-> status,
               timeout |-> timeout]
<1>1. thread \in [Threads -> ThreadState]
  BY DEF SlotInv, TypeOK
<1>2. Patience(t) \in Nat
  <2>1. thread[t].timeout \in Nat
    BY ThreadFields
  <2>. QED  BY <2>1 DEF Patience
<1>3. thread[t].pc \notin {"idle", "freed"} /\ ~Admitted(t)
  BY DEF Loop, Admitted
<1>0. network' = network /\ Onward(t)
  BY SameNetwork DEF Loop
<1>4. UNCHANGED <<g_waiting_task_sum_v, g_invoked_ecalls_um,
                  g_running_task_num, races>>
  BY DEF Loop
<1>5. /\ g_waiting_task_sum_v' \in [Prios -> Int]
      /\ g_invoked_ecalls_um' \in [Tasks -> Int] /\ races' \in Nat
  BY <1>4, CounterTypes
<1>6. CASE /\ g_running_task_um' = g_running_task_um \ {t}
           /\ thread' = [thread EXCEPT ![t].pc = "out",
                                       ![t].status = "timeout"]
  <2>. DEFINE th == at("out", "timeout", thread[t].timeout)
  <2>1. thread' = [thread EXCEPT ![t] = th]
    <3>1. thread[t] \in ThreadState
      BY <1>1
    <3>2. [thread[t] EXCEPT !.pc = "out", !.status = "timeout"] = th
      BY <3>1, UpdateStatus
    <3>3. thread' = [thread EXCEPT ![t] =
                       [thread[t] EXCEPT !.pc = "out", !.status = "timeout"]]
      BY <1>1, <1>6
    <3>. QED  BY <3>2, <3>3
  <2>2. GoodThread(t, th, network')
    BY <1>0, <1>3, SameCall, ThreadFields DEF Pc
  <2>3. /\ thread' \in [Threads -> ThreadState] /\ thread'[t] = th /\ Shape'
        /\ \A u \in Threads \ {t} : Admitted(u)' => Admitted(u)
        /\ LowAdmitted' \ {t} \subseteq LowAdmitted
    BY <1>0, <2>1, <2>2, OneThread
  <2>4. ~Admitted(t)' /\ t \notin LowAdmitted'
    BY <2>3 DEF Admitted, LowAdmitted
  <2>5. TypeOK'
    BY <1>0, <1>4, <1>5, <1>6, <2>3 DEF SlotInv, TypeOK, Lent
  <2>6. \A u \in Threads : Admitted(u)' => u \in g_running_task_um'
    BY <1>6, <2>3, <2>4 DEF SlotInv, Slots
  <2>7. Cardinality(g_running_task_um') <= g_running_task_num' + Lent'
    <3>1. /\ Cardinality(g_running_task_um) \in Nat
          /\ Cardinality(g_running_task_um') <= Cardinality(g_running_task_um)
          /\ Cardinality(g_running_task_um') \in Nat
      BY <1>6, Counting DEF SlotInv, TypeOK
    <3>2. Cardinality(g_running_task_um) <= g_running_task_num + Lent
          /\ g_running_task_num \in Int /\ Lent \in Int /\ Lent' = Lent
      BY <1>0, TasksAssumption DEF SlotInv, Slots, TypeOK, Lent
    <3>. QED  BY <1>4, <3>1, <3>2
  <2>8. LowSlots'
    BY <1>0, <2>3, <2>4, LowSlotsShrink DEF SlotInv
  <2>. QED  BY <2>3, <2>5, <2>6, <2>7, <2>8 DEF SlotInv, Slots
<1>7. CASE /\ thread' = [thread EXCEPT ![t].pc = "check",
                                       ![t].timeout = Patience(t)]
           /\ UNCHANGED g_running_task_um
  <2>. DEFINE th == at("check", thread[t].status, Patience(t))
  <2>1. thread' = [thread EXCEPT ![t] = th]
    <3>1. thread[t] \in ThreadState
      BY <1>1
    <3>2. [thread[t] EXCEPT !.pc = "check", !.timeout = Patience(t)] = th
      BY <3>1, UpdateTimeout
    <3>3. thread' = [thread EXCEPT ![t] =
                       [thread[t] EXCEPT !.pc = "check", !.timeout = Patience(t)]]
      BY <1>1, <1>7
    <3>. QED  BY <3>2, <3>3
  <2>2. GoodThread(t, th, network')
    BY <1>0, <1>2, <1>3, SameCall, ThreadFields DEF Pc
  <2>3. thread'[t] = th
    BY <1>0, <2>1, <2>2, OneThread
  <2>4. ~Admitted(t)' /\ t \notin LowAdmitted'
    BY <2>3 DEF Admitted, LowAdmitted
  <2>. HIDE DEF th
  <2>. QED  BY <1>0, <1>4, <1>5, <1>7, <2>1, <2>2, <2>4, NoSlotStep
<1>. QED  BY <1>6, <1>7 DEF Loop

\* A wrapper that returns to its caller holds no slot any more.
LEMMA ReturnKeeps ==
    ASSUME SlotInv, NEW t \in Threads, thread[t].pc # "idle",
           thread' = [thread EXCEPT ![t] = Returned(t)],
           g_waiting_task_sum_v' \in [Prios -> Int],
           g_invoked_ecalls_um' \in [Tasks -> Int], races' \in Nat,
           UNCHANGED <<g_running_task_um, g_running_task_num, network>>
    PROVE  SlotInv'
<1>0. network' = network /\ Onward(t)
  BY SameNetwork
<1>1. /\ GoodThread(t, Returned(t), network')
      /\ Returned(t).pc \in {"idle", "in"}
      /\ Returned(t).pc = "in" =>
            Nested(Returned(t).stack[Len(Returned(t).stack)])
  BY <1>0, ReturnedGood
<1>2. thread'[t] = Returned(t)
  BY <1>0, <1>1, OneThread
<1>3. ~Admitted(t)' /\ t \notin LowAdmitted'
  BY <1>0, <1>1, <1>2 DEF Admitted, LowAdmitted, Top, Nested
<1>. QED  BY <1>0, <1>1, <1>3, NoSlotStep

LEMMA LeaveKeeps ==
    ASSUME SlotInv, NEW t \in Threads, Leave(t)
    PROVE  SlotInv'
<1>1. /\ thread[t].pc = "out"
      /\ Count(t, Prio(Top(t)), -1, Top(t), InvokedChange(t))
      /\ UNCHANGED <<g_running_task_um, g_running_task_num, network>>
  BY DEF Leave
<1>2. InvokedChange(t) \in {-1, 0, 1}
  BY DEF InvokedChange
<1>3. /\ g_waiting_task_sum_v' \in [Prios -> Int]
      /\ g_invoked_ecalls_um' \in [Tasks -> Int] /\ races' \in Nat
  BY <1>1, <1>2, CountType DEF SlotInv
<1>4. CASE thread[t].status = "ok"
  <2>. DEFINE th == [stack |-> thread[t].stack, pc |-> "in",
                     status |-> "ok", timeout |-> thread[t].timeout]
  <2>1. thread[t] \in ThreadState
    BY DEF SlotInv, TypeOK
  <2>2. [thread[t] EXCEPT !.pc = "in"] = th
    BY <1>4, <2>1 DEF ThreadState
  <2>3. thread' = [thread EXCEPT ![t] = th]
    BY <1>4, <2>2 DEF Leave
  <2>4. GoodThread(t, th, network') /\ Onward(t)
    BY <1>1, SameCall, SameNetwork, ThreadFields DEF Pc
  <2>5. thread'[t] = th
    BY <2>3, <2>4, OneThread
  <2>6. Admitted(t)
    BY <1>1, <1>4 DEF Admitted
  <2>7. t \in LowAdmitted' => t \in LowAdmitted
    BY <2>5, <2>6 DEF LowAdmitted, Outer
  <2>. HIDE DEF th
  <2>. QED  BY <1>1, <1>3, <2>3, <2>4, <2>6, <2>7, NoSlotStep
<1>5. CASE thread[t].status # "ok"
  <2>1. thread' = [thread EXCEPT ![t] = Returned(t)]
    BY <1>5 DEF Leave
  <2>. QED  BY <1>1, <1>3, <2>1, ReturnKeeps
<1>. QED  BY <1>4, <1>5

LEMMA FreeInvokedKeeps ==
    ASSUME SlotInv, NEW t \in Threads, FreeInvoked(t)
    PROVE  SlotInv'
<1>1. /\ thread[t].pc = "freed"
      /\ Count(t, Prio(Top(t)), 0, Top(t), -1)
      /\ thread' = [thread EXCEPT ![t] = Returned(t)]
      /\ UNCHANGED <<g_running_task_um, g_running_task_num, network>>
  BY DEF FreeInvoked
<1>2. /\ g_waiting_task_sum_v' \in [Prios -> Int]
      /\ g_invoked_ecalls_um' \in [Tasks -> Int] /\ races' \in Nat
  BY <1>1, CountType DEF SlotInv
<1>. QED  BY <1>1, <1>2, ReturnKeeps

(***************************************************************************)
(* A slot is taken.                                                         *)
(***************************************************************************)
LEMMA AcquireKeeps ==
    ASSUME SlotInv, NEW t \in Threads, Acquire(t)
    PROVE  SlotInv'
<1>. DEFINE th == [stack |-> thread[t].stack, pc |-> "out",
                   status |-> thread[t].status, timeout |-> thread[t].timeout]
<1>1. thread[t] \in ThreadState
  BY DEF SlotInv, TypeOK
<1>2. [thread[t] EXCEPT !.pc = "out"] = th
  BY <1>1 DEF ThreadState
<1>3. thread' = [thread EXCEPT ![t] = th]
  BY <1>2 DEF Acquire
<1>0. network' = network /\ Onward(t)
  BY SameNetwork DEF Acquire
<1>4. GoodThread(t, th, network')
  BY <1>0, SameCall, ThreadFields DEF Pc, Acquire
<1>5. /\ thread' \in [Threads -> ThreadState] /\ thread'[t] = th /\ Shape'
      /\ \A u \in Threads \ {t} : Admitted(u)' => Admitted(u)
      /\ LowAdmitted' \ {t} \subseteq LowAdmitted
  BY <1>0, <1>3, <1>4, OneThread
<1>. HIDE DEF th
<1>6. /\ MayEnter(Prio(Top(t)))
      /\ g_running_task_um' = g_running_task_um \cup {t}
      /\ g_running_task_num' = IF t \in g_running_task_um
                               THEN g_running_task_num
                               ELSE g_running_task_num + 1
      /\ UNCHANGED <<g_waiting_task_sum_v, g_invoked_ecalls_um, races>>
  BY DEF Acquire
<1>7. /\ g_running_task_num \in (-Lent)..ENC_MAX_THREAD_NUM
      /\ g_running_task_num < ENC_MAX_THREAD_NUM
      /\ Lent \in {0, 1} /\ Lent' = Lent
  BY <1>0, <1>6 DEF SlotInv, TypeOK, MayEnter, Lent
<1>8. g_running_task_num' \in (-Lent')..ENC_MAX_THREAD_NUM
  BY <1>6, <1>7, TasksAssumption
<1>9. TypeOK'
  BY <1>0, <1>5, <1>6, <1>8 DEF SlotInv, TypeOK
<1>10. \A u \in Threads : Admitted(u)' => u \in g_running_task_um'
  BY <1>5, <1>6 DEF SlotInv, Slots
<1>11. /\ Cardinality(g_running_task_um) \in Nat
       /\ Cardinality(g_running_task_um) <= g_running_task_num + Lent
       /\ Cardinality(g_running_task_um \cup {t}) =
             IF t \in g_running_task_um THEN Cardinality(g_running_task_um)
             ELSE Cardinality(g_running_task_um) + 1
  BY Counting DEF SlotInv, Slots, TypeOK
<1>12. Cardinality(g_running_task_um') <= g_running_task_num' + Lent'
  BY <1>6, <1>7, <1>11, TasksAssumption
<1>13. LowSlots'
  <2>1. CASE t \in LowAdmitted'
    <3>1. Prio(Top(t)) > ENC_HIGHEST_PRIORITY
      <4>1. Prio(Outer(t)') > ENC_HIGHEST_PRIORITY /\ Len(thread'[t].stack) = 1
        BY <2>1 DEF LowAdmitted
      <4>2. thread'[t].stack = thread[t].stack
        BY <1>5 DEF th
      <4>3. Outer(t)' = Top(t)
        BY <4>1, <4>2 DEF Outer, Top
      <4>. QED  BY <4>1, <4>3
    <3>2. ENC_MAX_THREAD_NUM - g_running_task_num > ENC_RESERVED_THREAD_NUM
      BY <1>6, <3>1 DEF MayEnter
    <3>3. LowAdmitted' \subseteq g_running_task_um'
      BY <1>10 DEF LowAdmitted
    <3>4. /\ Cardinality(LowAdmitted') <= Cardinality(g_running_task_um')
          /\ Cardinality(LowAdmitted') \in Nat
          /\ Cardinality(g_running_task_um') \in Nat
      <4>1. g_running_task_um' \subseteq Threads
        BY <1>9 DEF TypeOK
      <4>2. LowAdmitted' \subseteq Threads
        BY <3>3, <4>1
      <4>. QED  BY <3>3, <4>1, <4>2, Counting
    <3>5. g_running_task_num' <= g_running_task_num + 1
      BY <1>6, <1>7
    <3>6. Cardinality(LowAdmitted')
            <= ENC_MAX_THREAD_NUM + Lent' - ENC_RESERVED_THREAD_NUM
      BY <1>7, <1>8, <1>12, <3>2, <3>4, <3>5, TasksAssumption
    <3>7. ENC_MAX_THREAD_NUM + Lent' >= ENC_RESERVED_THREAD_NUM
      BY <1>7, <3>2, TasksAssumption
    <3>. QED  BY <3>6, <3>7 DEF LowSlots, Unreserved
  <2>2. CASE t \notin LowAdmitted'
    BY <1>0, <1>5, <2>2, LowSlotsShrink DEF SlotInv
  <2>. QED  BY <2>1, <2>2
<1>. QED  BY <1>5, <1>9, <1>10, <1>12, <1>13 DEF SlotInv, Slots

(***************************************************************************)
(* A slot is given back. The thread has an entry that goes with it, unless  *)
(* it is a restore that called back: then the number is one too low from    *)
(* here on.                                                                 *)
(***************************************************************************)
LEMMA FreedGood ==
    ASSUME SlotInv, NEW t \in Threads, Free(t)
    PROVE  /\ GoodThread(t, [stack |-> thread[t].stack, pc |-> "freed",
                             status |-> thread[t].status,
                             timeout |-> thread[t].timeout], network')
           /\ Onward(t)
           /\ network # "over" \/ network' = network
<1>. DEFINE s == thread[t].stack
            th == [stack |-> s, pc |-> "freed",
                   status |-> thread[t].status, timeout |-> thread[t].timeout]
<1>1. GoodThread(t, th, network)
  BY SameCall, ThreadFields DEF Pc, Free
<1>2. CASE network' = network
  BY <1>1, <1>2, SameNetwork
<1>3. CASE Top(t) = Restore /\ network # "none" /\ network' = "over"
  <2>1. s \in Seq(Tasks) /\ s # <<>>
    BY TopFacts DEF Free
  <2>2. Len(s) \in Nat /\ Len(s) >= 1 /\ Len(s) \in 1..Len(s)
    BY <2>1, PopProperties
  <2>3. Restore \in Calls[t] /\ network # "over"
    <3>1. s[Len(s)] = Restore
      BY <1>3 DEF Top
    <3>2. thread[t].pc # "freed"
      BY DEF Free
    <3>. QED  BY <2>2, <3>1, <3>2, ThreadFacts DEF GoodThread
  <2>4. ASSUME NEW i \in 1..Len(s), s[i] = Restore PROVE i = Len(s)
    <3>1. s[Len(s)] = Restore
      BY <1>3 DEF Top
    <3>2. i = 1 /\ Len(s) = 1
      BY <2>2, <2>4, <3>1, ThreadFacts DEF GoodThread
    <3>. QED  BY <3>2
  <2>5. GoodThread(t, th, network')
    <3>1. th.stack = s /\ th.pc = "freed"
      OBVIOUS
    <3>. HIDE DEF th
    <3>. QED  BY <1>1, <1>3, <2>3, <2>4, <3>1 DEF GoodThread, NestedAt
  <2>6. ASSUME NEW u \in Threads \ {t}
        PROVE  GoodThread(u, thread[u], network')
    <3>1. \A i \in 1..Len(thread[u].stack) : thread[u].stack[i] # Restore
      BY <2>3, OneRestorer, ThreadFacts DEF GoodThread, Restore
    <3>. QED  BY <1>3, <3>1, ThreadFacts DEF GoodThread, NestedAt
  <2>. QED  BY <1>3, <2>3, <2>5, <2>6 DEF Onward
<1>. QED  BY <1>2, <1>3 DEF Free, Restore

LEMMA FreeKeeps ==
    ASSUME SlotInv, NEW t \in Threads, Free(t)
    PROVE  SlotInv'
<1>. DEFINE th == [stack |-> thread[t].stack, pc |-> "freed",
                   status |-> thread[t].status, timeout |-> thread[t].timeout]
<1>1. thread[t] \in ThreadState
  BY DEF SlotInv, TypeOK
<1>2. [thread[t] EXCEPT !.pc = "freed"] = th
  BY <1>1 DEF ThreadState
<1>3. thread' = [thread EXCEPT ![t] = th]
  BY <1>2 DEF Free
<1>4. GoodThread(t, th, network') /\ Onward(t)
      /\ (network # "over" \/ network' = network)
  BY FreedGood
<1>5. /\ thread' \in [Threads -> ThreadState] /\ thread'[t] = th /\ Shape'
      /\ \A u \in Threads \ {t} : Admitted(u)' => Admitted(u)
      /\ LowAdmitted' \ {t} \subseteq LowAdmitted
  BY <1>3, <1>4, OneThread
<1>6. ~Admitted(t)' /\ t \notin LowAdmitted'
  BY <1>5 DEF Admitted, LowAdmitted
<1>. HIDE DEF th
<1>7. /\ g_running_task_um' = g_running_task_um \ {t}
      /\ g_running_task_num' = g_running_task_num - 1
      /\ UNCHANGED <<g_waiting_task_sum_v, g_invoked_ecalls_um, races>>
  BY DEF Free
<1>8. t \in g_running_task_um \/ Lent' = Lent + 1
  <2>1. CASE Nested(Top(t))
    <3>1. Top(t) = Restore /\ network # "none" /\ network' = "over"
      BY <2>1 DEF Free, Nested, Restore
    <3>2. network # "over"
      <4>. DEFINE s == thread[t].stack
      <4>1. Len(s) \in 1..Len(s)
        BY TopFacts, PopProperties DEF Free
      <4>2. s[Len(s)] = Restore /\ thread[t].pc # "freed"
        BY <3>1 DEF Top, Free
      <4>. QED  BY <4>1, <4>2, ThreadFacts DEF GoodThread
    <3>. QED  BY <3>1, <3>2 DEF Lent
  <2>2. CASE ~Nested(Top(t))
    BY <2>2 DEF Free, SlotInv, Slots, Admitted
  <2>. QED  BY <2>1, <2>2
<1>9. /\ Lent \in {0, 1} /\ Lent' \in {0, 1} /\ Lent <= Lent'
      /\ network = "over" => network' = "over"
      /\ network' \in {"none", "over"} \cup Callbacks(Restore)
  BY <1>4 DEF Lent, Onward
<1>10. /\ Cardinality(g_running_task_um) \in Nat
       /\ Cardinality(g_running_task_um) <= g_running_task_num + Lent
       /\ Cardinality(g_running_task_um \ {t}) =
             IF t \in g_running_task_um THEN Cardinality(g_running_task_um) - 1
             ELSE Cardinality(g_running_task_um)
       /\ Cardinality(g_running_task_um \ {t}) \in Nat
       /\ g_running_task_num \in (-Lent)..ENC_MAX_THREAD_NUM
  <2>1. g_running_task_um \subseteq Threads
        /\ g_running_task_um \ {t} \subseteq Threads
    BY DEF SlotInv, TypeOK
  <2>2. Cardinality(g_running_task_um) <= g_running_task_num + Lent
        /\ g_running_task_num \in (-Lent)..ENC_MAX_THREAD_NUM
    BY DEF SlotInv, Slots, TypeOK
  <2>. QED  BY <2>1, <2>2, Counting
<1>11. /\ g_running_task_num' \in (-Lent')..ENC_MAX_THREAD_NUM
       /\ Cardinality(g_running_task_um') <= g_running_task_num' + Lent'
  <2>. DEFINE n == g_running_task_num
              max == ENC_MAX_THREAD_NUM
              a == Lent
              b == Lent'
              c == Cardinality(g_running_task_um)
              d == Cardinality(g_running_task_um \ {t})
  <2>1. /\ n \in (-a)..max /\ max \in Nat /\ a \in Nat /\ b \in Nat
        /\ a <= b /\ c \in Nat /\ d \in Nat /\ c <= n + a
        /\ d = c - 1 \/ (d = c /\ b = a + 1)
    BY <1>8, <1>9, <1>10, TasksAssumption
  <2>2. /\ g_running_task_num' = n - 1
        /\ Cardinality(g_running_task_um') = d
    BY <1>7
  <2>. HIDE DEF n, max, a, b, c, d
  <2>3. n - 1 \in (-b)..max /\ d <= n - 1 + b
    BY <2>1
  <2>. QED  BY <2>2, <2>3 DEF max, b
<1>12. TypeOK'
  BY <1>5, <1>7, <1>9, <1>11 DEF SlotInv, TypeOK, Restore
<1>13. \A u \in Threads : Admitted(u)' => u \in g_running_task_um'
  BY <1>5, <1>6, <1>7 DEF SlotInv, Slots
<1>14. LowSlots'
  BY <1>5, <1>6, <1>9, LowSlotsShrink DEF SlotInv
<1>. QED  BY <1>5, <1>11, <1>12, <1>13, <1>14 DEF SlotInv, Slots

LEMMA InitSlots == Init => SlotInv
<1>. SUFFICES ASSUME Init PROVE SlotInv
  OBVIOUS
<1>1. \A t \in Threads : /\ thread[t] = ThreadAt(<<>>, "idle")
                         /\ thread[t].stack = <<>> /\ thread[t].pc = "idle"
  BY DEF Init, ThreadAt
<1>2. ThreadAt(<<>>, "idle") \in ThreadState
  BY DEF ThreadAt, ThreadState, Pc
<1>3. thread \in [Threads -> ThreadState]
  BY <1>2 DEF Init
<1>0. network = "none" /\ Lent = 0
  BY DEF Init, Lent
<1>4. TypeOK
  BY <1>0, <1>3, TasksAssumption DEF Init, TypeOK
<1>5. Shape
  BY <1>1 DEF Shape
<1>6. \A t \in Threads : ~Admitted(t)
  BY <1>1 DEF Admitted
<1>7. LowAdmitted = {} /\ g_running_task_um = {}
  BY <1>6 DEF LowAdmitted, Init
<1>8. Cardinality({}) = 0
  BY FS_EmptySet
<1>9. Slots
  BY <1>0, <1>6, <1>7, <1>8 DEF Slots, Init
<1>10. LowSlots
  BY <1>0, <1>7, <1>8, TasksAssumption DEF LowSlots, Unreserved
<1>. QED  BY <1>4, <1>5, <1>9, <1>10 DEF SlotInv

(***************************************************************************)
(* What try_get_enclave and free_enclave know of the slots stays true: a    *)
(* thread that was admitted has an entry, the running number covers the     *)
(* entries (all but one, after a restore from an upgrade) and stays within  *)
(* its limit, although block checks, timeouts and nested calls leave        *)
(* entries behind, take them away early, or lose updates of the other       *)
(* counters.                                                                *)
(***************************************************************************)
THEOREM SlotsKept == Spec => []SlotInv
<1>1. ASSUME SlotInv, [Next]_vars PROVE SlotInv'
  <2>1. CASE UNCHANGED vars
    BY <1>1, <2>1 DEF vars, SlotInv, TypeOK, Shape, Slots, LowSlots,
                      LowAdmitted, Admitted, Top, Outer, Nested, Lent,
                      Unreserved
  <2>2. CASE Next
    <3>1. PICK t \in Threads : (\E task \in Tasks : Invoke(t, task)) \/ Step(t)
      BY <2>2 DEF Next
    <3>2. CASE \E task \in Tasks : Invoke(t, task)
      BY <1>1, <3>2, InvokeKeeps
    <3>3. CASE BlockCheck(t) \/ NotAcquired(t)
      BY <1>1, <3>3, CheckKeeps
    <3>4. CASE Acquire(t)
      BY <1>1, <3>4, AcquireKeeps
    <3>5. CASE Loop(t)
      BY <1>1, <3>5, LoopKeeps
    <3>6. CASE Leave(t)
      BY <1>1, <3>6, LeaveKeeps
    <3>7. CASE Free(t)
      BY <1>1, <3>7, FreeKeeps
    <3>8. CASE FreeInvoked(t)
      BY <1>1, <3>8, FreeInvokedKeeps
    <3>. QED  BY <3>1, <3>2, <3>3, <3>4, <3>5, <3>6, <3>7, <3>8 DEF Step
  <2>. QED  BY <1>1, <2>1, <2>2
<1>. QED  BY <1>1, InitSlots, PTL DEF Spec

\* A thread in the enclave that does not call back out of it was admitted.
LEMMA InsideAdmitted ==
    ASSUME SlotInv, NEW t \in Inside \ Nesting
    PROVE  /\ t \in Threads /\ t \in g_running_task_um
           /\ Len(thread[t].stack) = 1 /\ Admitted(t)
<1>1. t \in Threads /\ thread[t].stack # <<>>
  <2>1. thread[t].pc = "in" => thread[t].stack # <<>>
    BY DEF Inside, SlotInv, Shape
  <2>2. Len(thread[t].stack) > 1 => thread[t].stack # <<>>
    BY EmptySeq
  <2>. QED  BY <2>1, <2>2 DEF Inside
<1>2. Outer(t) \notin CallsBack
  BY WhoCallsBack DEF Nesting
<1>3. Len(thread[t].stack) = 1 /\ Top(t) = Outer(t)
  BY <1>1, <1>2, OuterIsTop DEF SlotInv
<1>4. thread[t].pc = "in"
  <2>. DEFINE n == Len(thread[t].stack)
  <2>1. n = 1 /\ (thread[t].pc = "in" \/ n > 1)
    BY <1>3 DEF Inside
  <2>. HIDE DEF n
  <2>. QED  BY <2>1
<1>5. Admitted(t)
  BY <1>2, <1>3, <1>4 DEF Admitted, Nested, CallsBack
<1>. QED  BY <1>1, <1>3, <1>5 DEF SlotInv, Slots

(***************************************************************************)
(* The enclave's slots are never overbooked by try_get_enclave, except for  *)
(* the main loop's, which its nested calls free, and one that a restore     *)
(* from an upgrade frees twice.                                             *)
(***************************************************************************)
THEOREM CapacityKept == Spec => []WithinCapacity
<1>1. ASSUME SlotInv PROVE WithinCapacity
  <2>1. Inside \ Nesting \subseteq g_running_task_um
    BY <1>1, InsideAdmitted
  <2>2. /\ Cardinality(Inside \ Nesting) <= Cardinality(g_running_task_um)
        /\ Cardinality(g_running_task_um) \in Nat
        /\ Cardinality(Inside \ Nesting) \in Nat
    <3>1. g_running_task_um \subseteq Threads
      BY <1>1 DEF SlotInv, TypeOK
    <3>2. Inside \ Nesting \subseteq Threads
      BY DEF Inside
    <3>. QED  BY <2>1, <3>1, <3>2, Counting
  <2>3. /\ Cardinality(g_running_task_um) <= g_running_task_num + Lent
        /\ g_running_task_num \in (-Lent)..ENC_MAX_THREAD_NUM
        /\ Lent \in {0, 1}
    BY <1>1 DEF SlotInv, Slots, TypeOK, Lent
  <2>. QED  BY <2>2, <2>3, TasksAssumption DEF WithinCapacity
<1>. QED  BY <1>1, SlotsKept, PTL

(***************************************************************************)
(* Tasks below the highest priority leave the reserve of try_get_enclave to *)
(* those of the highest, but for the slot that a restore leaves uncounted.  *)
(***************************************************************************)
THEOREM ReserveIsKept == Spec => []ReserveKept
<1>1. ASSUME SlotInv PROVE ReserveKept
  <2>1. LowInside \subseteq LowAdmitted
    BY <1>1, InsideAdmitted DEF LowInside, LowAdmitted
  <2>2. LowAdmitted \subseteq Threads
    BY DEF LowAdmitted
  <2>3. LowInside \subseteq Threads
    BY <2>1, <2>2
  <2>4. /\ Cardinality(LowInside) <= Cardinality(LowAdmitted)
        /\ Cardinality(LowInside) \in Nat /\ Cardinality(LowAdmitted) \in Nat
    BY <2>1, <2>2, <2>3, Counting
  <2>5. Unreserved \in Nat
    BY TasksAssumption DEF Unreserved, Lent
  <2>. QED  BY <1>1, <2>4, <2>5 DEF SlotInv, LowSlots, ReserveKept
<1>. QED  BY <1>1, SlotsKept, PTL

(***************************************************************************)
(* What the upgrade sees of the calls in progress. While no update is lost, *)
(* the invoked count of an ecall that calls nothing back is the number of   *)
(* threads that are in a wrapper of it.                                     *)
(***************************************************************************)
Callers(task) ==
    {t \in Threads : thread[t].stack # <<>> /\ Top(t) = task}
InvokedExact ==
    races = 0 => \A task \in Tasks \ CallsBack :
                     g_invoked_ecalls_um[task] = Cardinality(Callers(task))

\* The ecalls an upgrade waits for call nothing back.
LEMMA UpgradeTasksReturn == UpgradeBlockTasks \subseteq Tasks \ CallsBack
<1>1. {"seal_file", "unseal_file", "srd_decrease"} \subseteq TasksOf(1)
  BY DEF TasksOf
<1>2. "srd_increase" \in TasksOf(2)
  BY DEF TasksOf
<1>3. {"confirm_file", "delete_file"} \subseteq TasksOf(0)
  BY DEF TasksOf
<1>4. TasksOf(0) \cup TasksOf(1) \cup TasksOf(2) \subseteq Tasks
  BY DEF Tasks, Prios
<1>. QED  BY <1>1, <1>2, <1>3, <1>4 DEF UpgradeBlockTasks, CallsBack, Permanent

\* A count that is not lost.
LEMMA CountExact ==
    ASSUME SlotInv, NEW t, NEW p, NEW d, NEW task, NEW e,
           Count(t, p, d, task, e), races' = 0
    PROVE  /\ races = 0
           /\ g_invoked_ecalls_um' =
                [g_invoked_ecalls_um EXCEPT ![task] = @ + e]
<1>1. races \in Nat
  BY CounterTypes
<1>2. races' # races + 1
  BY <1>1
<1>. QED  BY <1>2 DEF Count

LEMMA CallersCounted ==
    ASSUME NEW task
    PROVE  /\ Callers(task) \subseteq Threads
           /\ Cardinality(Callers(task)) \in Nat
<1>1. Callers(task) \subseteq Threads
  BY DEF Callers
<1>. QED  BY <1>1, Counting

\* A step within a call.
LEMMA SameCallers ==
    ASSUME InvokedExact, races' = races,
           g_invoked_ecalls_um' = g_invoked_ecalls_um,
           \A t \in Threads : thread'[t].stack = thread[t].stack
    PROVE  InvokedExact'
<1>1. ASSUME NEW task PROVE Callers(task)' = Callers(task)
  BY DEF Callers, Top
<1>. QED  BY <1>1 DEF InvokedExact

\* A step of t that changes its stack.
LEMMA OtherCallers ==
    ASSUME SlotInv, NEW t \in Threads, NEW th,
           thread' = [thread EXCEPT ![t] = th], NEW task
    PROVE  /\ Callers(task)' \ {t} = Callers(task) \ {t}
           /\ t \in Callers(task)' <=>
                 th.stack # <<>> /\ th.stack[Len(th.stack)] = task
<1>1. thread \in [Threads -> ThreadState] /\ thread'[t] = th
  BY DEF SlotInv, TypeOK
<1>2. \A u \in Threads \ {t} : thread'[u] = thread[u]
  BY <1>1
<1>. QED  BY <1>1, <1>2 DEF Callers, Top

\* A call leaves only calls below it that call back.
LEMMA BelowCall ==
    ASSUME SlotInv, NEW t \in Threads, NEW task \in Tasks, Invoke(t, task),
           NEW x \in Tasks \ CallsBack
    PROVE  t \notin Callers(x)
<1>1. CASE FromOutside(t, task)
  BY <1>1 DEF FromOutside, Callers, SlotInv, Shape
<1>2. CASE FromMainLoop(t, task) \/ FromRestore(t, task)
  <2>1. Top(t) \in CallsBack
    BY <1>2, CallbackTasks
  <2>. QED  BY <2>1 DEF Callers
<1>. QED  BY <1>1, <1>2 DEF Invoke

LEMMA InvokeCounts ==
    ASSUME SlotInv, InvokedExact, NEW t \in Threads, NEW task \in Tasks,
           Invoke(t, task)
    PROVE  InvokedExact'
<1>. SUFFICES ASSUME races' = 0, NEW x \in Tasks \ CallsBack
              PROVE  g_invoked_ecalls_um'[x] = Cardinality(Callers(x)')
  BY DEF InvokedExact
<1>. DEFINE s == thread[t].stack
            th == ThreadAt(Append(s, task), "check")
<1>1. /\ thread' = [thread EXCEPT ![t] = th]
      /\ Count(t, Prio(task), 1, task, 1)
  BY DEF Invoke
<1>2. /\ races = 0
      /\ g_invoked_ecalls_um' = [g_invoked_ecalls_um EXCEPT ![task] = @ + 1]
  BY <1>1, CountExact
<1>3. g_invoked_ecalls_um \in [Tasks -> Int]
  BY CounterTypes
<1>4. s \in Seq(Tasks)
  BY DEF SlotInv, TypeOK, ThreadState
<1>5. th.stack # <<>> /\ th.stack[Len(th.stack)] = task
  BY <1>4, PushProperties DEF ThreadAt
<1>. HIDE DEF th
<1>8. /\ Callers(x)' \ {t} = Callers(x) \ {t}
      /\ t \in Callers(x)' <=> x = task
  BY <1>1, <1>5, OtherCallers
<1>9. t \notin Callers(x)
  BY BelowCall
<1>10. /\ Callers(x) \subseteq Threads
       /\ g_invoked_ecalls_um[x] = Cardinality(Callers(x))
  BY <1>2, CallersCounted DEF InvokedExact
<1>11. CASE x = task
  <2>1. Callers(x)' = Callers(x) \cup {t}
    BY <1>8, <1>9, <1>11
  <2>2. Cardinality(Callers(x) \cup {t}) = Cardinality(Callers(x)) + 1
    BY <1>9, <1>10, Counting
  <2>. QED  BY <1>2, <1>3, <1>10, <1>11, <2>1, <2>2
<1>12. CASE x # task
  <2>1. Callers(x)' = Callers(x)
    BY <1>8, <1>9, <1>12
  <2>. QED  BY <1>2, <1>3, <1>10, <1>12, <2>1
<1>. QED  BY <1>11, <1>12

\* A wrapper that returns takes its count with it.
LEMMA ReturnCounts ==
    ASSUME SlotInv, InvokedExact, NEW t \in Threads, thread[t].pc # "idle",
           thread' = [thread EXCEPT ![t] = Returned(t)],
           NEW p, NEW d, Count(t, p, d, Top(t), -1)
    PROVE  InvokedExact'
<1>. SUFFICES ASSUME races' = 0, NEW x \in Tasks \ CallsBack
              PROVE  g_invoked_ecalls_um'[x] = Cardinality(Callers(x)')
  BY DEF InvokedExact
<1>1. /\ GoodThread(t, Returned(t), network)
      /\ Returned(t).pc \in {"idle", "in"}
      /\ Returned(t).pc = "in" =>
            Returned(t).stack[Len(Returned(t).stack)] \in CallsBack
  BY ReturnedGood DEF Nested, CallsBack
<1>2. /\ races = 0
      /\ g_invoked_ecalls_um' = [g_invoked_ecalls_um EXCEPT ![Top(t)] = @ + (-1)]
  BY CountExact
<1>3. g_invoked_ecalls_um \in [Tasks -> Int]
  BY CounterTypes
<1>4. Top(t) \in Tasks /\ thread[t].stack # <<>>
  BY TopFacts
<1>5. /\ Callers(x)' \ {t} = Callers(x) \ {t}
      /\ t \in Callers(x)' <=>
            /\ Returned(t).stack # <<>>
            /\ Returned(t).stack[Len(Returned(t).stack)] = x
  BY <1>1, OtherCallers
<1>6. t \notin Callers(x)'
  BY <1>1, <1>5 DEF GoodThread
<1>7. t \in Callers(x) <=> x = Top(t)
  BY <1>4 DEF Callers
<1>8. /\ Callers(x) \subseteq Threads /\ Cardinality(Callers(x)) \in Nat
      /\ g_invoked_ecalls_um[x] = Cardinality(Callers(x))
  BY <1>2, CallersCounted DEF InvokedExact
<1>9. CASE x = Top(t)
  <2>1. Callers(x)' = Callers(x) \ {t}
    BY <1>5, <1>6
  <2>2. Cardinality(Callers(x) \ {t}) = Cardinality(Callers(x)) - 1
    BY <1>7, <1>8, <1>9, Counting
  <2>3. g_invoked_ecalls_um'[x] = g_invoked_ecalls_um[x] + (-1)
    BY <1>2, <1>3, <1>9
  <2>. QED  BY <1>8, <2>1, <2>2, <2>3
<1>10. CASE x # Top(t)
  <2>0. t \notin Callers(x)
    BY <1>7, <1>10
  <2>1. Callers(x)' = Callers(x)
    <3>1. ASSUME NEW u PROVE u \in Callers(x)' <=> u \in Callers(x)
      <4>1. CASE u = t
        BY <1>6, <2>0, <4>1
      <4>2. CASE u # t
        BY <1>5, <4>2
      <4>. QED  BY <4>1, <4>2
    <3>. QED  BY <3>1
  <2>. QED  BY <1>2, <1>3, <1>8, <1>10, <2>1
<1>. QED  BY <1>9, <1>10

LEMMA LeaveCounts ==
    ASSUME SlotInv, InvokedExact, NEW t \in Threads, Leave(t)
    PROVE  InvokedExact'
<1>1. /\ thread[t].pc = "out"
      /\ Count(t, Prio(Top(t)), -1, Top(t), InvokedChange(t))
  BY DEF Leave
<1>2. CASE thread[t].status = "ok"
  <2>. SUFFICES ASSUME races' = 0, NEW x \in Tasks \ CallsBack
                PROVE  g_invoked_ecalls_um'[x] = Cardinality(Callers(x)')
    BY DEF InvokedExact
  <2>1. InvokedChange(t) = 0
    BY <1>2 DEF InvokedChange
  <2>2. /\ races = 0
        /\ g_invoked_ecalls_um' = [g_invoked_ecalls_um EXCEPT ![Top(t)] = @ + 0]
    BY <1>1, <2>1, CountExact
  <2>3. g_invoked_ecalls_um'[x] = g_invoked_ecalls_um[x]
    BY <2>2, CounterTypes
  <2>4. \A u \in Threads : thread'[u].stack = thread[u].stack
    BY <1>2 DEF Leave, SlotInv, TypeOK, ThreadState
  <2>5. Callers(x)' = Callers(x)
    BY <2>4 DEF Callers, Top
  <2>. QED  BY <2>2, <2>3, <2>5 DEF InvokedExact
<1>3. CASE thread[t].status # "ok"
  <2>1. InvokedChange(t) = -1 /\ thread' = [thread EXCEPT ![t] = Returned(t)]
    BY <1>3 DEF InvokedChange, Leave
  <2>. QED  BY <1>1, <2>1, ReturnCounts
<1>. QED  BY <1>2, <1>3

\* The other steps stay within a call.
LEMMA WithinCounts ==
    ASSUME SlotInv, InvokedExact, NEW t \in Threads,
           \/ BlockCheck(t) \/ NotAcquired(t) \/ Acquire(t) \/ Loop(t)
           \/ Free(t)
    PROVE  InvokedExact'
<1>1. thread \in [Threads -> ThreadState]
  BY DEF SlotInv, TypeOK
<1>2. \A u \in Threads : thread'[u].stack = thread[u].stack
  <2>1. CASE BlockCheck(t)
    <3>1. CASE thread' = [thread EXCEPT ![t].pc = "loop",
                                        ![t].status = "busy"]
      BY <1>1, <3>1 DEF ThreadState
    <3>2. CASE thread' = [thread EXCEPT ![t].pc = "acquire"]
      BY <1>1, <3>2 DEF ThreadState
    <3>. QED  BY <2>1, <3>1, <3>2 DEF BlockCheck
  <2>2. CASE NotAcquired(t)
    BY <1>1, <2>2 DEF NotAcquired, ThreadState
  <2>3. CASE Acquire(t)
    BY <1>1, <2>3 DEF Acquire, ThreadState
  <2>4. CASE Loop(t)
    <3>1. CASE thread' = [thread EXCEPT ![t].pc = "out",
                                        ![t].status = "timeout"]
      BY <1>1, <3>1 DEF ThreadState
    <3>2. CASE thread' = [thread EXCEPT ![t].pc = "check",
                                        ![t].timeout = Patience(t)]
      BY <1>1, <3>2 DEF ThreadState
    <3>. QED  BY <2>4, <3>1, <3>2 DEF Loop
  <2>5. CASE Free(t)
    BY <1>1, <2>5 DEF Free, ThreadState
  <2>. QED  BY <2>1, <2>2, <2>3, <2>4, <2>5
<1>3. UNCHANGED <<races, g_invoked_ecalls_um>>
  BY DEF BlockCheck, NotAcquired, Acquire, Loop, Free
<1>. QED  BY <1>2, <1>3, SameCallers

\* The upgrade goes on only over calls that it does not wait for.
LEMMA ExactSees ==
    ASSUME SlotInv, InvokedExact PROVE UpgradeSeesCalls
<1>. SUFFICES ASSUME races = 0, UpgradeMayGoOn, NEW t \in Threads,
                     NEW i \in 1..Len(thread[t].stack),
                     thread[t].stack[i] \in UpgradeBlockTasks
              PROVE  FALSE
  BY DEF UpgradeSeesCalls
<1>. DEFINE s == thread[t].stack
            task == s[i]
<1>1. task \in Tasks \ CallsBack
  BY UpgradeTasksReturn
<1>2. s \in Seq(Tasks)
  BY DEF SlotInv, TypeOK, ThreadState
<1>3. s # <<>> /\ Len(s) \in Nat
  BY <1>2, LenProperties, EmptySeq
<1>4. i \notin 1..(Len(s) - 1)
  BY <1>1 DEF SlotInv, Shape, Nested, CallsBack
<1>5. i = Len(s)
  <2>. DEFINE n == Len(s)
  <2>1. n \in Nat /\ i \in 1..n /\ i \notin 1..(n - 1)
    BY <1>3, <1>4
  <2>. HIDE DEF n
  <2>2. i = n
    BY <2>1
  <2>. QED  BY <2>2 DEF n
<1>6. t \in Callers(task)
  BY <1>3, <1>5 DEF Callers, Top
<1>7. g_invoked_ecalls_um[task] = Cardinality(Callers(task))
  BY <1>1 DEF InvokedExact
<1>8. g_invoked_ecalls_um[task] <= 0
  BY DEF UpgradeMayGoOn
<1>9. /\ Callers(task) \subseteq Threads
      /\ Cardinality(Callers(task)) \in Nat
  BY CallersCounted
<1>10. /\ Cardinality(Callers(task) \ {t}) = Cardinality(Callers(task)) - 1
       /\ Cardinality(Callers(task) \ {t}) \in Nat
  <2>1. Callers(task) \ {t} \subseteq Threads
    BY <1>9
  <2>. QED  BY <1>6, <1>9, <2>1, Counting
<1>. HIDE DEF task
<1>. QED  BY <1>7, <1>8, <1>9, <1>10

(***************************************************************************)
(* get_upgrade_ecalls_num does not miss a call: one that waits, that is in  *)
(* the enclave or that is about to give up is still counted, unless an      *)
(* unsynchronised update of the counter was lost.                           *)
(***************************************************************************)
THEOREM UpgradeWaitsForCalls == Spec => []UpgradeSeesCalls
<1>1. Init => InvokedExact
  <2>. SUFFICES ASSUME Init, NEW x \in Tasks
                PROVE  g_invoked_ecalls_um[x] = Cardinality(Callers(x))
    BY DEF InvokedExact
  <2>1. Callers(x) = {}
    BY DEF Callers, Init, ThreadAt
  <2>. QED  BY <2>1, FS_EmptySet DEF Init
<1>2. ASSUME SlotInv, InvokedExact, [Next]_vars PROVE InvokedExact'
  <2>1. CASE UNCHANGED vars
    BY <1>2, <2>1, SameCallers DEF vars
  <2>2. CASE Next
    <3>1. PICK t \in Threads : (\E task \in Tasks : Invoke(t, task)) \/ Step(t)
      BY <2>2 DEF Next
    <3>2. CASE \E task \in Tasks : Invoke(t, task)
      BY <1>2, <3>2, InvokeCounts
    <3>3. CASE \/ BlockCheck(t) \/ NotAcquired(t) \/ Acquire(t) \/ Loop(t)
               \/ Free(t)
      BY <1>2, <3>3, WithinCounts
    <3>4. CASE Leave(t)
      BY <1>2, <3>4, LeaveCounts
    <3>5. CASE FreeInvoked(t)
      BY <1>2, <3>5, ReturnCounts DEF FreeInvoked
    <3>. QED  BY <3>1, <3>2, <3>3, <3>4, <3>5 DEF Step
  <2>. QED  BY <1>2, <2>1, <2>2
<1>3. SlotInv /\ InvokedExact => UpgradeSeesCalls
  BY ExactSees
<1>. QED  BY <1>1, <1>2, <1>3, SlotsKept, PTL DEF Spec
=============================================================================
