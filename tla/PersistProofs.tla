---------------------------- MODULE PersistProofs ----------------------------
(***************************************************************************)
(* Proofs about Persist, for any values of any sizes, any threshold, and    *)
(* any number of sets, failed writes and deaths of the worker.              *)
(***************************************************************************)
EXTENDS Persist, TLAPS

\* What a set that is under way has done so far, unless it ignored a failure:
\* a record that completes a value is written when everything before it was.
\* A sealed set of a large value ignores none.
JobInv ==
    /\ job.pc # "idle" => target \in Values /\ last = "unknown"
    /\ job.pc \in {"part", "putsum"} =>
           Large(target) /\ job.num = PieceNum(target)
    /\ job.pc \in {"part", "putsum"} /\ ~ignored =>
           \A i \in 0..(job.index - 1) : part[i] = target
    /\ job.pc \in {"part", "putsum"} /\ kind = "sealed" => ~ignored
    /\ job.pc = "putsum" => job.index = job.num
    /\ job.pc \in {"readsum", "delpart", "delsum", "putkey"} =>
           ~Large(target)
    /\ job.pc = "readsum" => job.index = 0
    /\ job.pc \in {"delpart", "delsum"} => sum # None
    /\ job.pc = "delpart" => job.num = sum.num
    /\ job.pc = "putkey" /\ ~ignored => sum = None

\* The records of the value that was last set with success.
LastInv ==
    last \in Values /\ ~ignored =>
        IF Large(last)
        THEN /\ sum = Sum(last)
             /\ \A i \in 0..(PieceNum(last) - 1) : part[i] = last
        ELSE sum = None /\ key = last

\* A small value that replaced no pieces left none.
SmallInv ==
    target \in Values /\ ~Large(target) /\ ~was.pieces => sum = None

PInv == TypeOK /\ JobInv /\ LastInv /\ SmallInv

\* Every value has a piece, and the indexes of its pieces are indexes.
LEMMA Pieces ==
    ASSUME NEW v \in Values
    PROVE  /\ PieceNum(v) \in Nat /\ PieceNum(v) >= 1
           /\ \A i \in 0..(PieceNum(v) - 1) : i \in Index
<1>1. /\ OCALL_STORE_THRESHOLD \in Nat /\ OCALL_STORE_THRESHOLD >= 1
      /\ Size[v] \in Nat /\ Size[v] >= 1
  BY PersistAssumption
<1>2. \A s, t \in Nat : s >= 1 /\ t >= 1 =>
          (s + t - 1) \div t \in Nat /\ (s + t - 1) \div t >= 1
  OBVIOUS
<1>3. PieceNum(v) \in Nat /\ PieceNum(v) >= 1
  BY <1>1, <1>2 DEF PieceNum
<1>. QED  BY <1>3 DEF Index

\* The sum of a large value is the sum of one.
LEMMA Sums ==
    ASSUME NEW s, s \in {None} \cup {Sum(v) : v \in {w \in Values : Large(w)}},
           s # None
    PROVE  /\ \E v \in Values : Large(v) /\ s = Sum(v)
           /\ s.num \in Nat /\ s.num >= 1
           /\ \A i \in 0..(s.num - 1) : i \in Index
<1>1. PICK v \in Values : Large(v) /\ s = Sum(v)
  OBVIOUS
<1>. QED  BY <1>1, Pieces DEF Sum

\* What a reader gets when the records are those of value v.
LEMMA WholeIsRead ==
    ASSUME NEW v \in Values,
           IF Large(v)
           THEN sum = Sum(v) /\ \A i \in 0..(PieceNum(v) - 1) : part[i] = v
           ELSE sum = None /\ key = v
    PROVE  PersistGet = v /\ PersistGetUnsafe = v
<1>1. v # None
  BY PersistAssumption
<1>2. CASE ~Large(v)
  BY <1>1, <1>2 DEF PersistGet, PersistGetUnsafe
<1>3. CASE Large(v)
  <2>1. /\ sum = Sum(v) /\ sum # None
        /\ sum.num = PieceNum(v) /\ sum.size = Size[v]
    BY <1>3, PersistAssumption DEF Sum
  <2>2. /\ PieceNum(v) \in Nat /\ PieceNum(v) >= 1
        /\ \A i \in 0..(PieceNum(v) - 1) : part[i] = v
    BY <1>3, Pieces
  <2>3. part[0] = v /\ part[sum.num - 1] = v
    BY <2>1, <2>2
  <2>4. Size[v] >= Size[v]
    BY PersistAssumption
  <2>5. PersistGet = v
    BY <2>1, <2>2, <2>3, <2>4 DEF PersistGet, Unseal
  <2>6. PersistGetUnsafe = v
    BY <1>1, <2>1, <2>2, <2>3 DEF PersistGetUnsafe
  <2>. QED  BY <2>5, <2>6
<1>. QED  BY <1>2, <1>3

LEMMA InitPInv == Init => PInv
<1>. SUFFICES ASSUME Init PROVE PInv
  OBVIOUS
<1>. USE PersistAssumption DEF Init, Idle
<1>1. job.pc = "idle" /\ job.index = 0 /\ job.num = 0
  OBVIOUS
<1>2. TypeOK
  BY <1>1 DEF TypeOK, Record, Readable
<1>3. JobInv
  BY <1>1 DEF JobInv
<1>4. LastInv
  BY DEF LastInv
<1>5. SmallInv
  BY DEF SmallInv
<1>. QED  BY <1>2, <1>3, <1>4, <1>5 DEF PInv

\* What Get may return.
LEMMA GetReadable ==
    ASSUME TypeOK
    PROVE  Get \in Readable
<1>1. CASE sum = None
  BY <1>1 DEF TypeOK, Get, PersistGet, PersistGetUnsafe, Readable, Record
<1>2. CASE sum # None
  <2>1. sum.num \in Nat /\ sum.num >= 1 /\ 0 \in Index
    BY <1>2, Sums DEF TypeOK
  <2>2. Unseal(sum) \in Readable
    BY <2>1 DEF Unseal, Readable
  <2>3. PersistGetUnsafe \in Readable
    BY <1>2, <2>1 DEF PersistGetUnsafe, Readable
  <2>. QED  BY <1>2, <2>2, <2>3 DEF Get, PersistGet
<1>. QED  BY <1>1, <1>2

\* One step per action.
LEMMA NextPInv ==
    ASSUME PInv, [Next]_vars
    PROVE  PInv'
<1>. USE DEF PInv
<1>t. /\ kind \in {"sealed", "unsafe"} /\ key \in Record
      /\ part \in [Index -> Record] /\ ignored \in BOOLEAN
      /\ job \in [pc : {"idle", "part", "putsum", "readsum", "delpart",
                        "delsum", "putkey"}, index : Nat, num : Nat]
      /\ target \in Record
      /\ job.index \in Nat /\ job.num \in Nat
  BY DEF TypeOK
<1>1. ASSUME NEW v \in Values, Set(v) PROVE PInv'
  <2>1. /\ job.pc = "idle" /\ target' = v /\ last' = "unknown"
        /\ job' = [pc |-> IF Large(v) THEN "part" ELSE "readsum",
                   index |-> 0, num |-> PieceNum(v)]
        /\ was' = [value |-> Get, pieces |-> sum # None]
        /\ ignored' = FALSE /\ UNCHANGED <<kind, key, sum, part>>
    BY <1>1 DEF Set
  <2>2. /\ PieceNum(v) \in Nat /\ PieceNum(v) >= 1
        /\ \A i \in 0..(PieceNum(v) - 1) : i \in Index
    BY Pieces
  <2>3. /\ job'.pc = IF Large(v) THEN "part" ELSE "readsum"
        /\ job'.index = 0 /\ job'.num = PieceNum(v)
        /\ 0 \in Index
    BY <2>1, <2>2
  <2>4. was'.pieces = (sum # None) /\ was' \in [value : Readable,
                                               pieces : BOOLEAN]
    BY <2>1, GetReadable
  <2>5. TypeOK'
    <3>1. /\ job' \in [pc : {"part", "readsum"}, index : Nat, num : Nat]
          /\ job'.pc \in {"part", "delpart"} =>
                 job'.index < job'.num /\ job'.index \in Index
      BY <2>1, <2>2, <2>3
    <3>2. ignored' \in BOOLEAN /\ target' \in Record
      BY <2>1 DEF Record
    <3>. QED  BY <1>t, <2>1, <2>4, <3>1, <3>2 DEF TypeOK
  <2>6. "unknown" \notin Values
    BY PersistAssumption
  <2>7. JobInv'
    BY <2>1, <2>2, <2>3 DEF JobInv, Large, PieceNum
  <2>8. LastInv'
    BY <2>1, <2>6 DEF LastInv
  <2>9. SmallInv'
    BY <2>1, <2>4 DEF SmallInv
  <2>. QED  BY <2>5, <2>7, <2>8, <2>9
<1>2. ASSUME PutPart PROVE PInv'
  <2>. USE <1>2 DEF PutPart
  <2>1. /\ job.pc = "part" /\ last = "unknown" /\ last' = "unknown"
        /\ target \in Values /\ Large(target)
        /\ job.num = PieceNum(target) /\ job.index < job.num
        /\ job.index \in Index
        /\ UNCHANGED <<kind, key, sum, target, was>>
    BY DEF TypeOK, JobInv, Finish
  <2>2. /\ part' \in [Index -> Record] /\ ignored' \in BOOLEAN
        /\ job'.pc # "idle" /\ ~ignored' =>
              ~ignored /\ part' = [part EXCEPT ![job.index] = target]
        /\ kind = "sealed" => ignored' = ignored
    <3>1. [part EXCEPT ![job.index] = target] \in [Index -> Record]
      BY <1>t, <2>1
    <3>2. CASE /\ part' = [part EXCEPT ![job.index] = target]
               /\ UNCHANGED ignored
      BY <1>t, <3>1, <3>2
    <3>3. CASE kind = "sealed" /\ Finish("unknown") /\ UNCHANGED <<part, ignored>>
      <4>1. job'.pc = "idle"
        BY <3>3 DEF Finish, Idle
      <4>. QED  BY <1>t, <3>3, <4>1
    <3>4. CASE kind = "unsafe" /\ ignored' = TRUE /\ UNCHANGED part
      BY <1>t, <3>4
    <3>. QED  BY <3>2, <3>3, <3>4
  <2>3. job'.pc # "idle" /\ ~ignored' =>
            \A i \in 0..job.index : part'[i] = target
    <3>1. SUFFICES ASSUME job'.pc # "idle", ~ignored', NEW i \in 0..job.index
                   PROVE  part'[i] = target
      OBVIOUS
    <3>2. i \in Index
      BY <1>t, <2>1, Pieces
    <3>3. i # job.index => part[i] = target
      BY <1>t, <2>1, <2>2, <3>1 DEF JobInv
    <3>. QED  BY <1>t, <2>1, <2>2, <3>1, <3>2, <3>3
  <2>4. "unknown" \notin Values
    BY PersistAssumption
  <2>5. CASE job' = AfterPiece("part", "putsum")
    <3>1. /\ job'.index = job.index + 1 /\ job'.num = job.num
          /\ job'.pc = IF job.index + 1 = job.num THEN "putsum" ELSE "part"
          /\ job' \in [pc : {"part", "putsum"}, index : Nat, num : Nat]
      <4>1. job' = [pc |-> IF job.index + 1 = job.num THEN "putsum"
                           ELSE "part",
                    index |-> job.index + 1, num |-> job.num]
        BY <1>t, <2>5 DEF AfterPiece
      <4>. QED  BY <1>t, <4>1
    <3>2. job'.pc = "part" => job'.index < job'.num /\ job'.index \in Index
      BY <1>t, <2>1, <3>1, Pieces
    <3>3. TypeOK'
      BY <1>t, <2>1, <2>2, <3>1, <3>2 DEF TypeOK
    <3>4. JobInv'
      BY <1>t, <2>1, <2>3, <3>1 DEF JobInv, Large, PieceNum
    <3>. QED  BY <2>1, <2>4, <3>3, <3>4 DEF LastInv, SmallInv, Large
  <2>6. CASE job' = Idle
    <3>1. job'.pc = "idle" /\ job' \in [pc : {"idle"}, index : Nat, num : Nat]
      BY <2>6 DEF Idle
    <3>2. TypeOK'
      BY <1>t, <2>1, <2>2, <3>1 DEF TypeOK
    <3>. QED  BY <2>1, <2>4, <3>1, <3>2 DEF JobInv, LastInv, SmallInv, Large
  <2>. QED  BY <2>5, <2>6 DEF Finish
<1>3. ASSUME PutSum PROVE PInv'
  <2>. USE <1>3 DEF PutSum
  <2>1. /\ job.pc = "putsum" /\ job.index = job.num
        /\ target \in Values /\ Large(target)
        /\ job.num = PieceNum(target)
        /\ UNCHANGED <<kind, key, part, target, was>>
    BY DEF JobInv
  <2>2. job' = Idle /\ job'.pc = "idle"
        /\ job' \in [pc : {"idle"}, index : Nat, num : Nat]
    BY DEF Finish, Idle
  <2>3. CASE sum' = Sum(target) /\ Finish(target)
    <3>1. last' = target /\ sum' = Sum(target) /\ ignored' = ignored
      BY <2>3 DEF Finish
    <3>2. ~ignored => \A i \in 0..(PieceNum(target) - 1) : part'[i] = target
      BY <2>1, <3>1 DEF JobInv
    <3>3. TypeOK'
      <4>1. sum' \in {None} \cup {Sum(v) : v \in {w \in Values : Large(w)}}
        BY <2>1, <3>1
      <4>. QED  BY <1>t, <2>1, <2>2, <2>3, <3>1, <4>1 DEF TypeOK
    <3>4. LastInv'
      BY <2>1, <3>1, <3>2 DEF LastInv, Large, Sum, PieceNum
    <3>5. JobInv' /\ SmallInv'
      BY <2>1, <2>2 DEF JobInv, SmallInv, Large
    <3>. QED  BY <3>3, <3>4, <3>5
  <2>4. CASE Finish("unknown") /\ UNCHANGED sum
    <3>1. last' = "unknown" /\ ignored' = ignored /\ sum' = sum
      BY <2>4 DEF Finish
    <3>2. TypeOK'
      BY <1>t, <2>1, <2>2, <3>1 DEF TypeOK
    <3>. QED
      BY <2>1, <2>2, <3>1, <3>2, PersistAssumption
      DEF JobInv, LastInv, SmallInv, Large
  <2>. QED  BY <2>3, <2>4
<1>4. ASSUME ReadSum PROVE PInv'
  <2>. USE <1>4 DEF ReadSum
  <2>1. /\ job.pc = "readsum" /\ job.index = 0 /\ last = "unknown"
        /\ target \in Values /\ ~Large(target)
        /\ ignored' \in BOOLEAN
        /\ UNCHANGED <<kind, key, sum, part, target, was, last>>
    BY <1>t DEF JobInv
  <2>2. CASE /\ job' = [job EXCEPT !.pc = "putkey"]
             /\ ignored' = (sum # None)
    <3>1. /\ job'.pc = "putkey" /\ job'.index \in Nat
          /\ job' \in [pc : {"putkey"}, index : Nat, num : Nat]
      BY <1>t, <2>2
    <3>2. TypeOK'
      BY <1>t, <2>1, <3>1 DEF TypeOK
    <3>. QED
      BY <2>1, <2>2, <3>1, <3>2, PersistAssumption
      DEF JobInv, LastInv, SmallInv, Large
  <2>3. CASE sum # None /\ job' = [job EXCEPT !.pc = "delpart", !.num = sum.num]
    <3>1. /\ sum.num \in Nat /\ sum.num >= 1
          /\ \A i \in 0..(sum.num - 1) : i \in Index
      BY <2>3, Sums DEF TypeOK
    <3>2. /\ job'.pc = "delpart" /\ job'.index = 0 /\ job'.num = sum.num
          /\ job' \in [pc : {"delpart"}, index : Nat, num : Nat]
      BY <1>t, <2>1, <2>3, <3>1
    <3>3. TypeOK'
      BY <1>t, <2>1, <3>1, <3>2 DEF TypeOK
    <3>. QED
      BY <2>1, <2>3, <3>2, <3>3, PersistAssumption
      DEF JobInv, LastInv, SmallInv, Large
  <2>. QED  BY <2>2, <2>3
<1>5. ASSUME DelPart PROVE PInv'
  <2>. USE <1>5 DEF DelPart
  <2>1. /\ job.pc = "delpart" /\ last = "unknown" /\ sum # None
        /\ target \in Values /\ ~Large(target)
        /\ job.num = sum.num /\ job.index < job.num
        /\ job.index \in Index
        /\ UNCHANGED <<kind, key, sum, target, ignored, was, last>>
    BY DEF JobInv, TypeOK
  <2>2. part' \in [Index -> Record]
    BY <1>t, <2>1 DEF Record
  <2>3. \A i \in 0..(sum.num - 1) : i \in Index
    BY <2>1, Sums DEF TypeOK
  <2>4. /\ job'.index = job.index + 1 /\ job'.num = job.num
        /\ job'.pc = IF job.index + 1 = job.num THEN "delsum" ELSE "delpart"
        /\ job' \in [pc : {"delsum", "delpart"}, index : Nat, num : Nat]
    <3>1. job' = [pc |-> IF job.index + 1 = job.num THEN "delsum"
                         ELSE "delpart",
                  index |-> job.index + 1, num |-> job.num]
      BY <1>t DEF AfterPiece
    <3>. QED  BY <1>t, <3>1
  <2>5. job'.pc = "delpart" => job'.index < job'.num /\ job'.index \in Index
    BY <1>t, <2>1, <2>3, <2>4
  <2>6. TypeOK'
    BY <1>t, <2>1, <2>2, <2>4, <2>5 DEF TypeOK
  <2>. QED
    BY <2>1, <2>4, <2>6, PersistAssumption
    DEF JobInv, LastInv, SmallInv, Large
<1>6. ASSUME DelSum PROVE PInv'
  <2>. USE <1>6 DEF DelSum
  <2>1. /\ job.pc = "delsum" /\ last = "unknown"
        /\ target \in Values /\ ~Large(target)
        /\ UNCHANGED <<kind, key, part, target, was, last>>
    BY DEF JobInv
  <2>2. /\ ignored' \in BOOLEAN /\ (~ignored' => sum' = None)
        /\ sum' \in {sum, None}
    BY <1>t
  <2>3. job'.pc = "putkey" /\ job' \in [pc : {"putkey"}, index : Nat,
                                       num : Nat]
    BY <1>t
  <2>4. TypeOK'
    BY <1>t, <2>1, <2>2, <2>3 DEF TypeOK
  <2>. QED
    BY <2>1, <2>2, <2>3, <2>4, PersistAssumption
    DEF JobInv, LastInv, SmallInv, Large
<1>7. ASSUME PutKey PROVE PInv'
  <2>. USE <1>7 DEF PutKey
  <2>1. /\ job.pc = "putkey" /\ target \in Values /\ ~Large(target)
        /\ UNCHANGED <<kind, sum, part, target, was>>
    BY DEF JobInv
  <2>2. job'.pc = "idle" /\ job' \in [pc : {"idle"}, index : Nat, num : Nat]
    BY DEF Finish, Idle
  <2>3. CASE key' = target /\ Finish(target)
    <3>1. last' = target /\ key' = target /\ (~ignored => sum = None)
          /\ ignored' = ignored
      BY <2>1, <2>3 DEF Finish, JobInv
    <3>2. TypeOK'
      BY <1>t, <2>1, <2>2, <2>3, <3>1 DEF TypeOK, Record
    <3>. QED
      BY <2>1, <2>2, <3>1, <3>2 DEF JobInv, LastInv, SmallInv, Large
  <2>4. CASE Finish("unknown") /\ UNCHANGED key
    <3>1. last' = "unknown" /\ key' = key /\ ignored' = ignored
      BY <2>4 DEF Finish
    <3>2. TypeOK'
      BY <1>t, <2>1, <2>2, <3>1 DEF TypeOK
    <3>. QED
      BY <2>1, <2>2, <3>1, <3>2, PersistAssumption
      DEF JobInv, LastInv, SmallInv, Large
  <2>. QED  BY <2>3, <2>4
<1>8. ASSUME Del PROVE PInv'
  <2>. USE <1>8 DEF Del
  <2>1. /\ job.pc = "idle" /\ last' \in {"deleted", "unknown"}
        /\ key' \in {key, None}
        /\ UNCHANGED <<kind, sum, part, job, target, ignored, was>>
    OBVIOUS
  <2>2. TypeOK'
    BY <1>t, <2>1 DEF TypeOK, Record
  <2>. QED
    BY <2>1, <2>2, PersistAssumption
    DEF JobInv, LastInv, SmallInv, Large
<1>9. ASSUME Restart PROVE PInv'
  <2>. USE <1>9 DEF Restart
  <2>1. /\ job'.pc = "idle" /\ job' \in [pc : {"idle"}, index : Nat, num : Nat]
        /\ last' \in {last, "unknown"}
        /\ UNCHANGED <<kind, key, sum, part, target, ignored, was>>
    BY DEF Idle
  <2>2. TypeOK'
    BY <1>t, <2>1 DEF TypeOK
  <2>. QED
    BY <2>1, <2>2, PersistAssumption
    DEF JobInv, LastInv, SmallInv, Large
<1>10. ASSUME UNCHANGED vars PROVE PInv'
  BY <1>10 DEF vars, TypeOK, JobInv, LastInv, SmallInv
<1>. QED
  BY <1>1, <1>2, <1>3, <1>4, <1>5, <1>6, <1>7, <1>8, <1>9, <1>10 DEF Next

\* The records always say what the last set, finished or cut short, left.
THEOREM RecordsKept == Spec => []PInv
<1>1. PInv /\ [Next]_vars => PInv'
  BY NextPInv
<1>. QED  BY InitPInv, <1>1, PTL DEF Spec

\* Every record and the set under way keep their types: a set never writes or
\* deletes a piece that no value has (persist_set, persist_set_unsafe).
THEOREM PersistTypes == Spec => []TypeOK
<1>1. PInv => TypeOK
  BY DEF PInv
<1>. QED  BY RecordsKept, <1>1, PTL

\* A reader gets the value that was last set with success, whatever failed
\* and died before, unless that set ignored one of three failures (persist_get
\* after persist_set).
THEOREM OwnWriteIsRead == Spec => []ReadsOwnWrite
<1>1. PInv => ReadsOwnWrite
  <2>. SUFFICES ASSUME PInv, last \in Values, ~ignored PROVE Get = last
    BY DEF ReadsOwnWrite
  <2>. QED  BY WholeIsRead DEF PInv, LastInv, Get
<1>. QED  BY RecordsKept, <1>1, PTL

\* One action at a time: pieces only become the new value from the front, so
\* that a reader who needs all of them meets the new value or an error.
LEMMA OldOrNewStep ==
    ASSUME PInv, PInv', OldOrNew, [Next]_vars
    PROVE  OldOrNew'
<1>. SUFFICES ASSUME kind' = "sealed", target' # None,
                     Large(target') \/ ~was'.pieces
              PROVE  Get' \in {was'.value, target', "error"}
  BY DEF OldOrNew, Large
<1>t. job.pc # "idle" => target \in Values
  BY DEF PInv, JobInv
<1>k. kind = "sealed"
  BY DEF Next, Set, PutPart, PutSum, ReadSum, DelPart, DelSum, PutKey, Del,
         Restart, vars
<1>g. Get = PersistGet /\ Get' = PersistGet'
  BY <1>k DEF Get
<1>1. ASSUME NEW v \in Values, Set(v) PROVE Get' \in {was'.value, "error"}
  <2>1. was'.value = Get /\ UNCHANGED <<key, sum, part>>
    BY <1>1 DEF Set
  <2>. QED  BY <1>g, <2>1 DEF PersistGet, Unseal
<1>2. ASSUME PutPart PROVE Get' \in {was'.value, target', "error"}
  <2>1. /\ job.pc = "part" /\ UNCHANGED <<key, sum, target, was>>
        /\ target \in Values /\ job.index \in Nat
    BY <1>2, <1>t DEF PutPart, PInv, TypeOK
  <2>2. CASE part' = part
    <3>1. Get' = Get
      BY <1>g, <2>1, <2>2 DEF PersistGet, Unseal
    <3>. QED
      BY <1>k, <2>1, <3>1 DEF OldOrNew, Large
  <2>3. CASE part' = [part EXCEPT ![job.index] = target]
    <3>1. 0 \in Index
      BY <2>1, Pieces
    <3>2. part'[0] = target
      <4>1. job.index # 0 => part[0] = target
        BY <1>k, <2>1, <2>3 DEF PInv, JobInv
      <4>. QED
        BY <2>1, <2>3, <3>1, <4>1 DEF PInv, TypeOK
    <3>3. CASE sum = None
      <4>1. Get' = Get
        BY <1>g, <2>1, <3>3 DEF PersistGet
      <4>. QED  BY <1>k, <2>1, <4>1 DEF OldOrNew, Large
    <3>4. CASE sum # None
      BY <1>g, <2>1, <3>2, <3>4 DEF PersistGet, Unseal
    <3>. QED  BY <3>3, <3>4
  <2>. QED  BY <1>2, <2>2, <2>3 DEF PutPart
<1>3. ASSUME PutSum PROVE Get' \in {was'.value, target', "error"}
  <2>1. /\ job.pc = "putsum" /\ UNCHANGED <<key, part, target, was>>
        /\ target \in Values
    BY <1>3, <1>t DEF PutSum
  <2>2. CASE sum' = sum
    <3>1. Get' = Get
      BY <1>g, <2>1, <2>2 DEF PersistGet, Unseal
    <3>. QED  BY <1>k, <2>1, <3>1 DEF OldOrNew, Large
  <2>3. CASE sum' = Sum(target)
    <3>1. /\ sum' # None /\ sum'.num = PieceNum(target)
          /\ sum'.num \in Nat /\ sum'.num >= 1
      BY <2>1, <2>3, Pieces, PersistAssumption DEF Sum
    <3>2. part'[0] = target
      BY <1>k, <2>1, <2>3, <3>1 DEF PInv, JobInv
    <3>. QED  BY <1>g, <2>1, <3>1, <3>2 DEF PersistGet, Unseal
  <2>. QED  BY <1>3, <2>2, <2>3 DEF PutSum
<1>4. ASSUME PutKey PROVE Get' \in {was'.value, target', "error"}
  <2>1. /\ job.pc = "putkey" /\ UNCHANGED <<sum, part, target, was>>
        /\ target \in Values /\ ~Large(target)
    BY <1>4, <1>t DEF PutKey, PInv, JobInv
  <2>2. sum = None
    BY <2>1 DEF PInv, SmallInv, Large
  <2>3. key' = target \/ key' = key
    BY <1>4 DEF PutKey
  <2>4. Get' = IF key' = None THEN "error" ELSE key'
    BY <1>g, <2>1, <2>2 DEF PersistGet
  <2>5. Get = IF key = None THEN "error" ELSE key
    BY <1>g, <2>2 DEF PersistGet
  <2>. QED  BY <1>k, <2>1, <2>3, <2>4, <2>5 DEF OldOrNew, Large
<1>5. ASSUME DelPart \/ DelSum PROVE FALSE
  BY <1>5, <1>t DEF PInv, JobInv, SmallInv, DelPart, DelSum, Large
<1>6. ASSUME ReadSum \/ Restart \/ UNCHANGED vars
      PROVE  Get' \in {was'.value, target', "error"}
  <2>1. UNCHANGED <<key, sum, part, target, was>>
    BY <1>6 DEF ReadSum, Restart, vars
  <2>2. Get' = Get
    BY <1>g, <2>1 DEF PersistGet, Unseal
  <2>. QED  BY <1>k, <2>1, <2>2 DEF OldOrNew, Large
<1>7. ~Del
  BY <1>k DEF Del
<1>. QED
  BY <1>1, <1>2, <1>3, <1>4, <1>5, <1>6, <1>7 DEF Next

\* A sealed set that is cut short at any point leaves the old value, the new
\* one or an error, unless it replaces pieces by a small record (persist_set).
THEOREM NoThirdValue == Spec => []OldOrNew
<1>1. Init => OldOrNew
  BY DEF Init, OldOrNew
<1>2. PInv /\ PInv' /\ OldOrNew /\ [Next]_vars => OldOrNew'
  BY OldOrNewStep
<1>. QED  BY RecordsKept, <1>1, <1>2, PTL DEF Spec
==============================================================================
