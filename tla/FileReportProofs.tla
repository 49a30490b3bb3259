-------------------------- MODULE FileReportProofs --------------------------
(***************************************************************************)
(* Proofs about FileReport, for every set of files, clients and report      *)
(* threads and every value of the limits and bounds.                        *)
(***************************************************************************)
EXTENDS FileReport, FiniteSetTheorems, SequenceTheorems, TLAPS

(***************************************************************************)
(* Erasing an element of a vector keeps the others, in order.               *)
(***************************************************************************)
LEMMA RemoveAtProperties ==
    ASSUME NEW S, NEW s \in Seq(S), NEW i \in 1..Len(s)
    PROVE  /\ RemoveAt(s, i) \in Seq(S)
           /\ Len(RemoveAt(s, i)) = Len(s) - 1
           /\ \A j \in 1..(Len(s) - 1) :
                RemoveAt(s, i)[j] = IF j < i THEN s[j] ELSE s[j + 1]
<1>. DEFINE front == SubSeq(s, 1, i - 1)
            back  == SubSeq(s, i + 1, Len(s))
<1>0. Len(s) \in Nat
  BY LenProperties
<1>1. /\ front \in Seq(S)
      /\ Len(front) = i - 1
      /\ \A j \in 1..(i - 1) : front[j] = s[j]
  BY <1>0
<1>2. /\ back \in Seq(S)
      /\ Len(back) = Len(s) - i
      /\ \A j \in 1..(Len(s) - i) : back[j] = s[i + j]
  BY <1>0
<1>. HIDE DEF front, back
<1>3. /\ front \o back \in Seq(S)
      /\ Len(front \o back) = Len(front) + Len(back)
      /\ \A j \in 1..(Len(front) + Len(back)) :
           (front \o back)[j] =
              IF j <= Len(front) THEN front[j] ELSE back[j - Len(front)]
  BY <1>1, <1>2, ConcatProperties
<1>4. ASSUME NEW j \in 1..(Len(s) - 1)
      PROVE  (front \o back)[j] = IF j < i THEN s[j] ELSE s[j + 1]
  BY <1>0, <1>1, <1>2, <1>3
<1>5. RemoveAt(s, i) = front \o back
  BY DEF RemoveAt, front, back
<1>6. Len(front \o back) = Len(s) - 1
  BY <1>0, <1>1, <1>2, <1>3
<1>. QED  BY <1>3, <1>4, <1>5, <1>6

(***************************************************************************)
(* Type correctness. The statistics are settled with the cardinality of the *)
(* set of changed indexes, so that set must be known to be finite; and what *)
(* a client asks for must be known to be a file, so that only the items of  *)
(* files are written to.                                                    *)
(***************************************************************************)
NamedFiles ==
    \A c \in Clients : client[c].pc \notin {"idle", "sealCount", "seal"} =>
        client[c].file \in Files
TypeInv == TypeOK /\ IsFiniteSet(main.changed) /\ NamedFiles

LEMMA AccountType ==
    ASSUME NEW spec \in [StatusName -> Int], NEW changed, IsFiniteSet(changed),
           NEW stale, NEW d
    PROVE  Account(spec, changed, stale, d) \in [StatusName -> Int]
<1>. DEFINE known(m) == m.idx \in 1..Len(checked_files)
            to(m)    == IF known(m) THEN checked_files[m.idx].cur ELSE stale
            step(m)  == IF known(m)
                        THEN NumStep(OldSize(checked_files[m.idx])) ELSE d
            net(S)   == Cardinality({m \in S : step(m) = 1})
                        - Cardinality({m \in S : step(m) = -1})
            moved    == {m \in changed : to(m) # m.from}
<1>1. ASSUME NEW S, S \subseteq changed
      PROVE  net(S) \in Int
  <2>1. ASSUME NEW T, T \subseteq changed
        PROVE  Cardinality(T) \in Nat
    BY <2>1, FS_Subset, FS_CardinalityType
  <2>2. /\ {m \in S : step(m) = 1} \subseteq changed
        /\ {m \in S : step(m) = -1} \subseteq changed
    BY <1>1
  <2>. HIDE DEF step
  <2>. QED  BY <2>1, <2>2
<1>2. Account(spec, changed, stale, d) =
         [s \in StatusName |-> spec[s] + net({m \in moved : to(m) = s})
                                   - net({m \in moved : m.from = s})]
  BY DEF Account
<1>3. ASSUME NEW s \in StatusName
      PROVE  /\ {m \in moved : to(m) = s} \subseteq changed
             /\ {m \in moved : m.from = s} \subseteq changed
  OBVIOUS
<1>. HIDE DEF net, moved, to
<1>. QED  BY <1>1, <1>2, <1>3

LEMMA NumStepType == ASSUME NEW n  PROVE  NumStep(n) \in Int
BY DEF NumStep

LEMMA StatusNames ==
    /\ "unconfirmed" \in Status /\ "valid" \in Status
    /\ "lost" \in Status /\ "deleted" \in Status
    /\ Status \subseteq StatusName /\ "none" \in StatusName
    /\ "none" \notin Status
BY DEF Status, StatusName

\* What an element of a vector of items is: an item with a hash or with a
\* status is that of a file.
LEMMA ItemFields ==
    ASSUME NEW s \in Seq(Item), NEW i \in 1..Len(s)
    PROVE  /\ s[i] \in Item
           /\ s[i].file \in Files \cup {NoFile} /\ s[i].cur \in StatusName
           /\ \/ s[i].file \in Files \/ s[i].cur \in Status
              \/ s[i].wait \in Status \/ s[i].orig \in Status
              => /\ s[i] \in FileItem
                 /\ s[i].file \in Files /\ s[i].cur \in Status
                 /\ s[i].wait \in Status /\ s[i].orig \in Status
           /\ s[i] \notin FileItem => s[i] = NullItem
<1>1. s[i] \in Item
  BY ElementOfSeq
<1>2. CASE s[i] \in FileItem
  BY <1>1, <1>2, StatusNames DEF FileItem
<1>3. CASE s[i] = NullItem
  BY <1>1, <1>3, StatusNames, ConstantsAssumption DEF NullItem
<1>. QED  BY <1>1, <1>2, <1>3 DEF Item

\* Setting the CURRENT status of one file leaves everything else alone.
LEMMA WithCur ==
    ASSUME NEW s \in Seq(Item), NEW i \in 1..Len(s), NEW st \in Status,
           s[i] \in FileItem,
           NEW t, t = [s EXCEPT ![i].cur = st]
    PROVE  /\ t \in Seq(Item)
           /\ Len(t) = Len(s)
           /\ \A j \in 1..Len(s) :
                /\ t[j].file = s[j].file
                /\ t[j].wait = s[j].wait
                /\ t[j].orig = s[j].orig
                /\ t[j].cur = IF j = i THEN st ELSE s[j].cur
<1>2. /\ [s[i] EXCEPT !.cur = st] \in Item
      /\ [s[i] EXCEPT !.cur = st].cur = st
      /\ [s[i] EXCEPT !.cur = st].file = s[i].file
      /\ [s[i] EXCEPT !.cur = st].wait = s[i].wait
      /\ [s[i] EXCEPT !.cur = st].orig = s[i].orig
  BY DEF Item, FileItem
<1>3. t = [s EXCEPT ![i] = [s[i] EXCEPT !.cur = st]]
  BY DEF FileItem
<1>. QED  BY <1>2, <1>3, ExceptSeq

\* A vector of items built index by index.
LEMMA MapType ==
    ASSUME NEW s \in Seq(Item), NEW t,
           t = [i \in 1..Len(s) |-> t[i]],
           \A i \in 1..Len(s) : t[i] \in Item
    PROVE  t \in Seq(Item) /\ Len(t) = Len(s)
<1>1. Len(s) \in Nat
  BY LenProperties
<1>. QED  BY <1>1, IsASeq, LenProperties

LEMMA IdleType == Idle \in ClientState
BY DEF Idle, ClientState, ClientPc, Status

LEMMA MainStartType == MainStart \in MainState /\ MainStart.changed = {}
BY DEF MainStart, MainState, MainPc

LEMMA InitType == Init => TypeInv
<1>. SUFFICES ASSUME Init  PROVE  TypeInv
  OBVIOUS
<1>1. NoReport \in WorkReport
  BY DEF NoReport, WorkReport
<1>2. db \in Stored
  BY DEF Init, Stored
<1>3. reporter \in [Reps -> ReporterPc]
  BY DEF Init, ReporterPc
<1>4. NamedFiles
  BY DEF Init, NamedFiles, Idle
<1>5. wl_spec_info \in [StatusName -> Int]
  BY DEF Init
<1>. QED
  BY <1>1, <1>2, <1>3, <1>4, <1>5, IdleType, MainStartType, FS_EmptySet
     DEF Init, TypeInv, TypeOK

\* The three outcomes of a confirmation, without the searches.
LEMMA ConfirmEffect ==
    ASSUME NEW c \in Clients, ConfirmFile(c)
    PROVE  \/ \E i \in 1..Len(checked_files) :
                 /\ checked_files[i].cur = "unconfirmed"
                 /\ checked_files' = [checked_files EXCEPT ![i].cur = "valid"]
                 /\ new_files' = new_files
           \/ \E i \in 1..Len(new_files) :
                 /\ checked_files' = checked_files
                 /\ new_files[i].cur = "unconfirmed"
                 /\ new_files' = [new_files EXCEPT ![i].cur = "valid"]
           \/ checked_files' = checked_files /\ new_files' = new_files
BY DEF ConfirmFile, Confirmed, Matches, fileVars

\* The three outcomes of a deletion, without the searches.
LEMMA DeleteEffect ==
    ASSUME NEW c \in Clients, DeleteFile(c)
    PROVE  \/ \E i \in 1..Len(checked_files) :
                 /\ checked_files[i].file = client[c].file
                 /\ checked_files' = [checked_files EXCEPT ![i].cur = "deleted"]
                 /\ new_files' = new_files
                 /\ client' = [client EXCEPT ![c].pc = "deleteSpec",
                                             ![c].old = checked_files[i].cur]
           \/ \E i \in 1..Len(new_files) :
                 /\ Matches(checked_files, client[c].file) = {}
                 /\ new_files[i].file = client[c].file
                 /\ checked_files' = checked_files
                 /\ new_files' = RemoveAt(new_files, i)
                 /\ client' = [client EXCEPT ![c].pc = "deleteSpec",
                                             ![c].old = new_files[i].cur]
           \/ /\ checked_files' = checked_files /\ new_files' = new_files
              /\ client' = [client EXCEPT ![c] = Idle]
BY DEF DeleteFile, Matches, fileVars

\* A client asks for a file, from the request to the statistics.
LEMMA ClientNamed ==
    ASSUME TypeInv, NEW c \in Clients, ClientStep(c)
    PROVE  NamedFiles'
<1>0. client \in [Clients -> ClientState] /\ NamedFiles /\ sealed \subseteq Files
  BY DEF TypeInv, TypeOK
<1>1. ASSUME \A x \in Clients : x # c => client'[x] = client[x],
             \/ client'[c].pc \in {"idle", "sealCount", "seal"}
             \/ client'[c].file \in Files
      PROVE  NamedFiles'
  BY <1>0, <1>1 DEF NamedFiles
<1>2. CASE SealBegin(c)
  BY <1>0, <1>1, <1>2 DEF SealBegin, ClientState
<1>3. CASE SealCount(c)
  <2>1. Idle.pc = "idle" /\ [Idle EXCEPT !.pc = "seal"].pc = "seal"
    BY DEF Idle
  <2>. QED  BY <1>0, <1>1, <1>3, <2>1 DEF SealCount
<1>4. CASE SealStore(c)
  <2>1. PICK f \in Files :
           client' = [client EXCEPT ![c].pc = "sealSpec", ![c].file = f]
    BY <1>4 DEF SealStore
  <2>. QED  BY <1>0, <1>1, <2>1 DEF ClientState
<1>5. CASE RequestAny(c)
  <2>1. PICK f \in sealed, op \in {"confirm", "delete"} :
           client' = [client EXCEPT ![c].pc = op, ![c].file = f]
    BY <1>5 DEF RequestAny, Request
  <2>. QED  BY <1>0, <1>1, <2>1 DEF ClientState
<1>6. CASE client' = [client EXCEPT ![c] = Idle]
  BY <1>0, <1>1, <1>6 DEF Idle
<1>7. CASE ConfirmFile(c)
  <2>1. client[c].file \in Files
    BY <1>0, <1>7 DEF ConfirmFile, NamedFiles
  <2>2. \/ client' = [client EXCEPT ![c].pc = "confirmSpec"]
        \/ client' = [client EXCEPT ![c] = Idle]
    BY <1>7, Zenon DEF ConfirmFile
  <2>. QED  BY <1>0, <1>1, <1>6, <2>1, <2>2 DEF ClientState
<1>8. CASE DeleteFile(c)
  <2>1. client[c].file \in Files
    BY <1>0, <1>8 DEF DeleteFile, NamedFiles
  <2>2. ASSUME NEW old,
               client' = [client EXCEPT ![c].pc = "deleteSpec", ![c].old = old]
        PROVE  NamedFiles'
    BY <1>0, <1>1, <2>1, <2>2 DEF ClientState
  <2>. QED  BY <1>6, <1>8, <2>2, DeleteEffect
<1>. QED
  BY <1>2, <1>3, <1>4, <1>5, <1>6, <1>7, <1>8
  DEF ClientStep, SealFail, SealSpec, ConfirmSpec, DeleteSpec

LEMMA ClientType ==
    ASSUME TypeInv, NEW c \in Clients, ClientStep(c)
    PROVE  TypeInv'
<1>. SUFFICES TypeOK' /\ IsFiniteSet(main'.changed)
  BY ClientNamed DEF TypeInv
<1>. USE IdleType DEF TypeInv, TypeOK, fileVars, lockVars, boundVars, reportVars
<1>1. CASE SealBegin(c)
  <2>1. client' \in [Clients -> ClientState]
    <3>1. Len(checked_files) \in Nat
      BY LenProperties
    <3>. QED  BY <1>1, <3>1 DEF SealBegin, ClientState, ClientPc
  <2>. QED  BY <1>1, <2>1 DEF SealBegin
<1>2. CASE SealCount(c)
  <2>1. [Idle EXCEPT !.pc = "seal"] \in ClientState
    BY DEF Idle, ClientState, ClientPc, Status
  <2>. QED  BY <1>2, <2>1 DEF SealCount
<1>3. CASE SealStore(c)
  <2>1. PICK f \in Files : SealStore(c)!2!(f)
    BY <1>3 DEF SealStore
  <2>2. client' \in [Clients -> ClientState]
    BY <2>1 DEF ClientState, ClientPc
  <2>3. NewItem(f) \in Item
    BY DEF NewItem, Item, FileItem, Status
  <2>. QED  BY <1>3, <2>1, <2>2, <2>3 DEF SealStore
<1>4. CASE SealFail(c)
  BY <1>4 DEF SealFail
<1>5. CASE SealSpec(c)
  BY <1>5, NumStepType, StatusNames DEF SealSpec, SpecAdd
<1>6. CASE RequestAny(c)
  <2>1. PICK f \in sealed, op \in {"confirm", "delete"} : Request(c, op, f)
    BY <1>6 DEF RequestAny
  <2>2. client' \in [Clients -> ClientState]
    BY <2>1 DEF Request, ClientState, ClientPc
  <2>. QED  BY <2>1, <2>2 DEF Request
<1>7. CASE ConfirmFile(c)
  <2>1. client' \in [Clients -> ClientState]
    <3>1. [client EXCEPT ![c].pc = "confirmSpec"] \in [Clients -> ClientState]
      BY DEF ClientState, ClientPc
    <3>. QED  BY <1>7, <3>1, Zenon DEF ConfirmFile
  <2>2. checked_files' \in Seq(Item) /\ new_files' \in Seq(Item)
    <3>1. ASSUME NEW i \in 1..Len(checked_files),
                 checked_files[i].cur = "unconfirmed",
                 checked_files' = [checked_files EXCEPT ![i].cur = "valid"]
          PROVE  checked_files' \in Seq(Item)
      <4>1. checked_files[i] \in FileItem  BY <3>1, ItemFields, StatusNames
      <4>. QED  BY <3>1, <4>1, WithCur, StatusNames
    <3>2. ASSUME NEW i \in 1..Len(new_files),
                 new_files[i].cur = "unconfirmed",
                 new_files' = [new_files EXCEPT ![i].cur = "valid"]
          PROVE  new_files' \in Seq(Item)
      <4>1. new_files[i] \in FileItem  BY <3>2, ItemFields, StatusNames
      <4>. QED  BY <3>2, <4>1, WithCur, StatusNames
    <3>. QED  BY <1>7, <3>1, <3>2, ConfirmEffect
  <2>. QED  BY <1>7, <2>1, <2>2 DEF ConfirmFile
<1>8. CASE ConfirmSpec(c)
  BY <1>8, NumStepType, StatusNames DEF ConfirmSpec, SpecMove
<1>9. CASE DeleteFile(c)
  <2>0. client[c].file \in Files
    BY <1>9 DEF DeleteFile, NamedFiles
  <2>1. client' \in [Clients -> ClientState]
    <3>1. ASSUME NEW st \in Status
          PROVE  [client EXCEPT ![c].pc = "deleteSpec", ![c].old = st]
                    \in [Clients -> ClientState]
      BY DEF ClientState, ClientPc
    <3>2. \A i \in 1..Len(checked_files) :
             checked_files[i].file = client[c].file => checked_files[i].cur \in Status
      BY <2>0, ItemFields
    <3>3. \A i \in 1..Len(new_files) :
             new_files[i].file = client[c].file => new_files[i].cur \in Status
      BY <2>0, ItemFields
    <3>4. [client EXCEPT ![c] = Idle] \in [Clients -> ClientState]
      OBVIOUS
    <3>. QED  BY <1>9, <3>1, <3>2, <3>3, <3>4, DeleteEffect, ZenonT(40)
  <2>2. checked_files' \in Seq(Item) /\ new_files' \in Seq(Item)
    <3>1. ASSUME NEW i \in 1..Len(checked_files),
                 checked_files[i].file = client[c].file,
                 checked_files' = [checked_files EXCEPT ![i].cur = "deleted"]
          PROVE  checked_files' \in Seq(Item)
      <4>1. checked_files[i] \in FileItem
        BY <2>0, <3>1, ItemFields
      <4>. QED  BY <3>1, <4>1, WithCur, StatusNames
    <3>2. \A i \in 1..Len(new_files) : RemoveAt(new_files, i) \in Seq(Item)
      BY RemoveAtProperties
    <3>. QED  BY <1>9, <3>1, <3>2, DeleteEffect
  <2>. QED  BY <1>9, <2>1, <2>2 DEF DeleteFile
<1>10. CASE DeleteSpec(c)
  <2>1. client[c].old \in StatusName
    BY StatusNames DEF ClientState
  <2>. QED  BY <1>10, <2>1, NumStepType DEF DeleteSpec, SpecAdd
<1>. QED
  BY <1>1, <1>2, <1>3, <1>4, <1>5, <1>6, <1>7, <1>8, <1>9, <1>10 DEF ClientStep

\* A validation that changes the status of item i to st.
CheckEffect(i, st) ==
    /\ checked_files' = [checked_files EXCEPT ![i].cur = st]
    /\ main' = [main EXCEPT !.pc = "check", !.rem = @ - 1,
          !.changed = {m \in @ : m.idx # i} \cup
             {[idx |-> i, file |-> checked_files[i].file,
               from |-> checked_files[i].cur]}]
    /\ flips' \in {flips, flips + 1}

\* An iteration of the validation loop changes one status or nothing, and a
\* changed status was VALID or LOST and is now the other of the two.
LEMMA CheckOutcome ==
    ASSUME NEW i, NEW good, CheckFile(i, good)
    PROVE  \/ /\ main' = [main EXCEPT !.pc = "check", !.rem = @ - 1]
              /\ UNCHANGED <<checked_files, flips>>
           \/ /\ i \in 1..Len(checked_files)
              /\ checked_files[i].cur \in {"valid", "lost"}
              /\ \E st \in Status : st \in {"valid", "lost"} /\ CheckEffect(i, st)
BY DEF CheckFile, CheckEffect, Status

LEMMA MainType ==
    ASSUME TypeInv, MainStep
    PROVE  TypeInv'
<1>. SUFFICES TypeOK' /\ IsFiniteSet(main'.changed)
  <2>1. client' = client
    BY DEF MainStep, ValidateSkip, ValidateBegin, ValidateYield, ValidateCheck,
           ValidateEnd, StoreSpec, StoreSkip, StoreFile, StoreComma, StoreEnd
  <2>. QED  BY <2>1 DEF TypeInv, NamedFiles
<1>. USE MainStartType DEF TypeInv, TypeOK, fileVars, lockVars, boundVars, reportVars
<1>1. CASE ValidateBegin
  <2>1. Len(checked_files \o new_files) \in Nat
    BY ConcatProperties, LenProperties
  <2>2. main' \in MainState /\ main'.changed = main.changed
    <3>1. \A n \in Nat : CheckNum(n) \in Nat
      BY ConstantsAssumption, SMTT(30) DEF CheckNum
    <3>. QED  BY <1>1, <2>1, <3>1 DEF ValidateBegin, MergeNew, MainState, MainPc
  <2>. QED  BY <1>1, <2>2 DEF ValidateBegin, MergeNew
<1>2. CASE ValidateYield
  <2>1. main' \in MainState /\ main'.changed = main.changed
    BY <1>2 DEF ValidateYield, MainState, MainPc
  <2>. QED  BY <1>2, <2>1 DEF ValidateYield
<1>3. CASE ValidateCheck
  <2>1. PICK i \in 1..main.num, good \in BOOLEAN : CheckFile(i, good)
    BY <1>3 DEF ValidateCheck
  <2>2. i \in Nat /\ main.rem - 1 \in Nat
    BY <1>3 DEF ValidateCheck, MainState
  <2>3. CASE /\ main' = [main EXCEPT !.pc = "check", !.rem = @ - 1]
             /\ UNCHANGED <<checked_files, flips>>
    <3>1. main' \in MainState /\ main'.changed = main.changed
      BY <2>2, <2>3 DEF MainState, MainPc
    <3>. QED  BY <1>3, <2>3, <3>1 DEF ValidateCheck
  <2>4. CASE /\ i \in 1..Len(checked_files)
             /\ checked_files[i].cur \in {"valid", "lost"}
             /\ \E st \in Status : CheckEffect(i, st)
    <3>. DEFINE change == [idx |-> i, file |-> checked_files[i].file,
                           from |-> checked_files[i].cur]
    <3>0. checked_files[i] \in FileItem
      BY <2>4, ItemFields, StatusNames
    <3>1. change \in Change
      BY <2>2, <3>0 DEF Change, FileItem
    <3>. HIDE DEF change
    <3>2. PICK st \in Status : CheckEffect(i, st)
      BY <2>4
    <3>. DEFINE kept == {m \in main.changed : m.idx # i}
    <3>3. main' = [main EXCEPT !.pc = "check", !.rem = @ - 1,
                               !.changed = kept \cup {change}]
      BY <3>2 DEF CheckEffect, change
    <3>4. main' \in MainState /\ main'.changed = kept \cup {change}
      BY <2>2, <3>1, <3>3 DEF MainState, MainPc
    <3>5. IsFiniteSet(kept \cup {change})
      BY FS_Subset, FS_AddElement
    <3>6. checked_files' \in Seq(Item)
      BY <2>4, <3>0, <3>2, WithCur DEF CheckEffect
    <3>7. flips' \in Nat
      BY <3>2 DEF CheckEffect
    <3>. QED  BY <1>3, <3>4, <3>5, <3>6, <3>7 DEF ValidateCheck
  <2>. QED  BY <2>1, <2>3, <2>4, CheckOutcome
<1>4. CASE ValidateEnd
  <2>1. wl_spec_info' \in [StatusName -> Int]
    BY <1>4, AccountType DEF ValidateEnd
  <2>2. main' \in MainState /\ main'.changed = {}
    BY <1>4 DEF ValidateEnd, MainState, MainStart, MainPc
  <2>. QED  BY <1>4, <2>1, <2>2, FS_EmptySet DEF ValidateEnd
<1>5. CASE StoreSpec
  <2>1. main' \in MainState /\ main'.changed = main.changed
    BY <1>5 DEF StoreSpec, MainState, MainPc
  <2>2. db' \in Stored
    BY <1>5 DEF StoreSpec, Stored
  <2>. QED  BY <1>5, <2>1, <2>2 DEF StoreSpec
<1>6. CASE StoreSkip
  BY <1>6, FS_EmptySet DEF StoreSkip
<1>7. CASE StoreFile
  <2>1. main' \in MainState /\ main'.changed = main.changed
    <3>1. checked_files[main.it] \in Item
      <4>1. main.it \in 1..Len(checked_files)
        BY <1>7, LenProperties, SMTT(30) DEF StoreFile, MainState
      <4>. QED  BY <4>1, ElementOfSeq
    <3>2. main.it + 1 \in Nat \ {0} /\ Append(main.buf, checked_files[main.it]) \in Seq(Item)
      BY <3>1, AppendProperties, SMTT(30) DEF MainState
    <3>. QED  BY <1>7, <3>2 DEF StoreFile, MainState, MainPc
  <2>. QED  BY <1>7, <2>1 DEF StoreFile
<1>8. CASE StoreEnd
  <2>1. db' \in Stored
    <3>1. main.buf \in Seq(Item) /\ main.comma \in BOOLEAN
      BY DEF MainState
    <3>. HIDE DEF MainState
    <3>. QED  BY <1>8, <3>1 DEF StoreEnd, Stored
  <2>. QED  BY <1>8, <2>1, FS_EmptySet DEF StoreEnd
<1>9. CASE ValidateSkip
  <2>1. main' \in MainState /\ main'.changed = main.changed
    BY <1>9 DEF ValidateSkip, MainState, MainPc
  <2>. QED  BY <1>9, <2>1 DEF ValidateSkip
<1>10. CASE StoreComma
  <2>1. main' \in MainState /\ main'.changed = main.changed
    BY <1>10 DEF StoreComma, MainState, MainPc
  <2>. QED  BY <1>10, <2>1 DEF StoreComma
<1>. QED
  BY <1>1, <1>2, <1>3, <1>4, <1>5, <1>6, <1>7, <1>8, <1>9, <1>10 DEF MainStep

\* Setting marks and settling them keeps a vector of items.
LEMMA MarkedType ==
    ASSUME NEW s \in Seq(Item)
    PROVE  /\ Marked(s) \in Seq(Item) /\ Len(Marked(s)) = Len(s)
           /\ \A i \in 1..Len(s) : Marked(s)[i] = [s[i] EXCEPT !.wait = s[i].cur]
<1>1. ASSUME NEW i \in 1..Len(s)
      PROVE  [s[i] EXCEPT !.wait = s[i].cur] \in Item
  <2>1. s[i] \in Item
    BY ItemFields
  <2>. QED  BY <2>1 DEF Item, FileItem, NullItem
<1>2. \A i \in 1..Len(s) : Marked(s)[i] = [s[i] EXCEPT !.wait = s[i].cur]
  BY DEF Marked
<1>3. Marked(s) = [i \in 1..Len(s) |-> Marked(s)[i]]
  BY DEF Marked
<1>. QED  BY <1>1, <1>2, <1>3, MapType

LEMMA SettledType ==
    ASSUME NEW s \in Seq(Item), NEW I
    PROVE  /\ Settled(s, I) \in Seq(Item) /\ Len(Settled(s, I)) = Len(s)
           /\ \A i \in 1..Len(s) : Settled(s, I)[i] =
                 IF i \in I THEN [s[i] EXCEPT !.orig = s[i].wait] ELSE s[i]
<1>1. ASSUME NEW i \in 1..Len(s)
      PROVE  s[i] \in Item /\ [s[i] EXCEPT !.orig = s[i].wait] \in Item
  <2>1. s[i] \in Item
    BY ItemFields
  <2>. QED  BY <2>1 DEF Item, FileItem, NullItem
<1>2. \A i \in 1..Len(s) : Settled(s, I)[i] =
         IF i \in I THEN [s[i] EXCEPT !.orig = s[i].wait] ELSE s[i]
  BY DEF Settled
<1>3. Settled(s, I) = [i \in 1..Len(s) |-> Settled(s, I)[i]]
  BY DEF Settled
<1>. QED  BY <1>1, <1>2, <1>3, MapType

LEMMA ReportType ==
    ASSUME TypeInv, NEW r \in Reps, ReportStep(r)
    PROVE  TypeInv'
<1>. SUFFICES TypeOK' /\ IsFiniteSet(main'.changed)
  <2>1. client' = client
    BY DEF ReportStep, ReportBegin, ReportGate, ReportLockFiles, ReportPurge,
           ReportGenerate, UploadAccepted, UploadFailed, ReportResult, UpgradeData
  <2>. QED  BY <2>1 DEF TypeInv, NamedFiles
<1>. USE DEF TypeInv, TypeOK, fileVars, lockVars, boundVars, reportVars
<1>1. CASE ReportBegin(r)
  BY <1>1 DEF ReportBegin, ReporterPc
<1>2. CASE \E passed \in BOOLEAN : ReportGate(r, passed)
  BY <1>2 DEF ReportGate, ReportLockFree, ReporterPc
<1>3. CASE ReportLockFiles(r)
  BY <1>3 DEF ReportLockFiles, ReporterPc
<1>4. CASE ReportPurge(r)
  <2>1. checked_files' \in Seq(Item)
    <3>1. purge_it \in 1..Len(checked_files)
      BY <1>4, LenProperties DEF ReportPurge
    <3>2. RemoveAt(checked_files, purge_it) \in Seq(Item)
      BY <3>1, RemoveAtProperties
    <3>. QED  BY <1>4, <3>2 DEF ReportPurge
  <2>2. purge_it' \in Nat \ {0}
    BY <1>4 DEF ReportPurge
  <2>. QED  BY <1>4, <2>1, <2>2 DEF ReportPurge
<1>5. CASE ReportGenerate(r)
  <2>1. checked_files' \in Seq(Item)
    BY <1>5, MarkedType DEF ReportGenerate
  <2>2. ReportedIdx(checked_files) \subseteq 1..Len(checked_files)
    BY DEF ReportedIdx, PendingIdx
  <2>3. ReportOf(checked_files, ReportedIdx(checked_files)) \in WorkReport
    <3>1. \A i \in 1..Len(checked_files) :
             \/ checked_files[i].cur \in {"lost", "deleted", "valid"}
             \/ checked_files[i].orig = "valid"
             => checked_files[i].file \in Files
      BY ItemFields, StatusNames
    <3>. QED  BY <2>2, <3>1 DEF ReportOf, WorkReport
  <2>4. reported_files_idx' \in SUBSET Nat
    BY <1>5, <2>2 DEF ReportGenerate
  <2>5. g_work_report' \in WorkReport
    BY <1>5, <2>3 DEF ReportGenerate
  <2>6. reporter' \in [Reps -> ReporterPc] /\ purge_it' \in Nat \ {0}
    BY <1>5, SMTT(30) DEF ReportGenerate, ReporterPc
  <2>. QED  BY <1>5, <2>1, <2>4, <2>5, <2>6 DEF ReportGenerate
<1>6. CASE UploadAccepted(r)
  BY <1>6 DEF UploadAccepted, WorkReport, ReporterPc
<1>7. CASE UploadFailed(r)
  BY <1>7 DEF UploadFailed, WorkReport, ReporterPc
<1>8. CASE ReportResult(r)
  <2>1. checked_files' \in Seq(Item)
    BY <1>8, SettledType DEF ReportResult
  <2>2. reporter' \in [Reps -> ReporterPc]
    BY <1>8 DEF ReportResult, ReporterPc
  <2>. QED  BY <1>8, <2>1, <2>2 DEF ReportResult
<1>9. CASE UpgradeData(r)
  BY <1>9 DEF UpgradeData, ReporterPc
<1>. QED
  BY <1>1, <1>2, <1>3, <1>4, <1>5, <1>6, <1>7, <1>8, <1>9 DEF ReportStep

LEMMA CrashType ==
    ASSUME TypeInv, CrashRestart
    PROVE  TypeInv'
<1>1. NoReport \in WorkReport
  BY DEF NoReport, WorkReport
<1>2. Loaded(db) \in Seq(Item) /\ db.spec \in [StatusName -> Int]
  <2>1. /\ db.files \in Seq(Item) /\ db.spec \in [StatusName -> Int]
        /\ NullItem \in Item /\ <<>> \in Seq(Item)
    BY DEF TypeInv, TypeOK, Stored, Item
  <2>. QED  BY <2>1, AppendProperties DEF Loaded
<1>3. reporter' \in [Reps -> ReporterPc] /\ purge_it' \in Nat \ {0}
  BY DEF CrashRestart, ReporterPc
<1>4. NamedFiles'
  BY DEF CrashRestart, NamedFiles, Idle
<1>. QED
  BY <1>1, <1>2, <1>3, <1>4, IdleType, MainStartType, FS_EmptySet
     DEF TypeInv, TypeOK, CrashRestart

(***************************************************************************)
(* Every variable keeps a value of its type, whatever the constants.        *)
(***************************************************************************)
THEOREM TypeCorrect == Spec => []TypeOK
<1>1. TypeInv /\ [Next]_vars => TypeInv'
  <2>. SUFFICES ASSUME TypeInv, [Next]_vars  PROVE  TypeInv'
    OBVIOUS
  <2>1. CASE UNCHANGED vars
    BY <2>1 DEF TypeInv, TypeOK, NamedFiles, vars, fileVars, lockVars,
                boundVars, reportVars
  <2>. QED
    BY <2>1, ClientType, MainType, ReportType, CrashType DEF Next
<1>. QED  BY <1>1, InitType, PTL DEF Spec, TypeInv

(***************************************************************************)
(* The safety properties, from the inductive invariant IInv.                *)
(***************************************************************************)

(***************************************************************************)
(* What the vector operations do to the identities in a vector: the hash    *)
(* and the status the chain knows.                                          *)
(***************************************************************************)

SameIds(s, t) ==
    /\ Len(t) = Len(s)
    /\ \A j \in 1..Len(s) : t[j].file = s[j].file /\ t[j].orig = s[j].orig

LEMMA SameIdsLemma ==
    ASSUME NEW s \in Seq(Item), NEW t, SameIds(s, t)
    PROVE  /\ Distinct(s) => Distinct(t)
           /\ Names(t) = Names(s)
           /\ AckedIn(t) = AckedIn(s)
<1>1. Distinct(s) => Distinct(t)
  BY DEF SameIds, Distinct
<1>2. Names(t) = Names(s)
  BY DEF SameIds, Names
<1>3. AckedIn(t) = AckedIn(s)
  BY DEF SameIds, AckedIn
<1>. QED  BY <1>1, <1>2, <1>3

\* Only the CURRENT statuses differ.
CurOnly(s, t) ==
    /\ SameIds(s, t)
    /\ \A j \in 1..Len(s) : t[j].wait = s[j].wait

LEMMA WithCurOnly ==
    ASSUME NEW s \in Seq(Item), NEW i \in 1..Len(s), NEW st \in Status,
           NEW t, t = [s EXCEPT ![i].cur = st]
    PROVE  CurOnly(s, t)
BY WithCur DEF CurOnly, SameIds

LEMMA RemoveIds ==
    ASSUME NEW s \in Seq(Item), NEW i \in 1..Len(s), Distinct(s)
    PROVE  /\ Distinct(RemoveAt(s, i))
           /\ Names(RemoveAt(s, i)) = Names(s) \ {s[i].file}
           /\ s[i].orig # "valid" => AckedIn(RemoveAt(s, i)) = AckedIn(s)
<1>. DEFINE t == RemoveAt(s, i)
            old(j) == IF j < i THEN j ELSE j + 1
<1>0. Len(s) \in Nat
  BY LenProperties
<1>1. /\ Len(t) = Len(s) - 1
      /\ \A j \in 1..(Len(s) - 1) : t[j] = s[old(j)]
  BY RemoveAtProperties
<1>. HIDE DEF t
<1>2. \A j \in 1..(Len(s) - 1) : old(j) \in 1..Len(s) /\ old(j) # i
  BY <1>0
<1>3. \A j \in 1..Len(s) : j # i => \E k \in 1..(Len(s) - 1) : old(k) = j
  <2>. SUFFICES ASSUME NEW j \in 1..Len(s), j # i
                PROVE  \E k \in 1..(Len(s) - 1) : old(k) = j
    OBVIOUS
  <2>1. CASE j < i
    <3>1. j \in 1..(Len(s) - 1) /\ old(j) = j
      BY <1>0, <2>1
    <3>. QED  BY <3>1
  <2>2. CASE j > i
    <3>1. j - 1 \in 1..(Len(s) - 1) /\ old(j - 1) = j
      BY <1>0, <2>2
    <3>. QED  BY <3>1
  <2>. QED  BY <1>0, <2>1, <2>2
<1>4. \A j, k \in 1..(Len(s) - 1) : old(j) = old(k) => j = k
  BY <1>0
<1>. HIDE DEF old
<1>5. Distinct(t)
  BY <1>1, <1>2, <1>4 DEF Distinct
<1>6. Names(t) = Names(s) \ {s[i].file}
  <2>1. ASSUME NEW f \in Names(t)  PROVE  f \in Names(s) \ {s[i].file}
    <3>1. PICK j \in 1..Len(t) : t[j].file = f
      BY DEF Names
    <3>2. s[old(j)].file = f /\ old(j) \in 1..Len(s) /\ old(j) # i
      BY <1>1, <1>2, <3>1
    <3>. QED  BY <3>2 DEF Names, Distinct
  <2>2. ASSUME NEW f \in Names(s), f # s[i].file  PROVE  f \in Names(t)
    <3>1. PICK j \in 1..Len(s) : s[j].file = f
      BY DEF Names
    <3>2. PICK k \in 1..(Len(s) - 1) : old(k) = j
      BY <1>3, <2>2, <3>1
    <3>3. t[k].file = f /\ k \in 1..Len(t)
      BY <1>1, <3>1, <3>2
    <3>. QED  BY <3>3 DEF Names
  <2>. QED  BY <2>1, <2>2
<1>7. ASSUME s[i].orig # "valid"  PROVE  AckedIn(t) = AckedIn(s)
  <2>1. ASSUME NEW f \in AckedIn(t)  PROVE  f \in AckedIn(s)
    <3>1. PICK j \in 1..Len(t) : t[j].orig = "valid" /\ t[j].file = f
      BY DEF AckedIn
    <3>2. s[old(j)].orig = "valid" /\ s[old(j)].file = f /\ old(j) \in 1..Len(s)
      BY <1>1, <1>2, <3>1
    <3>. QED  BY <3>2 DEF AckedIn
  <2>2. ASSUME NEW f \in AckedIn(s)  PROVE  f \in AckedIn(t)
    <3>1. PICK j \in 1..Len(s) : s[j].orig = "valid" /\ s[j].file = f
      BY DEF AckedIn
    <3>2. PICK k \in 1..(Len(s) - 1) : old(k) = j
      BY <1>3, <1>7, <3>1
    <3>3. t[k].orig = "valid" /\ t[k].file = f /\ k \in 1..Len(t)
      BY <1>1, <3>1, <3>2
    <3>. QED  BY <3>3 DEF AckedIn
  <2>. QED  BY <2>1, <2>2
<1>. QED  BY <1>5, <1>6, <1>7 DEF t

LEMMA ConcatIds ==
    ASSUME NEW s \in Seq(Item), NEW t \in Seq(Item), Distinct(s), Distinct(t),
           Names(s) \cap Names(t) = {}
    PROVE  /\ Distinct(s \o t)
           /\ Names(s \o t) = Names(s) \cup Names(t)
           /\ (\A i \in 1..Len(t) : t[i].orig = "unconfirmed")
                 => AckedIn(s \o t) = AckedIn(s)
<1>. DEFINE u == s \o t
<1>0. Len(s) \in Nat /\ Len(t) \in Nat
  BY LenProperties
<1>1. /\ Len(u) = Len(s) + Len(t)
      /\ \A j \in 1..(Len(s) + Len(t)) :
            u[j] = IF j <= Len(s) THEN s[j] ELSE t[j - Len(s)]
  BY ConcatProperties
<1>. HIDE DEF u
<1>2. \A j \in 1..Len(s) : j \in 1..Len(u) /\ u[j] = s[j]
  BY <1>0, <1>1
<1>3. \A j \in 1..Len(t) : Len(s) + j \in 1..Len(u) /\ u[Len(s) + j] = t[j]
  <2>. SUFFICES ASSUME NEW j \in 1..Len(t)
                PROVE  Len(s) + j \in 1..Len(u) /\ u[Len(s) + j] = t[j]
    OBVIOUS
  <2>1. Len(s) + j \in 1..(Len(s) + Len(t)) /\ ~(Len(s) + j <= Len(s))
    BY <1>0
  <2>2. (Len(s) + j) - Len(s) = j
    BY <1>0
  <2>. QED  BY <1>1, <2>1, <2>2
<1>4. \A j \in 1..Len(u) : \/ j \in 1..Len(s) /\ u[j] = s[j]
                           \/ /\ j - Len(s) \in 1..Len(t) /\ j > Len(s)
                              /\ u[j] = t[j - Len(s)]
  <2>. SUFFICES ASSUME NEW j \in 1..Len(u)
                PROVE  \/ j \in 1..Len(s) /\ u[j] = s[j]
                       \/ /\ j - Len(s) \in 1..Len(t) /\ j > Len(s)
                          /\ u[j] = t[j - Len(s)]
    OBVIOUS
  <2>1. CASE j <= Len(s)
    BY <1>0, <1>1, <2>1
  <2>2. CASE j > Len(s)
    <3>1. j \in 1..(Len(s) + Len(t)) /\ j - Len(s) \in 1..Len(t)
      BY <1>0, <1>1, <2>2
    <3>2. u[j] = t[j - Len(s)]
      BY <1>0, <1>1, <2>2, <3>1
    <3>. QED  BY <2>2, <3>1, <3>2
  <2>. QED  BY <1>0, <1>1, <2>1, <2>2
<1>5. \A j \in 1..Len(s) : s[j].file \in Names(s)
  BY DEF Names
<1>6. \A j \in 1..Len(t) : t[j].file \in Names(t)
  BY DEF Names
<1>7. Distinct(u)
  <2>. SUFFICES ASSUME NEW i \in 1..Len(u), NEW j \in 1..Len(u),
                       u[i].file = u[j].file
                PROVE  i = j
    BY DEF Distinct
  <2>1. CASE i \in 1..Len(s) /\ j \in 1..Len(s)
    BY <1>2, <2>1 DEF Distinct
  <2>2. CASE i > Len(s) /\ j > Len(s)
    <3>0. \A k \in 1..Len(u) : k > Len(s) =>
              k \notin 1..Len(s) /\ k - Len(s) \in 1..Len(t)
              /\ u[k] = t[k - Len(s)]
      <4>1. \A k \in 1..Len(u) : k > Len(s) => k \notin 1..Len(s)
        BY <1>0, <1>1
      <4>. QED  BY <1>4, <4>1
    <3>1. i - Len(s) \in 1..Len(t) /\ j - Len(s) \in 1..Len(t)
             /\ t[i - Len(s)].file = t[j - Len(s)].file
      BY <2>2, <3>0
    <3>2. i - Len(s) = j - Len(s)
      BY <3>1 DEF Distinct
    <3>. QED  BY <1>0, <1>1, <3>2
  <2>3. \A k \in 1..Len(u) : \/ k \in 1..Len(s) /\ u[k].file \in Names(s)
                             \/ k > Len(s) /\ u[k].file \in Names(t)
    BY <1>4, <1>5, <1>6
  <2>4. u[i].file \in Names(s) <=> u[j].file \in Names(s)
    OBVIOUS
  <2>. QED  BY <2>1, <2>2, <2>3, <2>4
<1>8. Names(u) = Names(s) \cup Names(t)
  <2>1. \A j \in 1..Len(u) : u[j].file \in Names(s) \cup Names(t)
    BY <1>4, <1>5, <1>6
  <2>2. \A j \in 1..Len(s) : s[j].file \in Names(u)
    BY <1>2 DEF Names
  <2>3. \A j \in 1..Len(t) : t[j].file \in Names(u)
    BY <1>3 DEF Names
  <2>. QED  BY <2>1, <2>2, <2>3 DEF Names
<1>9. ASSUME \A i \in 1..Len(t) : t[i].orig = "unconfirmed"
      PROVE  AckedIn(u) = AckedIn(s)
  <2>1. \A j \in 1..Len(s) : s[j].orig = "valid" =>
            j \in 1..Len(u) /\ u[j].orig = "valid" /\ u[j].file = s[j].file
    BY <1>2
  <2>2. \A j \in 1..Len(u) : u[j].orig = "valid" =>
            /\ j \in 1..Len(s)
            /\ s[j].orig = "valid" /\ s[j].file = u[j].file
    BY <1>4, <1>9
  <2>. QED  BY <2>1, <2>2 DEF AckedIn
<1>. QED  BY <1>7, <1>8, <1>9 DEF u

(***************************************************************************)
(* The locks                                                                *)
(***************************************************************************)

LEMMA LockStep ==
    ASSUME TypeInv, LockInv, Next
    PROVE  LockInv'
<1>. USE ConstantsAssumption DEF LockInv, Holding
<1>0. /\ main \in MainState /\ reporter \in [Reps -> ReporterPc]
  BY DEF TypeInv, TypeOK
<1>1. ASSUME NEW c \in Clients, ClientStep(c)
      PROVE  UNCHANGED <<lockVars, reportVars, main>>
  BY <1>1 DEF ClientStep, SealBegin, SealCount, SealStore, SealFail, SealSpec,
              RequestAny, Request, ConfirmFile, ConfirmSpec, DeleteFile,
              DeleteSpec
<1>2. CASE MainStep
  <2>. USE <1>0 DEF MainState, lockVars, reportVars
  <2>1. CASE ValidateBegin
    <3>1. /\ UNCHANGED <<reporter, g_gen_work_report>>
          /\ \/ g_checked_files_mutex' = Main /\ main'.pc = "check"
             \/ UNCHANGED g_checked_files_mutex /\ main'.pc = "storeSpec"
          /\ main.pc = "validate" /\ g_checked_files_mutex = Free
      BY <2>1 DEF ValidateBegin, MergeNew
    <3>. HIDE DEF MainState
    <3>. QED  BY <3>1
  <2>2. CASE ValidateYield
    BY <2>2 DEF ValidateYield
  <2>3. CASE ValidateCheck
    <3>1. main'.pc = "check"
      BY <2>3, CheckOutcome DEF ValidateCheck, CheckEffect
    <3>. QED  BY <2>3, <3>1 DEF ValidateCheck
  <2>4. CASE ValidateEnd
    BY <2>4 DEF ValidateEnd, MainStart
  <2>5. CASE StoreSpec
    BY <2>5 DEF StoreSpec
  <2>6. CASE StoreSkip
    BY <2>6 DEF StoreSkip, MainStart
  <2>7. CASE StoreFile
    BY <2>7 DEF StoreFile
  <2>8. CASE StoreEnd
    BY <2>8 DEF StoreEnd, MainStart
  <2>9. CASE ValidateSkip
    BY <2>9 DEF ValidateSkip
  <2>10. CASE StoreComma
    BY <2>10 DEF StoreComma
  <2>. QED
    BY <1>2, <2>1, <2>2, <2>3, <2>4, <2>5, <2>6, <2>7, <2>8, <2>9, <2>10
    DEF MainStep
<1>3. ASSUME NEW r \in Reps, ReportStep(r)
      PROVE  LockInv'
  <2>. USE <1>0 DEF lockVars
  <2>1. CASE ReportBegin(r)
    BY <2>1 DEF ReportBegin
  <2>2. CASE \E passed \in BOOLEAN : ReportGate(r, passed)
    BY <2>2 DEF ReportGate, ReportLockFree
  <2>3. CASE ReportLockFiles(r)
    BY <2>3 DEF ReportLockFiles
  <2>4. CASE ReportPurge(r)
    BY <2>4 DEF ReportPurge
  <2>5. CASE ReportGenerate(r)
    BY <2>5 DEF ReportGenerate
  <2>6. CASE UploadAccepted(r)
    BY <2>6 DEF UploadAccepted
  <2>7. CASE UploadFailed(r)
    BY <2>7 DEF UploadFailed
  <2>8. CASE ReportResult(r)
    BY <2>8 DEF ReportResult
  <2>9. CASE UpgradeData(r)
    BY <2>9 DEF UpgradeData
  <2>. QED
    BY <1>3, <2>1, <2>2, <2>3, <2>4, <2>5, <2>6, <2>7, <2>8, <2>9
       DEF ReportStep
<1>4. CASE CrashRestart
  BY <1>4 DEF CrashRestart, MainStart
<1>5. CASE UNCHANGED <<lockVars, reportVars, main>>
  BY <1>5 DEF lockVars, reportVars
<1>. QED  BY <1>1, <1>2, <1>3, <1>4, <1>5 DEF Next
(***************************************************************************)
(* The vectors: every hash once, and nothing in new_files the chain knows   *)
(***************************************************************************)

VecInv == DistinctFiles /\ NewInv

LEMMA SameIdsRefl == ASSUME NEW s  PROVE  SameIds(s, s) /\ CurOnly(s, s)
BY DEF SameIds, CurOnly

\* Steps that change no identity and hand out hashes at most.
LEMMA SameVectors ==
    ASSUME TypeInv, VecInv,
           SameIds(checked_files, checked_files'),
           SameIds(new_files, new_files'),
           sealed \subseteq sealed', crashes' = crashes
    PROVE  VecInv'
<1>1. checked_files \in Seq(Item) /\ new_files \in Seq(Item)
  BY DEF TypeInv, TypeOK
<1>2. /\ Distinct(checked_files') /\ Names(checked_files') = Names(checked_files)
      /\ Distinct(new_files') /\ Names(new_files') = Names(new_files)
  BY <1>1, SameIdsLemma DEF VecInv, DistinctFiles
<1>3. NewInv'
  BY DEF VecInv, NewInv, SameIds
<1>. QED  BY <1>2, <1>3 DEF VecInv, DistinctFiles

\* What the three kinds of threads do to the vectors. Only sealing, deleting
\* a file that was not merged, merging and purging change an identity.
LEMMA ClientVectors ==
    ASSUME TypeInv, NEW c \in Clients, ClientStep(c)
    PROVE  /\ UNCHANGED <<db, reportVars, main, g_work_report, chain,
                          reported_files_idx, crashes, lost>>
           /\ sealed \subseteq sealed'
           /\ CurOnly(checked_files, checked_files')
           /\ \/ SameIds(new_files, new_files')
              \/ \E f \in Files \ sealed :
                    /\ sealed' = sealed \cup {f}
                    /\ new_files' = Append(new_files, NewItem(f))
              \/ \E i \in 1..Len(new_files) :
                    /\ new_files' = RemoveAt(new_files, i)
                    /\ sealed' = sealed
<1>. USE SameIdsRefl DEF fileVars, lockVars, boundVars, reportVars
<1>0. checked_files \in Seq(Item) /\ new_files \in Seq(Item)
  BY DEF TypeInv, TypeOK
<1>1. CASE SealBegin(c)
  BY <1>1 DEF SealBegin
<1>2. CASE SealCount(c)
  BY <1>2 DEF SealCount
<1>3. CASE SealStore(c)
  BY <1>3 DEF SealStore
<1>4. CASE SealFail(c)
  BY <1>4 DEF SealFail
<1>5. CASE SealSpec(c)
  BY <1>5 DEF SealSpec
<1>6. CASE RequestAny(c)
  BY <1>6 DEF RequestAny, Request
<1>7. CASE ConfirmFile(c)
  <2>1. ASSUME NEW i \in 1..Len(checked_files),
               checked_files' = [checked_files EXCEPT ![i].cur = "valid"]
        PROVE  CurOnly(checked_files, checked_files')
    BY <1>0, <2>1, WithCurOnly, StatusNames
  <2>2. ASSUME NEW i \in 1..Len(new_files),
               new_files' = [new_files EXCEPT ![i].cur = "valid"]
        PROVE  SameIds(new_files, new_files')
    BY <1>0, <2>2, WithCurOnly, StatusNames DEF CurOnly
  <2>3. /\ CurOnly(checked_files, checked_files')
        /\ SameIds(new_files, new_files')
    BY <1>7, <2>1, <2>2, ConfirmEffect
  <2>. QED  BY <1>7, <2>3 DEF ConfirmFile
<1>8. CASE ConfirmSpec(c)
  BY <1>8 DEF ConfirmSpec
<1>9. CASE DeleteFile(c)
  <2>1. ASSUME NEW i \in 1..Len(checked_files),
               checked_files' = [checked_files EXCEPT ![i].cur = "deleted"]
        PROVE  CurOnly(checked_files, checked_files')
    BY <1>0, <2>1, WithCurOnly, StatusNames
  <2>2. /\ CurOnly(checked_files, checked_files')
        /\ \/ SameIds(new_files, new_files')
           \/ \E i \in 1..Len(new_files) : new_files' = RemoveAt(new_files, i)
    BY <1>9, <2>1, DeleteEffect
  <2>. QED  BY <1>9, <2>2 DEF DeleteFile
<1>10. CASE DeleteSpec(c)
  BY <1>10 DEF DeleteSpec
<1>. QED
  BY <1>1, <1>2, <1>3, <1>4, <1>5, <1>6, <1>7, <1>8, <1>9, <1>10 DEF ClientStep

LEMMA MainVectors ==
    ASSUME TypeInv, MainStep
    PROVE  /\ UNCHANGED <<reportVars, g_work_report, chain, sealed,
                          reported_files_idx, crashes, lost>>
           /\ \/ /\ CurOnly(checked_files, checked_files')
                 /\ new_files' = new_files
              \/ /\ main.pc = "validate"
                 /\ checked_files' = checked_files \o new_files
                 /\ new_files' = <<>>
                 /\ main'.pc \notin {"storeFiles", "storeComma"}
                 /\ main'.buf = main.buf
                 /\ main'.it = main.it /\ db' = db
<1>. USE SameIdsRefl DEF fileVars, lockVars, boundVars, reportVars
<1>0. checked_files \in Seq(Item) /\ main \in MainState
  BY DEF TypeInv, TypeOK
<1>1. CASE ValidateBegin
  BY <1>0, <1>1 DEF ValidateBegin, MergeNew, MainState
<1>2. CASE ValidateYield
  BY <1>2 DEF ValidateYield
<1>3. CASE ValidateCheck
  <2>1. CurOnly(checked_files, checked_files')
    <3>1. PICK i \in 1..main.num, good \in BOOLEAN : CheckFile(i, good)
      BY <1>3 DEF ValidateCheck
    <3>2. \/ checked_files' = checked_files
          \/ /\ i \in 1..Len(checked_files)
             /\ \E st \in Status :
                   checked_files' = [checked_files EXCEPT ![i].cur = st]
      BY <3>1, CheckOutcome DEF CheckEffect
    <3>. QED  BY <1>0, <3>2, WithCurOnly
  <2>. QED  BY <1>3, <2>1 DEF ValidateCheck
<1>4. CASE ValidateEnd
  BY <1>4 DEF ValidateEnd
<1>5. CASE StoreSpec
  BY <1>5 DEF StoreSpec
<1>6. CASE StoreSkip
  BY <1>6 DEF StoreSkip
<1>7. CASE StoreFile
  BY <1>7 DEF StoreFile
<1>8. CASE StoreEnd
  BY <1>8 DEF StoreEnd
<1>9. CASE ValidateSkip
  BY <1>9 DEF ValidateSkip
<1>10. CASE StoreComma
  BY <1>10 DEF StoreComma
<1>. QED
  BY <1>1, <1>2, <1>3, <1>4, <1>5, <1>6, <1>7, <1>8, <1>9, <1>10 DEF MainStep

\* Marking changes only the marks.
LEMMA MarkedFields ==
    ASSUME NEW s \in Seq(Item), NEW i \in 1..Len(s)
    PROVE  /\ Marked(s)[i].file = s[i].file
           /\ Marked(s)[i].wait = s[i].cur
           /\ Marked(s)[i].orig = s[i].orig
<1>1. s[i] \in Item
  BY ItemFields
<1>2. Marked(s)[i] = [s[i] EXCEPT !.wait = s[i].cur]
  BY MarkedType
<1>. QED  BY <1>1, <1>2 DEF Item, FileItem, NullItem

LEMMA ReportVectors ==
    ASSUME TypeInv, NEW r \in Reps, ReportStep(r)
    PROVE  /\ UNCHANGED <<new_files, sealed, main, db, crashes>>
           /\ \/ SameIds(checked_files, checked_files')
              \/ ReportPurge(r)
              \/ ReportResult(r)
<1>. USE SameIdsRefl DEF fileVars, boundVars
<1>0. checked_files \in Seq(Item)
  BY DEF TypeInv, TypeOK
<1>1. CASE ReportBegin(r)
  BY <1>1 DEF ReportBegin
<1>2. CASE \E passed \in BOOLEAN : ReportGate(r, passed)
  BY <1>2 DEF ReportGate, ReportLockFree
<1>3. CASE ReportLockFiles(r)
  BY <1>3 DEF ReportLockFiles
<1>4. CASE ReportPurge(r)
  BY <1>4 DEF ReportPurge
<1>5. CASE ReportGenerate(r)
  <2>1. SameIds(checked_files, Marked(checked_files))
    BY <1>0, MarkedType, MarkedFields DEF SameIds
  <2>. QED  BY <1>5, <2>1 DEF ReportGenerate
<1>6. CASE UploadAccepted(r)
  BY <1>6 DEF UploadAccepted
<1>7. CASE UploadFailed(r)
  BY <1>7 DEF UploadFailed
<1>8. CASE ReportResult(r)
  BY <1>8 DEF ReportResult
<1>9. CASE UpgradeData(r)
  BY <1>9 DEF UpgradeData
<1>. QED
  BY <1>1, <1>2, <1>3, <1>4, <1>5, <1>6, <1>7, <1>8, <1>9 DEF ReportStep

\* Sealing appends a hash that was never handed out.
LEMMA SealIds ==
    ASSUME NEW s \in Seq(Item), NEW f \in Files, Distinct(s), f \notin Names(s)
    PROVE  /\ Append(s, NewItem(f)) \in Seq(Item)
           /\ Distinct(Append(s, NewItem(f)))
           /\ Names(Append(s, NewItem(f))) = Names(s) \cup {f}
           /\ \A j \in 1..Len(Append(s, NewItem(f))) :
                 \/ Append(s, NewItem(f))[j] = NewItem(f)
                 \/ j \in 1..Len(s) /\ Append(s, NewItem(f))[j] = s[j]
<1>. DEFINE t == Append(s, NewItem(f))
<1>0. Len(s) \in Nat
  BY LenProperties
<1>1. NewItem(f) \in Item /\ NewItem(f).file = f
  BY StatusNames DEF NewItem, Item, FileItem
<1>2. /\ t \in Seq(Item) /\ Len(t) = Len(s) + 1
      /\ \A j \in 1..Len(s) : t[j] = s[j]
      /\ t[Len(s) + 1] = NewItem(f)
  BY <1>1, AppendProperties
<1>. HIDE DEF t
<1>3. \A j \in 1..Len(t) : \/ j = Len(s) + 1 /\ t[j] = NewItem(f)
                           \/ j \in 1..Len(s) /\ t[j] = s[j]
  BY <1>0, <1>2
<1>4. Distinct(t)
  BY <1>1, <1>3 DEF Distinct, Names
<1>5. Names(t) = Names(s) \cup {f}
  <2>1. \A j \in 1..Len(t) : t[j].file \in Names(s) \cup {f}
    BY <1>1, <1>3 DEF Names
  <2>2. \A j \in 1..Len(s) : j \in 1..Len(t) /\ s[j].file = t[j].file
    BY <1>0, <1>2
  <2>3. Len(s) + 1 \in 1..Len(t) /\ t[Len(s) + 1].file = f
    BY <1>0, <1>1, <1>2
  <2>. QED  BY <2>1, <2>2, <2>3 DEF Names
<1>. QED  BY <1>2, <1>3, <1>4, <1>5 DEF t

\* Settling changes only what the chain is known to count.
LEMMA SettledFields ==
    ASSUME NEW s \in Seq(Item), NEW I, NEW i \in 1..Len(s)
    PROVE  /\ Settled(s, I)[i].file = s[i].file
           /\ Settled(s, I)[i].orig = IF i \in I THEN s[i].wait ELSE s[i].orig
<1>1. /\ [s[i] EXCEPT !.orig = s[i].wait].file = s[i].file
      /\ [s[i] EXCEPT !.orig = s[i].wait].orig = s[i].wait
  <2>1. s[i] \in Item
    BY ItemFields
  <2>. QED  BY <2>1 DEF Item, FileItem, NullItem
<1>2. Settled(s, I)[i] =
         IF i \in I THEN [s[i] EXCEPT !.orig = s[i].wait] ELSE s[i]
  BY SettledType
<1>. QED  BY <1>1, <1>2

\* What comes back from the database has no hash twice: the parser adds one
\* item without a hash, and only to a text that has none.
LEMMA LoadedIds ==
    ASSUME NEW text \in Stored, Distinct(text.files)
    PROVE  /\ Distinct(Loaded(text))
           /\ Names(Loaded(text)) \subseteq Names(text.files) \cup {NoFile}
<1>. DEFINE s == text.files
            t == Append(s, NullItem)
<1>0. s \in Seq(Item) /\ Len(s) \in Nat
  BY LenProperties DEF Stored
<1>1. Names(<<>>) = {} /\ Distinct(<<>>)
  BY DEF Names, Distinct
<1>2. ASSUME NullItem \notin Range(s)
      PROVE  Distinct(t) /\ Names(t) \subseteq Names(s) \cup {NoFile}
  <2>1. \A j \in 1..Len(s) : s[j].file # NoFile
    <3>1. ASSUME NEW j \in 1..Len(s)
          PROVE  s[j].file # NoFile
      <4>1. s[j] # NullItem
        BY <1>0, <1>2 DEF Range
      <4>2. s[j] \in FileItem
        BY <1>0, <4>1, ItemFields
      <4>. QED  BY <4>2, ConstantsAssumption DEF FileItem
    <3>. QED  BY <3>1
  <2>2. /\ Len(t) = Len(s) + 1 /\ t[Len(s) + 1] = NullItem
        /\ \A j \in 1..Len(s) : t[j] = s[j]
    BY <1>0, AppendProperties DEF Item
  <2>. HIDE DEF t
  <2>3. \A j \in 1..Len(t) : \/ j = Len(s) + 1 /\ t[j].file = NoFile
                             \/ j \in 1..Len(s) /\ t[j] = s[j]
    <3>1. t[Len(s) + 1].file = NoFile
      BY <2>2 DEF NullItem
    <3>. QED  BY <1>0, <2>2, <3>1
  <2>4. Distinct(t)
    BY <2>1, <2>3 DEF Distinct
  <2>. QED  BY <2>3, <2>4 DEF Names
<1>. QED  BY <1>1, <1>2 DEF Loaded

LEMMA VecStep ==
    ASSUME TypeInv, VecInv, StoreInv, Next
    PROVE  VecInv'
<1>0. /\ checked_files \in Seq(Item) /\ new_files \in Seq(Item)
      /\ sealed \subseteq Files
  BY DEF TypeInv, TypeOK
<1>1. ASSUME NEW c \in Clients, ClientStep(c)
      PROVE  VecInv'
  <2>1. CASE SameIds(new_files, new_files')
    BY <1>1, <2>1, ClientVectors, SameVectors DEF CurOnly
  <2>2. ASSUME NEW f \in Files \ sealed, sealed' = sealed \cup {f},
               new_files' = Append(new_files, NewItem(f))
        PROVE  VecInv'
    <3>1. f \notin Names(new_files) /\ f \notin Names(checked_files)
      BY ConstantsAssumption DEF VecInv, DistinctFiles
    <3>2. /\ Distinct(new_files')
          /\ Names(new_files') = Names(new_files) \cup {f}
      BY <1>0, <2>2, <3>1, SealIds DEF VecInv, DistinctFiles
    <3>3. /\ Distinct(checked_files')
          /\ Names(checked_files') = Names(checked_files)
      BY <1>0, <1>1, ClientVectors, SameIdsLemma
         DEF CurOnly, VecInv, DistinctFiles
    <3>4. NewInv'
      <4>1. \A j \in 1..Len(new_files') :
               \/ new_files'[j] = NewItem(f)
               \/ j \in 1..Len(new_files) /\ new_files'[j] = new_files[j]
        BY <1>0, <2>2, <3>1, SealIds DEF VecInv, DistinctFiles
      <4>2. NewItem(f).orig = "unconfirmed"
        BY DEF NewItem
      <4>. QED  BY <4>1, <4>2 DEF VecInv, NewInv
    <3>5. crashes' = crashes
      BY <1>1, ClientVectors
    <3>. QED  BY <2>2, <3>1, <3>2, <3>3, <3>4, <3>5 DEF VecInv, DistinctFiles
  <2>3. ASSUME NEW i \in 1..Len(new_files), sealed' = sealed,
               new_files' = RemoveAt(new_files, i)
        PROVE  VecInv'
    <3>1. /\ Distinct(new_files')
          /\ Names(new_files') \subseteq Names(new_files)
      BY <1>0, <2>3, RemoveIds DEF VecInv, DistinctFiles
    <3>2. /\ Distinct(checked_files')
          /\ Names(checked_files') = Names(checked_files)
      BY <1>0, <1>1, ClientVectors, SameIdsLemma
         DEF CurOnly, VecInv, DistinctFiles
    <3>3. NewInv'
      <4>0. Len(new_files) \in Nat
        BY <1>0, LenProperties
      <4>1. /\ Len(new_files') = Len(new_files) - 1
            /\ \A j \in 1..(Len(new_files) - 1) :
                  new_files'[j] = IF j < i THEN new_files[j] ELSE new_files[j + 1]
        BY <1>0, <2>3, RemoveAtProperties
      <4>. QED  BY <4>0, <4>1 DEF VecInv, NewInv
    <3>4. crashes' = crashes
      BY <1>1, ClientVectors
    <3>. QED  BY <2>3, <3>1, <3>2, <3>3, <3>4 DEF VecInv, DistinctFiles
  <2>. QED  BY <1>1, <2>1, <2>2, <2>3, ClientVectors
<1>2. CASE MainStep
  <2>1. CASE CurOnly(checked_files, checked_files') /\ new_files' = new_files
    BY <1>2, <2>1, MainVectors, SameVectors, SameIdsRefl DEF CurOnly
  <2>2. CASE checked_files' = checked_files \o new_files /\ new_files' = <<>>
    <3>1. /\ Distinct(checked_files')
          /\ Names(checked_files') = Names(checked_files) \cup Names(new_files)
      BY <1>0, <2>2, ConcatIds DEF VecInv, DistinctFiles
    <3>2. Distinct(new_files') /\ Names(new_files') = {} /\ NewInv'
      BY <2>2 DEF Distinct, Names, NewInv
    <3>3. sealed' = sealed /\ crashes' = crashes
      BY <1>2, MainVectors
    <3>4. NoFile \notin Names(new_files)
      BY <1>0, ConstantsAssumption DEF VecInv, DistinctFiles
    <3>. QED  BY <3>1, <3>2, <3>3, <3>4 DEF VecInv, DistinctFiles
  <2>. QED  BY <1>2, <2>1, <2>2, MainVectors
<1>3. ASSUME NEW r \in Reps, ReportStep(r)
      PROVE  VecInv'
  <2>0. UNCHANGED <<new_files, sealed, main, db, crashes>>
    BY <1>3, ReportVectors
  <2>1. CASE SameIds(checked_files, checked_files')
    BY <1>3, <2>0, <2>1, SameVectors, SameIdsRefl
  <2>2. CASE ReportPurge(r)
    <3>1. Distinct(checked_files') /\ Names(checked_files') \subseteq Names(checked_files)
      <4>1. purge_it \in 1..Len(checked_files)
        BY <1>0, <2>2, LenProperties DEF ReportPurge, TypeInv, TypeOK
      <4>2. Distinct(RemoveAt(checked_files, purge_it)) 
               /\ Names(RemoveAt(checked_files, purge_it)) \subseteq Names(checked_files)
        BY <1>0, <4>1, RemoveIds DEF VecInv, DistinctFiles
      <4>. QED  BY <2>2, <4>2 DEF ReportPurge, VecInv, DistinctFiles
    <3>. QED  BY <2>0, <3>1 DEF VecInv, DistinctFiles, NewInv
  <2>3. CASE ReportResult(r)
    <3>1. checked_files' = Settled(checked_files, reported_files_idx)
      BY <2>3 DEF ReportResult
    <3>2. /\ Len(checked_files') = Len(checked_files)
          /\ \A i \in 1..Len(checked_files) :
                checked_files'[i].file = checked_files[i].file
      BY <1>0, <3>1, SettledType, SettledFields
    <3>3. Distinct(checked_files') /\ Names(checked_files') = Names(checked_files)
      BY <3>2 DEF VecInv, DistinctFiles, Distinct, Names
    <3>. QED  BY <2>0, <3>3 DEF VecInv, DistinctFiles, NewInv
  <2>. QED  BY <1>3, <2>1, <2>2, <2>3, ReportVectors
<1>4. CASE CrashRestart
  <2>1. Names(<<>>) = {} /\ Distinct(<<>>)
    BY DEF Names, Distinct
  <2>2. Distinct(Loaded(db)) /\ Names(Loaded(db)) \subseteq sealed \cup {NoFile}
    BY <2>1, LoadedIds DEF StoreInv, TypeInv, TypeOK
  <2>3. crashes' # 0
    BY <1>4 DEF CrashRestart, TypeInv, TypeOK
  <2>4. NewInv'
    BY <1>4 DEF CrashRestart, NewInv
  <2>. QED
    BY <1>4, <2>1, <2>2, <2>3, <2>4 DEF CrashRestart, VecInv, DistinctFiles
<1>. QED  BY <1>1, <1>2, <1>3, <1>4 DEF Next

(***************************************************************************)
(* The metadata store: a copy made without the file lock has no duplicates  *)
(***************************************************************************)

\* The copy is made index by index; a step that keeps the identities, or
\* erases one and moves the others down, cannot make it meet a hash again.
LEMMA BufKept ==
    ASSUME TypeInv, StoreInv,
           \/ SameIds(checked_files, checked_files')
           \/ \E k \in 1..Len(checked_files) :
                 checked_files' = RemoveAt(checked_files, k),
           sealed \subseteq sealed', main' = main, db' = db
    PROVE  StoreInv'
<1>0. checked_files \in Seq(Item) /\ main \in MainState
  BY DEF TypeInv, TypeOK
<1>1. Len(checked_files) \in Nat /\ main.it \in Nat
  BY <1>0, LenProperties DEF MainState
<1>2. ASSUME NEW i \in 1..Len(checked_files'), i >= main.it,
             NEW j \in 1..Len(main.buf)
      PROVE  checked_files'[i].file # main.buf[j].file
  <2>1. CASE SameIds(checked_files, checked_files')
    BY <1>2, <2>1 DEF SameIds, StoreInv
  <2>2. ASSUME NEW k \in 1..Len(checked_files),
               checked_files' = RemoveAt(checked_files, k)
        PROVE  checked_files'[i].file # main.buf[j].file
    <3>1. /\ Len(checked_files') = Len(checked_files) - 1
          /\ checked_files'[i] \in {checked_files[i], checked_files[i + 1]}
      BY <1>0, <2>2, RemoveAtProperties
    <3>2. i \in 1..Len(checked_files) /\ i + 1 \in 1..Len(checked_files)
             /\ i + 1 >= main.it
      BY <1>1, <1>2, <3>1
    <3>. QED  BY <1>2, <3>1, <3>2 DEF StoreInv
  <2>. QED  BY <2>1, <2>2
<1>. QED  BY <1>2 DEF StoreInv

\* The main loop between two stores has copied nothing.
LEMMA BufEmpty ==
    ASSUME StoreInv, sealed \subseteq sealed', db'.files = db.files,
           main'.buf = <<>>
    PROVE  StoreInv'
<1>1. Names(<<>>) = {} /\ Distinct(<<>>)
  BY DEF Names, Distinct
<1>2. \A i \in 1..Len(checked_files'), j \in 1..Len(main'.buf) :
         i >= main'.it => checked_files'[i].file # main'.buf[j].file
  OBVIOUS
<1>. QED  BY <1>1, <1>2 DEF StoreInv

\* One item more is copied.
LEMMA BufCopy ==
    ASSUME TypeInv, VecInv, StoreInv, StoreFile
    PROVE  StoreInv'
<1>. DEFINE x == checked_files[main.it]
<1>0. /\ checked_files \in Seq(Item) /\ main \in MainState
      /\ main.buf \in Seq(Item)
  BY DEF TypeInv, TypeOK, MainState
<1>1. Len(checked_files) \in Nat /\ Len(main.buf) \in Nat
  BY <1>0, LenProperties
<1>2. main.it \in 1..Len(checked_files) /\ main.it + 1 > main.it
  BY <1>0, <1>1 DEF StoreFile, MainState
<1>3. x \in Item
  BY <1>0, <1>2, ItemFields
<1>4. /\ main'.buf = Append(main.buf, x) /\ main'.it = main.it + 1
      /\ main'.pc = "storeComma"
      /\ UNCHANGED <<checked_files, sealed, db>>
  BY <1>0 DEF StoreFile, MainState, fileVars
<1>5. /\ Len(main'.buf) = Len(main.buf) + 1
      /\ \A j \in 1..Len(main.buf) : main'.buf[j] = main.buf[j]
      /\ main'.buf[Len(main.buf) + 1] = x
  BY <1>0, <1>3, <1>4, AppendProperties
<1>6. \A j \in 1..Len(main'.buf) :
         \/ j = Len(main.buf) + 1 /\ main'.buf[j] = x
         \/ j \in 1..Len(main.buf) /\ main'.buf[j] = main.buf[j]
  BY <1>1, <1>5
<1>7. \A j \in 1..Len(main.buf) : main.buf[j].file # x.file
  BY <1>2 DEF StoreInv
<1>8. x.file \in sealed \cup {NoFile}
  BY <1>2 DEF VecInv, DistinctFiles, Names
<1>9. Distinct(main'.buf)
  BY <1>6, <1>7 DEF StoreInv, Distinct
<1>10. Names(main'.buf) \subseteq sealed \cup {NoFile}
  BY <1>6, <1>8 DEF StoreInv, Names
<1>11. ASSUME NEW i \in 1..Len(checked_files), NEW j \in 1..Len(main'.buf),
              i >= main.it + 1
       PROVE  checked_files[i].file # main'.buf[j].file
  <2>1. i # main.it /\ i >= main.it
    BY <1>1, <1>2, <1>11
  <2>2. checked_files[i].file # x.file
    BY <1>2, <2>1 DEF VecInv, DistinctFiles, Distinct
  <2>. QED  BY <1>6, <2>1, <2>2 DEF StoreInv
<1>. QED  BY <1>4, <1>9, <1>10, <1>11 DEF StoreInv

LEMMA StoreStep ==
    ASSUME TypeInv, VecInv, StoreInv, Next
    PROVE  StoreInv'
<1>0. main \in MainState /\ db \in Stored /\ checked_files \in Seq(Item)
  BY DEF TypeInv, TypeOK
<1>1. ASSUME NEW c \in Clients, ClientStep(c)
      PROVE  StoreInv'
  BY <1>1, ClientVectors, BufKept DEF CurOnly
<1>2. CASE MainStep
  <2>. USE DEF fileVars
  <2>0. sealed' = sealed
    BY <1>2, MainVectors
  <2>1. CASE ValidateBegin
    <3>1. main'.buf = main.buf /\ main.buf = <<>> /\ db' = db
      BY <1>0, <2>1 DEF ValidateBegin, MergeNew, StoreInv, MainState
    <3>. QED  BY <2>0, <3>1, BufEmpty
  <2>2. CASE ValidateYield
    <3>1. main'.buf = main.buf /\ main.buf = <<>> /\ db' = db
      BY <1>0, <2>2 DEF ValidateYield, StoreInv, MainState
    <3>. QED  BY <2>0, <3>1, BufEmpty
  <2>3. CASE ValidateCheck
    <3>1. main'.buf = main.buf
      <4>1. PICK i \in 1..main.num, good \in BOOLEAN : CheckFile(i, good)
        BY <2>3 DEF ValidateCheck
      <4>. QED  BY <1>0, <4>1, CheckOutcome DEF CheckEffect, MainState
    <3>2. main.buf = <<>> /\ db' = db
      BY <2>3 DEF ValidateCheck, StoreInv
    <3>. QED  BY <2>0, <3>1, <3>2, BufEmpty
  <2>4. CASE ValidateEnd
    <3>1. main'.buf = <<>> /\ db' = db
      BY <2>4 DEF ValidateEnd, MainStart
    <3>. QED  BY <2>0, <3>1, BufEmpty
  <2>5. CASE StoreSpec
    <3>1. main'.buf = main.buf /\ main.buf = <<>> /\ db'.files = db.files
      BY <1>0, <2>5 DEF StoreSpec, StoreInv, MainState, Stored
    <3>. QED  BY <2>0, <3>1, BufEmpty
  <2>6. CASE StoreSkip
    <3>1. main'.buf = <<>> /\ db' = db
      BY <2>6 DEF StoreSkip, MainStart
    <3>. QED  BY <2>0, <3>1, BufEmpty
  <2>7. CASE StoreFile
    BY <2>7, BufCopy
  <2>8. CASE StoreEnd
    <3>1. main'.buf = <<>> /\ db'.files \in {db.files, main.buf}
      BY <1>0, <2>8 DEF StoreEnd, MainStart, Stored
    <3>2. CASE db'.files = db.files
      BY <2>0, <3>1, <3>2, BufEmpty
    <3>3. CASE db'.files = main.buf
      <4>1. Names(<<>>) = {} /\ Distinct(<<>>)
        BY DEF Names, Distinct
      <4>. QED  BY <2>0, <3>1, <3>3, <4>1 DEF StoreInv
    <3>. QED  BY <3>1, <3>2, <3>3
  <2>9. CASE ValidateSkip
    <3>1. main'.buf = main.buf /\ main.buf = <<>> /\ db' = db
      BY <1>0, <2>9 DEF ValidateSkip, StoreInv, MainState
    <3>. QED  BY <2>0, <3>1, BufEmpty
  <2>10. CASE StoreComma
    <3>1. /\ main'.buf = main.buf /\ main'.it = main.it
          /\ main'.pc = "storeFiles" /\ UNCHANGED <<checked_files, db>>
      BY <1>0, <2>10 DEF StoreComma, MainState
    <3>. QED  BY <2>0, <3>1 DEF StoreInv
  <2>. QED
    BY <1>2, <2>1, <2>2, <2>3, <2>4, <2>5, <2>6, <2>7, <2>8, <2>9, <2>10
    DEF MainStep
<1>3. ASSUME NEW r \in Reps, ReportStep(r)
      PROVE  StoreInv'
  <2>0. UNCHANGED <<sealed, main, db>>
    BY <1>3, ReportVectors
  <2>1. CASE SameIds(checked_files, checked_files')
    BY <2>0, <2>1, BufKept
  <2>2. CASE ReportPurge(r)
    <3>1. purge_it \in 1..Len(checked_files)
      BY <1>0, <2>2, LenProperties DEF ReportPurge, TypeInv, TypeOK
    <3>2. \/ checked_files' = checked_files
          \/ checked_files' = RemoveAt(checked_files, purge_it)
      BY <2>2 DEF ReportPurge
    <3>. QED  BY <2>0, <3>1, <3>2, BufKept, SameIdsRefl
  <2>3. CASE ReportResult(r)
    <3>1. checked_files' = Settled(checked_files, reported_files_idx)
      BY <2>3 DEF ReportResult
    <3>2. /\ Len(checked_files') = Len(checked_files)
          /\ \A i \in 1..Len(checked_files) :
                checked_files'[i].file = checked_files[i].file
      BY <1>0, <3>1, SettledType, SettledFields
    <3>. QED  BY <2>0, <3>2 DEF StoreInv
  <2>. QED  BY <1>3, <2>1, <2>2, <2>3, ReportVectors
<1>4. CASE CrashRestart
  <2>1. main'.buf = <<>> /\ db' = db /\ sealed' = sealed
    BY <1>4 DEF CrashRestart, MainStart
  <2>. QED  BY <2>1, BufEmpty
<1>. QED  BY <1>1, <1>2, <1>3, <1>4 DEF Next

(***************************************************************************)
(* The report on its way                                                    *)
(***************************************************************************)

OnItsWay == \E r \in Reps : reporter[r] \in {"upload", "accepted"}

\* Nobody has a report on its way while another thread holds the report lock.
LEMMA OneReport ==
    ASSUME LockInv, NEW r \in Reps, NEW q \in Reps,
           reporter[r] \in Holding, reporter[q] \in Holding
    PROVE  r = q
BY DEF LockInv

\* Steps of the others only change CURRENT statuses.
LEMMA MarkKept ==
    ASSUME TypeInv, MarkInv, CurOnly(checked_files, checked_files'),
           reported_files_idx' = reported_files_idx,
           g_work_report' = g_work_report, OnItsWay' => OnItsWay
    PROVE  MarkInv'
<1>. SUFFICES ASSUME OnItsWay'  PROVE  MarkInv'
  BY DEF MarkInv, OnItsWay
<1>0. checked_files \in Seq(Item)
  BY DEF TypeInv, TypeOK
<1>1. Acked' = Acked
  BY <1>0, SameIdsLemma DEF CurOnly, Acked
<1>2. /\ reported_files_idx' \subseteq 1..Len(checked_files')
      /\ \A i \in reported_files_idx :
            /\ checked_files'[i].file = checked_files[i].file
            /\ checked_files'[i].wait = checked_files[i].wait
            /\ checked_files'[i].orig = checked_files[i].orig
  BY DEF CurOnly, SameIds, MarkInv, OnItsWay
<1>. QED  BY <1>1, <1>2 DEF MarkInv, OnItsWay

\* Merging new files leaves the recorded indexes where they are.
LEMMA MarkMerged ==
    ASSUME TypeInv, VecInv, MarkInv,
           checked_files' = checked_files \o new_files,
           UNCHANGED <<reported_files_idx, g_work_report, reporter>>
    PROVE  MarkInv'
<1>. SUFFICES ASSUME OnItsWay, OnItsWay'  PROVE  MarkInv'
  BY DEF MarkInv, OnItsWay
<1>0. checked_files \in Seq(Item) /\ new_files \in Seq(Item)
  BY DEF TypeInv, TypeOK
<1>1. Acked' = Acked
  BY <1>0, ConcatIds DEF VecInv, DistinctFiles, NewInv, Acked
<1>2. Len(checked_files) \in Nat /\ Len(new_files) \in Nat
  BY <1>0, LenProperties
<1>3. \A i \in 1..Len(checked_files) :
         i \in 1..Len(checked_files') /\ checked_files'[i] = checked_files[i]
  BY <1>0, <1>2, ConcatProperties
<1>4. /\ reported_files_idx' \subseteq 1..Len(checked_files')
      /\ \A i \in reported_files_idx : checked_files'[i] = checked_files[i]
  BY <1>3 DEF MarkInv, OnItsWay
<1>. QED  BY <1>1, <1>4 DEF MarkInv, OnItsWay

\* A report is born with its marks.
LEMMA MarkBorn ==
    ASSUME TypeInv, VecInv, NEW r \in Reps, ReportGenerate(r),
           reporter'[r] = "upload"
    PROVE  MarkInv'
<1>. DEFINE s == checked_files
            I == ReportedIdx(checked_files)
            wr == ReportOf(checked_files, ReportedIdx(checked_files))
            add == {i \in I : s[i].cur = "valid"}
            del == {i \in I : s[i].cur \in {"lost", "deleted"}}
            old == {i \in 1..Len(s) : s[i].orig = "valid"}
<1>0. checked_files \in Seq(Item) /\ reporter \in [Reps -> ReporterPc]
  BY DEF TypeInv, TypeOK
<1>1. /\ checked_files' = Marked(s) /\ reported_files_idx' = I
      /\ g_work_report' = wr
  BY <1>0 DEF ReportGenerate
<1>2. /\ Len(checked_files') = Len(s)
      /\ \A i \in 1..Len(s) :
            /\ checked_files'[i].file = s[i].file
            /\ checked_files'[i].wait = s[i].cur
            /\ checked_files'[i].orig = s[i].orig
  BY <1>0, <1>1, MarkedType, MarkedFields
<1>3. /\ I \subseteq 1..Len(s)
      /\ \A i \in I :
            \/ s[i].cur = "valid" /\ s[i].orig # "valid"
            \/ s[i].cur \in {"lost", "deleted"} /\ s[i].orig = "valid"
  BY DEF ReportedIdx, PendingIdx, Pending
<1>4. /\ wr.added = {s[i].file : i \in add}
      /\ wr.deleted = {s[i].file : i \in del}
      /\ wr.valid = {s[i].file : i \in (old \ del) \cup add}
  BY DEF ReportOf
<1>5. Acked' = {s[i].file : i \in old}
  BY <1>2 DEF Acked, AckedIn
<1>6. Distinct(s)
  BY DEF VecInv, DistinctFiles
<1>7. add \subseteq 1..Len(s) /\ del \subseteq 1..Len(s) /\ I = add \cup del
         /\ add \cap del = {} /\ add \cap old = {} /\ del \subseteq old
  BY <1>3
<1>. HIDE DEF wr, I, add, del, old
<1>8. wr.added \cup wr.deleted = {checked_files'[i].file : i \in I}
  BY <1>2, <1>3, <1>4, <1>7
<1>9. wr.added \cap wr.deleted = {}
  <2>1. \A i \in add, j \in del : s[i].file # s[j].file
    BY <1>6, <1>7 DEF Distinct
  <2>. QED  BY <1>4, <2>1
<1>10. wr.valid = (Acked' \ wr.deleted) \cup wr.added
  <2>1. old \subseteq 1..Len(s)
    BY DEF old
  <2>. QED  BY <1>4, <1>5, <1>6, <1>7, <2>1 DEF Distinct
<1>11. \A i \in I :
          \/ /\ checked_files'[i].wait = "valid"
             /\ checked_files'[i].orig # "valid"
             /\ checked_files'[i].file \in wr.added
          \/ /\ checked_files'[i].wait \in {"lost", "deleted"}
             /\ checked_files'[i].orig = "valid"
             /\ checked_files'[i].file \in wr.deleted
  BY <1>2, <1>3, <1>4 DEF add, del
<1>. QED  BY <1>1, <1>2, <1>3, <1>8, <1>9, <1>10, <1>11 DEF MarkInv

LEMMA MarkStep ==
    ASSUME TypeInv, LockInv, VecInv, MarkInv, Next
    PROVE  MarkInv'
<1>0. reporter \in [Reps -> ReporterPc]
  BY DEF TypeInv, TypeOK
<1>1. ASSUME NEW c \in Clients, ClientStep(c)
      PROVE  MarkInv'
  BY <1>1, ClientVectors, MarkKept DEF OnItsWay, reportVars
<1>2. CASE MainStep
  BY <1>2, MainVectors, MarkKept, MarkMerged DEF OnItsWay, reportVars
<1>3. ASSUME NEW r \in Reps, ReportStep(r)
      PROVE  MarkInv'
  <2>. DEFINE quiet == \A q \in Reps : reporter'[q] \notin {"upload", "accepted"}
  <2>0. quiet => MarkInv'
    BY DEF MarkInv
  <2>. USE SameIdsRefl DEF fileVars
  <2>1. CASE ReportBegin(r)
    BY <1>0, <2>1, MarkKept DEF ReportBegin, OnItsWay
  <2>2. CASE \E passed \in BOOLEAN : ReportGate(r, passed)
    BY <1>0, <2>2, MarkKept DEF ReportGate, ReportLockFree, OnItsWay
  <2>3. CASE ReportLockFiles(r)
    BY <1>0, <2>3, MarkKept DEF ReportLockFiles, OnItsWay
  <2>4. CASE ReportPurge(r)
    <3>1. quiet
      BY <1>0, <2>4, OneReport DEF ReportPurge, Holding
    <3>. QED  BY <2>0, <3>1
  <2>5. CASE ReportGenerate(r)
    <3>1. CASE reporter'[r] = "upload"
      BY <2>5, <3>1, MarkBorn
    <3>2. CASE reporter'[r] = "idle"
      <4>1. quiet
        BY <1>0, <2>5, <3>2, OneReport DEF ReportGenerate, Holding
      <4>. QED  BY <2>0, <4>1
    <3>. QED  BY <1>0, <2>5, <3>1, <3>2 DEF ReportGenerate
  <2>6. CASE UploadAccepted(r)
    BY <1>0, <2>6, MarkKept DEF UploadAccepted, OnItsWay
  <2>7. CASE UploadFailed(r)
    BY <1>0, <2>7, MarkKept DEF UploadFailed, OnItsWay
  <2>8. CASE ReportResult(r)
    <3>1. quiet
      BY <1>0, <2>8, OneReport DEF ReportResult, Holding
    <3>. QED  BY <2>0, <3>1
  <2>9. CASE UpgradeData(r)
    BY <1>0, <2>9, MarkKept DEF UpgradeData, OnItsWay
  <2>. QED
    BY <1>3, <2>1, <2>2, <2>3, <2>4, <2>5, <2>6, <2>7, <2>8, <2>9
       DEF ReportStep
<1>4. CASE CrashRestart
  BY <1>4 DEF CrashRestart, MarkInv
<1>. QED  BY <1>1, <1>2, <1>3, <1>4 DEF Next

(***************************************************************************)
(* The chain                                                                *)
(***************************************************************************)

\* Nobody waits for the result of an accepted report.
Settling == \E r \in Reps : reporter[r] = "accepted"

\* A step that changes neither the chain nor what the worker knows of it.
LEMMA ChainKept ==
    ASSUME TypeInv, AckedIsChain, Acked' = Acked,
           UNCHANGED <<chain, g_work_report, crashes>>, lost' = lost,
           Settling' <=> Settling
    PROVE  AckedIsChain'
BY DEF AckedIsChain, Undisturbed, Settling

\* Settling the recorded indexes applies the report to what the worker knows.
LEMMA SettledAcked ==
    ASSUME TypeInv, VecInv, MarkInv, NEW r \in Reps, ReportResult(r)
    PROVE  Acked' = (Acked \ g_work_report.deleted) \cup g_work_report.added
<1>. DEFINE s == checked_files
            I == reported_files_idx
            A == g_work_report.added
            D == g_work_report.deleted
<1>0. checked_files \in Seq(Item)
  BY DEF TypeInv, TypeOK
<1>1. checked_files' = Settled(s, I)
  BY DEF ReportResult
<1>2. /\ Len(checked_files') = Len(s)
      /\ \A i \in 1..Len(s) :
            /\ checked_files'[i].file = s[i].file
            /\ checked_files'[i].orig = IF i \in I THEN s[i].wait ELSE s[i].orig
  BY <1>0, <1>1, SettledType, SettledFields
<1>3. /\ I \subseteq 1..Len(s)
      /\ \A i \in I : \/ s[i].wait = "valid" /\ s[i].file \in A
                      \/ s[i].wait # "valid" /\ s[i].file \in D
      /\ A \cup D = {s[i].file : i \in I} /\ A \cap D = {}
  BY DEF MarkInv, ReportResult
<1>4. \A i, j \in 1..Len(s) : s[i].file = s[j].file => i = j
  BY DEF VecInv, DistinctFiles, Distinct
<1>5. /\ \A f : f \in Acked <=> \E i \in 1..Len(s) : /\ s[i].orig = "valid"
                                                    /\ s[i].file = f
      /\ \A f : f \in Acked' <=>
            \E i \in 1..Len(s) : /\ checked_files'[i].orig = "valid"
                                 /\ checked_files'[i].file = f
  BY <1>2 DEF Acked, AckedIn
<1>. HIDE DEF I, A, D
<1>6. ASSUME NEW f \in Acked'  PROVE  f \in (Acked \ D) \cup A
  <2>1. PICK i \in 1..Len(s) : checked_files'[i].orig = "valid" /\ s[i].file = f
    BY <1>2, <1>5
  <2>2. CASE i \in I
    BY <1>2, <1>3, <2>1, <2>2
  <2>3. CASE i \notin I
    <3>1. f \in Acked
      BY <1>2, <1>5, <2>1, <2>3
    <3>2. f \notin D
      BY <1>3, <1>4, <2>1, <2>3
    <3>. QED  BY <3>1, <3>2
  <2>. QED  BY <2>2, <2>3
<1>7. ASSUME NEW f \in A  PROVE  f \in Acked'
  <2>1. PICK i \in I : s[i].file = f
    BY <1>3
  <2>2. s[i].wait = "valid"
    BY <1>3, <2>1
  <2>. QED  BY <1>2, <1>3, <1>5, <2>1, <2>2
<1>8. ASSUME NEW f \in Acked, f \notin D  PROVE  f \in Acked'
  <2>1. PICK i \in 1..Len(s) : s[i].orig = "valid" /\ s[i].file = f
    BY <1>5
  <2>2. i \in I => s[i].wait = "valid"
    BY <1>3, <1>8, <2>1
  <2>. QED  BY <1>2, <1>5, <2>1, <2>2
<1>. QED  BY <1>6, <1>7, <1>8 DEF A, D

\* Erasing an item the chain does not count keeps what the worker knows.
LEMMA PurgedAcked ==
    ASSUME TypeInv, VecInv, NEW r \in Reps, ReportPurge(r)
    PROVE  Acked' = Acked
<1>0. checked_files \in Seq(Item)
  BY DEF TypeInv, TypeOK
<1>1. purge_it \in 1..Len(checked_files)
  BY <1>0, LenProperties DEF ReportPurge, TypeInv, TypeOK
<1>2. CASE UNCHANGED checked_files
  BY <1>2 DEF Acked
<1>3. CASE /\ Erasable(checked_files[purge_it])
           /\ checked_files' = RemoveAt(checked_files, purge_it)
  <2>1. checked_files[purge_it].orig # "valid"
    BY <1>3 DEF Erasable
  <2>2. AckedIn(RemoveAt(checked_files, purge_it)) = AckedIn(checked_files)
    BY <1>0, <1>1, <2>1, RemoveIds DEF VecInv, DistinctFiles
  <2>. QED  BY <1>3, <2>2 DEF Acked
<1>. QED  BY <1>2, <1>3 DEF ReportPurge

LEMMA ChainStep ==
    ASSUME TypeInv, LockInv, VecInv, MarkInv, AckedIsChain, Next
    PROVE  AckedIsChain'
<1>0. /\ reporter \in [Reps -> ReporterPc]
      /\ checked_files \in Seq(Item) /\ new_files \in Seq(Item)
      /\ crashes \in Nat /\ lost \in Nat
  BY DEF TypeInv, TypeOK
<1>1. ASSUME NEW c \in Clients, ClientStep(c)
      PROVE  AckedIsChain'
  <2>1. Acked' = Acked
    BY <1>0, <1>1, ClientVectors, SameIdsLemma DEF CurOnly, Acked
  <2>. QED  BY <1>1, <2>1, ClientVectors, ChainKept DEF Settling, reportVars
<1>2. CASE MainStep
  <2>1. Acked' = Acked
    <3>1. CASE CurOnly(checked_files, checked_files')
      BY <1>0, <3>1, SameIdsLemma DEF CurOnly, Acked
    <3>2. CASE checked_files' = checked_files \o new_files
      BY <1>0, <3>2, ConcatIds DEF VecInv, DistinctFiles, NewInv, Acked
    <3>. QED  BY <1>2, <3>1, <3>2, MainVectors
  <2>. QED  BY <1>2, <2>1, MainVectors, ChainKept DEF Settling, reportVars
<1>3. ASSUME NEW r \in Reps, ReportStep(r)
      PROVE  AckedIsChain'
  <2>0. SameIds(checked_files, checked_files') => Acked' = Acked
    BY <1>0, SameIdsLemma DEF Acked
  <2>. USE <1>0 DEF fileVars, boundVars
  <2>1. CASE ReportBegin(r)
    <3>1. Acked' = Acked /\ (Settling' <=> Settling)
      BY <2>1 DEF ReportBegin, Acked, Settling
    <3>. QED  BY <2>1, <3>1, ChainKept DEF ReportBegin
  <2>2. CASE \E passed \in BOOLEAN : ReportGate(r, passed)
    <3>1. Acked' = Acked /\ (Settling' <=> Settling)
      BY <2>2 DEF ReportGate, ReportLockFree, Acked, Settling
    <3>. QED  BY <2>2, <3>1, ChainKept DEF ReportGate, ReportLockFree
  <2>3. CASE ReportLockFiles(r)
    <3>1. Acked' = Acked /\ (Settling' <=> Settling)
      BY <2>3 DEF ReportLockFiles, Acked, Settling
    <3>. QED  BY <2>3, <3>1, ChainKept DEF ReportLockFiles
  <2>4. CASE ReportPurge(r)
    BY <2>4, PurgedAcked, ChainKept DEF ReportPurge, Settling
  <2>5. CASE ReportGenerate(r)
    <3>1. Acked' = Acked
      <4>1. SameIds(checked_files, Marked(checked_files))
        BY MarkedType, MarkedFields DEF SameIds
      <4>. QED  BY <2>0, <2>5, <4>1 DEF ReportGenerate
    <3>2. ~Settling /\ ~Settling'
      BY <2>5, OneReport DEF ReportGenerate, Settling, Holding
    <3>. QED
      BY <2>5, <3>1, <3>2 DEF ReportGenerate, AckedIsChain, Settling, Undisturbed
  <2>6. CASE UploadAccepted(r)
    <3>1. ~Settling
      BY <2>6, OneReport DEF UploadAccepted, Settling, Holding
    <3>2. Settling' /\ Acked' = Acked
      BY <2>6 DEF UploadAccepted, Settling, Acked
    <3>. QED
      BY <2>6, <3>1, <3>2 DEF UploadAccepted, AckedIsChain, Settling, Undisturbed
  <2>7. CASE UploadFailed(r)
    <3>1. ~Settling /\ ~Settling' /\ Acked' = Acked
      BY <2>7, OneReport DEF UploadFailed, Settling, Holding, Acked
    <3>2. CASE UNCHANGED <<chain, lost>>
      BY <2>7, <3>1, <3>2, ChainKept DEF UploadFailed
    <3>3. CASE lost' = lost + 1
      BY <3>3 DEF AckedIsChain, Undisturbed
    <3>. QED  BY <2>7, <3>2, <3>3 DEF UploadFailed
  <2>8. CASE ReportResult(r)
    <3>1. Settling /\ ~Settling'
      BY <2>8, OneReport DEF ReportResult, Settling, Holding
    <3>2. Acked' = (Acked \ g_work_report.deleted) \cup g_work_report.added
      BY <2>8, SettledAcked
    <3>. QED
      BY <2>8, <3>1, <3>2 DEF ReportResult, AckedIsChain, Settling, Undisturbed
  <2>9. CASE UpgradeData(r)
    <3>1. Acked' = Acked /\ (Settling' <=> Settling)
      BY <2>9 DEF UpgradeData, Acked, Settling
    <3>. QED  BY <2>9, <3>1, ChainKept DEF UpgradeData
  <2>. QED
    BY <1>3, <2>1, <2>2, <2>3, <2>4, <2>5, <2>6, <2>7, <2>8, <2>9
       DEF ReportStep
<1>4. CASE CrashRestart
  BY <1>0, <1>4 DEF CrashRestart, AckedIsChain, Undisturbed
<1>. QED  BY <1>1, <1>2, <1>3, <1>4 DEF Next

(***************************************************************************)
(* The items nobody deleted. Apart from a crash, only sealing and deleting  *)
(* change which ones there are, although eight steps write the vectors.     *)
(***************************************************************************)

\* Two vectors that differ in nothing an item's life depends on.
LEMMA SameAlive ==
    ASSUME NEW s, NEW t, Len(t) = Len(s),
           \A j \in 1..Len(s) :
               /\ t[j].file = s[j].file
               /\ t[j].cur = "deleted" <=> s[j].cur = "deleted"
    PROVE  AliveIn(t) = AliveIn(s)
BY DEF AliveIn

\* Marking an item as deleted.
LEMMA MarkDeletedAlive ==
    ASSUME NEW s \in Seq(Item), NEW i \in 1..Len(s), Distinct(s),
           NEW t, t = [s EXCEPT ![i].cur = "deleted"]
    PROVE  AliveIn(t) = AliveIn(s) \ {s[i].file}
<1>1. /\ Len(t) = Len(s)
      /\ \A j \in 1..Len(s) :
            /\ t[j].file = s[j].file
            /\ t[j].cur = IF j = i THEN "deleted" ELSE s[j].cur
  BY WithCur, StatusNames
<1>. QED  BY <1>1 DEF AliveIn, Distinct

\* Erasing an item.
LEMMA RemoveAlive ==
    ASSUME NEW s \in Seq(Item), NEW i \in 1..Len(s)
    PROVE  /\ s[i].cur = "deleted" => AliveIn(RemoveAt(s, i)) = AliveIn(s)
           /\ Distinct(s) =>
                AliveIn(RemoveAt(s, i)) = AliveIn(s) \ {s[i].file}
           /\ \A j \in 1..Len(RemoveAt(s, i)) :
                 \E k \in 1..Len(s) : RemoveAt(s, i)[j] = s[k]
<1>. DEFINE t == RemoveAt(s, i)
            old(j) == IF j < i THEN j ELSE j + 1
<1>0. Len(s) \in Nat
  BY LenProperties
<1>1. /\ Len(t) = Len(s) - 1
      /\ \A j \in 1..(Len(s) - 1) : t[j] = s[old(j)]
  BY RemoveAtProperties
<1>. HIDE DEF t
<1>2. \A j \in 1..Len(t) : old(j) \in 1..Len(s) /\ old(j) # i /\ t[j] = s[old(j)]
  BY <1>0, <1>1
<1>3. \A j \in 1..Len(s) : j # i => \E k \in 1..Len(t) : t[k] = s[j]
  <2>. SUFFICES ASSUME NEW j \in 1..Len(s), j # i
                PROVE  \E k \in 1..Len(t) : t[k] = s[j]
    OBVIOUS
  <2>1. CASE j < i
    <3>1. j \in 1..Len(t) /\ old(j) = j
      BY <1>0, <1>1, <2>1
    <3>. QED  BY <1>2, <3>1
  <2>2. CASE j > i
    <3>1. j - 1 \in 1..Len(t) /\ old(j - 1) = j
      BY <1>0, <1>1, <2>2
    <3>. QED  BY <1>2, <3>1
  <2>. QED  BY <2>1, <2>2
<1>. HIDE DEF old
<1>4. ASSUME NEW f \in AliveIn(t)
      PROVE  f \in AliveIn(s) /\ (Distinct(s) => f # s[i].file)
  <2>1. PICK j \in 1..Len(t) : t[j].file = f /\ t[j].cur # "deleted"
    BY DEF AliveIn
  <2>. QED  BY <1>2, <2>1 DEF AliveIn, Distinct
<1>5. ASSUME NEW f \in AliveIn(s), f # s[i].file \/ s[i].cur = "deleted"
      PROVE  f \in AliveIn(t)
  <2>1. PICK j \in 1..Len(s) : s[j].file = f /\ s[j].cur # "deleted"
    BY DEF AliveIn
  <2>2. j # i
    BY <1>5, <2>1
  <2>. QED  BY <1>3, <2>1, <2>2 DEF AliveIn
<1>6. s[i].cur = "deleted" => AliveIn(t) = AliveIn(s)
  BY <1>4, <1>5
<1>7. Distinct(s) => AliveIn(t) = AliveIn(s) \ {s[i].file}
  BY <1>4, <1>5
<1>8. \A j \in 1..Len(t) : \E k \in 1..Len(s) : t[j] = s[k]
  BY <1>2
<1>. QED  BY <1>6, <1>7, <1>8 DEF t

\* Merging.
LEMMA ConcatAlive ==
    ASSUME NEW s \in Seq(Item), NEW t \in Seq(Item)
    PROVE  AliveIn(s \o t) = AliveIn(s) \cup AliveIn(t)
<1>. DEFINE u == s \o t
<1>0. Len(s) \in Nat /\ Len(t) \in Nat
  BY LenProperties
<1>1. /\ Len(u) = Len(s) + Len(t)
      /\ \A j \in 1..(Len(s) + Len(t)) :
            u[j] = IF j <= Len(s) THEN s[j] ELSE t[j - Len(s)]
  BY ConcatProperties
<1>. HIDE DEF u
<1>2. \A j \in 1..Len(u) : \/ j \in 1..Len(s) /\ u[j] = s[j]
                           \/ \E k \in 1..Len(t) : u[j] = t[k]
  <2>. SUFFICES ASSUME NEW j \in 1..Len(u)
                PROVE  \/ j \in 1..Len(s) /\ u[j] = s[j]
                       \/ \E k \in 1..Len(t) : u[j] = t[k]
    OBVIOUS
  <2>1. j <= Len(s) \/ j - Len(s) \in 1..Len(t)
    BY <1>0, <1>1
  <2>. QED  BY <1>0, <1>1, <2>1
<1>3. \A j \in 1..Len(s) : j \in 1..Len(u) /\ u[j] = s[j]
  BY <1>0, <1>1
<1>4. ASSUME NEW j \in 1..Len(t) PROVE \E k \in 1..Len(u) : u[k] = t[j]
  <2>. DEFINE k == Len(s) + j
  <2>1. /\ k \in 1..(Len(s) + Len(t)) /\ ~(k <= Len(s))
        /\ k - Len(s) = j
    BY <1>0
  <2>. HIDE DEF k
  <2>2. u[k] = t[j]
    BY <1>1, <2>1
  <2>. QED  BY <1>1, <2>1, <2>2
<1>5. ASSUME NEW f \in AliveIn(u) PROVE f \in AliveIn(s) \cup AliveIn(t)
  <2>1. PICK j \in 1..Len(u) : u[j].file = f /\ u[j].cur # "deleted"
    BY DEF AliveIn
  <2>. QED  BY <1>2, <2>1 DEF AliveIn
<1>6. ASSUME NEW f \in AliveIn(s) \cup AliveIn(t) PROVE f \in AliveIn(u)
  <2>1. CASE f \in AliveIn(s)
    BY <1>3, <2>1 DEF AliveIn
  <2>2. CASE f \in AliveIn(t)
    BY <1>4, <2>2 DEF AliveIn
  <2>. QED  BY <2>1, <2>2
<1>7. AliveIn(u) = AliveIn(s) \cup AliveIn(t)
  BY <1>5, <1>6
<1>. QED  BY <1>7 DEF u

\* Sealing.
LEMMA AppendAlive ==
    ASSUME NEW s \in Seq(Item), NEW f \in Files, Distinct(s), f \notin Names(s)
    PROVE  AliveIn(Append(s, NewItem(f))) = AliveIn(s) \cup {f}
<1>. DEFINE t == Append(s, NewItem(f))
<1>0. Len(s) \in Nat
  BY LenProperties
<1>1. NewItem(f) \in Item /\ NewItem(f).file = f /\ NewItem(f).cur # "deleted"
  BY StatusNames DEF NewItem, Item, FileItem
<1>2. /\ Len(t) = Len(s) + 1
      /\ \A j \in 1..Len(s) : t[j] = s[j]
      /\ t[Len(s) + 1] = NewItem(f)
  BY <1>1, AppendProperties
<1>. HIDE DEF t
<1>3. \A j \in 1..Len(t) : \/ j = Len(s) + 1 /\ t[j] = NewItem(f)
                           \/ j \in 1..Len(s) /\ t[j] = s[j]
  BY <1>0, <1>2
<1>4. \A j \in 1..Len(s) : j \in 1..Len(t)
  BY <1>0, <1>2
<1>5. Len(s) + 1 \in 1..Len(t)
  BY <1>0, <1>2
<1>. QED  BY <1>1, <1>2, <1>3, <1>4, <1>5 DEF AliveIn, t

NewItemsLive == \A i \in 1..Len(new_files) : new_files[i].cur # "deleted"

\* A deletion takes its file away, or does not find it.
LEMMA DeleteAlive ==
    ASSUME TypeInv, VecInv, NewItemsLive, NEW c \in Clients, DeleteFile(c)
    PROVE  /\ NewItemsLive'
           /\ \/ /\ Alive' = Alive \ {client[c].file}
                 /\ \E old : client' = [client EXCEPT ![c].pc = "deleteSpec",
                                                      ![c].old = old]
              \/ /\ Alive' = Alive
                 /\ client' = [client EXCEPT ![c] = Idle]
<1>. DEFINE f == client[c].file
<1>0. /\ checked_files \in Seq(Item) /\ new_files \in Seq(Item)
      /\ Distinct(checked_files) /\ Distinct(new_files)
      /\ Names(checked_files) \cap Names(new_files) = {}
  BY DEF TypeInv, TypeOK, VecInv, DistinctFiles
<1>1. ASSUME NEW i \in 1..Len(checked_files), checked_files[i].file = f,
             checked_files' = [checked_files EXCEPT ![i].cur = "deleted"],
             new_files' = new_files
      PROVE  NewItemsLive' /\ Alive' = Alive \ {f}
  <2>1. AliveIn(checked_files') = AliveIn(checked_files) \ {f}
    <3>1. AliveIn(checked_files')
            = AliveIn(checked_files) \ {checked_files[i].file}
      BY <1>0, <1>1, MarkDeletedAlive
    <3>. QED  BY <1>1, <3>1
  <2>2. f \notin AliveIn(new_files)
    BY <1>0, <1>1 DEF Names, AliveIn
  <2>. QED  BY <1>1, <2>1, <2>2 DEF Alive, NewItemsLive
<1>2. ASSUME NEW i \in 1..Len(new_files), new_files[i].file = f,
             Matches(checked_files, f) = {},
             checked_files' = checked_files,
             new_files' = RemoveAt(new_files, i)
      PROVE  NewItemsLive' /\ Alive' = Alive \ {f}
  <2>1. /\ AliveIn(new_files') = AliveIn(new_files) \ {f}
        /\ \A j \in 1..Len(new_files') :
              \E k \in 1..Len(new_files) : new_files'[j] = new_files[k]
    <3>1. /\ AliveIn(RemoveAt(new_files, i))
               = AliveIn(new_files) \ {new_files[i].file}
          /\ \A j \in 1..Len(RemoveAt(new_files, i)) :
                \E k \in 1..Len(new_files) :
                    RemoveAt(new_files, i)[j] = new_files[k]
      BY <1>0, RemoveAlive
    <3>. QED  BY <1>2, <3>1, Zenon
  <2>2. f \notin AliveIn(checked_files)
    BY <1>2 DEF Matches, AliveIn
  <2>. QED  BY <1>2, <2>1, <2>2 DEF Alive, NewItemsLive
<1>. QED  BY <1>1, <1>2, DeleteEffect DEF Alive, NewItemsLive

\* A confirmation revives nothing.
LEMMA ConfirmAlive ==
    ASSUME TypeInv, NewItemsLive, NEW c \in Clients, ConfirmFile(c)
    PROVE  NewItemsLive' /\ Alive' = Alive
<1>0. checked_files \in Seq(Item) /\ new_files \in Seq(Item)
  BY DEF TypeInv, TypeOK
<1>2. ASSUME NEW i \in 1..Len(checked_files),
             checked_files[i].cur = "unconfirmed",
             checked_files' = [checked_files EXCEPT ![i].cur = "valid"],
             new_files' = new_files
      PROVE  NewItemsLive' /\ Alive' = Alive
  <2>1. AliveIn(checked_files') = AliveIn(checked_files)
    <3>1. /\ checked_files[i].cur # "deleted" /\ "valid" # "deleted"
          /\ "valid" \in Status
      BY <1>2, StatusNames
    <3>2. /\ Len(checked_files') = Len(checked_files)
          /\ \A j \in 1..Len(checked_files) :
                /\ checked_files'[j].file = checked_files[j].file
                /\ checked_files'[j].cur = IF j = i THEN "valid"
                                           ELSE checked_files[j].cur
      BY <1>0, <1>2, <3>1, WithCur
    <3>3. \A j \in 1..Len(checked_files) :
             checked_files'[j].cur = "deleted" <=> checked_files[j].cur = "deleted"
      BY <3>1, <3>2
    <3>. QED  BY <3>2, <3>3, SameAlive
  <2>. QED  BY <1>2, <2>1 DEF Alive, NewItemsLive
<1>3. ASSUME NEW i \in 1..Len(new_files),
             new_files[i].cur = "unconfirmed",
             new_files' = [new_files EXCEPT ![i].cur = "valid"],
             checked_files' = checked_files
      PROVE  NewItemsLive' /\ Alive' = Alive
  <2>1. /\ AliveIn(new_files') = AliveIn(new_files)
        /\ Len(new_files') = Len(new_files)
        /\ \A j \in 1..Len(new_files) :
              new_files'[j].cur = "deleted" <=> new_files[j].cur = "deleted"
    <3>1. /\ new_files[i].cur # "deleted" /\ "valid" # "deleted"
          /\ "valid" \in Status
      BY <1>3, StatusNames
    <3>2. /\ Len(new_files') = Len(new_files)
          /\ \A j \in 1..Len(new_files) :
                /\ new_files'[j].file = new_files[j].file
                /\ new_files'[j].cur = IF j = i THEN "valid"
                                       ELSE new_files[j].cur
      BY <1>0, <1>3, <3>1, WithCur
    <3>3. \A j \in 1..Len(new_files) :
             new_files'[j].cur = "deleted" <=> new_files[j].cur = "deleted"
      BY <3>1, <3>2
    <3>. QED  BY <3>2, <3>3, SameAlive
  <2>. QED  BY <1>3, <2>1 DEF Alive, NewItemsLive
<1>. QED  BY <1>2, <1>3, ConfirmEffect DEF Alive, NewItemsLive

\* Sealing adds a hash never handed out before.
LEMMA SealAlive ==
    ASSUME TypeInv, VecInv, NewItemsLive, NEW c \in Clients, SealStore(c)
    PROVE  \E f \in Files \ sealed :
              /\ NewItemsLive' /\ Alive' = Alive \cup {f}
              /\ sealed' = sealed \cup {f} /\ tree' = tree \cup {f}
              /\ client' = [client EXCEPT ![c].pc = "sealSpec", ![c].file = f]
<1>1. PICK f \in Files \ sealed :
         /\ sealed' = sealed \cup {f} /\ tree' = tree \cup {f}
         /\ new_files' = Append(new_files, NewItem(f))
         /\ client' = [client EXCEPT ![c].pc = "sealSpec", ![c].file = f]
  BY DEF SealStore
<1>2. checked_files' = checked_files
  BY DEF SealStore
<1>3. new_files \in Seq(Item) /\ Distinct(new_files) /\ f \notin Names(new_files)
  BY DEF TypeInv, TypeOK, VecInv, DistinctFiles
<1>4. AliveIn(new_files') = AliveIn(new_files) \cup {f}
  BY <1>1, <1>3, AppendAlive
<1>5. \A j \in 1..Len(new_files') :
         \/ new_files'[j] = NewItem(f)
         \/ j \in 1..Len(new_files) /\ new_files'[j] = new_files[j]
  BY <1>1, <1>3, SealIds
<1>6. NewItem(f).cur # "deleted"
  BY DEF NewItem
<1>7. NewItemsLive'
  BY <1>5, <1>6 DEF NewItemsLive
<1>. QED  BY <1>1, <1>2, <1>4, <1>7 DEF Alive

\* Merging and validating move or change items and neither add nor lose one.
LEMMA MainAlive ==
    ASSUME TypeInv, NewItemsLive, MainStep
    PROVE  /\ NewItemsLive' /\ Alive' = Alive
           /\ UNCHANGED <<tree, client, sealed, crashes>>
<1>. USE DEF fileVars, lockVars, boundVars, reportVars
<1>0. checked_files \in Seq(Item) /\ new_files \in Seq(Item)
  BY DEF TypeInv, TypeOK
<1>1. UNCHANGED <<tree, client, sealed, crashes>>
  BY DEF MainStep, ValidateSkip, ValidateBegin, ValidateYield, ValidateCheck,
         ValidateEnd, StoreSpec, StoreSkip, StoreFile, StoreComma, StoreEnd
<1>2. CASE ValidateBegin
  <2>1. checked_files' = checked_files \o new_files /\ new_files' = <<>>
    BY <1>2 DEF ValidateBegin, MergeNew
  <2>2. AliveIn(checked_files') = AliveIn(checked_files) \cup AliveIn(new_files)
    BY <1>0, <2>1, ConcatAlive
  <2>3. AliveIn(new_files') = {} /\ NewItemsLive'
    BY <2>1 DEF AliveIn, NewItemsLive
  <2>. QED  BY <1>1, <2>2, <2>3 DEF Alive
<1>3. CASE ValidateCheck
  <2>1. PICK i \in 1..main.num, good \in BOOLEAN : CheckFile(i, good)
    BY <1>3 DEF ValidateCheck
  <2>2. new_files' = new_files
    BY <1>3 DEF ValidateCheck
  <2>3. AliveIn(checked_files') = AliveIn(checked_files)
    <3>1. CASE checked_files' = checked_files
      BY <3>1
    <3>2. ASSUME NEW st \in Status, st \in {"valid", "lost"},
                 i \in 1..Len(checked_files),
                 checked_files[i].cur \in {"valid", "lost"},
                 checked_files' = [checked_files EXCEPT ![i].cur = st]
          PROVE  AliveIn(checked_files') = AliveIn(checked_files)
      <4>1. checked_files[i].cur # "deleted" /\ st # "deleted"
        BY <3>2
      <4>2. /\ Len(checked_files') = Len(checked_files)
            /\ \A j \in 1..Len(checked_files) :
                  /\ checked_files'[j].file = checked_files[j].file
                  /\ checked_files'[j].cur = IF j = i THEN st
                                             ELSE checked_files[j].cur
        BY <1>0, <3>2, WithCur
      <4>3. \A j \in 1..Len(checked_files) :
               checked_files'[j].cur = "deleted"
                 <=> checked_files[j].cur = "deleted"
        BY <4>1, <4>2
      <4>. QED  BY <4>2, <4>3, SameAlive
    <3>. QED  BY <2>1, <3>1, <3>2, CheckOutcome DEF CheckEffect
  <2>. QED  BY <1>1, <2>2, <2>3 DEF Alive, NewItemsLive
<1>4. CASE UNCHANGED <<checked_files, new_files>>
  BY <1>1, <1>4 DEF Alive, NewItemsLive
<1>. QED
  BY <1>2, <1>3, <1>4 DEF MainStep, ValidateSkip, ValidateYield, ValidateEnd,
     StoreSpec, StoreSkip, StoreFile, StoreComma, StoreEnd

\* Reports purge only what is deleted.
LEMMA ReportAlive ==
    ASSUME TypeInv, NewItemsLive, NEW r \in Reps, ReportStep(r)
    PROVE  /\ NewItemsLive' /\ Alive' = Alive
           /\ UNCHANGED <<tree, client, sealed, crashes>>
<1>. USE DEF fileVars, lockVars, boundVars, reportVars
<1>0. checked_files \in Seq(Item)
  BY DEF TypeInv, TypeOK
<1>1. UNCHANGED <<new_files, tree, client, sealed, crashes>>
  BY DEF ReportStep, ReportBegin, ReportGate, ReportLockFiles, ReportPurge,
         ReportGenerate, UploadAccepted, UploadFailed, ReportResult, UpgradeData
<1>2. AliveIn(checked_files') = AliveIn(checked_files)
  <2>1. CASE ReportPurge(r)
    <3>1. purge_it \in 1..Len(checked_files)
      BY <1>0, <2>1, LenProperties DEF ReportPurge, TypeInv, TypeOK
    <3>2. checked_files[purge_it].cur = "deleted" =>
            AliveIn(RemoveAt(checked_files, purge_it)) = AliveIn(checked_files)
      BY <1>0, <3>1, RemoveAlive
    <3>. QED  BY <2>1, <3>2 DEF ReportPurge, Erasable
  <2>2. CASE ReportGenerate(r)
    <3>1. checked_files' = Marked(checked_files)
      BY <2>2 DEF ReportGenerate
    <3>2. ASSUME NEW j \in 1..Len(checked_files)
          PROVE  /\ Marked(checked_files)[j].file = checked_files[j].file
                 /\ Marked(checked_files)[j].cur = checked_files[j].cur
      <4>1. checked_files[j] \in Item
        BY <1>0, ItemFields
      <4>2. Marked(checked_files)[j]
              = [checked_files[j] EXCEPT !.wait = checked_files[j].cur]
        BY <1>0, MarkedType
      <4>. QED  BY <4>1, <4>2 DEF Item, FileItem, NullItem
    <3>3. Len(checked_files') = Len(checked_files)
      BY <1>0, <3>1, MarkedType
    <3>. QED  BY <3>1, <3>2, <3>3, SameAlive
  <2>3. CASE ReportResult(r)
    <3>1. checked_files' = Settled(checked_files, reported_files_idx)
      BY <2>3 DEF ReportResult
    <3>2. ASSUME NEW j \in 1..Len(checked_files)
          PROVE  /\ checked_files'[j].file = checked_files[j].file
                 /\ checked_files'[j].cur = checked_files[j].cur
      <4>1. checked_files[j] \in Item
        BY <1>0, ItemFields
      <4>2. checked_files'[j]
              = IF j \in reported_files_idx
                THEN [checked_files[j] EXCEPT !.orig = checked_files[j].wait]
                ELSE checked_files[j]
        BY <1>0, <3>1, SettledType
      <4>. QED  BY <4>1, <4>2 DEF Item, FileItem, NullItem
    <3>3. Len(checked_files') = Len(checked_files)
      BY <1>0, <3>1, SettledType
    <3>. QED  BY <3>2, <3>3, SameAlive
  <2>4. CASE checked_files' = checked_files
    BY <2>4
  <2>. QED
    BY <2>1, <2>2, <2>3, <2>4 DEF ReportStep, ReportBegin, ReportGate,
       ReportLockFiles, UploadAccepted, UploadFailed, UpgradeData
<1>. QED  BY <1>1, <1>2 DEF Alive, NewItemsLive

(***************************************************************************)
(* The trees of live items                                                  *)
(***************************************************************************)

\* A step that neither adds nor removes an item or a tree, and starts no
\* deletion of a file that is still there.
LEMMA TreeKept ==
    ASSUME TreeInv, NewItemsLive', Alive' \subseteq Alive, tree \subseteq tree',
           sealed \subseteq sealed', crashes' = crashes,
           \A d \in Clients :
               client'[d].pc \in {"delete", "deleteSpec"} =>
                  \/ client'[d].file \in sealed /\ client'[d].pc = "delete"
                  \/ client'[d] = client[d]
    PROVE  TreeInv'
<1>1. crashes' = 0 => Alive' \subseteq tree'
  BY DEF TreeInv
<1>2. ASSUME NEW d \in Clients, client'[d].pc \in {"delete", "deleteSpec"}
      PROVE  /\ client'[d].file \in sealed'
             /\ client'[d].pc = "deleteSpec" => client'[d].file \notin Alive'
  BY <1>2 DEF TreeInv
<1>. QED  BY <1>1, <1>2 DEF TreeInv, NewItemsLive

LEMMA TreeClient ==
    ASSUME TypeInv, VecInv, TreeInv, NEW c \in Clients, ClientStep(c)
    PROVE  TreeInv'
<1>. USE DEF fileVars, lockVars, boundVars, reportVars
<1>0. client \in [Clients -> ClientState] /\ NewItemsLive
  BY DEF TypeInv, TypeOK, TreeInv, NewItemsLive
<1>1. Idle.pc = "idle" /\ [Idle EXCEPT !.pc = "seal"].pc = "seal"
  BY DEF Idle
<1>2. ASSUME UNCHANGED <<checked_files, new_files, crashes>>,
             tree \subseteq tree', sealed \subseteq sealed',
             NEW x, client' = [client EXCEPT ![c] = x],
             \/ x.pc \notin {"delete", "deleteSpec"}
             \/ x.pc = "delete" /\ x.file \in sealed
      PROVE  TreeInv'
  <2>1. Alive' = Alive /\ NewItemsLive'
    BY <1>0, <1>2 DEF Alive, NewItemsLive
  <2>2. \A d \in Clients : client'[d] = client[d] \/ (d = c /\ client'[d] = x)
    BY <1>0, <1>2
  <2>. QED  BY <1>2, <2>1, <2>2, TreeKept
<1>3. CASE SealBegin(c)
  BY <1>0, <1>2, <1>3 DEF SealBegin, ClientState
<1>4. CASE SealCount(c)
  BY <1>0, <1>1, <1>2, <1>4 DEF SealCount
<1>5. CASE SealStore(c)
  <2>1. PICK f \in Files \ sealed :
           /\ NewItemsLive' /\ Alive' = Alive \cup {f}
           /\ sealed' = sealed \cup {f} /\ tree' = tree \cup {f}
           /\ client' = [client EXCEPT ![c].pc = "sealSpec", ![c].file = f]
    BY <1>0, <1>5, SealAlive
  <2>2. crashes' = crashes
    BY <1>5 DEF SealStore
  <2>3. \A d \in Clients : client'[d] = client[d] \/ client'[d].pc = "sealSpec"
    BY <1>0, <2>1 DEF ClientState
  <2>4. crashes' = 0 => Alive' \subseteq tree'
    BY <2>1, <2>2 DEF TreeInv
  <2>5. ASSUME NEW d \in Clients, client'[d].pc \in {"delete", "deleteSpec"}
        PROVE  /\ client'[d].file \in sealed'
               /\ client'[d].pc = "deleteSpec" => client'[d].file \notin Alive'
    <3>1. client'[d] = client[d] /\ client[d].file \in sealed
      BY <2>3, <2>5 DEF TreeInv
    <3>. QED  BY <2>1, <3>1 DEF TreeInv
  <2>. QED  BY <2>1, <2>4, <2>5 DEF TreeInv, NewItemsLive
<1>6. CASE SealFail(c)
  BY <1>0, <1>1, <1>2, <1>6 DEF SealFail
<1>7. CASE SealSpec(c)
  BY <1>0, <1>1, <1>2, <1>7 DEF SealSpec
<1>8. CASE RequestAny(c)
  <2>1. PICK f \in sealed, op \in {"confirm", "delete"} : Request(c, op, f)
    BY <1>8 DEF RequestAny
  <2>2. client' = [client EXCEPT ![c] = [@ EXCEPT !.pc = op, !.file = f]]
    BY <2>1 DEF Request
  <2>3. LET x == [client[c] EXCEPT !.pc = op, !.file = f]
        IN x.pc = op /\ x.file = f
    BY <1>0 DEF ClientState
  <2>. QED  BY <1>2, <2>1, <2>2, <2>3 DEF Request
<1>9. CASE ConfirmFile(c)
  <2>1. Alive' = Alive /\ NewItemsLive'
    BY <1>0, <1>9, ConfirmAlive
  <2>2. UNCHANGED <<tree, sealed, crashes>>
    BY <1>9 DEF ConfirmFile
  <2>3. \A d \in Clients : \/ client'[d] = client[d]
                           \/ client'[d].pc \in {"idle", "confirmSpec"}
    <3>1. \/ client' = [client EXCEPT ![c].pc = "confirmSpec"]
          \/ client' = [client EXCEPT ![c] = Idle]
      BY <1>9, Zenon DEF ConfirmFile
    <3>. QED  BY <1>0, <1>1, <3>1, SMTT(30) DEF ClientState
  <2>. QED  BY <2>1, <2>2, <2>3, TreeKept
<1>10. CASE ConfirmSpec(c)
  BY <1>0, <1>1, <1>2, <1>10 DEF ConfirmSpec
<1>11. CASE DeleteFile(c)
  <2>1. UNCHANGED <<tree, sealed, crashes>> /\ client[c].pc = "delete"
    BY <1>11 DEF DeleteFile
  <2>2. CASE Alive' = Alive /\ client' = [client EXCEPT ![c] = Idle]
    <3>1. NewItemsLive'
      BY <1>0, <1>11, DeleteAlive
    <3>2. \A d \in Clients : client'[d] = client[d] \/ client'[d].pc = "idle"
      BY <1>0, <1>1, <2>2
    <3>. QED  BY <2>1, <2>2, <3>1, <3>2, TreeKept
  <2>3. ASSUME NEW old,
               client' = [client EXCEPT ![c].pc = "deleteSpec", ![c].old = old],
               Alive' = Alive \ {client[c].file}
        PROVE  TreeInv'
    <3>1. NewItemsLive'
      BY <1>0, <1>11, DeleteAlive
    <3>2. /\ client'[c].file = client[c].file
          /\ \A d \in Clients : d # c => client'[d] = client[d]
      BY <1>0, <2>3 DEF ClientState
    <3>3. client[c].file \in sealed
      BY <2>1 DEF TreeInv
    <3>4. crashes' = 0 => Alive' \subseteq tree'
      BY <2>1, <2>3 DEF TreeInv
    <3>5. ASSUME NEW d \in Clients, client'[d].pc \in {"delete", "deleteSpec"}
          PROVE  /\ client'[d].file \in sealed'
                 /\ client'[d].pc = "deleteSpec" => client'[d].file \notin Alive'
      <4>1. CASE d = c
        BY <2>1, <2>3, <3>2, <3>3, <4>1
      <4>2. CASE d # c
        <5>1. client'[d] = client[d]
          BY <3>2, <4>2
        <5>2. client[d].pc \in {"delete", "deleteSpec"}
          BY <3>5, <5>1
        <5>3. /\ client[d].file \in sealed
              /\ client[d].pc = "deleteSpec" => client[d].file \notin Alive
          BY <5>2 DEF TreeInv
        <5>. QED  BY <2>1, <2>3, <5>1, <5>3
      <4>. QED  BY <4>1, <4>2
    <3>. QED  BY <3>1, <3>4, <3>5 DEF TreeInv, NewItemsLive
  <2>. QED  BY <1>0, <1>11, <2>2, <2>3, DeleteAlive
<1>12. CASE DeleteSpec(c)
  <2>1. /\ UNCHANGED <<checked_files, new_files, sealed, crashes>>
        /\ client[c].pc = "deleteSpec"
        /\ tree' = tree \ {client[c].file}
        /\ client' = [client EXCEPT ![c] = Idle]
    BY <1>12 DEF DeleteSpec
  <2>2. Alive' = Alive /\ NewItemsLive'
    BY <1>0, <2>1 DEF Alive, NewItemsLive
  <2>3. client[c].file \notin Alive
    BY <2>1 DEF TreeInv
  <2>4. \A d \in Clients : client'[d] = client[d] \/ client'[d].pc = "idle"
    BY <1>0, <1>1, <2>1
  <2>5. crashes' = 0 => Alive' \subseteq tree'
    BY <2>1, <2>2, <2>3 DEF TreeInv
  <2>6. ASSUME NEW d \in Clients, client'[d].pc \in {"delete", "deleteSpec"}
        PROVE  /\ client'[d].file \in sealed'
               /\ client'[d].pc = "deleteSpec" => client'[d].file \notin Alive'
    BY <2>1, <2>2, <2>4, <2>6 DEF TreeInv
  <2>. QED  BY <2>2, <2>5, <2>6 DEF TreeInv, NewItemsLive
<1>. QED
  BY <1>3, <1>4, <1>5, <1>6, <1>7, <1>8, <1>9, <1>10, <1>11, <1>12
  DEF ClientStep

LEMMA TreeStep ==
    ASSUME TypeInv, VecInv, TreeInv, Next
    PROVE  TreeInv'
<1>0. NewItemsLive
  BY DEF TreeInv, NewItemsLive
<1>1. ASSUME NEW c \in Clients, ClientStep(c) PROVE TreeInv'
  BY <1>1, TreeClient
<1>2. CASE MainStep
  BY <1>0, <1>2, MainAlive, TreeKept
<1>3. ASSUME NEW r \in Reps, ReportStep(r) PROVE TreeInv'
  BY <1>0, <1>3, ReportAlive, TreeKept
<1>4. CASE CrashRestart
  <2>1. /\ crashes' = crashes + 1 /\ new_files' = <<>>
        /\ client' = [c \in Clients |-> Idle]
    BY <1>4 DEF CrashRestart
  <2>2. crashes' # 0
    BY <2>1 DEF TypeInv, TypeOK
  <2>3. \A c \in Clients : client'[c].pc = "idle"
    BY <2>1 DEF Idle
  <2>. QED  BY <2>1, <2>2, <2>3 DEF TreeInv
<1>. QED  BY <1>1, <1>2, <1>3, <1>4 DEF Next

(***************************************************************************)
(* The invariant and what follows from it                                   *)
(***************************************************************************)

Inv == /\ TypeInv /\ LockInv /\ VecInv /\ StoreInv /\ MarkInv /\ AckedIsChain
       /\ TreeInv

LEMMA InitInv == Init => Inv
<1>. SUFFICES ASSUME Init  PROVE  Inv
  OBVIOUS
<1>1. Names(<<>>) = {} /\ Distinct(<<>>)
  BY DEF Names, Distinct
<1>2. LockInv
  BY ConstantsAssumption DEF Init, LockInv, Holding, MainStart
<1>3. VecInv
  BY <1>1 DEF Init, VecInv, DistinctFiles, NewInv
<1>4. StoreInv
  BY <1>1 DEF Init, StoreInv, MainStart
<1>5. MarkInv /\ AckedIsChain
  BY DEF Init, MarkInv, AckedIsChain, Acked, AckedIn
<1>6. TreeInv
  BY DEF Init, TreeInv, Alive, AliveIn, Idle
<1>. QED  BY <1>2, <1>3, <1>4, <1>5, <1>6, InitType DEF Inv

LEMMA StepInv == Inv /\ [Next]_vars => Inv'
<1>. SUFFICES ASSUME Inv, [Next]_vars  PROVE  Inv'
  OBVIOUS
<1>1. CASE Next
  <2>1. TypeInv'
    BY <1>1, ClientType, MainType, ReportType, CrashType DEF Next, Inv
  <2>. QED
    BY <1>1, <2>1, LockStep, VecStep, StoreStep, MarkStep, ChainStep, TreeStep
       DEF Inv
<1>2. CASE UNCHANGED vars
  BY <1>2 DEF vars, fileVars, lockVars, reportVars, boundVars, Inv, TypeInv,
              TypeOK, NamedFiles, LockInv, VecInv, DistinctFiles, NewInv,
              StoreInv, MarkInv, AckedIsChain, Undisturbed, Acked, TreeInv, Alive
<1>. QED  BY <1>1, <1>2

(***************************************************************************)
(* IInv is inductive: it holds in every reachable state.                    *)
(***************************************************************************)
THEOREM Invariance == Spec => []IInv
<1>1. Inv => IInv
  BY DEF Inv, IInv, TypeInv, VecInv
<1>. QED  BY <1>1, InitInv, StepInv, PTL DEF Spec

(***************************************************************************)
(* No crash, no lost reply and no interleaving makes a hash appear twice.   *)
(***************************************************************************)
THEOREM HashesOnce == Spec => []DistinctFiles
<1>1. IInv => DistinctFiles
  BY DEF IInv
<1>. QED  BY <1>1, Invariance, PTL

(***************************************************************************)
(* The indexes recorded with a report denote its files until the result is  *)
(* handled: gen_and_upload_work_report may use them after the upload,       *)
(* although it does not hold g_checked_files_mutex in between.              *)
(***************************************************************************)
THEOREM IndexesStayGood == Spec => []ReportedIdxStable
<1>1. IInv => ReportedIdxStable
  BY DEF IInv, MarkInv, ReportedIdxStable
<1>. QED  BY <1>1, Invariance, PTL

(***************************************************************************)
(* As long as the worker is not killed and every reply arrives, the ORIGIN  *)
(* statuses say what the chain counts.                                      *)
(***************************************************************************)
THEOREM WorkerKnowsChain == Spec => []AckedIsChain
<1>1. IInv => AckedIsChain
  BY DEF IInv
<1>. QED  BY <1>1, Invariance, PTL

\* A report made of the marks deletes what the worker knows the chain to
\* count and adds what it knows the chain not to count.
LEMMA MarksFit ==
    ASSUME TypeInv, VecInv, MarkInv, OnItsWay
    PROVE  /\ g_work_report.deleted \subseteq Acked
           /\ g_work_report.added \cap Acked = {}
           /\ g_work_report.valid
                = (Acked \ g_work_report.deleted) \cup g_work_report.added
<1>. DEFINE s == checked_files
            I == reported_files_idx
            A == g_work_report.added
            D == g_work_report.deleted
<1>1. /\ I \subseteq 1..Len(s)
      /\ \A i \in I : \/ s[i].orig # "valid" /\ s[i].file \in A
                      \/ s[i].orig = "valid" /\ s[i].file \in D
      /\ A \cup D = {s[i].file : i \in I} /\ A \cap D = {}
      /\ g_work_report.valid = (Acked \ D) \cup A
  BY DEF MarkInv, OnItsWay
<1>2. \A i, j \in 1..Len(s) : s[i].file = s[j].file => i = j
  BY DEF VecInv, DistinctFiles, Distinct
<1>3. \A f : f \in Acked <=> \E i \in 1..Len(s) : /\ s[i].orig = "valid"
                                                 /\ s[i].file = f
  BY DEF Acked, AckedIn
<1>. HIDE DEF I, A, D
<1>4. ASSUME NEW f \in D  PROVE  f \in Acked
  <2>1. PICK i \in I : s[i].file = f
    BY <1>1
  <2>. QED  BY <1>1, <1>3, <2>1
<1>5. ASSUME NEW f \in A  PROVE  f \notin Acked
  <2>1. PICK i \in I : s[i].file = f
    BY <1>1
  <2>2. s[i].orig # "valid" /\ i \in 1..Len(s)
    BY <1>1, <2>1
  <2>. QED  BY <1>2, <1>3, <2>1, <2>2
<1>. QED  BY <1>1, <1>4, <1>5 DEF A, D

(***************************************************************************)
(* A report never deletes what the chain does not count, never adds what it *)
(* counts already, and its total is right, with any number of clients,      *)
(* report threads and files per report.                                     *)
(***************************************************************************)
THEOREM ReportsFit == Spec => []ReportFitsChain
<1>1. Inv => ReportFitsChain
  <2>. SUFFICES ASSUME Inv, Undisturbed, NEW r \in Reps, reporter[r] = "upload"
                PROVE  FitsChain(g_work_report)
    BY DEF ReportFitsChain
  <2>1. ~Settling
    BY OneReport DEF Inv, Settling, Holding
  <2>2. chain = Acked
    BY <2>1 DEF Inv, AckedIsChain, Settling
  <2>3. OnItsWay
    BY DEF OnItsWay
  <2>. QED  BY <2>2, <2>3, MarksFit DEF Inv, FitsChain
<1>. QED  BY <1>1, InitInv, StepInv, PTL DEF Spec

(***************************************************************************)
(* The ledger. What is saved comes from what is acknowledged, item by item.  *)
(***************************************************************************)

LEMMA AppendAcked ==
    ASSUME NEW s \in Seq(Item), NEW x \in Item
    PROVE  AckedIn(Append(s, x)) \subseteq
               AckedIn(s) \cup (IF x.orig = "valid" THEN {x.file} ELSE {})
<1>1. /\ Len(Append(s, x)) = Len(s) + 1 /\ Len(s) \in Nat
      /\ \A i \in 1..Len(s) : Append(s, x)[i] = s[i]
      /\ Append(s, x)[Len(s) + 1] = x
  BY AppendProperties, LenProperties
<1>2. \A i \in 1..Len(Append(s, x)) : i \in 1..Len(s) \/ i = Len(s) + 1
  BY <1>1
<1>. QED  BY <1>1, <1>2 DEF AckedIn

LEMMA MainSaves ==
    ASSUME TypeInv, MainStep
    PROVE  Saved' \subseteq Saved \cup Acked
<1>. USE DEF Saved
<1>0. /\ main \in MainState /\ db \in Stored /\ checked_files \in Seq(Item)
      /\ AckedIn(<<>>) = {} /\ MainStart.buf = <<>>
  BY DEF TypeInv, TypeOK, AckedIn, MainStart
<1>1. CASE main'.buf = main.buf /\ db' = db
  BY <1>1
<1>2. CASE main'.buf = <<>> /\ db' = db
  BY <1>0, <1>2
<1>3. CASE StoreSpec
  BY <1>0, <1>3 DEF StoreSpec, MainState, Stored
<1>4. CASE StoreFile
  <2>1. main.it \in 1..Len(checked_files)
    BY <1>0, <1>4, LenProperties DEF StoreFile, MainState
  <2>2. checked_files[main.it] \in Item
    BY <1>0, <2>1, ElementOfSeq
  <2>3. main'.buf = Append(main.buf, checked_files[main.it]) /\ db' = db
    BY <1>0, <1>4 DEF StoreFile, MainState
  <2>4. AckedIn(main'.buf) \subseteq AckedIn(main.buf) \cup Acked
    <3>1. main.buf \in Seq(Item)
      BY <1>0 DEF MainState
    <3>2. checked_files[main.it].orig = "valid" =>
              checked_files[main.it].file \in Acked
      BY <2>1 DEF Acked, AckedIn
    <3>. QED  BY <2>2, <2>3, <3>1, <3>2, AppendAcked
  <2>. QED  BY <2>3, <2>4
<1>5. CASE StoreEnd
  <2>1. main'.buf = <<>> /\ (db'.files = main.buf \/ db' = db)
    BY <1>0, <1>5 DEF StoreEnd, Stored
  <2>. QED  BY <1>0, <2>1
<1>6. CASE ValidateSkip \/ ValidateBegin \/ ValidateYield \/ ValidateCheck
           \/ ValidateEnd \/ StoreSkip
  <2>1. CASE ValidateSkip
    BY <1>0, <1>1, <1>2, <2>1 DEF ValidateSkip, MainState, MainStart
  <2>2. CASE ValidateBegin
    BY <1>0, <1>1, <2>2 DEF ValidateBegin, MergeNew, MainState
  <2>3. CASE ValidateYield
    BY <1>0, <1>1, <2>3 DEF ValidateYield, MainState
  <2>4. CASE ValidateCheck
    <3>1. PICK i \in 1..main.num, good \in BOOLEAN : CheckFile(i, good)
      BY <2>4 DEF ValidateCheck
    <3>2. main'.buf = main.buf
      BY <1>0, <3>1, CheckOutcome DEF CheckEffect, MainState
    <3>3. db' = db
      BY <2>4 DEF ValidateCheck
    <3>. QED  BY <1>1, <3>2, <3>3
  <2>5. CASE ValidateEnd
    BY <1>0, <1>2, <2>5 DEF ValidateEnd, MainStart
  <2>6. CASE StoreSkip
    BY <1>0, <1>2, <2>6 DEF StoreSkip
  <2>. QED  BY <1>6, <2>1, <2>2, <2>3, <2>4, <2>5, <2>6
<1>7. CASE StoreComma
  BY <1>0, <1>1, <1>7 DEF StoreComma, MainState
<1>. QED  BY <1>3, <1>4, <1>5, <1>6, <1>7 DEF MainStep

\* What a restart loads says no more than what was stored.
LEMMA LoadedAcked ==
    ASSUME NEW text \in Stored
    PROVE  AckedIn(Loaded(text)) \subseteq AckedIn(text.files)
<1>1. text.files \in Seq(Item) /\ NullItem \in Item /\ NullItem.orig # "valid"
  BY DEF Stored, Item, NullItem
<1>2. AckedIn(<<>>) = {}
  BY DEF AckedIn
<1>3. AckedIn(Append(text.files, NullItem)) \subseteq AckedIn(text.files)
  BY <1>1, AppendAcked
<1>. QED  BY <1>2, <1>3 DEF Loaded

\* A report that is uploaded fits what the worker knows.
LEMMA UploadFits ==
    ASSUME Inv, NEW r \in Reps, reporter[r] = "upload"
    PROVE  /\ g_work_report.added \in SUBSET Files
           /\ g_work_report.deleted \in SUBSET Files
           /\ g_work_report.added \cap Acked = {}
           /\ g_work_report.deleted \subseteq Acked
           /\ Unsettled = {}
<1>1. OnItsWay
  BY DEF OnItsWay
<1>2. ~Settling
  BY OneReport DEF Inv, Settling, Holding
<1>3. Unsettled = {}
  BY <1>2 DEF Unsettled, Settling
<1>. QED  BY <1>1, <1>3, MarksFit DEF Inv, TypeInv, TypeOK, WorkReport

(***************************************************************************)
(* The worker and the chain implement the ledger, whatever replies are lost *)
(* and whenever the process is killed: every report that is accepted fits   *)
(* what the worker knows, it is taken note of before the next one can be    *)
(* accepted, and a restart brings back nothing but what the worker once     *)
(* knew.                                                                    *)
(***************************************************************************)
THEOREM ReportsImplementLedger == Spec => LedgerSpec
<1>1. Init => Ledger!Init
  BY DEF Init, Ledger!Init, Acked, AckedIn, Saved, Unsettled, MainStart,
         Undisturbed
<1>2. Inv /\ [Next]_vars => [Ledger!Next]_(Ledger!lvars)
  <2>. SUFFICES ASSUME Inv, [Next]_vars,
                       ~(chain' = chain /\ Acked' = Acked
                           /\ Unsettled' = Unsettled /\ Saved' = Saved
                           /\ Undisturbed' = Undisturbed)
                PROVE  Ledger!Next
    BY DEF Ledger!lvars
  <2>0. /\ TypeInv /\ LockInv /\ VecInv /\ MarkInv
        /\ checked_files \in Seq(Item) /\ new_files \in Seq(Item)
        /\ reporter \in [Reps -> ReporterPc] /\ g_work_report \in WorkReport
        /\ crashes \in Nat /\ lost \in Nat
    BY DEF Inv, TypeInv, TypeOK
  <2>. USE DEF fileVars, lockVars, reportVars, boundVars
  <2>1. ASSUME NEW c \in Clients, ClientStep(c)
        PROVE  FALSE
    <3>1. Acked' = Acked
      BY <2>0, <2>1, ClientVectors, SameIdsLemma DEF CurOnly, Acked
    <3>. QED  BY <2>0, <2>1, <3>1, ClientVectors
              DEF Unsettled, Saved, Undisturbed
  <2>2. CASE MainStep
    <3>1. Acked' = Acked
      <4>1. CASE CurOnly(checked_files, checked_files')
        BY <2>0, <4>1, SameIdsLemma DEF CurOnly, Acked
      <4>2. CASE checked_files' = checked_files \o new_files
        BY <2>0, <4>2, ConcatIds DEF VecInv, DistinctFiles, NewInv, Acked
      <4>. QED  BY <2>0, <2>2, <4>1, <4>2, MainVectors
    <3>2. UNCHANGED <<chain, Unsettled, Undisturbed>>
      BY <2>0, <2>2, MainVectors DEF Unsettled, Undisturbed
    <3>3. Ledger!Save
      BY <2>0, <2>2, <3>1, <3>2, MainSaves DEF Ledger!Save
    <3>. QED  BY <3>3 DEF Ledger!Next
  <2>3. ASSUME NEW r \in Reps, UploadAccepted(r)
        PROVE  Ledger!Next
    <3>. DEFINE A == g_work_report.added
                D == g_work_report.deleted
    <3>1. /\ A \in SUBSET Files /\ D \in SUBSET Files
          /\ A \cap Acked = {} /\ D \subseteq Acked /\ Unsettled = {}
      BY <2>3, UploadFits DEF UploadAccepted
    <3>2. /\ chain' = (chain \ D) \cup A
          /\ UNCHANGED <<Acked, Saved, Undisturbed>>
      BY <2>3 DEF UploadAccepted, Acked, Saved, Undisturbed
    <3>3. Unsettled' = {Ledger!Report(A, D)}
      BY <2>0, <2>3 DEF UploadAccepted, Unsettled, Ledger!Report
    <3>4. Ledger!Accept(A, D)
      BY <3>1, <3>2, <3>3 DEF Ledger!Accept, Ledger!Apply
    <3>. QED  BY <3>1, <3>4 DEF Ledger!Next
  <2>4. ASSUME NEW r \in Reps, UploadFailed(r)
        PROVE  Ledger!Next
    <3>. DEFINE A == g_work_report.added
                D == g_work_report.deleted
    <3>1. /\ A \in SUBSET Files /\ D \in SUBSET Files
          /\ A \cap Acked = {} /\ D \subseteq Acked /\ Unsettled = {}
      BY <2>4, UploadFits DEF UploadFailed
    <3>2. UNCHANGED <<Acked, Saved>>
      BY <2>4 DEF UploadFailed, Acked, Saved
    <3>3. Unsettled' = Unsettled
      BY <2>0, <2>4, <3>1 DEF UploadFailed, Unsettled
    <3>4. CASE UNCHANGED <<chain, lost>>
      BY <2>4, <3>2, <3>3, <3>4 DEF UploadFailed, Undisturbed
    <3>5. CASE lost' = lost + 1 /\ chain' = (chain \ D) \cup A
      <4>1. Undisturbed' = FALSE
        BY <2>0, <3>5 DEF Undisturbed
      <4>2. Ledger!LoseReply(A, D)
        BY <3>1, <3>2, <3>3, <3>5, <4>1 DEF Ledger!LoseReply, Ledger!Apply
      <4>. QED  BY <3>1, <4>2 DEF Ledger!Next
    <3>. QED  BY <2>4, <3>4, <3>5 DEF UploadFailed
  <2>5. ASSUME NEW r \in Reps, ReportResult(r)
        PROVE  Ledger!Next
    <3>1. Settling /\ ~Settling'
      BY <2>0, <2>5, OneReport DEF ReportResult, Settling, Holding
    <3>2. /\ Unsettled = {Ledger!Report(g_work_report.added,
                                        g_work_report.deleted)}
          /\ Unsettled' = {}
      BY <3>1 DEF Settling, Unsettled, Ledger!Report
    <3>3. Acked' = (Acked \ g_work_report.deleted) \cup g_work_report.added
      BY <2>0, <2>5, SettledAcked
    <3>4. UNCHANGED <<chain, Saved, Undisturbed>>
      BY <2>5 DEF ReportResult, Saved, Undisturbed
    <3>5. Ledger!Acknowledge
      BY <3>2, <3>3, <3>4 DEF Ledger!Acknowledge, Ledger!Report
    <3>. QED  BY <3>5 DEF Ledger!Next
  <2>6. ASSUME NEW r \in Reps, ReportStep(r), ~UploadAccepted(r),
               ~UploadFailed(r), ~ReportResult(r)
        PROVE  FALSE
    <3>1. Acked' = Acked
      <4>1. CASE SameIds(checked_files, checked_files')
        BY <2>0, <4>1, SameIdsLemma DEF Acked
      <4>2. CASE ReportPurge(r)
        BY <2>0, <4>2, PurgedAcked
      <4>. QED  BY <2>0, <2>6, <4>1, <4>2, ReportVectors
    <3>2. UNCHANGED <<chain, lost, crashes, main, db>>
      BY <2>6 DEF ReportStep, ReportBegin, ReportGate, ReportLockFiles,
                  ReportPurge, ReportGenerate, UpgradeData
    <3>3. Unsettled' = Unsettled
      <4>1. CASE ReportGenerate(r)
        <5>1. ~Settling /\ ~Settling'
          BY <2>0, <4>1, OneReport DEF ReportGenerate, Settling, Holding
        <5>. QED  BY <5>1 DEF Unsettled, Settling
      <4>2. CASE ~ReportGenerate(r)
        <5>1. g_work_report' = g_work_report
          BY <2>6, <4>2 DEF ReportStep, ReportBegin, ReportGate,
                            ReportLockFiles, ReportPurge, UpgradeData
        <5>2. Settling' <=> Settling
          BY <2>0, <2>6, <4>2 DEF ReportStep, ReportBegin, ReportGate,
                            ReportLockFiles, ReportPurge, UpgradeData, Settling
        <5>. QED  BY <5>1, <5>2 DEF Unsettled, Settling
      <4>. QED  BY <4>1, <4>2
    <3>. QED  BY <3>1, <3>2, <3>3 DEF Saved, Undisturbed
  <2>7. CASE CrashRestart
    <3>1. /\ Acked' = AckedIn(Loaded(db)) /\ Saved' = AckedIn(db.files)
          /\ Unsettled' = {} /\ chain' = chain
      BY <2>7 DEF CrashRestart, Acked, AckedIn, Saved, Unsettled, MainStart
    <3>4. Acked' \subseteq Saved
      BY <3>1, LoadedAcked DEF Saved, Inv, TypeInv, TypeOK
    <3>2. Undisturbed' = FALSE
      BY <2>0, <2>7 DEF CrashRestart, Undisturbed
    <3>3. Ledger!Restart
      BY <3>1, <3>2, <3>4 DEF Ledger!Restart, Saved
    <3>. QED  BY <3>3 DEF Ledger!Next
  <2>8. CASE UNCHANGED vars
    BY <2>8 DEF vars, Acked, Unsettled, Saved, Undisturbed
  <2>. QED  BY <2>1, <2>2, <2>3, <2>4, <2>5, <2>6, <2>7, <2>8 DEF Next
<1>. QED  BY <1>1, <1>2, InitInv, StepInv, PTL
          DEF Spec, LedgerSpec, Ledger!Spec

(***************************************************************************)
(* What the ledger alone promises: a worker whose replies all arrived and   *)
(* that was never killed knows what the chain counts, up to the report it   *)
(* has yet to take note of.                                                 *)
(***************************************************************************)
THEOREM LedgerAgrees == LedgerSpec => []Ledger!Agree
<1>1. Ledger!Init => Ledger!Agree
  BY DEF Ledger!Init, Ledger!Agree
<1>2. Ledger!Agree /\ [Ledger!Next]_(Ledger!lvars) => Ledger!Agree'
  <2>. SUFFICES ASSUME Ledger!Agree, [Ledger!Next]_(Ledger!lvars)
                PROVE  Ledger!Agree'
    OBVIOUS
  <2>1. ASSUME NEW A \in SUBSET Files, NEW D \in SUBSET Files,
               Ledger!Accept(A, D)
        PROVE  Ledger!Agree'
    BY <2>1 DEF Ledger!Agree, Ledger!Accept, Ledger!Apply, Ledger!Report
  <2>2. ASSUME NEW A \in SUBSET Files, NEW D \in SUBSET Files,
               Ledger!LoseReply(A, D)
        PROVE  Ledger!Agree'
    BY <2>2 DEF Ledger!Agree, Ledger!LoseReply
  <2>3. CASE Ledger!Acknowledge
    BY <2>3 DEF Ledger!Agree, Ledger!Acknowledge
  <2>4. CASE Ledger!Save
    BY <2>4 DEF Ledger!Agree, Ledger!Save
  <2>5. CASE Ledger!Restart
    BY <2>5 DEF Ledger!Agree, Ledger!Restart
  <2>6. CASE UNCHANGED Ledger!lvars
    BY <2>6 DEF Ledger!Agree, Ledger!lvars
  <2>. QED  BY <2>1, <2>2, <2>3, <2>4, <2>5, <2>6 DEF Ledger!Next
<1>. QED  BY <1>1, <1>2, PTL DEF LedgerSpec, Ledger!Spec

(***************************************************************************)
(* Counting what is tracked                                                 *)
(***************************************************************************)

\* The elements of a set of which a function says st, and how many they are.
Part(S, g, st) == {x \in S : g[x] = st}
Share(S, g, st) == Cardinality(Part(S, g, st))

LEMMA FiveParts ==
    ASSUME NEW S, IsFiniteSet(S), NEW g, \A x \in S : g[x] \in StatusName
    PROVE  /\ Cardinality(S)
                = Share(S, g, "unconfirmed") + Share(S, g, "valid")
                  + Share(S, g, "lost") + Share(S, g, "deleted")
                  + Share(S, g, "none")
           /\ \A st : Share(S, g, st) \in Nat
<1>. DEFINE a == Part(S, g, "unconfirmed")
            b == Part(S, g, "valid")
            c == Part(S, g, "lost")
            d == Part(S, g, "deleted")
            e == Part(S, g, "none")
<1>1. \A st : IsFiniteSet(Part(S, g, st)) /\ Cardinality(Part(S, g, st)) \in Nat
  <2>1. \A st : Part(S, g, st) \subseteq S
    BY DEF Part
  <2>. QED  BY <2>1, FS_Subset, FS_CardinalityType
<1>2. /\ S = ((a \cup b) \cup (c \cup d)) \cup e
      /\ a \cap b = {} /\ c \cap d = {} /\ (a \cup b) \cap (c \cup d) = {}
      /\ ((a \cup b) \cup (c \cup d)) \cap e = {}
  BY DEF StatusName, Status, Part
<1>3. /\ IsFiniteSet(a) /\ IsFiniteSet(b) /\ IsFiniteSet(c) /\ IsFiniteSet(d)
      /\ IsFiniteSet(e) /\ Cardinality(e) \in Nat
      /\ Cardinality(a) \in Nat /\ Cardinality(b) \in Nat
      /\ Cardinality(c) \in Nat /\ Cardinality(d) \in Nat
  BY <1>1
<1>. HIDE DEF a, b, c, d, e
<1>4. Cardinality({}) = 0
  BY FS_EmptySet
<1>5. /\ IsFiniteSet(a \cup b)
      /\ Cardinality(a \cup b) = Cardinality(a) + Cardinality(b)
  <2>1. /\ IsFiniteSet(a \cup b)
        /\ Cardinality(a \cup b)
             = Cardinality(a) + Cardinality(b) - Cardinality(a \cap b)
    BY <1>3, FS_Union
  <2>2. Cardinality(a \cap b) = 0
    BY <1>2, <1>4
  <2>. QED  BY <1>3, <2>1, <2>2
<1>6. /\ IsFiniteSet(c \cup d)
      /\ Cardinality(c \cup d) = Cardinality(c) + Cardinality(d)
  <2>1. /\ IsFiniteSet(c \cup d)
        /\ Cardinality(c \cup d)
             = Cardinality(c) + Cardinality(d) - Cardinality(c \cap d)
    BY <1>3, FS_Union
  <2>2. Cardinality(c \cap d) = 0
    BY <1>2, <1>4
  <2>. QED  BY <1>3, <2>1, <2>2
<1>7. /\ IsFiniteSet((a \cup b) \cup (c \cup d))
      /\ Cardinality((a \cup b) \cup (c \cup d))
           = Cardinality(a \cup b) + Cardinality(c \cup d)
  <2>1. /\ IsFiniteSet((a \cup b) \cup (c \cup d))
        /\ Cardinality((a \cup b) \cup (c \cup d))
          = Cardinality(a \cup b) + Cardinality(c \cup d)
            - Cardinality((a \cup b) \cap (c \cup d))
    BY <1>5, <1>6, FS_Union
  <2>2. Cardinality((a \cup b) \cap (c \cup d)) = 0
    BY <1>2, <1>4
  <2>. QED  BY <1>3, <1>5, <1>6, <2>1, <2>2
<1>8. Cardinality(S) = Cardinality(a) + Cardinality(b) + Cardinality(c)
                         + Cardinality(d) + Cardinality(e)
  <2>1. Cardinality(((a \cup b) \cup (c \cup d)) \cup e)
          = Cardinality((a \cup b) \cup (c \cup d)) + Cardinality(e)
            - Cardinality(((a \cup b) \cup (c \cup d)) \cap e)
    BY <1>3, <1>7, FS_Union
  <2>2. Cardinality(((a \cup b) \cup (c \cup d)) \cap e) = 0
    BY <1>2, <1>4
  <2>. QED  BY <1>2, <1>3, <1>5, <1>6, <1>7, <2>1, <2>2
<1>. QED  BY <1>1, <1>8 DEF a, b, c, d, e, Share

\* In a vector without duplicates there are as many hashes as indexes.
LEMMA IndexesAndNames ==
    ASSUME NEW s \in Seq(Item), Distinct(s), NEW I \in SUBSET (1..Len(s))
    PROVE  LET T == {s[i].file : i \in I}
           IN /\ IsFiniteSet(I) /\ IsFiniteSet(T)
              /\ Cardinality(T) = Cardinality(I)
<1>. DEFINE T == {s[i].file : i \in I}
            g == [i \in I |-> s[i].file]
<1>1. IsFiniteSet(I)
  <2>1. Len(s) \in Int /\ 1 \in Int
    BY LenProperties
  <2>2. IsFiniteSet(1..Len(s))
    BY <2>1, FS_Interval
  <2>. QED  BY <2>2, FS_Subset
<1>2. g \in Bijection(I, T)
  <2>1. g \in [I -> T]
    OBVIOUS
  <2>2. \A x, y \in I : g[x] = g[y] => x = y
    BY DEF Distinct
  <2>3. \A t \in T : \E x \in I : g[x] = t
    OBVIOUS
  <2>. HIDE DEF g, T
  <2>. QED  BY <2>1, <2>2, <2>3 DEF Bijection, Injection, Surjection, IsInjective
<1>3. ExistsBijection(I, T)
  BY <1>2 DEF ExistsBijection
<1>. HIDE DEF T
<1>4. IsFiniteSet(T) /\ Cardinality(T) = Cardinality(I)
  BY <1>1, <1>3, FS_Bijection
<1>. QED  BY <1>1, <1>4 DEF T

\* Live counts the items that nobody deleted, if all of them are files.
LEMMA LiveIsAlive ==
    ASSUME TypeInv, VecInv, NewItemsLive
    PROVE  /\ IsFiniteSet(Alive)
           /\ crashes = 0 => Live = Cardinality(Alive)
<1>0. /\ checked_files \in Seq(Item) /\ new_files \in Seq(Item)
      /\ Distinct(checked_files) /\ Distinct(new_files)
      /\ Names(checked_files) \cap Names(new_files) = {}
  BY DEF TypeInv, TypeOK, VecInv, DistinctFiles
<1>. DEFINE I == {j \in 1..Len(checked_files) : checked_files[j].cur # "deleted"}
            g == [j \in 1..Len(checked_files) |-> checked_files[j].cur]
<1>1. /\ IsFiniteSet(I) /\ IsFiniteSet(AliveIn(checked_files))
      /\ Cardinality(AliveIn(checked_files)) = Cardinality(I)
  BY <1>0, IndexesAndNames DEF AliveIn
<1>2. \A j \in I : g[j] \in StatusName
  BY <1>0, ItemFields
<1>3. /\ Part(I, g, "deleted") = {}
      /\ crashes = 0 => Part(I, g, "none") = {}
  <2>1. ASSUME crashes = 0, NEW j \in 1..Len(checked_files)
        PROVE  checked_files[j].cur # "none"
    <3>1. checked_files[j].file # NoFile
      BY <2>1 DEF VecInv, DistinctFiles, Names
    <3>. QED  BY <1>0, <3>1, ItemFields, StatusNames
  <2>. QED  BY <2>1 DEF Part
<1>4. ASSUME NEW st, st # "deleted"
      PROVE  Share(I, g, st) = Count(checked_files, st)
  <2>1. Part(I, g, st)
          = {i \in 1..Len(checked_files) : checked_files[i].cur = st}
    BY <1>4 DEF Part
  <2>. QED  BY <2>1 DEF Share, Count
<1>. HIDE DEF I, g
<1>5. /\ Cardinality(I) = Share(I, g, "unconfirmed") + Share(I, g, "valid")
                           + Share(I, g, "lost") + Share(I, g, "deleted")
                           + Share(I, g, "none")
      /\ \A st : Share(I, g, st) \in Nat
  BY <1>1, <1>2, FiveParts
<1>6. ASSUME crashes = 0
      PROVE  Cardinality(I) = Count(checked_files, "unconfirmed")
                              + Count(checked_files, "valid")
                              + Count(checked_files, "lost")
  <2>1. Share(I, g, "deleted") = 0 /\ Share(I, g, "none") = 0
    BY <1>3, <1>6, FS_EmptySet DEF Share
  <2>2. /\ Share(I, g, "unconfirmed") = Count(checked_files, "unconfirmed")
        /\ Share(I, g, "valid") = Count(checked_files, "valid")
        /\ Share(I, g, "lost") = Count(checked_files, "lost")
    BY <1>4
  <2>. QED  BY <1>5, <2>1, <2>2
<1>7. /\ IsFiniteSet(AliveIn(new_files)) /\ Len(new_files) \in Nat
      /\ Cardinality(AliveIn(new_files)) = Len(new_files)
  <2>1. Len(new_files) \in Nat
    BY <1>0, LenProperties
  <2>2. AliveIn(new_files) = {new_files[i].file : i \in 1..Len(new_files)}
    BY DEF AliveIn, NewItemsLive
  <2>3. /\ IsFiniteSet(AliveIn(new_files))
        /\ Cardinality(AliveIn(new_files)) = Cardinality(1..Len(new_files))
    BY <1>0, <2>2, IndexesAndNames
  <2>4. Cardinality(1..Len(new_files)) = Len(new_files)
    <3>1. Cardinality(1..Len(new_files))
            = IF 1 > Len(new_files) THEN 0 ELSE Len(new_files) - 1 + 1
      BY <2>1, FS_Interval
    <3>. QED  BY <2>1, <3>1
  <2>. QED  BY <2>1, <2>3, <2>4
<1>8. AliveIn(checked_files) \cap AliveIn(new_files) = {}
  BY <1>0 DEF AliveIn, Names
<1>9. /\ IsFiniteSet(Alive)
      /\ Cardinality(Alive) = Cardinality(AliveIn(checked_files))
                                + Cardinality(AliveIn(new_files))
                                - Cardinality({})
  BY <1>1, <1>7, <1>8, FS_Union DEF Alive
<1>10. Cardinality({}) = 0 /\ Cardinality(I) \in Nat
  BY <1>1, FS_EmptySet, FS_CardinalityType
<1>11. Cardinality(Alive) = Cardinality(I) + Len(new_files)
  BY <1>1, <1>7, <1>9, <1>10
<1>. QED  BY <1>6, <1>7, <1>9, <1>10, <1>11 DEF Live

(***************************************************************************)
(* The statistics                                                           *)
(***************************************************************************)

SpecSum(spec) ==
    spec["unconfirmed"] + spec["valid"] + spec["lost"] + spec["deleted"]
      + spec["none"]

\* A size that keeps its sign, counted down, is not taken for a count up.
LEMMA DownIsDown ==
    ASSUME NEW n \in Nat, 2 * (n % INT_RANGE) <= INT_RANGE
    PROVE  NumStep(-n) = -1
<1>. DEFINE m == (-n) % INT_RANGE
            k == n % INT_RANGE
            q == (-n) \div INT_RANGE
            p == n \div INT_RANGE
<1>1. INT_RANGE \in Int /\ INT_RANGE > 0
  BY ConstantsAssumption
<1>2. /\ m \in Int /\ 0 <= m /\ m < INT_RANGE /\ k \in Int /\ 0 <= k
      /\ k < INT_RANGE /\ p \in Int /\ q \in Int
      /\ -n = INT_RANGE * q + m /\ n = INT_RANGE * p + k
  BY <1>1
<1>3. 2 * k <= INT_RANGE
  OBVIOUS
<1>4. m = 0 \/ m = INT_RANGE - k
  <2>. HIDE DEF m, k, q, p
  <2>1. INT_RANGE * (p + q) + (k + m) = 0
    BY <1>1, <1>2
  <2>2. PICK x \in Int : x = p + q
    BY <1>2
  <2>3. INT_RANGE * x + (k + m) = 0 /\ 0 <= k + m /\ k + m < INT_RANGE + INT_RANGE
    BY <1>1, <1>2, <2>1, <2>2
  <2>4. CASE x >= 1
    <3>1. INT_RANGE * x >= INT_RANGE
      BY <1>1, <2>4
    <3>. QED  BY <1>1, <1>2, <2>3, <3>1
  <2>5. CASE x <= -2
    <3>1. INT_RANGE * x <= INT_RANGE * (-2)
      BY <1>1, <2>5
    <3>. QED  BY <1>1, <1>2, <2>3, <3>1
  <2>6. CASE x = 0
    BY <1>1, <1>2, <2>3, <2>6
  <2>7. CASE x = -1
    BY <1>1, <1>2, <2>3, <2>7
  <2>. QED  BY <2>4, <2>5, <2>6, <2>7
<1>5. NumStep(-n) = IF (IF m >= INT_RANGE \div 2 THEN m - INT_RANGE ELSE m) > 0
                    THEN 1 ELSE -1
  BY DEF NumStep, IntOf
<1>. HIDE DEF m, k, q, p
<1>. QED  BY <1>1, <1>2, <1>3, <1>4, <1>5

LEMMA SpecAddSum ==
    ASSUME NEW spec \in [StatusName -> Int], NEW s \in StatusName, NEW n
    PROVE  SpecSum(SpecAdd(spec, s, n)) = SpecSum(spec) + NumStep(n)
           /\ SpecSum(spec) \in Int
<1>. DEFINE k == NumStep(n)
<1>1. k \in Int
  BY NumStepType
<1>. HIDE DEF k
<1>2. SpecAdd(spec, s, n) = [spec EXCEPT ![s] = @ + k]
  BY DEF SpecAdd, k
<1>3. SpecSum([spec EXCEPT ![s] = @ + k]) = SpecSum(spec) + k
  BY <1>1 DEF SpecSum, StatusName, Status
<1>. QED  BY <1>2, <1>3, StatusNames DEF SpecSum, k

LEMMA SpecMoveSum ==
    ASSUME NEW spec \in [StatusName -> Int], NEW n
    PROVE  SpecSum(SpecMove(spec, "valid", "unconfirmed", n)) = SpecSum(spec)
<1>. DEFINE k == NumStep(n)
<1>1. k \in Int
  BY NumStepType
<1>. HIDE DEF k
<1>2. SpecMove(spec, "valid", "unconfirmed", n)
        = [spec EXCEPT !["valid"] = @ + k, !["unconfirmed"] = @ - k]
  BY DEF SpecMove, k
<1>. QED  BY <1>1, <1>2 DEF SpecSum, StatusName, Status

\* Settling a validation moves files between statuses: whatever the recorded
\* indexes denote by now, the sum stays.
LEMMA AccountSum ==
    ASSUME checked_files \in Seq(Item), NEW spec \in [StatusName -> Int],
           NEW changed \in SUBSET Change, IsFiniteSet(changed),
           NEW stale \in StatusName, NEW d
    PROVE  SpecSum(Account(spec, changed, stale, d)) = SpecSum(spec)
<1>. DEFINE known(m) == m.idx \in 1..Len(checked_files)
            to(m)    == IF known(m) THEN checked_files[m.idx].cur ELSE stale
            step(m)  == IF known(m)
                        THEN NumStep(OldSize(checked_files[m.idx])) ELSE d
            net(S)   == Cardinality({m \in S : step(m) = 1})
                        - Cardinality({m \in S : step(m) = -1})
            moved    == {m \in changed : to(m) # m.from}
            up       == {m \in moved : step(m) = 1}
            down     == {m \in moved : step(m) = -1}
            tof      == [m \in moved |-> to(m)]
            fromf    == [m \in moved |-> m.from]
            in(S, st)  == Share(S, tof, st)
            out(S, st) == Share(S, fromf, st)
<1>1. \A m \in moved : tof[m] \in StatusName /\ fromf[m] \in StatusName
  <2>1. \A i \in 1..Len(checked_files) : checked_files[i].cur \in StatusName
    BY ItemFields
  <2>. QED  BY <2>1, StatusNames DEF Change
<1>2. Account(spec, changed, stale, d)
        = [s \in StatusName |-> spec[s] + net({m \in moved : to(m) = s})
                                    - net({m \in moved : m.from = s})]
  BY DEF Account
<1>3. ASSUME NEW s
      PROVE  /\ net({m \in moved : to(m) = s}) = in(up, s) - in(down, s)
             /\ net({m \in moved : m.from = s}) = out(up, s) - out(down, s)
  <2>1. /\ {m \in {x \in moved : to(x) = s} : step(m) = 1}
             = Part(up, tof, s)
        /\ {m \in {x \in moved : to(x) = s} : step(m) = -1}
             = Part(down, tof, s)
    <3>. HIDE DEF to, step
    <3>. QED  BY DEF Part
  <2>2. /\ {m \in {x \in moved : x.from = s} : step(m) = 1}
             = Part(up, fromf, s)
        /\ {m \in {x \in moved : x.from = s} : step(m) = -1}
             = Part(down, fromf, s)
    <3>. HIDE DEF to, step
    <3>. QED  BY DEF Part
  <2>. HIDE DEF to, step, up, down, tof, fromf, moved
  <2>. QED  BY <2>1, <2>2 DEF Share
<1>4. IsFiniteSet(up) /\ IsFiniteSet(down) /\ up \subseteq moved
      /\ down \subseteq moved
  <2>. HIDE DEF to, step
  <2>. QED  BY FS_Subset
<1>. HIDE DEF up, down, tof, fromf, moved, to, step
<1>5. ASSUME NEW S, IsFiniteSet(S), S \subseteq moved
      PROVE  /\ in(S, "unconfirmed") + in(S, "valid") + in(S, "lost")
                   + in(S, "deleted") + in(S, "none")
                = out(S, "unconfirmed") + out(S, "valid") + out(S, "lost")
                   + out(S, "deleted") + out(S, "none")
             /\ \A st : in(S, st) \in Nat /\ out(S, st) \in Nat
  <2>1. /\ Cardinality(S) = in(S, "unconfirmed") + in(S, "valid")
                            + in(S, "lost") + in(S, "deleted") + in(S, "none")
        /\ \A st : in(S, st) \in Nat
    BY <1>1, <1>5, FiveParts
  <2>2. /\ Cardinality(S) = out(S, "unconfirmed") + out(S, "valid")
                            + out(S, "lost") + out(S, "deleted") + out(S, "none")
        /\ \A st : out(S, st) \in Nat
    BY <1>1, <1>5, FiveParts
  <2>. QED  BY <2>1, <2>2
<1>. HIDE DEF net
<1>6. \A s \in StatusName : Account(spec, changed, stale, d)[s]
         = spec[s] + (in(up, s) - in(down, s)) - (out(up, s) - out(down, s))
  BY <1>2, <1>3
<1>. HIDE DEF in, out
<1>7. /\ in(up, "unconfirmed") + in(up, "valid") + in(up, "lost")
           + in(up, "deleted") + in(up, "none")
         = out(up, "unconfirmed") + out(up, "valid") + out(up, "lost")
           + out(up, "deleted") + out(up, "none")
      /\ in(down, "unconfirmed") + in(down, "valid") + in(down, "lost")
           + in(down, "deleted") + in(down, "none")
         = out(down, "unconfirmed") + out(down, "valid") + out(down, "lost")
           + out(down, "deleted") + out(down, "none")
      /\ \A st : in(up, st) \in Nat /\ out(up, st) \in Nat
                 /\ in(down, st) \in Nat /\ out(down, st) \in Nat
  BY <1>4, <1>5
<1>. DEFINE acc == Account(spec, changed, stale, d)
            gain(s) == (in(up, s) - in(down, s)) - (out(up, s) - out(down, s))
<1>8. gain("unconfirmed") + gain("valid") + gain("lost") + gain("deleted")
        + gain("none") = 0
  <2>. DEFINE i1 == in(up, "unconfirmed")   i2 == in(up, "valid")
              i3 == in(up, "lost")          i4 == in(up, "deleted")
              i5 == in(up, "none")
              j1 == in(down, "unconfirmed") j2 == in(down, "valid")
              j3 == in(down, "lost")        j4 == in(down, "deleted")
              j5 == in(down, "none")
              o1 == out(up, "unconfirmed")   o2 == out(up, "valid")
              o3 == out(up, "lost")          o4 == out(up, "deleted")
              o5 == out(up, "none")
              q1 == out(down, "unconfirmed") q2 == out(down, "valid")
              q3 == out(down, "lost")        q4 == out(down, "deleted")
              q5 == out(down, "none")
  <2>1. /\ i1 \in Nat /\ i2 \in Nat /\ i3 \in Nat /\ i4 \in Nat
        /\ i5 \in Nat
        /\ j1 \in Nat /\ j2 \in Nat /\ j3 \in Nat /\ j4 \in Nat
        /\ j5 \in Nat
        /\ o1 \in Nat /\ o2 \in Nat /\ o3 \in Nat /\ o4 \in Nat
        /\ o5 \in Nat
        /\ q1 \in Nat /\ q2 \in Nat /\ q3 \in Nat /\ q4 \in Nat
        /\ q5 \in Nat
    BY <1>7
  <2>2. i1 + i2 + i3 + i4 + i5 = o1 + o2 + o3 + o4 + o5
        /\ j1 + j2 + j3 + j4 + j5 = q1 + q2 + q3 + q4 + q5
    BY <1>7
  <2>. HIDE DEF i1, i2, i3, i4, i5, j1, j2, j3, j4, j5, o1, o2, o3, o4, o5,
                q1, q2, q3, q4, q5
  <2>3. ((i1 - j1) - (o1 - q1)) + ((i2 - j2) - (o2 - q2))
          + ((i3 - j3) - (o3 - q3)) + ((i4 - j4) - (o4 - q4))
          + ((i5 - j5) - (o5 - q5)) = 0
    BY <2>1, <2>2
  <2>. QED  BY <2>3 DEF i1, i2, i3, i4, i5, j1, j2, j3, j4, j5,
                        o1, o2, o3, o4, o5, q1, q2, q3, q4, q5
<1>9. ASSUME NEW s PROVE gain(s) \in Int
  <2>1. /\ in(up, s) \in Nat /\ out(up, s) \in Nat
        /\ in(down, s) \in Nat /\ out(down, s) \in Nat
    BY <1>7
  <2>. QED  BY <2>1
<1>10. \A s \in StatusName : spec[s] \in Int /\ acc[s] = spec[s] + gain(s)
  <2>1. ASSUME NEW s \in StatusName
        PROVE  spec[s] \in Int /\ acc[s] = spec[s] + gain(s)
    <3>1. /\ spec[s] \in Int /\ in(up, s) \in Nat /\ out(up, s) \in Nat
          /\ in(down, s) \in Nat /\ out(down, s) \in Nat
      BY <1>7
    <3>. QED  BY <1>6, <3>1
  <2>. QED  BY <2>1
<1>. HIDE DEF gain, acc
<1>11. SpecSum(acc) = SpecSum(spec)
  <2>. DEFINE Ok(s) == spec[s] \in Int /\ gain(s) \in Int
                       /\ acc[s] = spec[s] + gain(s)
  <2>1. Ok("unconfirmed") /\ Ok("valid") /\ Ok("lost") /\ Ok("deleted")
        /\ Ok("none")
    BY <1>9, <1>10, StatusNames
  <2>. DEFINE s1 == spec["unconfirmed"] s2 == spec["valid"]
              s3 == spec["lost"]        s4 == spec["deleted"]
              s5 == spec["none"]        g5 == gain("none")
              g1 == gain("unconfirmed") g2 == gain("valid")
              g3 == gain("lost")        g4 == gain("deleted")
  <2>2. /\ s1 \in Int /\ s2 \in Int /\ s3 \in Int /\ s4 \in Int
        /\ s5 \in Int /\ g5 \in Int
        /\ g1 \in Int /\ g2 \in Int /\ g3 \in Int /\ g4 \in Int
        /\ g1 + g2 + g3 + g4 + g5 = 0
    BY <1>8, <2>1
  <2>3. SpecSum(acc) = (s1 + g1) + (s2 + g2) + (s3 + g3) + (s4 + g4)
                         + (s5 + g5)
    BY <2>1 DEF SpecSum
  <2>4. SpecSum(spec) = s1 + s2 + s3 + s4 + s5
    BY DEF SpecSum
  <2>. HIDE DEF s1, s2, s3, s4, s5, g1, g2, g3, g4, g5
  <2>. QED  BY <2>2, <2>3, <2>4
<1>. QED  BY <1>11 DEF acc

\* The clients at one place of their code.
Busy(pc) == {c \in Clients : client[c].pc = pc}

\* NeverOvercounts in terms of what is alive: a file that is being deleted may
\* still be counted, one that was just sealed is not counted yet. The premise
\* can only become false: hashes are handed out and never taken back.
Regular == crashes = 0 /\ SignsKept
Balanced ==
    Regular =>
        SpecSum(wl_spec_info) <= Cardinality(Alive)
            + Cardinality(Busy("deleteSpec")) - Cardinality(Busy("sealSpec"))

LEMMA BusyCounts ==
    ASSUME NEW pc PROVE IsFiniteSet(Busy(pc)) /\ Cardinality(Busy(pc)) \in Nat
<1>1. Busy(pc) \subseteq Clients
  BY DEF Busy
<1>. QED  BY <1>1, ConstantsAssumption, FS_Subset, FS_CardinalityType

LEMMA BusyStep ==
    ASSUME NEW c \in Clients, NEW pc,
           \A d \in Clients : d # c => client'[d] = client[d]
    PROVE  /\ client[c].pc # pc /\ client'[c].pc = pc =>
                Cardinality(Busy(pc)') = Cardinality(Busy(pc)) + 1
           /\ client[c].pc = pc /\ client'[c].pc # pc =>
                Cardinality(Busy(pc)') = Cardinality(Busy(pc)) - 1
           /\ (client[c].pc = pc <=> client'[c].pc = pc) => Busy(pc)' = Busy(pc)
<1>1. Busy(pc) = {d \in Clients : client[d].pc = pc}
      /\ Busy(pc)' = {d \in Clients : client'[d].pc = pc}
  BY DEF Busy
<1>2. ASSUME client[c].pc # pc, client'[c].pc = pc
      PROVE  Cardinality(Busy(pc)') = Cardinality(Busy(pc)) + 1
  <2>1. Busy(pc)' = Busy(pc) \cup {c} /\ c \notin Busy(pc)
    BY <1>1, <1>2
  <2>. QED  BY <2>1, BusyCounts, FS_AddElement
<1>3. ASSUME client[c].pc = pc, client'[c].pc # pc
      PROVE  Cardinality(Busy(pc)') = Cardinality(Busy(pc)) - 1
  <2>1. Busy(pc)' = Busy(pc) \ {c} /\ c \in Busy(pc)
    BY <1>1, <1>3
  <2>. QED  BY <2>1, BusyCounts, FS_RemoveElement
<1>4. ASSUME client[c].pc = pc <=> client'[c].pc = pc
      PROVE  Busy(pc)' = Busy(pc)
  BY <1>1, <1>4
<1>. QED  BY <1>2, <1>3, <1>4

LEMMA BalanceKept ==
    ASSUME Balanced, Regular' => Regular, Alive' = Alive,
           Busy("deleteSpec")' = Busy("deleteSpec"),
           Busy("sealSpec")' = Busy("sealSpec"),
           SpecSum(wl_spec_info') = SpecSum(wl_spec_info)
    PROVE  Balanced'
BY DEF Balanced

LEMMA BalanceClient ==
    ASSUME Inv, Balanced, NEW c \in Clients, ClientStep(c)
    PROVE  Balanced'
<1>. USE DEF fileVars, lockVars, boundVars, reportVars
<1>0. /\ TypeInv /\ VecInv /\ TreeInv /\ NewItemsLive
      /\ client \in [Clients -> ClientState] /\ wl_spec_info \in [StatusName -> Int]
  BY DEF Inv, TypeInv, TypeOK, TreeInv, NewItemsLive
<1>1. Idle.pc = "idle" /\ [Idle EXCEPT !.pc = "seal"].pc = "seal"
  BY DEF Idle
<1>. DEFINE a == Cardinality(Alive)
            d == Cardinality(Busy("deleteSpec"))
            e == Cardinality(Busy("sealSpec"))
            w == SpecSum(wl_spec_info)
<1>2. /\ a \in Int /\ d \in Int /\ e \in Int /\ w \in Int
      /\ IsFiniteSet(Alive) /\ (Regular => w <= a + d - e)
  <2>1. a \in Nat /\ IsFiniteSet(Alive)
    BY <1>0, LiveIsAlive, FS_CardinalityType
  <2>2. w \in Int
    BY <1>0, StatusNames DEF SpecSum
  <2>3. d \in Nat /\ e \in Nat
    BY BusyCounts
  <2>4. Regular => w <= a + d - e
    BY DEF Balanced
  <2>. QED  BY <2>1, <2>2, <2>3, <2>4
<1>3. Regular' => Regular
  BY <1>0, ClientVectors DEF Regular, SignsKept
<1>4. ASSUME \A x \in Clients : x # c => client'[x] = client[x],
             client[c].pc \notin {"deleteSpec", "sealSpec"},
             client'[c].pc \notin {"deleteSpec", "sealSpec"}
      PROVE  /\ Busy("deleteSpec")' = Busy("deleteSpec")
             /\ Busy("sealSpec")' = Busy("sealSpec")
  <2>1. /\ client[c].pc # "deleteSpec" /\ client'[c].pc # "deleteSpec"
        /\ client[c].pc # "sealSpec" /\ client'[c].pc # "sealSpec"
    BY <1>4
  <2>. QED  BY <1>4, <2>1, BusyStep
<1>5. ASSUME UNCHANGED <<checked_files, new_files, wl_spec_info>>,
             \A x \in Clients : x # c => client'[x] = client[x],
             client[c].pc \notin {"deleteSpec", "sealSpec"},
             client'[c].pc \notin {"deleteSpec", "sealSpec"}
      PROVE  Balanced'
  <2>1. Alive' = Alive /\ SpecSum(wl_spec_info') = SpecSum(wl_spec_info)
    BY <1>5 DEF Alive
  <2>. QED  BY <1>3, <1>4, <1>5, <2>1, BalanceKept
<1>6. CASE SealBegin(c)
  <2>1. /\ \A x \in Clients : x # c => client'[x] = client[x]
        /\ client[c].pc = "idle" /\ client'[c].pc = "sealCount"
    BY <1>0, <1>6 DEF SealBegin, ClientState
  <2>. QED  BY <1>5, <1>6, <2>1 DEF SealBegin
<1>7. CASE SealCount(c)
  <2>1. /\ \A x \in Clients : x # c => client'[x] = client[x]
        /\ client[c].pc = "sealCount" /\ client'[c].pc \in {"idle", "seal"}
    BY <1>0, <1>1, <1>7 DEF SealCount
  <2>. QED  BY <1>5, <1>7, <2>1 DEF SealCount
<1>8. CASE SealFail(c)
  <2>1. /\ \A x \in Clients : x # c => client'[x] = client[x]
        /\ client[c].pc = "seal" /\ client'[c].pc = "idle"
    BY <1>0, <1>1, <1>8 DEF SealFail
  <2>. QED  BY <1>5, <1>8, <2>1 DEF SealFail
<1>9. CASE RequestAny(c)
  <2>1. PICK f \in sealed, op \in {"confirm", "delete"} : Request(c, op, f)
    BY <1>9 DEF RequestAny
  <2>2. /\ \A x \in Clients : x # c => client'[x] = client[x]
        /\ client[c].pc = "idle" /\ client'[c].pc = op
    BY <1>0, <2>1 DEF Request, ClientState
  <2>. QED  BY <1>5, <2>1, <2>2 DEF Request
<1>10. CASE SealStore(c)
  <2>1. PICK f \in Files \ sealed :
           /\ Alive' = Alive \cup {f}
           /\ client' = [client EXCEPT ![c].pc = "sealSpec", ![c].file = f]
    BY <1>0, <1>10, SealAlive
  <2>2. /\ \A x \in Clients : x # c => client'[x] = client[x]
        /\ client[c].pc = "seal" /\ client'[c].pc = "sealSpec"
    BY <1>0, <1>10, <2>1 DEF SealStore, ClientState
  <2>3. Cardinality(Alive') = a + 1
    <3>1. Alive \subseteq Names(checked_files) \cup Names(new_files)
      BY DEF Alive, AliveIn, Names
    <3>2. f \notin Alive
      BY <1>0, <3>1, ConstantsAssumption DEF VecInv, DistinctFiles
    <3>. QED  BY <1>2, <2>1, <3>2, FS_AddElement
  <2>4. Cardinality(Busy("sealSpec")') = e + 1
    BY <2>2, BusyStep
  <2>5. Cardinality(Busy("deleteSpec")') = d + 0
    <3>1. Busy("deleteSpec")' = Busy("deleteSpec")
      BY <2>2, BusyStep
    <3>. QED  BY <1>2, <3>1
  <2>6. SpecSum(wl_spec_info') = w + 0
    BY <1>2, <1>10 DEF SealStore
  <2>. HIDE DEF a, d, e, w
  <2>7. Regular => w + 0 <= (a + 1) + (d + 0) - (e + 1)
    BY <1>2
  <2>. QED  BY <1>3, <2>3, <2>4, <2>5, <2>6, <2>7 DEF Balanced
<1>11. CASE SealSpec(c)
  <2>. DEFINE dw == NumStep(Size[client[c].file])
  <2>1. /\ \A x \in Clients : x # c => client'[x] = client[x]
        /\ client[c].pc = "sealSpec" /\ client'[c].pc = "idle"
    BY <1>0, <1>1, <1>11 DEF SealSpec
  <2>2. dw \in Int /\ dw <= 1
    BY DEF NumStep
  <2>3. SpecSum(wl_spec_info') = w + dw
    <3>1. wl_spec_info' = SpecAdd(wl_spec_info, "unconfirmed",
                                  Size[client[c].file])
      BY <1>11 DEF SealSpec
    <3>. QED  BY <1>0, <3>1, SpecAddSum, StatusNames
  <2>4. Cardinality(Alive') = a + 0
    <3>1. Alive' = Alive
      BY <1>11 DEF SealSpec, Alive
    <3>. QED  BY <1>2, <3>1
  <2>5. Cardinality(Busy("sealSpec")') = e + (-1)
    <3>1. Cardinality(Busy("sealSpec")') = Cardinality(Busy("sealSpec")) - 1
      BY <2>1, BusyStep
    <3>. QED  BY <1>2, <3>1
  <2>6. Cardinality(Busy("deleteSpec")') = d + 0
    <3>1. Busy("deleteSpec")' = Busy("deleteSpec")
      BY <2>1, BusyStep
    <3>. QED  BY <1>2, <3>1
  <2>. HIDE DEF a, d, e, w, dw
  <2>7. Regular => w + dw <= (a + 0) + (d + 0) - (e + (-1))
    BY <1>2, <2>2
  <2>. QED  BY <1>3, <2>3, <2>4, <2>5, <2>6, <2>7 DEF Balanced
<1>12. CASE ConfirmFile(c)
  <2>1. Alive' = Alive
    BY <1>0, <1>12, ConfirmAlive
  <2>2. client[c].pc = "confirm" /\ wl_spec_info' = wl_spec_info
    BY <1>12 DEF ConfirmFile
  <2>3. /\ \A x \in Clients : x # c => client'[x] = client[x]
        /\ client'[c].pc \in {"idle", "confirmSpec"}
    <3>1. \/ client' = [client EXCEPT ![c].pc = "confirmSpec"]
          \/ client' = [client EXCEPT ![c] = Idle]
      BY <1>12, Zenon DEF ConfirmFile
    <3>. QED  BY <1>0, <1>1, <3>1 DEF ClientState
  <2>. QED  BY <1>3, <1>4, <2>1, <2>2, <2>3, BalanceKept
<1>13. CASE ConfirmSpec(c)
  <2>1. /\ \A x \in Clients : x # c => client'[x] = client[x]
        /\ client[c].pc = "confirmSpec" /\ client'[c].pc = "idle"
    BY <1>0, <1>1, <1>13 DEF ConfirmSpec
  <2>2. SpecSum(wl_spec_info') = SpecSum(wl_spec_info)
    BY <1>0, <1>13, SpecMoveSum DEF ConfirmSpec
  <2>3. Alive' = Alive
    BY <1>13 DEF ConfirmSpec, Alive
  <2>. QED  BY <1>3, <1>4, <2>1, <2>2, <2>3, BalanceKept
<1>14. CASE DeleteFile(c)
  <2>1. client[c].pc = "delete" /\ wl_spec_info' = wl_spec_info
    BY <1>14 DEF DeleteFile
  <2>2. CASE Alive' = Alive /\ client' = [client EXCEPT ![c] = Idle]
    <3>1. /\ \A x \in Clients : x # c => client'[x] = client[x]
          /\ client'[c].pc = "idle"
      BY <1>0, <1>1, <2>2
    <3>. QED  BY <1>3, <1>4, <2>1, <2>2, <3>1, BalanceKept
  <2>3. ASSUME NEW old,
               client' = [client EXCEPT ![c].pc = "deleteSpec", ![c].old = old],
               Alive' = Alive \ {client[c].file}
        PROVE  Balanced'
    <3>1. /\ \A x \in Clients : x # c => client'[x] = client[x]
          /\ client'[c].pc = "deleteSpec"
      BY <1>0, <2>3 DEF ClientState
    <3>2. PICK da \in {0, -1} : Cardinality(Alive') = a + da
      <4>1. Cardinality(Alive \ {client[c].file})
              = IF client[c].file \in Alive THEN a - 1 ELSE a
        BY <1>2, FS_RemoveElement
      <4>. QED  BY <1>2, <2>3, <4>1
    <3>3. Cardinality(Busy("deleteSpec")') = d + 1
      BY <2>1, <3>1, BusyStep
    <3>4. Cardinality(Busy("sealSpec")') = e + 0
      <4>1. Busy("sealSpec")' = Busy("sealSpec")
        BY <2>1, <3>1, BusyStep
      <4>. QED  BY <1>2, <4>1
    <3>5. SpecSum(wl_spec_info') = w + 0
      BY <1>2, <2>1
    <3>. HIDE DEF a, d, e, w
    <3>6. Regular => w + 0 <= (a + da) + (d + 1) - (e + 0)
      BY <1>2
    <3>. QED  BY <1>3, <3>2, <3>3, <3>4, <3>5, <3>6 DEF Balanced
  <2>. QED  BY <1>0, <1>14, <2>2, <2>3, DeleteAlive
<1>15. CASE DeleteSpec(c)
  <2>1. /\ \A x \in Clients : x # c => client'[x] = client[x]
        /\ client[c].pc = "deleteSpec" /\ client'[c].pc = "idle"
    BY <1>0, <1>1, <1>15 DEF DeleteSpec
  <2>. DEFINE dw == NumStep(-Size[client[c].file])
  <2>2. client[c].file \in sealed /\ client[c].file \in Files
    BY <1>0, <2>1 DEF TreeInv, TypeInv, TypeOK
  <2>3. dw \in Int /\ (Regular => dw = -1)
    <3>1. Size[client[c].file] \in Nat
      BY <2>2, ConstantsAssumption
    <3>2. Regular => 2 * (Size[client[c].file] % INT_RANGE) <= INT_RANGE
      BY <2>2 DEF Regular, SignsKept
    <3>. QED  BY <3>1, <3>2, DownIsDown, NumStepType
  <2>4. SpecSum(wl_spec_info') = w + dw
    <3>1. wl_spec_info' = SpecAdd(wl_spec_info, client[c].old,
                                  -Size[client[c].file])
      BY <1>15 DEF DeleteSpec
    <3>2. client[c].old \in StatusName
      BY <1>0, StatusNames DEF ClientState
    <3>. QED  BY <1>0, <3>1, <3>2, SpecAddSum
  <2>5. Cardinality(Alive') = a + 0
    <3>1. Alive' = Alive
      BY <1>15 DEF DeleteSpec, Alive
    <3>. QED  BY <1>2, <3>1
  <2>6. Cardinality(Busy("deleteSpec")') = d + (-1)
    <3>1. Cardinality(Busy("deleteSpec")') = Cardinality(Busy("deleteSpec")) - 1
      BY <2>1, BusyStep
    <3>. QED  BY <1>2, <3>1
  <2>7. Cardinality(Busy("sealSpec")') = e + 0
    <3>1. Busy("sealSpec")' = Busy("sealSpec")
      BY <2>1, BusyStep
    <3>. QED  BY <1>2, <3>1
  <2>. HIDE DEF a, d, e, w, dw
  <2>8. Regular => w + dw <= (a + 0) + (d + (-1)) - (e + 0)
    BY <1>2, <2>3
  <2>. QED  BY <1>3, <2>4, <2>5, <2>6, <2>7, <2>8 DEF Balanced
<1>. QED
  BY <1>6, <1>7, <1>8, <1>9, <1>10, <1>11, <1>12, <1>13, <1>14, <1>15
  DEF ClientStep

LEMMA BalanceStep ==
    ASSUME Inv, Balanced, [Next]_vars
    PROVE  Balanced'
<1>0. /\ TypeInv /\ VecInv /\ NewItemsLive /\ checked_files \in Seq(Item)
      /\ wl_spec_info \in [StatusName -> Int] /\ IsFiniteSet(main.changed)
      /\ main.changed \in SUBSET Change /\ crashes \in Nat
  BY DEF Inv, TypeInv, TypeOK, TreeInv, NewItemsLive, MainState
<1>1. ASSUME NEW c \in Clients, ClientStep(c) PROVE Balanced'
  BY <1>1, BalanceClient
<1>2. CASE MainStep
  <2>1. Alive' = Alive /\ UNCHANGED <<client, crashes, sealed>>
    BY <1>0, <1>2, MainAlive
  <2>2. SpecSum(wl_spec_info') = SpecSum(wl_spec_info)
    <3>1. CASE ValidateEnd
      BY <1>0, <3>1, AccountSum DEF ValidateEnd
    <3>2. CASE wl_spec_info' = wl_spec_info
      BY <3>2
    <3>. QED  BY <1>2, <3>1, <3>2 DEF MainStep, ValidateSkip, ValidateBegin,
                 ValidateYield, ValidateCheck, StoreSpec, StoreSkip, StoreFile,
                 StoreComma, StoreEnd
  <2>3. \A pc : Busy(pc)' = Busy(pc)
    BY <2>1 DEF Busy
  <2>4. Regular' => Regular
    BY <2>1 DEF Regular, SignsKept
  <2>. QED  BY <2>1, <2>2, <2>3, <2>4, BalanceKept
<1>3. ASSUME NEW r \in Reps, ReportStep(r) PROVE Balanced'
  <2>1. Alive' = Alive /\ UNCHANGED <<client, crashes, sealed>>
    BY <1>0, <1>3, ReportAlive
  <2>2. wl_spec_info' = wl_spec_info
    BY <1>3 DEF ReportStep, ReportBegin, ReportGate, ReportLockFiles,
                ReportPurge, ReportGenerate, UploadAccepted, UploadFailed,
                ReportResult, UpgradeData
  <2>3. \A pc : Busy(pc)' = Busy(pc)
    BY <2>1 DEF Busy
  <2>4. Regular' => Regular
    BY <2>1 DEF Regular, SignsKept
  <2>. QED  BY <2>1, <2>2, <2>3, <2>4, BalanceKept
<1>4. CASE CrashRestart
  <2>1. crashes' # 0
    BY <1>0, <1>4 DEF CrashRestart
  <2>. QED  BY <2>1 DEF Balanced, Regular
<1>5. CASE UNCHANGED vars
  BY <1>5 DEF vars, fileVars, boundVars, Balanced, Regular, SignsKept, Alive, Busy
<1>. QED  BY <1>1, <1>2, <1>3, <1>4, <1>5 DEF Next

(***************************************************************************)
(* As long as the worker is not killed, validation never meets a live item  *)
(* whose tree is gone: storage_delete_file may remove the tree outside the  *)
(* file lock because nothing revives an item once it is marked or erased.   *)
(***************************************************************************)
THEOREM TreesStay == Spec => []LiveFilesHaveTree
<1>1. Inv => LiveFilesHaveTree
  <2>. SUFFICES ASSUME Inv, crashes = 0,
                       NEW s \in {checked_files, new_files},
                       NEW i \in 1..Len(s), s[i].cur # "deleted"
                PROVE  s[i].file \in tree
    BY DEF LiveFilesHaveTree
  <2>1. s[i].file \in AliveIn(s)
    BY DEF AliveIn
  <2>2. AliveIn(s) \subseteq Alive
    BY DEF Alive
  <2>. QED  BY <2>1, <2>2 DEF Inv, TreeInv
<1>. QED  BY <1>1, InitInv, StepInv, PTL DEF Spec

(***************************************************************************)
(* As long as no sealed file has a size that changes its sign as an int, the *)
(* statistics never claim more files than are tracked, whatever the order   *)
(* of the steps that change vectors and statistics, and although a          *)
(* validation settles its changes by indexes that may be stale. Nothing is  *)
(* asked of the sizes of the files that are not sealed.                     *)
(***************************************************************************)
THEOREM StatisticsNeverOver == Spec => []NeverOvercounts
<1>1. Init => Inv /\ Balanced
  <2>. SUFFICES ASSUME Init PROVE Balanced
    BY InitInv
  <2>1. Alive = {} /\ Busy("deleteSpec") = {} /\ Busy("sealSpec") = {}
    BY DEF Init, Alive, AliveIn, Busy, Idle
  <2>2. SpecSum(wl_spec_info) = 0
    BY StatusNames DEF Init, SpecSum
  <2>. QED  BY <2>1, <2>2, FS_EmptySet DEF Balanced
<1>2. (Inv /\ Balanced) /\ [Next]_vars => (Inv /\ Balanced)'
  BY StepInv, BalanceStep
<1>3. Inv /\ Balanced => NeverOvercounts
  <2>. SUFFICES ASSUME Inv, Balanced, Regular
                PROVE  SpecSum(wl_spec_info)
                         <= Live + InFlight({"deleteSpec"})
                              - InFlight({"sealSpec"})
    BY DEF NeverOvercounts, SpecSum, Regular
  <2>1. TypeInv /\ VecInv /\ NewItemsLive
    BY DEF Inv, TreeInv, NewItemsLive
  <2>2. Live = Cardinality(Alive)
    BY <2>1, LiveIsAlive DEF Regular
  <2>3. /\ InFlight({"deleteSpec"}) = Cardinality(Busy("deleteSpec"))
        /\ InFlight({"sealSpec"}) = Cardinality(Busy("sealSpec"))
    <3>1. /\ {c \in Clients : client[c].pc \in {"deleteSpec"}}
               = Busy("deleteSpec")
          /\ {c \in Clients : client[c].pc \in {"sealSpec"}} = Busy("sealSpec")
      BY DEF Busy
    <3>. QED  BY <3>1 DEF InFlight
  <2>. QED  BY <2>2, <2>3 DEF Balanced
<1>. QED  BY <1>1, <1>2, <1>3, PTL DEF Spec
=============================================================================
