------------------------------- MODULE Persist -------------------------------
(***************************************************************************)
(* The values the enclave keeps in the database of the application. A value *)
(* above OCALL_STORE_THRESHOLD is written as pieces key_0, key_1, ... and a *)
(* record key_sum of their number and size, a smaller one under key itself; *)
(* a reader looks for key_sum first. Every read and write a set makes may   *)
(* fail by itself, and the worker may die between two of them. Several of   *)
(* these failures are not looked at, and the set reports success. One key   *)
(* is modelled, used either with persist_set and persist_get, which seal    *)
(* the value, or with their unsafe forms.                                   *)
(*                                                                          *)
(* A definition introduced as a Variant is a mistaken form of the one that  *)
(* follows it; no specification uses it.                                    *)
(***************************************************************************)
EXTENDS Integers

CONSTANTS
    Values,                 \* the values ever set
    Size,                   \* their sizes
    OCALL_STORE_THRESHOLD,
    None                    \* an absent record

Large(v) == Size[v] > OCALL_STORE_THRESHOLD

\* The number of pieces of a large value.
PieceNum(v) ==
    (Size[v] + OCALL_STORE_THRESHOLD - 1) \div OCALL_STORE_THRESHOLD

\* The indexes of pieces.
Index == UNION {0..(PieceNum(v) - 1) : v \in Values}

Sum(v) == [num |-> PieceNum(v), size |-> Size[v]]

ASSUME PersistAssumption ==
    /\ OCALL_STORE_THRESHOLD \in Nat \ {0}
    /\ Size \in [Values -> Nat \ {0}]
    /\ None \notin Values /\ \A v \in Values : None # Sum(v)
    /\ {"error", "mix", "unknown", "deleted"} \cap Values = {}

VARIABLES
    kind,       \* "sealed" or "unsafe"
    key, sum, part,     \* the records; part[i] is the value i is a piece of
    job,        \* the set under way
    target,     \* the value of the last set
    ignored,    \* ghost: the last set met a failure it took no notice of,
                \* and that leaves other records than it means to
    was,        \* ghost: what a reader got when the last set began, and
                \* whether there were pieces
    last        \* ghost: the last value set with success, "deleted",
                \* or "unknown" during a set and after one cut short

vars == <<kind, key, sum, part, job, target, ignored, was, last>>

Idle == [pc |-> "idle", index |-> 0, num |-> 0]

(***************************************************************************)
(* Reading, as a reader does whose own reads do not fail. (If its read of   *)
(* the sum fails, it takes the record under key, whatever that is.)         *)
(***************************************************************************)

\* Variant: what the pieces say is taken for a value.
UnsealUnchecked(s) ==
    IF \E i \in 0..(s.num - 1) : part[i] = None THEN "error"
    ELSE IF \A i \in 0..(s.num - 1) : part[i] = part[0] THEN part[0]
    ELSE "mix"

\* The pieces are put together and unsealed. Sealed data is authenticated:
\* it is a value as a whole or an error. Pieces that outgrow the buffer the
\* size in sum asks for do not give a value.
Unseal(s) ==
    IF \E v \in Values :
           /\ s.num = PieceNum(v) /\ s.size >= Size[v]
           /\ \A i \in 0..(s.num - 1) : part[i] = v
    THEN part[0] ELSE "error"

PersistGet ==
    IF sum # None THEN Unseal(sum)
    ELSE IF key = None THEN "error" ELSE key

\* Nothing tells a mixture of pieces from a value; the status is that of the
\* last piece.
PersistGetUnsafe ==
    IF sum = None
    THEN IF key = None THEN "error" ELSE key
    ELSE IF part[sum.num - 1] = None THEN "error"
    ELSE IF \E v \in Values : sum = Sum(v)
                              /\ \A i \in 0..(sum.num - 1) : part[i] = v
    THEN part[0] ELSE "mix"

Get == IF kind = "sealed" THEN PersistGet ELSE PersistGetUnsafe

Init ==
    /\ kind \in {"sealed", "unsafe"}
    /\ key = None /\ sum = None
    /\ part = [i \in Index |-> None]
    /\ job = Idle
    /\ target = None /\ ignored = FALSE /\ was = [value |-> "error", pieces |-> FALSE]
    /\ last = "unknown"

(***************************************************************************)
(* persist_set and persist_set_unsafe                                       *)
(***************************************************************************)

\* A large value starts with its pieces, a small one with the old sum.
Set(v) ==
    /\ job.pc = "idle"
    /\ job' = [pc |-> IF Large(v) THEN "part" ELSE "readsum", index |-> 0,
               num |-> PieceNum(v)]
    /\ target' = v
    /\ was' = [value |-> Get, pieces |-> sum # None] /\ last' = "unknown"
    /\ ignored' = FALSE
    /\ UNCHANGED <<kind, key, sum, part>>

Finish(result) == job' = Idle /\ last' = result

\* Variant: one piece too many.
AfterPieceLate(pc, next) ==
    [job EXCEPT !.index = @ + 1,
                !.pc = IF job.index = job.num THEN next ELSE pc]

\* The step after a piece.
AfterPiece(pc, next) ==
    [job EXCEPT !.index = @ + 1,
                !.pc = IF job.index + 1 = job.num THEN next ELSE pc]

\* persist_set gives up when a piece is not written, the unsafe form goes on.
PutPart ==
    /\ job.pc = "part"
    /\ \/ /\ part' = [part EXCEPT ![job.index] = target]
          /\ job' = AfterPiece("part", "putsum")
          /\ UNCHANGED <<ignored, last>>
       \/ /\ kind = "sealed"
          /\ Finish("unknown")
          /\ UNCHANGED <<part, ignored>>
       \/ /\ kind = "unsafe"
          /\ job' = AfterPiece("part", "putsum")
          /\ ignored' = TRUE
          /\ UNCHANGED <<part, last>>
    /\ UNCHANGED <<kind, key, sum, target, was>>

PutSum ==
    /\ job.pc = "putsum"
    /\ \/ sum' = Sum(target) /\ Finish(target)
       \/ Finish("unknown") /\ UNCHANGED sum
    /\ UNCHANGED <<kind, key, part, target, ignored, was>>

\* Variant: old pieces are left to themselves.
ReadSumIgnore ==
    /\ job.pc = "readsum"
    /\ job' = [job EXCEPT !.pc = "putkey"]
    /\ UNCHANGED <<kind, key, sum, part, target, ignored, was, last>>

\* A read that fails, for whatever reason, is taken for a sum that is not there.
ReadSum ==
    /\ job.pc = "readsum"
    /\ \/ /\ sum # None
          /\ job' = [job EXCEPT !.pc = "delpart", !.num = sum.num]
          /\ UNCHANGED ignored
       \/ /\ job' = [job EXCEPT !.pc = "putkey"]
          /\ ignored' = (sum # None)
    /\ UNCHANGED <<kind, key, sum, part, target, was, last>>

\* The results of the deletions are not looked at. A piece that stays is not
\* read without its sum.
DelPart ==
    /\ job.pc = "delpart"
    /\ part' \in {part, [part EXCEPT ![job.index] = None]}
    /\ job' = AfterPiece("delpart", "delsum")
    /\ UNCHANGED <<kind, key, sum, target, ignored, was, last>>

DelSum ==
    /\ job.pc = "delsum"
    /\ \/ sum' = None /\ UNCHANGED ignored
       \/ ignored' = TRUE /\ UNCHANGED sum
    /\ job' = [job EXCEPT !.pc = "putkey"]
    /\ UNCHANGED <<kind, key, part, target, was, last>>

PutKey ==
    /\ job.pc = "putkey"
    /\ \/ key' = target /\ Finish(target)
       \/ Finish("unknown") /\ UNCHANGED key
    /\ UNCHANGED <<kind, sum, part, target, ignored, was>>

\* persist_del, used for the trees of deleted files.
Del ==
    /\ job.pc = "idle" /\ kind = "unsafe"
    /\ \/ key' = None /\ last' = "deleted"
       \/ last' = "unknown" /\ UNCHANGED key
    /\ UNCHANGED <<kind, sum, part, job, target, ignored, was>>

\* The worker dies; the database is opened again.
Restart ==
    /\ job' = Idle
    /\ last' = IF job.pc = "idle" THEN last ELSE "unknown"
    /\ UNCHANGED <<kind, key, sum, part, target, ignored, was>>

Next ==
    \/ \E v \in Values : Set(v)
    \/ PutPart \/ PutSum
    \/ ReadSum \/ DelPart \/ DelSum \/ PutKey
    \/ Del
    \/ Restart

Spec == Init /\ [][Next]_vars

(***************************************************************************)
(* Properties                                                               *)
(***************************************************************************)

Record == Values \cup {None}
Readable == Values \cup {"error", "mix"}

TypeOK ==
    /\ kind \in {"sealed", "unsafe"}
    /\ key \in Record /\ part \in [Index -> Record]
    /\ sum \in {None} \cup {Sum(v) : v \in {w \in Values : Large(w)}}
    /\ job \in [pc : {"idle", "part", "putsum", "readsum", "delpart",
                      "delsum", "putkey"}, index : Nat, num : Nat]
    /\ job.pc \in {"part", "delpart"} =>
           job.index < job.num /\ job.index \in Index
    /\ target \in Record /\ ignored \in BOOLEAN
    /\ was \in [value : Readable, pieces : BOOLEAN]
    /\ last \in Values \cup {"unknown", "deleted"}

\* Whatever crashes, failures and sizes came before, a reader gets the value
\* that was last set with success: no piece, sum or small record of an older
\* value comes between. Only three failures during that set itself can make it
\* otherwise, and none of them in a sealed set of a large value: a piece of an
\* unsafe one, and the read or the deletion of an old sum (persist_set,
\* persist_set_unsafe).
ReadsOwnWrite == last \in Values /\ ~ignored => Get = last

\* A sealed set that is cut short leaves the old value, the new one or an
\* error, unless it replaces pieces by a small record.
OldOrNew ==
    kind = "sealed" /\ target # None =>
        \/ Get \in {was.value, target, "error"}
        \/ ~Large(target) /\ was.pieces
=============================================================================
