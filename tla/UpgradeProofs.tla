---------------------------- MODULE UpgradeProofs ----------------------------
(***************************************************************************)
(* Proofs about Upgrade, for any HTTP threads, storage calls, numbers of    *)
(* tries, changes of the workload and launches of B.                        *)
(***************************************************************************)
EXTENDS Upgrade, TLAPS

Statuses == {"none", "stop", "process", "end", "complete", "exit"}
Requests == {"idle", "start", "enable", "enabled", "sleep", "meta", "read",
             "succeed", "fail"}
Asking == {"start", "meta", "complete"}
LoopPlaces ==
    {"process", "calls", "end", "report", "srd", "files", "rootSrd", "rootFiles",
     "store", "more", "success", "complete", "exit", "tryout"}
Data == [srd : Nat, files : Nat, rootSrd : Nat, rootFiles : Nat, at : Nat,
         whole : BOOLEAN]
LoopState == [pc : LoopPlaces, made : Data]
BState == [pc : {"off", "restore", "running"} \cup Asking, tries : Int,
           on : Threads \cup {"none"}, data : Data, res : BOOLEAN]

\* What the statuses, steps and data of both processes range over.
Types ==
    /\ status \in Statuses
    /\ enclave \in {"none", "process", "success"}
    /\ setter \in [Setters -> {"idle", "reread", "disable"}]
    /\ thread \in [Threads -> Requests]
    /\ files \in Nat /\ srd \in Nat
    /\ loop \in LoopState /\ data \in Data /\ b \in BState

\* Srd only grows between the moments its vector, the files and its root are
\* taken, so they are in order in all data that is made, stored or sent.
Ordered(d) == d.srd <= d.at /\ d.at <= d.rootSrd
Collecting ==
    /\ loop.pc = "files" => loop.made.srd <= srd
    /\ loop.pc = "rootSrd" => loop.made.srd <= loop.made.at /\ loop.made.at <= srd
    /\ loop.pc \in {"rootFiles", "store", "more"} => Ordered(loop.made)

\* B waits for an answer only to a request it has sent, and has a result only
\* after it has checked the data.
GoodB(c) ==
    /\ c \in BState
    /\ c.on # "none" => c.pc \in Asking
    /\ Ordered(c.data)
    /\ c.pc \in {"off", "start", "meta", "restore"} => ~c.res
    /\ c.res => c.data.srd = c.data.at

UInv ==
    Types /\ Collecting /\ Ordered(data) /\ GoodB(b) /\ IdleMeansOpen

LEMMA Constants ==
    /\ "loop" \notin Threads /\ "none" \notin Threads
    /\ StartTries \in Int /\ MetaTries \in Int /\ CompleteTries \in Int
BY UpgradeAssumption

LEMMA NothingYet ==
    /\ NoData \in Data /\ Ordered(NoData) /\ NoData.srd = NoData.at
    /\ NoB \in BState /\ NoB.pc = "off" /\ NoB.on = "none"
    /\ NoB.data = NoData /\ NoB.res = FALSE
BY DEF NoData, NoB, Data, BState, Ordered, Asking

LEMMA Initially == Init => UInv
<1>. SUFFICES ASSUME Init PROVE UInv
  OBVIOUS
<1>1. loop \in LoopState /\ loop.pc = "process"
  BY NothingYet DEF Init, LoopState, LoopPlaces
<1>2. Types
  BY <1>1, NothingYet DEF Init, Types, Statuses, Requests
<1>. QED  BY <1>1, <1>2, NothingYet
          DEF Init, UInv, Collecting, GoodB, IdleMeansOpen

(***************************************************************************)
(* B                                                                        *)
(***************************************************************************)

\* What an answer does to B.
LEMMA AnsweredKeeps ==
    ASSUME Types, Ordered(data), GoodB(b), b.pc \in Asking, NEW code
    PROVE  GoodB(Answered(code))
<1>. USE Constants, NothingYet
<1>. DEFINE Good(c) == GoodB(c) /\ c.on = "none"
<1>. USE DEF GoodB
<1>1. b \in BState /\ data \in Data /\ b.tries \in Int
  BY DEF Types, BState
<1>2. Good(NoB)
  OBVIOUS
<1>3. CASE b.pc = "start"
  <2>1. Answered(code) = Started(code)
    BY <1>3 DEF Answered
  <2>2. ~b.res /\ Ordered(b.data)
    BY <1>3
  <2>3. Good([b EXCEPT !.pc = "meta", !.tries = MetaTries, !.on = "none"])
    BY <1>1, <2>2 DEF BState, Asking
  <2>4. Good([b EXCEPT !.tries = @ - 1, !.on = "none"])
    <3>1. ASSUME NEW n \in Int
          PROVE  Good([b EXCEPT !.tries = n, !.on = "none"])
      BY <1>1, <1>3, <2>2 DEF BState, Asking
    <3>. HIDE DEF Good, GoodB
    <3>2. b.tries - 1 \in Int
      BY <1>1
    <3>3. Good([b EXCEPT !.tries = b.tries - 1, !.on = "none"])
      BY <3>1, <3>2
    <3>. QED  BY <3>3
  <2>. HIDE DEF Good, GoodB
  <2>5. Good(Started(code))
    BY <1>2, <2>3, <2>4 DEF Started
  <2>. QED  BY <2>1, <2>5 DEF Good, GoodB
<1>4. CASE b.pc = "meta"
  <2>1. Answered(code) = Fetched(code)
    BY <1>4 DEF Answered
  <2>2. ~b.res /\ Ordered(b.data) /\ Ordered(data)
    BY <1>4
  <2>3. Good([b EXCEPT !.pc = "restore", !.on = "none", !.data = data])
    BY <1>1, <2>2 DEF BState, Asking
  <2>4. Good([b EXCEPT !.pc = "complete", !.tries = CompleteTries,
                       !.on = "none"])
    BY <1>1, <2>2 DEF BState, Asking
  <2>5. Good([b EXCEPT !.tries = @ - 1, !.on = "none"])
    <3>1. ASSUME NEW n \in Int
          PROVE  Good([b EXCEPT !.tries = n, !.on = "none"])
      BY <1>1, <1>4, <2>2 DEF BState, Asking
    <3>. HIDE DEF Good, GoodB
    <3>2. b.tries - 1 \in Int
      BY <1>1
    <3>3. Good([b EXCEPT !.tries = b.tries - 1, !.on = "none"])
      BY <3>1, <3>2
    <3>. QED  BY <3>3
  <2>. HIDE DEF Good, GoodB
  <2>6. Good(Fetched(code))
    BY <2>3, <2>4, <2>5 DEF Fetched
  <2>. QED  BY <2>1, <2>6 DEF Good, GoodB
<1>5. CASE b.pc = "complete"
  <2>1. Answered(code) = Completed(code)
    BY <1>5 DEF Answered
  <2>2. Ordered(b.data) /\ (b.res => b.data.srd = b.data.at)
    OBVIOUS
  <2>3. Good([b EXCEPT !.tries = @ - 1, !.on = "none"])
    <3>1. ASSUME NEW n \in Int
          PROVE  Good([b EXCEPT !.tries = n, !.on = "none"])
      BY <1>1, <1>5, <2>2 DEF BState, Asking
    <3>. HIDE DEF Good, GoodB
    <3>2. b.tries - 1 \in Int
      BY <1>1
    <3>3. Good([b EXCEPT !.tries = b.tries - 1, !.on = "none"])
      BY <3>1, <3>2
    <3>. QED  BY <3>3
  <2>4. Good([b EXCEPT !.pc = "running", !.on = "none"])
    BY <1>1, <2>2 DEF BState, Asking
  <2>. HIDE DEF Good, GoodB
  <2>5. Good(Completed(code))
    BY <1>2, <2>3, <2>4 DEF Completed
  <2>. QED  BY <2>1, <2>5 DEF Good, GoodB
<1>. QED  BY <1>3, <1>4, <1>5 DEF Asking

\* A step that moves B alone.
LEMMA BMoves ==
    ASSUME UInv, UNCHANGED <<worker, workload>>, GoodB(b') PROVE UInv'
BY DEF UInv, Types, Collecting, GoodB, IdleMeansOpen, Moving, worker,
       workload, Ordered

LEMMA BLaunchKeeps == ASSUME UInv, BLaunch PROVE UInv'
<1>1. UNCHANGED <<worker, workload>>
  BY DEF BLaunch
<1>2. b' = [NoB EXCEPT !.pc = "start", !.tries = StartTries]
  BY DEF BLaunch
<1>3. GoodB(b')
  BY <1>2, Constants, NothingYet DEF GoodB, BState, Asking
<1>. QED  BY <1>1, <1>3, BMoves

LEMMA BLostKeeps == ASSUME UInv, BLost PROVE UInv'
<1>1. GoodB(b')
  BY AnsweredKeeps DEF UInv, BLost, Asking
<1>. QED  BY <1>1, BMoves DEF BLost

\* Data that passes the check is in order, so srd is what it was when the
\* files were written.
LEMMA BRestoreKeeps == ASSUME UInv, BRestore PROVE UInv'
<1>1. /\ b \in BState /\ b.pc = "restore" /\ ~b.res /\ b.on = "none"
      /\ Ordered(b.data) /\ b.data \in Data
  BY DEF UInv, GoodB, BRestore, Asking, BState
<1>2. CASE /\ Verified(b.data)
           /\ b' = [b EXCEPT !.pc = "complete", !.tries = CompleteTries,
                             !.res = TRUE]
  <2>1. b.data.srd = b.data.at
    BY <1>1, <1>2 DEF Verified, Ordered, Data
  <2>2. GoodB(b')
    BY <1>1, <1>2, <2>1, Constants DEF GoodB, BState, Asking
  <2>. QED  BY <2>2, BMoves DEF BRestore
<1>3. CASE b' = [b EXCEPT !.pc = "complete", !.tries = CompleteTries,
                          !.data = NoData]
  <2>1. GoodB(b')
    BY <1>1, <1>3, Constants, NothingYet DEF GoodB, BState, Asking
  <2>. QED  BY <2>1, BMoves DEF BRestore
<1>. QED  BY <1>2, <1>3 DEF BRestore

LEMMA BDiesKeeps == ASSUME UInv, BDies PROVE UInv'
<1>1. GoodB(NoB)
  BY NothingYet DEF GoodB, Asking
<1>. QED  BY <1>1, BMoves DEF BDies

(***************************************************************************)
(* The statuses                                                             *)
(***************************************************************************)

\* The locked part of set_upgrade_status.
LEMMA SetStatusEffect ==
    ASSUME Types, NEW a \in Setters, NEW s \in Statuses, SetStatus(a, s)
    PROVE  /\ status' = s
           /\ setter' \in [Setters -> {"idle", "reread", "disable"}]
           /\ status # s => setter'[a] = "reread"
           /\ \A x \in Setters \ {a} : setter'[x] = setter[x]
BY DEF Types, SetStatus

\* A status that becomes NONE has somebody who opens the enclave.
LEMMA SetStatusOpens ==
    ASSUME UInv, NEW a \in Setters, NEW s \in Statuses, setter[a] = "idle",
           SetStatus(a, s), enclave' = enclave,
           \/ s # "none"
           \/ /\ \A t \in Threads :
                    thread[t] = "enabled" => thread'[t] = "enabled"
              /\ loop.pc = "complete" => loop'.pc = "complete"
    PROVE  IdleMeansOpen'
<1>. USE DEF UInv
<1>1. /\ status' = s /\ (status # s => setter'[a] = "reread")
      /\ \A x \in Setters \ {a} : setter'[x] = setter[x]
  BY SetStatusEffect
<1>2. CASE s # "none"
  BY <1>1, <1>2 DEF IdleMeansOpen
<1>3. CASE s = "none" /\ status # "none"
  BY <1>1, <1>3 DEF IdleMeansOpen, Moving
<1>4. CASE s = "none" /\ status = "none"
  BY <1>1, <1>4 DEF IdleMeansOpen, Moving
<1>. QED  BY <1>2, <1>3, <1>4

\* A step that leaves the statuses alone and ends no move.
LEMMA StillOpen ==
    ASSUME UInv, UNCHANGED <<status, setter>>,
           enclave' = enclave \/ enclave' = "none",
           \A t \in Threads : thread[t] = "enabled" => thread'[t] = "enabled",
           loop.pc = "complete" => loop'.pc = "complete"
    PROVE  IdleMeansOpen'
BY DEF UInv, IdleMeansOpen, Moving

LEMMA RereadKeeps ==
    ASSUME UInv, NEW a \in Setters, Reread(a) PROVE UInv'
<1>. USE DEF UInv
<1>1. UNCHANGED <<status, enclave, workload, thread, loop, data, b>>
  BY DEF Reread
<1>2. /\ setter' \in [Setters -> {"idle", "reread", "disable"}]
      /\ status = "none" => setter'[a] = "disable"
  BY DEF Reread, Types
<1>3. Types'
  BY <1>1, <1>2 DEF Types, workload
<1>4. IdleMeansOpen'
  BY <1>1, <1>2 DEF IdleMeansOpen, Moving
<1>. QED  BY <1>1, <1>3, <1>4 DEF Collecting, GoodB, Ordered, workload

LEMMA DisableKeeps ==
    ASSUME UInv, NEW a \in Setters, Disable(a) PROVE UInv'
<1>. USE DEF UInv
<1>1. UNCHANGED <<status, workload, thread, loop, data, b>>
  BY DEF Disable
<1>2. /\ setter' \in [Setters -> {"idle", "reread", "disable"}]
      /\ enclave' = "none"
  BY DEF Disable, Types
<1>3. Types'
  BY <1>1, <1>2 DEF Types, workload
<1>4. IdleMeansOpen'
  BY <1>2 DEF IdleMeansOpen
<1>. QED  BY <1>1, <1>3, <1>4 DEF Collecting, GoodB, Ordered, workload

(***************************************************************************)
(* The workload, storage calls and the HTTP threads of A                    *)
(***************************************************************************)

LEMMA ChangesKeep ==
    ASSUME UInv, ChangeFiles \/ ChangeSrd PROVE UInv'
<1>. USE DEF UInv
<1>1. /\ UNCHANGED <<worker, b>>
      /\ files' \in Nat /\ srd' \in Nat /\ srd' >= srd
  BY DEF ChangeFiles, ChangeSrd, Types
<1>2. Types'
  BY <1>1 DEF Types, worker
<1>3. Collecting'
  BY <1>1 DEF Types, Collecting, LoopState, Data, worker, Ordered
<1>4. IdleMeansOpen'
  BY <1>1, StillOpen DEF worker
<1>. QED  BY <1>1, <1>2, <1>3, <1>4 DEF GoodB, Ordered, worker

LEMMA CallsKeep ==
    ASSUME UInv, NEW c \in Calls, CallPasses(c) \/ CallCounts(c) \/ CallRuns(c)
    PROVE  UInv'
<1>. USE DEF UInv
<1>1. UNCHANGED <<status, enclave, setter, workload, thread, loop, data, b>>
  BY DEF CallPasses, CallCounts, CallRuns
<1>2. IdleMeansOpen'
  BY <1>1, StillOpen
<1>. QED  BY <1>1, <1>2 DEF Types, Collecting, GoodB, Ordered, workload

\* A step of an HTTP thread.
LEMMA ThreadMoves ==
    ASSUME UInv, UNCHANGED <<workload, loop, data>>, GoodB(b'),
           status' \in Statuses, enclave' \in {"none", "process", "success"},
           setter' \in [Setters -> {"idle", "reread", "disable"}],
           thread' \in [Threads -> Requests], IdleMeansOpen'
    PROVE  UInv'
BY DEF UInv, Types, Collecting, GoodB, Ordered, workload

\* Thread t answers: B moves if it waits for it.
LEMMA AnswerEffect ==
    ASSUME UInv, NEW t \in Threads, NEW code, Answer(t, code)
    PROVE  /\ GoodB(b') /\ thread' \in [Threads -> Requests]
           /\ \A u \in Threads \ {t} : thread'[u] = thread[u]
<1>1. CASE b.on = t
  <2>1. b.pc \in Asking
    BY <1>1, Constants DEF UInv, GoodB
  <2>2. GoodB(b')
    BY <1>1, <2>1, AnsweredKeeps DEF UInv, Answer
  <2>. QED  BY <2>2 DEF UInv, Types, Answer, Requests
<1>2. CASE b.on # t
  BY <1>2 DEF UInv, Types, Answer, Requests
<1>. QED  BY <1>1, <1>2

LEMMA BSendKeeps == ASSUME UInv, BSend PROVE UInv'
<1>. DEFINE t == CHOOSE t \in Free : TRUE
<1>1. t \in Threads /\ thread[t] = "idle"
  BY DEF BSend, Free
<1>2. /\ UNCHANGED <<status, enclave, setter, workload, loop, data>>
      /\ b.pc \in Asking
      /\ thread' = [thread EXCEPT ![t] = Request]
      /\ b' = [b EXCEPT !.on = t]
  BY DEF BSend, Asking
<1>. HIDE DEF t
<1>3. Request \in Requests
  BY <1>2 DEF Request, Requests, Asking
<1>4. thread' \in [Threads -> Requests]
  BY <1>1, <1>2, <1>3 DEF UInv, Types
<1>5. GoodB(b')
  BY <1>1, <1>2 DEF UInv, GoodB, BState
<1>6. \A u \in Threads : thread[u] = "enabled" => thread'[u] = "enabled"
  BY <1>1, <1>2 DEF UInv, Types
<1>7. IdleMeansOpen'
  BY <1>2, <1>6, StillOpen
<1>. QED  BY <1>2, <1>4, <1>5, <1>7, ThreadMoves DEF UInv, Types

\* A thread that answers and changes nothing else.
LEMMA AnswerKeeps ==
    ASSUME UInv, NEW t \in Threads, NEW code, Answer(t, code),
           thread[t] # "enabled",
           UNCHANGED <<status, enclave, setter, workload, loop, data>>
    PROVE  UInv'
<1>1. /\ GoodB(b') /\ thread' \in [Threads -> Requests]
      /\ \A u \in Threads \ {t} : thread'[u] = thread[u]
  BY AnswerEffect
<1>2. IdleMeansOpen'
  BY <1>1, StillOpen
<1>. QED  BY <1>1, <1>2, ThreadMoves DEF UInv, Types

\* A thread that goes on to its next step and changes nothing else.
LEMMA StepKeeps ==
    ASSUME UInv, NEW t \in Threads, NEW r \in Requests,
           thread' = [thread EXCEPT ![t] = r], thread[t] # "enabled",
           UNCHANGED <<status, enclave, setter, workload, loop, data, b>>
    PROVE  UInv'
<1>1. /\ thread' \in [Threads -> Requests]
      /\ \A u \in Threads \ {t} : thread'[u] = thread[u]
  BY DEF UInv, Types
<1>2. IdleMeansOpen'
  BY <1>1, StillOpen
<1>. QED  BY <1>1, <1>2, ThreadMoves DEF UInv, Types

\* A thread that sets the status.
LEMMA SetStatusKeeps ==
    ASSUME UInv, NEW t \in Threads, NEW r \in Requests, NEW s \in Statuses,
           setter[t] = "idle", SetStatus(t, s), thread' = [thread EXCEPT ![t] = r],
           thread[t] # "enabled" \/ s # "none",
           UNCHANGED <<enclave, workload, loop, data, b>>
    PROVE  UInv'
<1>1. /\ thread' \in [Threads -> Requests]
      /\ \A u \in Threads \ {t} : thread'[u] = thread[u]
  BY DEF UInv, Types
<1>2. t \in Setters
  BY DEF Setters
<1>3. IdleMeansOpen'
  BY <1>1, <1>2, SetStatusOpens
<1>. QED  BY <1>1, <1>2, <1>3, SetStatusEffect, ThreadMoves DEF UInv, Types

LEMMA HandlersKeep ==
    ASSUME UInv, NEW t \in Threads,
           \/ Refuse(t) \/ StartStop(t) \/ StartEnable(t) \/ StartProcess(t)
           \/ StartAnswer(t) \/ Metadata(t) \/ MetadataAnswer(t) \/ Complete(t)
    PROVE  UInv'
<1>1. CASE Refuse(t)
  BY <1>1, AnswerKeeps DEF Refuse, Handles
<1>2. CASE StartStop(t)
  <2>1. CASE Answer(t, 300) /\ UNCHANGED <<status, setter>>
    BY <1>2, <2>1, AnswerKeeps DEF StartStop, Handles
  <2>2. CASE /\ SetStatus(t, "stop") /\ UNCHANGED b
             /\ thread' = [thread EXCEPT ![t] = "enable"]
    BY <1>2, <2>2, SetStatusKeeps DEF StartStop, Handles, Statuses, Requests
  <2>. QED  BY <1>2, <2>1, <2>2 DEF StartStop
<1>3. CASE StartEnable(t)
  <2>1. CASE Answer(t, 402) /\ UNCHANGED enclave
    BY <1>3, <2>1, AnswerKeeps DEF StartEnable, Handles
  <2>2. CASE /\ enclave' = "process" /\ UNCHANGED b
             /\ thread' = [thread EXCEPT ![t] = "enabled"]
    <3>1. /\ thread' \in [Threads -> Requests] /\ thread'[t] = "enabled"
      BY <2>2 DEF UInv, Types, Requests
    <3>2. IdleMeansOpen'
      BY <3>1 DEF IdleMeansOpen, Moving
    <3>. QED  BY <1>3, <2>2, <3>1, <3>2, ThreadMoves
              DEF UInv, Types, StartEnable
  <2>. QED  BY <1>3, <2>1, <2>2 DEF StartEnable
<1>4. CASE StartProcess(t)
  BY <1>4, SetStatusKeeps DEF StartProcess, Handles, Statuses, Requests
<1>5. CASE StartAnswer(t)
  BY <1>5, AnswerKeeps DEF StartAnswer, Handles
<1>6. CASE Metadata(t)
  <2>1. CASE Answer(t, 300)
    BY <1>6, <2>1, AnswerKeeps DEF Metadata, Handles
  <2>2. CASE thread' = [thread EXCEPT ![t] = "read"] /\ UNCHANGED b
    BY <1>6, <2>2, StepKeeps DEF Metadata, Handles, Requests
  <2>. QED  BY <1>6, <2>1, <2>2 DEF Metadata
<1>7. CASE MetadataAnswer(t)
  BY <1>7, AnswerKeeps DEF MetadataAnswer, Handles
<1>8. CASE Complete(t)
  BY <1>8, SetStatusKeeps DEF Complete, Handles, Statuses, Requests
<1>. QED  BY <1>1, <1>2, <1>3, <1>4, <1>5, <1>6, <1>7, <1>8

(***************************************************************************)
(* The check loop of A                                                      *)
(***************************************************************************)

\* A step of the loop that makes no data.
LEMMA LoopMoves ==
    ASSUME UInv, NEW l \in LoopPlaces \ {"files", "rootSrd", "rootFiles",
                                        "store", "more"},
           LoopTo(l), UNCHANGED <<workload, thread, data, b>>,
           status' \in Statuses, enclave' \in {"none", "process", "success"},
           setter' \in [Setters -> {"idle", "reread", "disable"}],
           IdleMeansOpen'
    PROVE  UInv'
<1>1. loop' \in LoopState /\ loop'.pc = l
  BY DEF UInv, Types, LoopTo, LoopState
<1>. QED  BY <1>1 DEF UInv, Types, Collecting, GoodB, Ordered, workload

LEMMA StatusLoopKeeps ==
    ASSUME UInv, \/ LoopProcess \/ LoopCalls \/ LoopEnd \/ LoopSuccess
                 \/ LoopComplete \/ LoopExit \/ LoopTryout
    PROVE  UInv'
<1>. USE DEF LoopAt, LoopPlaces, Statuses
<1>0. /\ "loop" \in Setters
      /\ status \in Statuses /\ enclave \in {"none", "process", "success"}
      /\ setter \in [Setters -> {"idle", "reread", "disable"}]
      /\ loop \in LoopState
  BY DEF Setters, UInv, Types
<1>1. CASE LoopProcess
  <2>1. /\ UNCHANGED <<status, enclave, setter, workload, thread, data, b>>
        /\ loop.pc = "process"
        /\ \E l \in {"calls", "end"} : LoopTo(l)
    BY <1>1 DEF LoopProcess
  <2>2. IdleMeansOpen'
    BY <2>1, StillOpen
  <2>. QED  BY <1>0, <2>1, <2>2, LoopMoves
<1>2. CASE LoopCalls
  <2>1. /\ UNCHANGED <<enclave, workload, thread, data, b>>
        /\ loop.pc = "calls" /\ setter["loop"] = "idle" /\ LoopTo("end")
    BY <1>2 DEF LoopCalls
  <2>2. CASE SetStatus("loop", "end")
    BY <1>0, <2>1, <2>2, SetStatusOpens, SetStatusEffect, LoopMoves DEF UInv
  <2>3. CASE UNCHANGED <<status, setter>>
    <3>1. IdleMeansOpen'
      BY <2>1, <2>3, StillOpen
    <3>. QED  BY <1>0, <2>1, <2>3, <3>1, LoopMoves
  <2>. QED  BY <1>2, <2>2, <2>3 DEF LoopCalls
<1>3. CASE LoopEnd
  <2>1. /\ UNCHANGED <<status, enclave, setter, workload, thread, data, b>>
        /\ loop.pc = "end"
        /\ \E l \in {"report", "exit"} : LoopTo(l)
    BY <1>3 DEF LoopEnd
  <2>2. IdleMeansOpen'
    BY <2>1, StillOpen
  <2>. QED  BY <1>0, <2>1, <2>2, LoopMoves
<1>4. CASE LoopSuccess
  <2>1. /\ UNCHANGED <<status, setter, workload, thread, data, b>>
        /\ enclave' = "success" /\ LoopTo("complete")
    BY <1>4 DEF LoopSuccess
  <2>2. loop'.pc = "complete"
    BY <1>0, <2>1 DEF LoopTo, LoopState
  <2>3. IdleMeansOpen'
    BY <2>2 DEF IdleMeansOpen, Moving
  <2>. QED  BY <1>0, <2>1, <2>3, LoopMoves
<1>5. CASE LoopComplete
  <2>1. /\ UNCHANGED <<enclave, workload, thread, data, b>>
        /\ setter["loop"] = "idle" /\ LoopTo("exit")
        /\ SetStatus("loop", "complete")
    BY <1>5 DEF LoopComplete
  <2>. QED  BY <1>0, <2>1, SetStatusOpens, SetStatusEffect, LoopMoves DEF UInv
<1>6. CASE LoopExit
  <2>1. /\ UNCHANGED <<status, enclave, setter, workload, thread, data, b>>
        /\ loop.pc = "exit"
    BY <1>6 DEF LoopExit
  <2>2. CASE LoopTo("tryout")
    <3>1. IdleMeansOpen'
      BY <2>1, StillOpen
    <3>. QED  BY <1>0, <2>1, <2>2, <3>1, LoopMoves
  <2>3. CASE UNCHANGED loop
    <3>1. IdleMeansOpen'
      BY <2>1, <2>3, StillOpen
    <3>. QED  BY <2>1, <2>3, <3>1
              DEF UInv, Types, Collecting, GoodB, Ordered, workload
  <2>. QED  BY <1>6, <2>2, <2>3 DEF LoopExit
<1>7. CASE LoopTryout
  <2>1. /\ UNCHANGED <<enclave, workload, thread, data, b>>
        /\ loop.pc = "tryout" /\ setter["loop"] = "idle" /\ LoopTo("process")
        /\ UNCHANGED <<status, setter>> \/ SetStatus("loop", "none")
    BY <1>7 DEF LoopTryout
  <2>2. CASE SetStatus("loop", "none")
    BY <1>0, <2>1, <2>2, SetStatusOpens, SetStatusEffect, LoopMoves DEF UInv
  <2>3. CASE UNCHANGED <<status, setter>>
    <3>1. IdleMeansOpen'
      BY <2>1, <2>3, StillOpen
    <3>. QED  BY <1>0, <2>1, <2>3, <3>1, LoopMoves
  <2>. QED  BY <2>1, <2>2, <2>3
<1>. QED  BY <1>1, <1>2, <1>3, <1>4, <1>5, <1>6, <1>7

\* The loop collects the data, in order.
LEMMA CollectKeeps == ASSUME UInv, Collect PROVE UInv'
<1>. USE DEF UInv
<1>1. /\ UNCHANGED <<status, enclave, setter, thread, data, b>>
      /\ loop \in LoopState /\ srd \in Nat /\ files \in Nat
  BY DEF Collect, Types
<1>2. CASE SerializeSrd
  <2>1. /\ loop.pc = "srd" /\ UNCHANGED workload
        /\ loop' = [pc |-> "files", made |-> [NoData EXCEPT !.srd = srd]]
    BY <1>2 DEF SerializeSrd, LoopAt
  <2>2. loop' \in LoopState /\ loop'.pc = "files" /\ loop'.made.srd = srd
    BY <1>1, <2>1, NothingYet DEF LoopState, LoopPlaces, Data
  <2>3. Types' /\ Collecting'
    BY <1>1, <2>1, <2>2 DEF Types, Collecting, workload
  <2>4. IdleMeansOpen'
    BY <1>1, <2>1, StillOpen
  <2>. QED  BY <1>1, <2>3, <2>4 DEF GoodB, Ordered
<1>3. CASE SerializeFile
  <2>1. CASE /\ loop.pc = "files" /\ UNCHANGED workload
             /\ loop' = [loop EXCEPT !.pc = "rootSrd", !.made.files = files,
                                     !.made.at = srd]
    <3>2. /\ loop' \in LoopState /\ loop'.pc = "rootSrd"
          /\ loop'.made.srd = loop.made.srd /\ loop'.made.at = srd
      BY <1>1, <2>1 DEF LoopState, LoopPlaces, Data
    <3>3. Types' /\ Collecting'
      BY <1>1, <2>1, <3>2 DEF Types, Collecting, workload
    <3>4. IdleMeansOpen'
      BY <1>1, <2>1, StillOpen
    <3>. QED  BY <1>1, <3>3, <3>4 DEF GoodB, Ordered
  <2>2. CASE /\ loop.pc = "files" /\ files' = 0 /\ srd' = 0
             /\ loop' = [pc |-> "exit", made |-> NoData]
    <3>2. loop' \in LoopState /\ loop'.pc = "exit"
      BY <2>2, NothingYet DEF LoopState, LoopPlaces
    <3>3. Types' /\ Collecting'
      BY <1>1, <2>2, <3>2 DEF Types, Collecting
    <3>4. IdleMeansOpen'
      BY <1>1, <2>2, StillOpen
    <3>. QED  BY <1>1, <3>3, <3>4 DEF GoodB, Ordered
  <2>. QED  BY <1>3, <2>1, <2>2 DEF SerializeFile, LoopAt
<1>4. CASE GenWorkloadInfo
  <2>1. CASE /\ loop.pc = "rootSrd" /\ UNCHANGED workload
             /\ loop' = [loop EXCEPT !.pc = "rootFiles", !.made.rootSrd = srd]
    <3>2. /\ loop' \in LoopState /\ loop'.pc = "rootFiles"
          /\ loop'.made.srd = loop.made.srd /\ loop'.made.at = loop.made.at
          /\ loop'.made.rootSrd = srd
      BY <1>1, <2>1 DEF LoopState, LoopPlaces, Data
    <3>3. Types' /\ Collecting'
      BY <1>1, <2>1, <3>2 DEF Types, Collecting, workload, Ordered
    <3>4. IdleMeansOpen'
      BY <1>1, <2>1, StillOpen
    <3>. QED  BY <1>1, <3>3, <3>4 DEF GoodB, Ordered
  <2>2. CASE /\ loop.pc = "rootFiles" /\ files' = 0 /\ srd' = 0
             /\ loop' = [loop EXCEPT !.pc = "store", !.made.rootFiles = files]
    <3>2. /\ loop' \in LoopState /\ loop'.pc = "store"
          /\ loop'.made.srd = loop.made.srd /\ loop'.made.at = loop.made.at
          /\ loop'.made.rootSrd = loop.made.rootSrd
      BY <1>1, <2>2 DEF LoopState, LoopPlaces, Data
    <3>3. Types' /\ Collecting'
      BY <1>1, <2>2, <3>2 DEF Types, Collecting, Ordered
    <3>4. IdleMeansOpen'
      BY <1>1, <2>2, StillOpen
    <3>. QED  BY <1>1, <3>3, <3>4 DEF GoodB, Ordered
  <2>. QED  BY <1>4, <2>1, <2>2 DEF GenWorkloadInfo, LoopAt
<1>5. CASE GenReport
  <2>1. /\ loop.pc = "report" /\ UNCHANGED <<files, srd>>
        /\ \E l \in {"srd", "exit"} : loop' = [loop EXCEPT !.pc = l]
    BY <1>5 DEF GenReport, LoopAt, LoopTo
  <2>2. loop' \in LoopState /\ loop'.pc \in {"srd", "exit"}
    BY <1>1, <2>1 DEF LoopState, LoopPlaces
  <2>3. Types' /\ Collecting'
    BY <1>1, <2>1, <2>2 DEF Types, Collecting
  <2>4. IdleMeansOpen'
    BY <1>1, <2>1, StillOpen
  <2>. QED  BY <1>1, <2>3, <2>4 DEF GoodB, Ordered
<1>. QED  BY <1>2, <1>3, <1>4, <1>5 DEF Collect

\* Only data in order is stored.
LEMMA StoreDataKeeps == ASSUME UInv, StoreData PROVE UInv'
<1>. USE DEF UInv
<1>1. /\ UNCHANGED <<status, enclave, setter, workload, thread, b>>
      /\ loop \in LoopState /\ loop.made \in Data
      /\ loop.pc \in {"store", "more"} /\ Ordered(loop.made)
  BY DEF StoreData, Types, LoopState, LoopAt, Collecting
<1>2. CASE loop' = [loop EXCEPT !.pc = "more"] /\ data' = loop.made
  <2>1. loop' \in LoopState /\ loop'.pc = "more" /\ loop'.made = loop.made
    BY <1>1, <1>2 DEF LoopState, LoopPlaces
  <2>2. Types' /\ Collecting' /\ Ordered(data)'
    BY <1>1, <1>2, <2>1 DEF Types, Collecting, Ordered, workload
  <2>3. IdleMeansOpen'
    BY <1>1, StillOpen
  <2>. QED  BY <1>1, <2>2, <2>3 DEF GoodB, Ordered
<1>3. CASE /\ loop' = [pc |-> "exit", made |-> NoData] /\ data' = data
  <2>1. loop' \in LoopState /\ loop'.pc = "exit"
    BY <1>3, NothingYet DEF LoopState, LoopPlaces
  <2>2. Types' /\ Collecting' /\ Ordered(data)'
    BY <1>1, <1>3, <2>1 DEF Types, Collecting, Ordered, workload
  <2>3. IdleMeansOpen'
    BY <1>1, StillOpen
  <2>. QED  BY <1>1, <2>2, <2>3 DEF GoodB, Ordered
<1>4. CASE /\ loop' = [pc |-> "success", made |-> NoData]
           /\ data' = [loop.made EXCEPT !.whole = TRUE]
  <2>1. loop' \in LoopState /\ loop'.pc = "success"
    BY <1>4, NothingYet DEF LoopState, LoopPlaces
  <2>2. data' \in Data /\ Ordered(data')
    BY <1>1, <1>4 DEF Data, Ordered
  <2>3. Types' /\ Collecting' /\ Ordered(data)'
    BY <1>1, <2>1, <2>2 DEF Types, Collecting, Ordered, workload
  <2>4. IdleMeansOpen'
    BY <1>1, StillOpen
  <2>. QED  BY <1>1, <2>3, <2>4 DEF GoodB, Ordered
<1>. QED  BY <1>2, <1>3, <1>4 DEF StoreData, LoopTo

\* A step that touches nothing of the invariant: a work thread that ends,
\* another thread at a lock, or no step at all.
LEMMA Untouched ==
    ASSUME UInv, UNCHANGED <<status, enclave, setter, files, srd, thread, loop,
                             data, b>>
    PROVE  UInv'
BY DEF UInv, Types, Collecting, GoodB, Ordered, IdleMeansOpen, Moving

LEMMA Inductive == ASSUME UInv, [Next]_vars PROVE UInv'
<1>1. CASE UNCHANGED vars
  BY <1>1, Untouched DEF vars
<1>2. CASE ChangeSrd \/ ChangeFiles
  BY <1>2, ChangesKeep
<1>3. CASE \E c \in Calls : CallPasses(c) \/ CallCounts(c) \/ CallRuns(c)
  BY <1>3, CallsKeep
<1>4. CASE \E a \in Setters : Reread(a) \/ Disable(a)
  BY <1>4, RereadKeeps, DisableKeeps
<1>5. CASE BLaunch \/ BSend \/ BLost \/ BRestore \/ BDies
  BY <1>5, BLaunchKeeps, BSendKeeps, BLostKeeps, BRestoreKeeps, BDiesKeeps
<1>6. ASSUME NEW t \in Threads,
             \/ Refuse(t)
             \/ StartStop(t) \/ StartEnable(t) \/ StartProcess(t)
             \/ StartAnswer(t)
             \/ Metadata(t) \/ MetadataAnswer(t) \/ Complete(t)
      PROVE  UInv'
  BY <1>6, HandlersKeep
<1>7. CASE TaskEnds
  BY <1>7, Untouched DEF TaskEnds, workload
<1>8. CASE CheckLoop
  BY <1>8, StatusLoopKeeps, CollectKeeps, StoreDataKeeps DEF CheckLoop
<1>9. CASE OtherLocks \/ OtherUnlocks \/ OtherLeaks
  BY <1>9, Untouched DEF OtherLocks, OtherUnlocks, OtherLeaks, worker
<1>. QED  BY <1>1, <1>2, <1>3, <1>4, <1>5, <1>6, <1>7, <1>8, <1>9 DEF Next

(***************************************************************************)
(* The theorems                                                             *)
(***************************************************************************)

\* The inductive invariant: the moments at which srd, the files and the root
\* are taken stay in order in the loop, in A's store and in B, and a status
\* NONE over a closed enclave has a thread that will open it.
THEOREM UpgradeInvariant == Spec => []UInv
<1>1. Init => UInv
  BY Initially
<1>2. UInv /\ [Next]_vars => UInv'
  BY Inductive
<1>. QED  BY <1>1, <1>2, PTL DEF Spec

\* id_restore_from_upgrade never accepts srd of one moment with files of
\* another, however many changes, lost answers, launches and failed
\* collections there are.
THEOREM TakesOneMoment == Spec => []TakesOneWorkload
<1>1. UInv => TakesOneWorkload
  BY DEF UInv, GoodB, TakesOneWorkload
<1>. QED  BY <1>1, UpgradeInvariant, PTL

\* No interleaving of set_upgrade_status by the HTTP threads and the check
\* loop leaves the enclave closed behind a status NONE.
THEOREM IdleWorkerIsOpen == Spec => []IdleMeansOpen
<1>1. UInv => IdleMeansOpen
  BY DEF UInv
<1>. QED  BY <1>1, UpgradeInvariant, PTL
=============================================================================
