-------------------------- MODULE ReportGateProofs --------------------------
(***************************************************************************)
(* Proofs about ReportGate, for any length of an era, interval, modulus of  *)
(* the heights, number of blocks and number of crashes.                     *)
(***************************************************************************)
EXTENDS ReportGate, TLAPS

\* The heights a report may have are the starts of eras.
EraStart(n) == \E k \in Nat : n = k * ERA_LENGTH

\* Heights of reports are starts of eras the chain has reached.
Heights ==
    /\ EraStart(sent) /\ sent <= height
    /\ EraStart(report_height) /\ report_height <= height
    /\ \A h \in stored : EraStart(h) /\ h <= height

\* The height of a planned report of the loop, and of the report it makes, is
\* that of the era the chain was in, and no report is later than it.
LoopInv ==
    /\ loop.pc # "wait" =>
           /\ EraStart(loop.number)
           /\ loop.number <= height /\ height <= loop.number + ERA_LENGTH
           /\ sent <= loop.number /\ report_height <= loop.number
    /\ reporter["loop"].pc \notin {"idle", "plan"} =>
           loop.pc = "call" /\ reporter["loop"].number = loop.number
    /\ reporter["loop"].pc # "plan"

\* An upgrade is begun only when nothing was restored since the last report,
\* and it takes a height before the newest block.
UpgradeInv ==
    /\ ending \/ reporter["upgrade"].pc # "idle" => ~restart_flag
    /\ reporter["upgrade"].number <= height
    /\ reporter["upgrade"].pc \in {"gate", "build", "upload"} =>
           /\ EraStart(reporter["upgrade"].number)
           /\ reporter["upgrade"].number < height
           /\ reporter["upgrade"].number >= report_height

\* Behind the lock there is one reporter, and what it checked stays true.
LockInv ==
    \A r \in Reporters :
        /\ reporter[r].pc \in {"plan", "gate", "build", "upload"} =>
               gen_lock = r
        /\ reporter[r].pc = "build" =>
               /\ validated_proof > 0 /\ ~restart_flag
               /\ reporter[r].number >= report_height + ERA_LENGTH
               /\ sent <= report_height
        /\ reporter[r].pc = "upload" =>
               /\ ~restart_flag
               /\ reporter[r].number >= sent + ERA_LENGTH
               /\ report_height = reporter[r].number

GInv == TypeOK /\ Heights /\ LoopInv /\ UpgradeInv /\ LockInv
           /\ (~restart_flag => sent <= report_height)

(***************************************************************************)
(* Eras and heights                                                         *)
(***************************************************************************)

LEMMA Constants ==
    /\ ERA_LENGTH \in Nat \ {0} /\ WORKREPORT_REPORT_INTERVAL \in Nat
    /\ LOWER_LIMIT \in Nat \ {0} /\ MaxHeight \in Nat /\ MaxCrashes \in Nat
    /\ Modulus \in Nat /\ Modulus > MaxHeight + ERA_LENGTH
BY GateAssumption

\* Two starts of eras that are less than an era apart are the same.
LEMMA EraStartsApart ==
    ASSUME NEW m \in Nat, NEW n \in Nat, EraStart(m), EraStart(n),
           m < n + ERA_LENGTH
    PROVE  m <= n
<1>1. PICK i \in Nat : m = i * ERA_LENGTH
  BY DEF EraStart
<1>2. PICK j \in Nat : n = j * ERA_LENGTH
  BY DEF EraStart
<1>3. \A a, b, e \in Nat : e # 0 /\ a * e < b * e + e => a * e <= b * e
  OBVIOUS
<1>. QED  BY <1>1, <1>2, <1>3, Constants

\* What is left of n by cutting off n % ERA_LENGTH.
LEMMA Cut ==
    ASSUME NEW n \in Nat
    PROVE  /\ n % ERA_LENGTH \in 0..(ERA_LENGTH - 1)
           /\ n - (n % ERA_LENGTH) \in 0..n
           /\ EraStart(n - (n % ERA_LENGTH))
<1>1. \A a \in Nat, e \in Nat \ {0} :
          /\ a % e \in 0..(e - 1) /\ a \div e \in Nat
          /\ a = e * (a \div e) + (a % e)
  OBVIOUS
<1>. DEFINE q == n \div ERA_LENGTH
            r == n % ERA_LENGTH
<1>2. q \in Nat /\ r \in 0..(ERA_LENGTH - 1) /\ n = ERA_LENGTH * q + r
  BY <1>1, Constants
<1>. HIDE DEF q, r
<1>3. n - r = q * ERA_LENGTH
  BY <1>2, Constants
<1>4. EraStart(n - r)
  BY <1>2, <1>3 DEF EraStart
<1>5. q * ERA_LENGTH \in Nat
  BY <1>2, Constants
<1>6. n - r \in 0..n
  BY <1>2, <1>3, <1>5, Constants
<1>. QED  BY <1>2, <1>4, <1>6 DEF r

\* The era of a block.
LEMMA EraOfBlock ==
    ASSUME NEW n \in Nat
    PROVE  /\ EraOf(n) \in 0..n /\ n < EraOf(n) + ERA_LENGTH
           /\ EraStart(EraOf(n))
<1>. DEFINE r == n % ERA_LENGTH
<1>1. r \in 0..(ERA_LENGTH - 1) /\ n - r \in 0..n /\ EraStart(n - r)
  BY Cut
<1>. HIDE DEF r
<1>2. n < n - r + ERA_LENGTH
  BY <1>1, Constants
<1>. QED  BY <1>1, <1>2 DEF EraOf, r

\* The height the upgrade chooses is an era behind the last report or that of
\* the last report.
LEMMA UpgradeHeightIsEra ==
    ASSUME NEW n \in Nat, report_height \in Nat, EraStart(report_height),
           n > report_height
    PROVE  /\ UpgradeHeight(n) \in report_height..(n - 1)
           /\ EraStart(UpgradeHeight(n))
<1>. DEFINE a == n - 1 - report_height
            c == a - (a % ERA_LENGTH)
<1>1. a \in Nat
  OBVIOUS
<1>2. c \in 0..a /\ EraStart(c) /\ a % ERA_LENGTH \in 0..(ERA_LENGTH - 1)
  BY <1>1, Cut
<1>3. UpgradeHeight(n) = report_height + c
  BY <1>1, <1>2, Constants DEF UpgradeHeight
<1>4. PICK i \in Nat : report_height = i * ERA_LENGTH
  BY DEF EraStart
<1>5. PICK j \in Nat : c = j * ERA_LENGTH
  BY <1>2 DEF EraStart
<1>. HIDE DEF a, c
<1>6. report_height + c = (i + j) * ERA_LENGTH /\ i + j \in Nat
  BY <1>4, <1>5, Constants
<1>7. EraStart(report_height + c)
  BY <1>6 DEF EraStart
<1>8. report_height + c \in report_height..(n - 1)
  BY <1>2 DEF a
<1>. QED  BY <1>3, <1>7, <1>8

\* A height that is not expired and not behind the last report is an era
\* ahead of it: the difference does not wrap.
LEMMA NotExpired ==
    ASSUME NEW n \in 0..MaxHeight, report_height \in 0..MaxHeight,
           n >= report_height, ~Expired(n)
    PROVE  n >= report_height + ERA_LENGTH
<1>1. \A a \in Nat, e \in Nat \ {0} : a < e => a % e = a
  OBVIOUS
<1>2. n - report_height \in Nat /\ n - report_height < Modulus
  BY Constants
<1>3. Minus(n, report_height) = n - report_height
  BY <1>1, <1>2, Constants DEF Minus
<1>. QED  BY <1>3, Constants DEF Expired

LEMMA FirstEra == EraStart(0)
BY Constants DEF EraStart

(***************************************************************************)
(* The inductive invariant, action by action                                *)
(***************************************************************************)

LoopState == [pc : {"wait", "sleep", "call"}, target : Nat,
              number : 0..MaxHeight]
ReporterState ==
    [pc : {"idle", "lock", "plan", "gate", "build", "upload"},
     number : 0..MaxHeight]

LEMMA Initially == Init => GInv
<1>. SUFFICES ASSUME Init PROVE GInv
  OBVIOUS
<1>1. height \in Nat /\ EraOf(height) \in 0..height
  BY Constants, EraOfBlock DEF Init
<1>2. \E t \in Nat : loop = LoopFrom(t)
  BY <1>1, Constants DEF Init, FirstTargets
<1>3. loop \in LoopState
  BY <1>2, Constants DEF LoopFrom, LoopState
<1>4. reporter \in [Reporters -> ReporterState]
  BY Constants DEF Init, NotReporting, ReporterState
<1>5. TypeOK
  <2>1. height \in 0..MaxHeight /\ sent \in 0..MaxHeight
        /\ report_height \in 0..MaxHeight /\ validated_proof \in 0..2
        /\ crashes \in 0..MaxCrashes
    BY Constants DEF Init
  <2>2. restart_flag \in BOOLEAN /\ report_files \in BOOLEAN
        /\ ending \in BOOLEAN
    BY DEF Init
  <2>3. stored \in {{}} \cup {{h} : h \in 0..MaxHeight}
    BY DEF Init
  <2>. QED  BY <1>3, <1>4, <2>1, <2>2, <2>3
            DEF Init, TypeOK, LoopState, ReporterState
<1>. QED  BY <1>1, <1>2, <1>5, FirstEra
          DEF Init, GInv, Heights, LoopInv, UpgradeInv, LockInv, LoopFrom,
              NotReporting, Reporters

\* A new block leaves a planned report in its era.
LEMMA BlockKeeps == ASSUME GInv, Block PROVE GInv'
<1>. USE Constants DEF GInv
<1>1. TypeOK'
  BY DEF TypeOK, Block, gate
<1>2. Heights' /\ LoopInv' /\ UpgradeInv' /\ LockInv'
  BY DEF TypeOK, Block, gate, InTime, Heights, LoopInv, UpgradeInv, LockInv,
         Reporters
<1>. QED  BY <1>1, <1>2 DEF Block, gate

LEMMA MainLoopKeeps ==
    ASSUME GInv, Validate \/ Store \/ ReportAddValidatedProof
    PROVE  GInv'
<1>. USE Constants DEF GInv
<1>1. CASE Validate
  <2>1. report_files' \in BOOLEAN /\ main' \in {"validate", "store", "proof"}
    BY <1>1 DEF Validate, TypeOK
  <2>2. TypeOK'
    BY <1>1, <2>1 DEF Validate, TypeOK
  <2>3. Heights' /\ LoopInv'
    BY <1>1 DEF Validate, Heights, LoopInv
  <2>4. UpgradeInv' /\ LockInv'
    BY <1>1 DEF Validate, UpgradeInv, LockInv
  <2>. QED  BY <1>1, <2>2, <2>3, <2>4 DEF Validate
<1>2. CASE Store
  BY <1>2 DEF Store, gate, TypeOK, Heights, LoopInv, UpgradeInv, LockInv,
              Reporters
<1>3. CASE ReportAddValidatedProof
  BY <1>3 DEF ReportAddValidatedProof, AddProof, TypeOK, Heights, LoopInv,
              UpgradeInv, LockInv, Reporters
<1>. QED  BY <1>1, <1>2, <1>3

\* The loop plans for the era the chain is in: no report can be later.
LEMMA LoopPlanKeeps == ASSUME GInv, LoopPlan PROVE GInv'
<1>. USE Constants DEF GInv
<1>1. /\ EraOf(height) \in 0..height /\ EraStart(EraOf(height))
      /\ height < EraOf(height) + ERA_LENGTH
  BY EraOfBlock DEF TypeOK
<1>2. sent <= EraOf(height) /\ report_height <= EraOf(height)
  BY <1>1, EraStartsApart DEF TypeOK, Heights
<1>3. TypeOK'
  <2>1. loop \in LoopState /\ EraOf(height) \in 0..MaxHeight
    BY <1>1 DEF TypeOK, LoopState
  <2>2. loop' = [loop EXCEPT !.pc = "sleep", !.number = EraOf(height)]
    BY DEF LoopPlan
  <2>3. loop' \in LoopState
    BY <2>1, <2>2 DEF LoopState
  <2>. QED  BY <2>3 DEF TypeOK, LoopPlan, gate, LoopState
<1>4. Heights' /\ LoopInv' /\ UpgradeInv' /\ LockInv'
  BY <1>1, <1>2 DEF TypeOK, LoopPlan, gate, Heights, LoopInv, UpgradeInv,
                    LockInv, Reporters
<1>. QED  BY <1>3, <1>4 DEF LoopPlan, gate

LEMMA LoopWakeKeeps == ASSUME GInv, LoopWake PROVE GInv'
<1>. USE Constants DEF GInv
<1>1. /\ loop.pc = "sleep" /\ loop' \in LoopState
      /\ loop'.number = loop.number
      /\ loop'.pc \in {"wait", "call"}
  <2>1. loop \in LoopState /\ loop.number + ERA_LENGTH \in Nat
    BY DEF TypeOK, LoopState
  <2>2. \/ loop' = [loop EXCEPT !.pc = "wait"]
        \/ \E l \in {"wait", "call"} :
              loop' = [loop EXCEPT !.target = loop.number + ERA_LENGTH,
                                   !.pc = l]
    BY DEF LoopWake
  <2>. QED  BY <2>1, <2>2 DEF LoopState, LoopWake
<1>2. \/ reporter' = reporter
      \/ /\ loop'.pc = "call"
         /\ reporter' = [reporter EXCEPT !["loop"] =
                            [pc |-> "lock", number |-> loop.number]]
  BY DEF TypeOK, LoopWake
<1>3. UNCHANGED <<height, sent, gate, upgrade_status, gen_lock, main, stored,
                  ending, crashes>>
  BY DEF LoopWake
<1>4. reporter' \in [Reporters -> ReporterState]
  BY <1>2 DEF TypeOK, ReporterState, Reporters
<1>5. TypeOK'
  BY <1>1, <1>3, <1>4 DEF TypeOK, gate, LoopState, ReporterState
<1>6. reporter["loop"].pc \in {"idle", "plan"}
  BY <1>1 DEF LoopInv
<1>7. reporter'["upgrade"] = reporter["upgrade"]
  BY <1>2 DEF TypeOK, Reporters
<1>8. \/ reporter'["loop"].pc = "idle"
      \/ /\ reporter'["loop"] = [pc |-> "lock", number |-> loop.number]
         /\ loop'.pc = "call"
  BY <1>2, <1>6 DEF TypeOK, Reporters, LoopInv
<1>9. Heights' /\ LoopInv' /\ UpgradeInv' /\ LockInv'
  BY <1>1, <1>3, <1>7, <1>8
     DEF TypeOK, gate, Heights, LoopInv, UpgradeInv, LockInv, Reporters
<1>. QED  BY <1>3, <1>5, <1>9 DEF gate

LEMMA LockReportKeeps ==
    ASSUME GInv, NEW r \in Reporters, LockReport(r) PROVE GInv'
<1>. USE Constants DEF GInv
<1>1. TypeOK'
  BY DEF TypeOK, LockReport, gate, Reporters
<1>2. Heights' /\ LoopInv' /\ UpgradeInv' /\ LockInv'
  BY DEF TypeOK, LockReport, gate, Heights, LoopInv, UpgradeInv, LockInv,
         Reporters
<1>. QED  BY <1>1, <1>2 DEF LockReport, gate

\* The reporter behind the lock leaves, with fields of the gate that may have
\* changed but stay what the invariant wants them to be.
LEMMA LeaveKeeps ==
    ASSUME GInv, NEW r \in Reporters, NEW s \in {"none", "process", "success"},
           reporter[r].pc \in {"plan", "gate", "build", "upload"}, Leave(r, s),
           UNCHANGED <<height, main, stored, crashes>>,
           ending' \in BOOLEAN, ending' => ending,
           sent' \in 0..height, EraStart(sent'),
           report_height' \in 0..height, EraStart(report_height'),
           validated_proof' \in 0..2, report_files' \in BOOLEAN,
           restart_flag' \in BOOLEAN, restart_flag' => restart_flag,
           ~restart_flag' => sent' <= report_height',
           loop.pc # "wait" => sent' <= loop.number /\ report_height' <= loop.number
    PROVE  GInv'
<1>. USE Constants DEF GInv
<1>1. /\ reporter \in [Reporters -> ReporterState] /\ loop \in LoopState
      /\ NotReporting \in ReporterState /\ height \in 0..MaxHeight
  BY DEF TypeOK, ReporterState, LoopState, NotReporting
<1>2. /\ reporter' \in [Reporters -> ReporterState]
      /\ reporter'[r] = NotReporting
      /\ \A q \in Reporters \ {r} : reporter'[q] = reporter[q]
  BY <1>1 DEF Leave
<1>3. /\ loop' \in LoopState /\ loop'.number = loop.number
      /\ r = "loop" => loop'.pc = "wait"
      /\ r # "loop" => loop' = loop
  BY <1>1 DEF Leave, LoopState
<1>4. sent' \in 0..MaxHeight /\ report_height' \in 0..MaxHeight
  BY <1>1
<1>5. TypeOK'
  BY <1>2, <1>3, <1>4 DEF TypeOK, Leave, ReporterState, LoopState
<1>6. Heights'
  BY <1>1 DEF Heights
<1>7. gen_lock = r
  BY DEF LockInv
<1>8. \A q \in Reporters :
          reporter'[q].pc \notin {"plan", "gate", "build", "upload"}
  BY <1>2, <1>7 DEF LockInv, NotReporting
<1>9. LockInv'
  BY <1>8 DEF LockInv
<1>10. LoopInv'
  <2>1. CASE r = "loop"
    BY <2>1, <1>2, <1>3 DEF LoopInv, NotReporting, Reporters
  <2>2. CASE r = "upgrade"
    BY <2>2, <1>2, <1>3 DEF LoopInv, NotReporting, Reporters
  <2>. QED  BY <2>1, <2>2 DEF Reporters
<1>11. UpgradeInv'
  <2>1. CASE r = "loop"
    BY <2>1, <1>2, <1>8 DEF UpgradeInv, NotReporting, Reporters
  <2>2. CASE r = "upgrade"
    BY <2>2, <1>1, <1>2 DEF UpgradeInv, NotReporting, Reporters
  <2>. QED  BY <2>1, <2>2 DEF Reporters
<1>. QED  BY <1>5, <1>6, <1>9, <1>10, <1>11

\* What a reporter behind the lock may set the last height to.
LEMMA NumberBehindLock ==
    ASSUME GInv, NEW r \in Reporters,
           reporter[r].pc \in {"gate", "build", "upload"}
    PROVE  LET n == reporter[r].number
           IN /\ n \in 0..height /\ n \in 0..MaxHeight /\ EraStart(n)
              /\ n >= report_height /\ n >= sent
              /\ loop.pc # "wait" => n <= loop.number
<1>. USE Constants DEF GInv
<1>. DEFINE n == reporter[r].number
<1>1. n \in 0..MaxHeight /\ height \in 0..MaxHeight
  BY DEF TypeOK
<1>2. CASE r = "loop"
  BY <1>1, <1>2 DEF LoopInv
<1>3. CASE r = "upgrade"
  <2>1. /\ EraStart(n) /\ n < height /\ n >= report_height /\ ~restart_flag
    BY <1>3 DEF UpgradeInv
  <2>2. sent <= n
    BY <2>1, <1>1 DEF TypeOK
  <2>3. ASSUME loop.pc # "wait" PROVE n <= loop.number
    <3>1. /\ loop.number \in Nat /\ EraStart(loop.number)
          /\ height <= loop.number + ERA_LENGTH
      BY <2>3 DEF LoopInv, TypeOK
    <3>2. n \in Nat /\ n < loop.number + ERA_LENGTH
      BY <2>1, <3>1, <1>1
    <3>. HIDE DEF n
    <3>. QED  BY <2>1, <3>1, <3>2, EraStartsApart
  <2>. QED  BY <1>1, <2>1, <2>2, <2>3
<1>. QED  BY <1>2, <1>3 DEF Reporters

\* The gate refuses what is expired, turns away what may not be reported and
\* lets through a height an era after every report of this key.
LEMMA GateKeeps ==
    ASSUME GInv, NEW r \in Reporters, Gate(r) PROVE GInv'
<1>. USE Constants
<1>. DEFINE n == reporter[r].number
<1>0. reporter[r].pc = "gate"
  BY DEF Gate
<1>1. /\ n \in 0..height /\ n \in 0..MaxHeight /\ EraStart(n)
      /\ n >= report_height /\ n >= sent
      /\ loop.pc # "wait" => n <= loop.number
  BY <1>0, NumberBehindLock
<1>. HIDE DEF n
<1>2. CASE Leave(r, upgrade_status) /\ UNCHANGED gate
  <2>1. UNCHANGED <<height, sent, main, stored, ending, crashes>>
    BY DEF Gate
  <2>2. /\ sent \in 0..height /\ report_height \in 0..height
        /\ EraStart(sent) /\ EraStart(report_height)
        /\ validated_proof \in 0..2 /\ report_files \in BOOLEAN
        /\ restart_flag \in BOOLEAN /\ ending \in BOOLEAN
        /\ upgrade_status \in {"none", "process", "success"}
        /\ ~restart_flag => sent <= report_height
        /\ loop.pc # "wait" =>
              sent <= loop.number /\ report_height <= loop.number
    BY DEF GInv, TypeOK, Heights, LoopInv
  <2>. QED  BY <1>0, <1>2, <2>1, <2>2, LeaveKeeps DEF gate
<1>3. CASE Leave(r, upgrade_status) /\ ResetGate(n)
  <2>1. UNCHANGED <<height, sent, main, stored, ending, crashes>>
    BY DEF Gate
  <2>2. /\ sent \in 0..height /\ EraStart(sent) /\ ending \in BOOLEAN
        /\ validated_proof \in 0..2
        /\ upgrade_status \in {"none", "process", "success"}
        /\ loop.pc # "wait" => sent <= loop.number
    BY DEF GInv, TypeOK, Heights, LoopInv
  <2>3. /\ report_height' = n /\ restart_flag' = FALSE /\ report_files' = TRUE
        /\ validated_proof' \in 0..2
    BY <1>3, <2>2 DEF ResetGate, ReduceProof
  <2>. QED  BY <1>0, <1>1, <1>3, <2>1, <2>2, <2>3, LeaveKeeps
<1>4. CASE /\ ~Expired(n) /\ MayReport
           /\ reporter' = [reporter EXCEPT ![r].pc = "build"]
           /\ UNCHANGED <<gate, gen_lock, loop, upgrade_status>>
  <2>. USE DEF GInv
  <2>1. UNCHANGED <<height, sent, main, stored, ending, crashes>>
    BY DEF Gate
  <2>2. n >= report_height + ERA_LENGTH
    BY <1>1, <1>4, NotExpired DEF TypeOK
  <2>3. /\ reporter' \in [Reporters -> ReporterState]
        /\ reporter'[r].pc = "build" /\ reporter'[r].number = n
        /\ \A q \in Reporters \ {r} : reporter'[q] = reporter[q]
    BY <1>4 DEF TypeOK, ReporterState, n
  <2>4. TypeOK'
    BY <1>4, <2>1, <2>3 DEF TypeOK, gate, ReporterState
  <2>5. Heights'
    BY <1>4, <2>1 DEF Heights, gate
  <2>6. /\ gen_lock = r /\ validated_proof > 0 /\ ~restart_flag
        /\ sent <= report_height
    BY <1>0, <1>4 DEF MayReport, LockInv
  <2>7. LockInv'
    BY <1>4, <2>1, <2>2, <2>3, <2>6 DEF LockInv, gate
  <2>8. LoopInv' /\ UpgradeInv'
    BY <1>0, <1>4, <2>1, <2>3 DEF LoopInv, UpgradeInv, gate, Reporters, n
  <2>. QED  BY <1>4, <2>1, <2>4, <2>5, <2>7, <2>8 DEF gate
<1>. QED  BY <1>2, <1>3, <1>4 DEF Gate, n

LEMMA BuildKeeps ==
    ASSUME GInv, NEW r \in Reporters, Build(r) PROVE GInv'
<1>. USE Constants
<1>. DEFINE n == reporter[r].number
<1>0. reporter[r].pc = "build" /\ ResetGate(n)
  BY DEF Build
<1>1. /\ n \in 0..height /\ n \in 0..MaxHeight /\ EraStart(n)
      /\ n >= report_height /\ n >= sent
      /\ loop.pc # "wait" => n <= loop.number
  BY <1>0, NumberBehindLock
<1>2. /\ gen_lock = r /\ n >= report_height + ERA_LENGTH
      /\ sent <= report_height
  BY <1>0 DEF GInv, LockInv
<1>. HIDE DEF n
<1>3. UNCHANGED <<height, sent, main, stored, ending, crashes>>
  BY DEF Build
<1>4. /\ sent \in 0..height /\ EraStart(sent) /\ ending \in BOOLEAN
      /\ validated_proof \in 0..2 /\ report_height \in Nat
      /\ upgrade_status \in {"none", "process", "success"}
      /\ loop.pc # "wait" => sent <= loop.number
  BY DEF GInv, TypeOK, Heights, LoopInv
<1>5. /\ report_height' = n /\ restart_flag' = FALSE /\ report_files' = TRUE
      /\ validated_proof' \in 0..2
  BY <1>0, <1>4 DEF ResetGate, ReduceProof
<1>6. CASE Leave(r, upgrade_status)
  BY <1>0, <1>1, <1>6, <1>3, <1>4, <1>5, LeaveKeeps
<1>7. CASE /\ reporter' = [reporter EXCEPT ![r].pc = "upload"]
           /\ UNCHANGED <<gen_lock, loop, upgrade_status>>
  <2>. USE DEF GInv
  <2>1. /\ reporter' \in [Reporters -> ReporterState]
        /\ reporter'[r].pc = "upload" /\ reporter'[r].number = n
        /\ \A q \in Reporters \ {r} : reporter'[q] = reporter[q]
    BY <1>7 DEF TypeOK, ReporterState, n
  <2>2. TypeOK'
    BY <1>1, <1>3, <1>5, <1>7, <2>1 DEF TypeOK, ReporterState
  <2>3. Heights'
    BY <1>1, <1>3, <1>5 DEF Heights
  <2>4. \A q \in Reporters \ {r} :
            reporter'[q].pc \notin {"plan", "gate", "build", "upload"}
    BY <1>2, <2>1 DEF LockInv
  <2>5. n >= sent + ERA_LENGTH
    BY <1>1, <1>2, <1>4
  <2>6. LockInv'
    BY <1>2, <1>3, <1>5, <1>7, <2>1, <2>4, <2>5 DEF LockInv
  <2>7. LoopInv'
    BY <1>0, <1>1, <1>3, <1>5, <1>7, <2>1 DEF LoopInv, Reporters, n
  <2>8. UpgradeInv'
    <3>1. CASE r = "upgrade"
      BY <3>1, <1>0, <1>1, <1>3, <1>5, <2>1 DEF UpgradeInv, Reporters, n
    <3>2. CASE r = "loop"
      BY <3>2, <1>0, <1>3, <1>5, <2>1, <2>4 DEF UpgradeInv, Reporters
    <3>. QED  BY <3>1, <3>2 DEF Reporters
  <2>. QED  BY <1>1, <1>3, <1>5, <2>2, <2>3, <2>6, <2>7, <2>8
<1>. QED  BY <1>6, <1>7 DEF Build

LEMMA UploadKeeps ==
    ASSUME GInv, NEW r \in Reporters, Upload(r) PROVE GInv'
<1>. USE Constants
<1>. DEFINE n == reporter[r].number
<1>0. reporter[r].pc = "upload"
  BY DEF Upload
<1>1. /\ n \in 0..height /\ EraStart(n)
      /\ loop.pc # "wait" => n <= loop.number
  BY <1>0, NumberBehindLock
<1>2. report_height = n /\ ~restart_flag
  BY <1>0 DEF GInv, LockInv
<1>3. UNCHANGED <<height, gate, main, stored, crashes>>
  BY DEF Upload
<1>4. /\ sent \in 0..height /\ EraStart(sent) /\ ending \in BOOLEAN
      /\ validated_proof \in 0..2 /\ report_files \in BOOLEAN
      /\ upgrade_status \in {"none", "process", "success"}
      /\ sent <= n
      /\ loop.pc # "wait" => sent <= loop.number
  BY <1>2 DEF GInv, TypeOK, Heights, LoopInv
<1>5. /\ sent' \in {sent, n}
      /\ ending' \in BOOLEAN /\ (ending' => ending)
      /\ \E s \in {"none", "process", "success"} : Leave(r, s)
  <2>1. ending' \in {ending, ending /\ r # "upgrade"}
    BY DEF Upload
  <2>2. ending' \in BOOLEAN /\ (ending' => ending)
    BY <1>4, <2>1
  <2>3. /\ sent' \in {sent, n}
        /\ \E s \in {upgrade_status, "success"} : Leave(r, s)
    BY DEF Upload
  <2>. QED  BY <1>4, <2>2, <2>3
<1>. HIDE DEF n
<1>6. /\ sent' \in 0..height /\ EraStart(sent') /\ sent' <= n
      /\ loop.pc # "wait" => sent' <= loop.number
  BY <1>1, <1>4, <1>5
<1>7. PICK s \in {"none", "process", "success"} : Leave(r, s)
  BY <1>5
<1>8. /\ report_height' = n /\ restart_flag' = FALSE
      /\ validated_proof' \in 0..2 /\ report_files' \in BOOLEAN
  <2>1. restart_flag' = restart_flag /\ restart_flag \in BOOLEAN
    BY <1>3 DEF gate, GInv, TypeOK
  <2>. QED  BY <1>2, <1>3, <1>4, <2>1 DEF gate
<1>9. UNCHANGED <<height, main, stored, crashes>>
  BY <1>3
<1>10. /\ restart_flag' \in BOOLEAN /\ (restart_flag' => restart_flag)
       /\ ending' \in BOOLEAN /\ (ending' => ending)
  BY <1>5, <1>8
<1>11. /\ report_height' \in 0..height /\ EraStart(report_height')
       /\ sent' <= report_height'
       /\ loop.pc # "wait" =>
             sent' <= loop.number /\ report_height' <= loop.number
  BY <1>1, <1>6, <1>8
<1>12. /\ sent' \in 0..height /\ EraStart(sent')
       /\ validated_proof' \in 0..2 /\ report_files' \in BOOLEAN
       /\ reporter[r].pc \in {"plan", "gate", "build", "upload"}
  BY <1>0, <1>6, <1>8
<1>. QED  BY <1>7, <1>9, <1>10, <1>11, <1>12, LeaveKeeps

LEMMA EnableKeeps == ASSUME GInv, EnableUpgrade PROVE GInv'
<1>. USE DEF GInv
<1>1. /\ UNCHANGED <<height, sent, gate, gen_lock, reporter, loop, main,
                     stored, crashes>>
      /\ upgrade_status' = "process" /\ ending' = TRUE /\ ~restart_flag
  BY DEF EnableUpgrade, TryReportWork, MayReport
<1>2. TypeOK'
  BY <1>1 DEF TypeOK, gate
<1>. QED  BY <1>1, <1>2 DEF gate, Heights, LoopInv, UpgradeInv, LockInv

LEMMA DisableKeeps == ASSUME GInv, DisableUpgrade PROVE GInv'
<1>. USE DEF GInv
<1>1. /\ UNCHANGED <<height, sent, gate, gen_lock, reporter, loop, main,
                     stored, crashes>>
      /\ upgrade_status' = "none" /\ ending' \in {ending, FALSE}
  BY DEF DisableUpgrade
<1>2. TypeOK'
  BY <1>1 DEF TypeOK, gate
<1>3. Heights' /\ LoopInv' /\ LockInv'
  BY <1>1 DEF gate, Heights, LoopInv, LockInv
<1>4. UpgradeInv'
  <2>1. CASE ending' = ending
    BY <1>1, <2>1 DEF gate, UpgradeInv
  <2>2. CASE ending' = FALSE
    BY <1>1, <2>2 DEF gate, UpgradeInv
  <2>. QED  BY <1>1, <2>1, <2>2
<1>. QED  BY <1>1, <1>2, <1>3, <1>4 DEF gate

LEMMA GenUpgradeDataKeeps == ASSUME GInv, GenUpgradeData PROVE GInv'
<1>. USE Constants DEF GInv
<1>1. UNCHANGED <<height, sent, gate, upgrade_status, gen_lock, loop, main,
                  stored, ending, crashes>>
  BY DEF GenUpgradeData
<1>2. /\ reporter' \in [Reporters -> ReporterState]
      /\ reporter'["loop"] = reporter["loop"]
      /\ reporter'["upgrade"] = [pc |-> "lock", number |-> height]
      /\ ending
  BY DEF GenUpgradeData, TypeOK, ReporterState, Reporters
<1>3. TypeOK'
  BY <1>1, <1>2 DEF TypeOK, gate, ReporterState
<1>4. height \in Nat
  BY DEF TypeOK
<1>. QED  BY <1>1, <1>2, <1>3, <1>4
          DEF gate, Heights, LoopInv, UpgradeInv, LockInv, Reporters

\* The upgrade plans a height that is not behind the last report.
LEMMA UpgradePlanKeeps == ASSUME GInv, UpgradePlan PROVE GInv'
<1>. USE Constants
<1>. DEFINE n == reporter["upgrade"].number
            m == UpgradeHeight(n)
<1>1. /\ reporter["upgrade"].pc = "plan"
      /\ UNCHANGED <<height, sent, gate, main, stored, ending, crashes>>
  BY DEF UpgradePlan
<1>2. CASE Leave("upgrade", upgrade_status)
  <2>1. /\ sent \in 0..height /\ report_height \in 0..height
        /\ EraStart(sent) /\ EraStart(report_height)
        /\ validated_proof \in 0..2 /\ report_files \in BOOLEAN
        /\ restart_flag \in BOOLEAN /\ ending \in BOOLEAN
        /\ upgrade_status \in {"none", "process", "success"}
        /\ ~restart_flag => sent <= report_height
        /\ loop.pc # "wait" =>
              sent <= loop.number /\ report_height <= loop.number
    BY DEF GInv, TypeOK, Heights, LoopInv
  <2>. QED  BY <1>1, <1>2, <2>1, LeaveKeeps DEF gate, Reporters
<1>3. CASE /\ n > report_height
           /\ reporter' = [reporter EXCEPT !["upgrade"] =
                  [pc |-> "gate", number |-> m]]
           /\ UNCHANGED <<gen_lock, loop, upgrade_status>>
  <2>. USE DEF GInv
  <2>1. /\ n \in 0..height /\ height \in 0..MaxHeight
        /\ report_height \in Nat /\ EraStart(report_height)
    BY DEF TypeOK, UpgradeInv, Heights, Reporters
  <2>2. m \in report_height..(n - 1) /\ EraStart(m)
    BY <1>3, <2>1, UpgradeHeightIsEra
  <2>. HIDE DEF m
  <2>3. m \in 0..MaxHeight /\ m < height /\ m >= report_height
    BY <2>1, <2>2
  <2>4. /\ reporter' \in [Reporters -> ReporterState]
        /\ reporter'["loop"] = reporter["loop"]
        /\ reporter'["upgrade"] = [pc |-> "gate", number |-> m]
    BY <1>3, <2>3 DEF TypeOK, ReporterState, Reporters
  <2>5. TypeOK'
    BY <1>1, <1>3, <2>4 DEF TypeOK, gate, ReporterState
  <2>6. Heights' /\ LoopInv' /\ LockInv'
    BY <1>1, <1>3, <2>4 DEF gate, Heights, LoopInv, LockInv, Reporters
  <2>7. UpgradeInv'
    BY <1>1, <1>3, <2>1, <2>2, <2>3, <2>4 DEF gate, UpgradeInv, Reporters
  <2>. QED  BY <1>1, <1>3, <2>5, <2>6, <2>7 DEF gate
<1>. QED  BY <1>2, <1>3 DEF UpgradePlan

\* A worker that starts again may be behind its reports, and says so.
LEMMA RestartKeeps == ASSUME GInv, Restart PROVE GInv'
<1>. USE Constants DEF GInv
<1>1. height \in 0..MaxHeight /\ EraOf(height) \in 0..height
  BY EraOfBlock DEF TypeOK
<1>2. PICK t \in Nat : loop' = LoopFrom(t)
  BY <1>1 DEF Restart, FirstTargets
<1>3. loop' \in LoopState /\ loop'.pc = "wait"
  BY <1>2 DEF LoopFrom, LoopState
<1>4. /\ reporter' \in [Reporters -> ReporterState]
      /\ \A r \in Reporters : reporter'[r] = NotReporting
  BY DEF Restart, NotReporting, ReporterState
<1>5. /\ report_height' \in 0..height /\ EraStart(report_height')
      /\ sent' \in 0..height /\ EraStart(sent')
      /\ restart_flag' \in BOOLEAN
      /\ ~restart_flag' => sent' <= report_height'
  <2>1. CASE stored = {}
    <3>1. report_height' = 0 /\ restart_flag' = FALSE /\ sent' = 0
      BY <2>1 DEF Restart
    <3>2. /\ report_height' \in 0..height /\ EraStart(report_height')
          /\ sent' \in 0..height /\ EraStart(sent') /\ sent' <= report_height'
      BY <3>1, <1>1, FirstEra
    <3>. QED  BY <3>1, <3>2
  <2>2. CASE stored # {}
    <3>1. \A h \in stored : h \in 0..MaxHeight
      BY DEF TypeOK
    <3>2. report_height' \in stored /\ restart_flag' = TRUE /\ sent' = sent
      BY <2>2 DEF Restart
    <3>3. /\ report_height' \in 0..height /\ EraStart(report_height')
          /\ sent' \in 0..height /\ EraStart(sent')
      BY <3>1, <3>2, <1>1 DEF TypeOK, Heights
    <3>. QED  BY <3>2, <3>3
  <2>. QED  BY <2>1, <2>2
<1>6. /\ validated_proof' = 0 /\ report_files' = TRUE
      /\ upgrade_status' = "none" /\ ending' = FALSE /\ gen_lock' = "free"
      /\ main' = "validate" /\ UNCHANGED <<height, stored>>
      /\ crashes' \in 0..MaxCrashes
  BY DEF Restart, TypeOK
<1>7. TypeOK'
  <2>1. report_height' \in 0..MaxHeight /\ sent' \in 0..MaxHeight
        /\ validated_proof' \in 0..2
    BY <1>1, <1>5, <1>6
  <2>2. report_files' \in BOOLEAN /\ ending' \in BOOLEAN
    BY <1>6
  <2>. QED  BY <1>3, <1>4, <1>5, <1>6, <2>1, <2>2
            DEF TypeOK, ReporterState, LoopState
<1>8. Heights' /\ LoopInv' /\ UpgradeInv' /\ LockInv'
  BY <1>1, <1>3, <1>4, <1>5, <1>6
     DEF Heights, LoopInv, UpgradeInv, LockInv, NotReporting, Reporters
<1>. QED  BY <1>5, <1>7, <1>8

(***************************************************************************)
(* Theorems                                                                 *)
(***************************************************************************)

LEMMA Stays == GInv /\ [Next]_vars => GInv'
<1>. SUFFICES ASSUME GInv, [Next]_vars PROVE GInv'
  OBVIOUS
<1>1. CASE UNCHANGED vars
  BY <1>1 DEF vars, GInv, TypeOK, Heights, LoopInv, UpgradeInv, LockInv
<1>2. CASE Next
  BY <1>2, BlockKeeps, MainLoopKeeps, LoopPlanKeeps, LoopWakeKeeps,
     LockReportKeeps, GateKeeps, BuildKeeps, UploadKeeps, EnableKeeps,
     DisableKeeps, GenUpgradeDataKeeps, UpgradePlanKeeps, RestartKeeps
  DEF Next
<1>. QED  BY <1>1, <1>2

\* The heights of reports, the gate, the lock and the plans of both reporters
\* fit together in every state: the inductive invariant.
THEOREM GateInvariant == Spec => []GInv
<1>. QED  BY Initially, Stays, PTL DEF Spec

\* Types are kept: no height passes that of the chain, no count of proofs
\* leaves 0..2 (gen_work_report, report_add_validated_proof).
THEOREM GateTypes == Spec => []TypeOK
<1>1. GInv => TypeOK
  BY DEF GInv
<1>. QED  BY <1>1, GateInvariant, PTL

\* No era is reported twice under a key, and none after a later one
\* (gen_and_upload_work_report, work_report_loop, id_gen_upgrade_data).
THEOREM ErasReportedOnce == Spec => []EraOnce
<1>1. GInv => EraOnce
  BY Constants DEF GInv, TypeOK, LockInv, EraOnce, Reporters
<1>. QED  BY <1>1, GateInvariant, PTL

\* The gate knows of every report the chain got, but for the first attempt
\* after a restart, which is refused (get_report_flag, set_report_height).
THEOREM GateKnowsReports == Spec => []GateKnowsChain
<1>1. GInv => GateKnowsChain
  BY DEF GInv, Heights, GateKnowsChain
<1>. QED  BY <1>1, GateInvariant, PTL

\* A report that is being made has a proof, and nobody else uses it up
\* (g_gen_work_report).
THEOREM BuildsHaveProof == Spec => []BuildHasProof
<1>1. GInv => BuildHasProof
  BY DEF GInv, LockInv, BuildHasProof
<1>. QED  BY <1>1, GateInvariant, PTL
=============================================================================
