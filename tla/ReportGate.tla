----------------------------- MODULE ReportGate -----------------------------
(***************************************************************************)
(* When a work report may be made: the report loop of the application asks  *)
(* once per era, an upgrade asks for a last report, and the enclave refuses *)
(* by height, after a restart, without a completed validation and without   *)
(* checked files. The main loop and the two reporters share four fields of  *)
(* the workload. Heights are unsigned: differences are taken modulo 2^64.   *)
(*                                                                          *)
(* A definition introduced as a Variant is a mistaken form of the one that  *)
(* follows it; no specification uses it.                                    *)
(***************************************************************************)
EXTENDS Integers

CONSTANTS
    ERA_LENGTH,                 \* also REPORT_BLOCK_HEIGHT_BASE
    WORKREPORT_REPORT_INTERVAL,
    LOWER_LIMIT,                \* REPORT_INTERVAL_BLCOK_NUMBER_LOWER_LIMIT
    Modulus,                    \* 2^64 in the code
    MaxHeight,                  \* bound: blocks of the chain
    MaxCrashes                  \* bound: crashes of the worker

ASSUME GateAssumption ==
    /\ ERA_LENGTH \in Nat \ {0}
    /\ WORKREPORT_REPORT_INTERVAL \in Nat
    /\ LOWER_LIMIT \in Nat \ {0}
    /\ MaxHeight \in Nat
    /\ MaxCrashes \in Nat
    /\ Modulus \in Nat /\ Modulus > MaxHeight + ERA_LENGTH

VARIABLES
    height,         \* number of the newest block
    sent,           \* height of the last report uploaded under this key
    report_height, validated_proof, restart_flag, report_files,
    upgrade_status, \* of the enclave
    ending,         \* the application's status is END: it asks for the data
    gen_lock,       \* g_gen_work_report: "free" or the reporter holding it
    reporter,       \* per reporter: progress of gen_and_upload_work_report
    loop,           \* work_report_loop
    main,           \* main loop
    stored,         \* report height in the sealed metadata, {} before it
    crashes

vars == <<height, sent, report_height, validated_proof, restart_flag,
          report_files, upgrade_status, ending, gen_lock, reporter, loop,
          main, stored, crashes>>

gate == <<report_height, validated_proof, restart_flag, report_files>>

Reporters == {"loop", "upgrade"}
NotReporting == [pc |-> "idle", number |-> 0]

\* a - b of size_t
Minus(a, b) == (a - b) % Modulus

\* The start of the era of block n.
EraOf(n) == n - (n % ERA_LENGTH)

\* The first target of the loop: the next era, or the first one when the
\* chain does not answer.
FirstTargets == {EraOf(height) + ERA_LENGTH, ERA_LENGTH}

LoopFrom(target) == [pc |-> "wait", target |-> target, number |-> 0]

Init ==
    /\ height \in 0..MaxHeight /\ sent = 0
    /\ report_height = 0 /\ validated_proof = 0
    /\ restart_flag = FALSE /\ report_files = TRUE
    /\ upgrade_status = "none" /\ ending = FALSE
    /\ gen_lock = "free"
    /\ reporter = [r \in Reporters |-> NotReporting]
    /\ \E t \in FirstTargets : loop = LoopFrom(t)
    /\ main = "validate"
    /\ stored = {}
    /\ crashes = 0

\* The loop sleeps fewer blocks than an era has and an upgrade holds the
\* lock for some 50: a planned report is over when the next era begins.
InTime == loop.pc # "wait" => height < loop.number + ERA_LENGTH

Block ==
    /\ height < MaxHeight /\ InTime
    /\ height' = height + 1
    /\ UNCHANGED <<sent, gate, upgrade_status, gen_lock, reporter, loop, main,
                   stored, ending, crashes>>

(***************************************************************************)
(* Main loop: it validates, stores the metadata and adds a proof            *)
(***************************************************************************)

\* validate_meaningful_file: the flag falls when there are files and they
\* cannot be fetched. Nothing is validated once the upgrade succeeded.
Validate ==
    /\ main = "validate" /\ main' = "store"
    /\ report_files' \in IF upgrade_status = "success" THEN {report_files}
                         ELSE {report_files, FALSE}
    /\ UNCHANGED <<height, sent, report_height, validated_proof, restart_flag,
                   upgrade_status, gen_lock, reporter, loop, stored, ending,
                   crashes>>

\* id_store_metadata
Store ==
    /\ main = "store" /\ main' = "proof"
    /\ stored' \in IF upgrade_status = "success" THEN {stored}
                   ELSE {stored, {report_height}}
    /\ UNCHANGED <<height, sent, gate, upgrade_status, gen_lock, reporter,
                   loop, ending, crashes>>

\* Variant: proofs pile up.
AddProofUncapped(n) == n + 1

AddProof(n) == IF n >= 2 THEN 2 ELSE n + 1
ReduceProof(n) == IF n <= 0 THEN 0 ELSE n - 1

ReportAddValidatedProof ==
    /\ main = "proof" /\ main' = "validate"
    /\ validated_proof' = AddProof(validated_proof)
    /\ UNCHANGED <<height, sent, report_height, restart_flag, report_files,
                   upgrade_status, gen_lock, reporter, loop, stored, ending,
                   crashes>>

(***************************************************************************)
(* work_report_loop                                                         *)
(***************************************************************************)

\* A new era: a report for its first block is planned.
LoopPlan ==
    /\ loop.pc = "wait" /\ height >= loop.target
    /\ loop' = [loop EXCEPT !.pc = "sleep", !.number = EraOf(height)]
    /\ UNCHANGED <<height, sent, gate, upgrade_status, gen_lock, reporter,
                   main, stored, ending, crashes>>

\* The random wait has passed. The block hash cannot be fetched, or the
\* enclave is asked; it turns the request away during an upgrade.
LoopWake ==
    /\ loop.pc = "sleep" /\ height >= loop.number + LOWER_LIMIT - 1
    /\ \/ /\ loop' = [loop EXCEPT !.pc = "wait"]
          /\ UNCHANGED reporter
       \/ /\ loop' = [loop EXCEPT !.target = loop.number + ERA_LENGTH,
                 !.pc = IF upgrade_status = "process" THEN "wait" ELSE "call"]
          /\ reporter' = IF upgrade_status = "process" THEN reporter
                 ELSE [reporter EXCEPT !["loop"] =
                          [pc |-> "lock", number |-> loop.number]]
    /\ UNCHANGED <<height, sent, gate, upgrade_status, gen_lock, main, stored,
                   ending, crashes>>

(***************************************************************************)
(* gen_and_upload_work_report                                               *)
(***************************************************************************)

\* Variant: the upgrade does not wait for a report under way.
LockReportShared(r) ==
    /\ reporter[r].pc = "lock" /\ (gen_lock = "free" \/ r = "upgrade")
    /\ gen_lock' = r
    /\ reporter' = [reporter EXCEPT ![r].pc = IF r = "loop" THEN "gate"
                                              ELSE "plan"]
    /\ UNCHANGED <<height, sent, gate, upgrade_status, loop, main, stored,
                   ending, crashes>>

LockReport(r) ==
    /\ reporter[r].pc = "lock" /\ gen_lock = "free"
    /\ gen_lock' = r
    /\ reporter' = [reporter EXCEPT ![r].pc = IF r = "loop" THEN "gate"
                                              ELSE "plan"]
    /\ UNCHANGED <<height, sent, gate, upgrade_status, loop, main, stored,
                   ending, crashes>>

\* Variant: an era may be reported twice.
ExpiredBehind(number) ==
    number = 0 \/ number < report_height

\* The height is too close to the last one.
Expired(number) ==
    number = 0 \/ Minus(number, report_height) < ERA_LENGTH

MayReport == ~restart_flag /\ validated_proof > 0 /\ report_files

\* Variant: a report that is not made leaves the height as it was.
ResetGateKeepHeight(number) ==
    /\ report_height' = IF MayReport THEN number ELSE report_height
    /\ restart_flag' = FALSE
    /\ report_files' = TRUE
    /\ validated_proof' = ReduceProof(validated_proof)

\* The end of gen_work_report, also when the report is refused or fails.
ResetGate(number) ==
    /\ report_height' = number
    /\ restart_flag' = FALSE
    /\ report_files' = TRUE
    /\ validated_proof' = ReduceProof(validated_proof)

\* The reporter leaves; an upgrade that succeeded tells the enclave and the
\* application.
Leave(r, status) ==
    /\ gen_lock' = "free"
    /\ reporter' = [reporter EXCEPT ![r] = NotReporting]
    /\ loop' = IF r = "loop" THEN [loop EXCEPT !.pc = "wait"] ELSE loop
    /\ upgrade_status' = status

Gate(r) ==
    /\ reporter[r].pc = "gate"
    /\ \/ /\ Expired(reporter[r].number)
          /\ Leave(r, upgrade_status)
          /\ UNCHANGED gate
       \/ /\ ~Expired(reporter[r].number) /\ ~MayReport
          /\ Leave(r, upgrade_status)
          /\ ResetGate(reporter[r].number)
       \/ /\ ~Expired(reporter[r].number) /\ MayReport
          /\ reporter' = [reporter EXCEPT ![r].pc = "build"]
          /\ UNCHANGED <<gate, gen_lock, loop, upgrade_status>>
    /\ UNCHANGED <<height, sent, main, stored, ending, crashes>>

\* The report is made, or making it fails.
Build(r) ==
    /\ reporter[r].pc = "build"
    /\ ResetGate(reporter[r].number)
    /\ \/ /\ reporter' = [reporter EXCEPT ![r].pc = "upload"]
          /\ UNCHANGED <<gen_lock, loop, upgrade_status>>
       \/ Leave(r, upgrade_status)
    /\ UNCHANGED <<height, sent, main, stored, ending, crashes>>

\* The chain gets the report, whatever answer comes back, or does not.
\* An upgrade goes on to its data after a good answer.
Upload(r) ==
    /\ reporter[r].pc = "upload"
    /\ \/ /\ sent' = reporter[r].number
          /\ \/ /\ Leave(r, IF r = "upgrade" THEN "success"
                            ELSE upgrade_status)
                /\ ending' = (ending /\ r # "upgrade")
             \/ Leave(r, upgrade_status) /\ UNCHANGED ending
       \/ /\ UNCHANGED <<sent, ending>>
          /\ Leave(r, upgrade_status)
    /\ UNCHANGED <<height, gate, main, stored, crashes>>

(***************************************************************************)
(* Upgrade                                                                  *)
(***************************************************************************)

\* try_report_work
TryReportWork ==
    /\ height # 0
    /\ Minus(Minus(height, report_height), WORKREPORT_REPORT_INTERVAL)
           >= ERA_LENGTH
    /\ MayReport

EnableUpgrade ==
    /\ ~ending /\ upgrade_status # "success"
    /\ TryReportWork
    /\ upgrade_status' = "process" /\ ending' = TRUE
    /\ UNCHANGED <<height, sent, gate, gen_lock, reporter, loop, main, stored,
                   crashes>>

\* A disable that comes late leaves an upgrade begun since in its course.
DisableUpgrade ==
    /\ upgrade_status # "none"
    /\ upgrade_status' = "none"
    /\ ending' \in {ending, FALSE}
    /\ UNCHANGED <<height, sent, gate, gen_lock, reporter, loop, main, stored,
                   crashes>>

\* id_gen_upgrade_data, called with the newest block number.
GenUpgradeData ==
    /\ ending /\ reporter["upgrade"].pc = "idle"
    /\ reporter' = [reporter EXCEPT !["upgrade"] =
           [pc |-> "lock", number |-> height]]
    /\ UNCHANGED <<height, sent, gate, upgrade_status, gen_lock, loop, main,
                   stored, ending, crashes>>

\* Eras are added to the height of the last report until block n is at most
\* an era ahead.
UpgradeHeight(n) == n - 1 - ((n - 1 - report_height) % ERA_LENGTH)

\* The checks of the upgrade, and the height of its report.
UpgradePlan ==
    /\ reporter["upgrade"].pc = "plan"
    /\ LET n == reporter["upgrade"].number
       IN \/ /\ n > report_height
             /\ Minus(Minus(n, report_height), WORKREPORT_REPORT_INTERVAL)
                    >= ERA_LENGTH
             /\ reporter' = [reporter EXCEPT !["upgrade"] =
                    [pc |-> "gate", number |-> UpgradeHeight(n)]]
             /\ UNCHANGED <<gen_lock, loop, upgrade_status>>
          \/ Leave("upgrade", upgrade_status)
    /\ UNCHANGED <<height, sent, gate, main, stored, ending, crashes>>

\* The worker dies and starts again: from its metadata, or under a new key.
Restart ==
    /\ crashes < MaxCrashes /\ crashes' = crashes + 1
    /\ IF stored = {}
       THEN report_height' = 0 /\ restart_flag' = FALSE /\ sent' = 0
       ELSE report_height' \in stored /\ restart_flag' = TRUE /\ sent' = sent
    /\ validated_proof' = 0 /\ report_files' = TRUE
    /\ upgrade_status' = "none" /\ ending' = FALSE /\ gen_lock' = "free"
    /\ reporter' = [r \in Reporters |-> NotReporting]
    /\ \E t \in FirstTargets : loop' = LoopFrom(t)
    /\ main' = "validate"
    /\ UNCHANGED <<height, stored>>

Next ==
    \/ Block
    \/ Validate \/ Store \/ ReportAddValidatedProof
    \/ LoopPlan \/ LoopWake
    \/ \E r \in Reporters : LockReport(r) \/ Gate(r) \/ Build(r) \/ Upload(r)
    \/ EnableUpgrade \/ DisableUpgrade \/ GenUpgradeData \/ UpgradePlan
    \/ Restart

Spec == Init /\ [][Next]_vars

(***************************************************************************)
(* Properties                                                               *)
(***************************************************************************)

TypeOK ==
    /\ height \in 0..MaxHeight /\ sent \in 0..MaxHeight
    /\ report_height \in 0..MaxHeight
    /\ validated_proof \in 0..2
    /\ restart_flag \in BOOLEAN /\ report_files \in BOOLEAN
    /\ upgrade_status \in {"none", "process", "success"}
    /\ ending \in BOOLEAN
    /\ gen_lock \in Reporters \cup {"free"}
    /\ reporter \in [Reporters ->
           [pc : {"idle", "lock", "plan", "gate", "build", "upload"},
            number : 0..MaxHeight]]
    /\ loop \in [pc : {"wait", "sleep", "call"},
                 target : Nat, number : 0..MaxHeight]
    /\ main \in {"validate", "store", "proof"}
    /\ stored \in {{}} \cup {{h} : h \in 0..MaxHeight}
    /\ crashes \in 0..MaxCrashes

\* A report that goes to the chain is for a later era than every report the
\* chain got under this key, although the worker may crash between an upload
\* and the next metadata, two threads report, an upgrade chooses its own
\* height and differences wrap.
EraOnce ==
    \A r \in Reporters : reporter[r].pc \in {"build", "upload"} =>
        reporter[r].number >= sent + ERA_LENGTH

\* Outside a first attempt after a restart the gate knows of every report
\* the chain got, and no height is ahead of the chain.
GateKnowsChain ==
    /\ ~restart_flag => sent <= report_height
    /\ sent <= height /\ report_height <= height

\* A report under way has a validation of its own: no other report uses up
\* the proof between the check and the end.
BuildHasProof ==
    \A r \in Reporters : reporter[r].pc = "build" =>
        validated_proof > 0 /\ gen_lock = r
=============================================================================
