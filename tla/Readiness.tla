------------------------------- MODULE Readiness -------------------------------
(***************************************************************************)
(* StartupOrchestrationService.run_startup_checks (src/app/application/    *)
(* startup_service.py), run by GET /readiness and the command line next to *)
(* requests and other scans: database, then hardware, then a recovery scan *)
(* whose candidates make the answer.                                       *)
(***************************************************************************)
EXTENDS RecoveryScan

CONSTANTS
  Checks,      \* the scans that are part of a readiness check
  CheckFaults  \* what the environment may withhold from a check

ASSUME ChecksOK ==
  /\ Checks \subseteq Scans
  /\ CheckFaults \subseteq {"database", "device"}

VARIABLES
  check,     \* where each readiness check is
  impaired,  \* a device did not answer its ping
  answer,    \* readiness_status, or how the last check ended without one
  awaiting   \* operations that wanted recovery when the check began

checkVars == <<check, impaired, answer, awaiting>>
readinessVars == <<allVars, checkVars>>

Wants == {r \in Requests : operation[r] = "recovery_required"}

(* Wrong variant: the last answer stands while the next one is sought.     *)
BeginCheckKeepsAnswer(s) ==
  /\ check[s] = "idle"
  /\ check' = [check EXCEPT ![s] = "hardware"]
  /\ awaiting' = [awaiting EXCEPT ![s] = Wants]
  /\ UNCHANGED <<allVars, impaired, answer>>

(* _check_database_readiness, as part of the beginning of a check.         *)
BeginCheck(s) ==
  /\ check[s] = "idle"
  /\ check' = [check EXCEPT ![s] = "hardware"]
  /\ answer' = [answer EXCEPT ![s] = "none"]
  /\ awaiting' = [awaiting EXCEPT ![s] = Wants]
  /\ UNCHANGED <<allVars, impaired>>

(* No database, or none that was migrated.                                 *)
RefuseCheck(s) ==
  /\ "database" \in CheckFaults
  /\ check[s] = "idle"
  /\ answer' = [answer EXCEPT ![s] = "not_ready"]
  /\ UNCHANGED <<allVars, check, impaired, awaiting>>

(* _check_hardware_readiness: a failed ping is an entry of the snapshot,   *)
(* not an error.  The recovery scan begins.                                *)
CheckHardware(s) ==
  /\ check[s] = "hardware"
  /\ \E failed \in BOOLEAN :
       /\ failed => "device" \in CheckFaults
       /\ impaired' = [impaired EXCEPT ![s] = failed]
  /\ StartScan(s)
  /\ check' = [check EXCEPT ![s] = "recovery"]
  /\ UNCHANGED <<answer, awaiting>>

(* Wrong variant: only candidates with a new case count.                   *)
DeriveFromNewCases(s) ==
  IF impaired[s] \/ \E r \in found[s] : cases[r] = 0 THEN "degraded" ELSE "ready"

(* _derive_readiness_status.                                               *)
Derive(s) == IF impaired[s] \/ found[s] # {} THEN "degraded" ELSE "ready"

(* Wrong variant: a scan that fails only degrades the answer.              *)
AnswerAnyScan(s) ==
  /\ check[s] = "recovery"
  /\ ~ Scanning(s)
  /\ answer' = [answer EXCEPT ![s] = IF scan[s] = "done" THEN Derive(s) ELSE "degraded"]
  /\ check' = [check EXCEPT ![s] = "idle"]
  /\ UNCHANGED <<allVars, impaired, awaiting>>

(* Wrong variant: a check whose scan failed waits for another one.         *)
AnswerSuccess(s) ==
  /\ check[s] = "recovery"
  /\ scan[s] = "done"
  /\ answer' = [answer EXCEPT ![s] = Derive(s)]
  /\ check' = [check EXCEPT ![s] = "idle"]
  /\ UNCHANGED <<allVars, impaired, awaiting>>

(* The OperationalError of a scan is not among the errors                  *)
(* _check_recovery_readiness catches: the client gets an internal error.   *)
(* What it catches, to answer "not_ready", is an ApplicationError or a     *)
(* RecoveryError.  That branch is left out: in a scan only                 *)
(* assert_transition_allowed could raise one, and CandidatesCanBeMarked of *)
(* Reconciliation shows that it never does.                                *)
Answer(s) ==
  /\ check[s] = "recovery"
  /\ ~ Scanning(s)
  /\ answer' = [answer EXCEPT ![s] = IF scan[s] = "done" THEN Derive(s) ELSE "error"]
  /\ check' = [check EXCEPT ![s] = "idle"]
  /\ UNCHANGED <<allVars, impaired, awaiting>>

CheckStep(s) ==
  \/ CheckHardware(s)
  \/ check[s] = "recovery" /\ ScanStep(s) /\ UNCHANGED checkVars
  \/ Answer(s)

(* Scans of POST /recovery/scan and of the command line.                   *)
ScanElsewhere ==
  /\ \E s \in Scans \ Checks : StartScan(s) \/ ScanStep(s)
  /\ UNCHANGED checkVars

ServeElsewhere == ServeRequests /\ UNCHANGED checkVars

CrashChecks ==
  /\ CrashAll
  /\ check' = [s \in Checks |-> "idle"]
  /\ UNCHANGED <<impaired, answer, awaiting>>

ReadinessInit ==
  /\ ScanInit
  /\ check = [s \in Checks |-> "idle"]
  /\ impaired = [s \in Checks |-> FALSE]
  /\ answer = [s \in Checks |-> "none"]
  /\ awaiting = [s \in Checks |-> {}]

ReadinessNext ==
  \/ \E s \in Checks : BeginCheck(s) \/ RefuseCheck(s) \/ CheckStep(s)
  \/ ScanElsewhere
  \/ ServeElsewhere
  \/ CrashChecks

ReadinessSpec == ReadinessInit /\ [][ReadinessNext]_readinessVars

(* Pings and statements are bounded by their timeouts.                     *)
FairReadinessSpec ==
  ReadinessSpec /\ \A s \in Checks : WF_readinessVars(CheckStep(s))
-----------------------------------------------------------------------------
(* A check has the scan of its stage, and answers when it is over.         *)
ReadinessTypeOK ==
  /\ check \in [Checks -> {"idle", "hardware", "recovery"}]
  /\ impaired \in [Checks -> BOOLEAN]
  /\ answer \in [Checks -> {"none", "ready", "degraded", "not_ready", "error"}]
  /\ awaiting \in [Checks -> SUBSET Requests]
  /\ \A s \in Checks : check[s] # "idle" => answer[s] = "none"
  /\ \A s \in Checks : Scanning(s) => check[s] = "recovery"

(* Ready is said only if nothing wanted recovery when the check began and  *)
(* every device answered, whatever other scans did with the candidates in  *)
(* the meantime.                                                           *)
ReadyIsTrue ==
  \A s \in Checks : answer[s] = "ready" => awaiting[s] = {} /\ ~ impaired[s]

(* Degraded has a reason an operator can find: a device, or operations     *)
(* that each have an open case by the time the answer is given.            *)
DegradedIsExplained ==
  \A s \in Checks : answer[s] = "degraded" =>
    impaired[s] \/ (found[s] # {} /\ \A r \in found[s] : cases[r] > 0)

(* Readiness is only another scan to the operations.                       *)
ImplementsScans == ScanSpec

(* Every check that has begun is answered or cut off, however long the     *)
(* write lock is held.                                                     *)
ChecksEnd ==
  \A s \in Checks : (check[s] # "idle") ~> (check[s] = "idle")

(* The parts of the inductive invariant behind the theorems: what wanted   *)
(* recovery when a check began still does, and is found by its scan.       *)
AwaitingIsFound ==
  \A s \in Checks :
    /\ awaiting[s] \subseteq Wants
    /\ check[s] = "recovery" \/ answer[s] \in {"ready", "degraded", "error"} =>
         awaiting[s] \subseteq found[s]

(* An answer is that of the last scan, which no other one touches.         *)
AnswersAreDerived ==
  \A s \in Checks : answer[s] \in {"ready", "degraded"} =>
    scan[s] = "done" /\ answer[s] = Derive(s)

ReadinessInv == ReadinessTypeOK /\ AwaitingIsFound /\ AnswersAreDerived
=============================================================================
