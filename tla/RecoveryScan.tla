----------------------------- MODULE RecoveryScan -----------------------------
(***************************************************************************)
(* RecoveryService.scan_recovery_targets (src/app/application/             *)
(* recovery_service.py), run by GET /readiness, POST /recovery/scan and    *)
(* the command line while requests are served.                             *)
(*                                                                         *)
(* A scan reads the operations that want recovery, and for each of them    *)
(* looks for an open recovery case and inserts one if it finds none.  Its  *)
(* reads take no lock; its first INSERT takes SQLite's write lock, as one  *)
(* of the sessions Operations calls Outside, and keeps it to the commit.   *)
(* Nothing in the code closes a case.                                      *)
(***************************************************************************)
EXTENDS Operations

CONSTANTS
  Scans,   \* clients that ask for scans, each for one at a time
  NoScan

ASSUME ScansOK == NoScan \notin Scans

VARIABLES
  scan,      \* where each scan is, then how it ended
  found,     \* the candidates it has read
  todo,      \* those it has yet to ensure a case for
  hand,      \* the one it has found no case of
  inserted,  \* operations whose case it has flushed
  scanner,   \* the scan that holds the write lock
  cases      \* committed open recovery_cases, per operation

scanVars == <<scan, found, todo, hand, inserted, scanner, cases>>
allVars == <<vars, scanVars>>

Scanning(s) == scan[s] \in {"scanning", "opening"}

(* Wrong variant: failures are candidates too.                             *)
CandidatesWithFailures ==
  {r \in Requests : operation[r] \notin {NoRow, "completed", "session_completed"}}

(* list_recovery_scan_candidates: the failures it leaves out are those the *)
(* services file as failed.                                                *)
Candidates ==
  {r \in Requests : operation[r] \notin {NoRow, "completed", "session_completed", "failed"}}

StartScan(s) ==
  /\ ~ Scanning(s)
  /\ scan' = [scan EXCEPT ![s] = "scanning"]
  /\ found' = [found EXCEPT ![s] = Candidates]
  /\ todo' = [todo EXCEPT ![s] = Candidates]
  /\ UNCHANGED <<vars, hand, inserted, scanner, cases>>

(* find_open_case_by_operation_id.  A case that is reused is assigned the  *)
(* values it has: no UPDATE is sent and no lock taken.  The operation is   *)
(* in recovery_required already and is not marked again.                   *)
ReuseCase(s) ==
  /\ scan[s] = "scanning"
  /\ \E r \in todo[s] :
       /\ cases[r] > 0
       /\ todo' = [todo EXCEPT ![s] = @ \ {r}]
  /\ UNCHANGED <<vars, scan, found, hand, inserted, scanner, cases>>

MissCase(s) ==
  /\ scan[s] = "scanning"
  /\ \E r \in todo[s] :
       /\ cases[r] = 0
       /\ hand' = [hand EXCEPT ![s] = {r}]
  /\ scan' = [scan EXCEPT ![s] = "opening"]
  /\ UNCHANGED <<vars, found, todo, inserted, scanner, cases>>

(* Wrong variant: the insert does not wait for the lock.                   *)
OpenCaseUnlocked(s) ==
  /\ scan[s] = "opening"
  /\ writer' = Outside
  /\ scanner' = s
  /\ inserted' = [inserted EXCEPT ![s] = @ \cup hand[s]]
  /\ todo' = [todo EXCEPT ![s] = @ \ hand[s]]
  /\ hand' = [hand EXCEPT ![s] = {}]
  /\ scan' = [scan EXCEPT ![s] = "scanning"]
  /\ UNCHANGED <<requestVars, physicalVars, tableVars, found, cases>>

(* add_case and its entities, flushed.                                     *)
OpenCase(s) ==
  /\ scan[s] = "opening"
  /\ writer = NoWriter \/ scanner = s
  /\ writer' = Outside
  /\ scanner' = s
  /\ inserted' = [inserted EXCEPT ![s] = @ \cup hand[s]]
  /\ todo' = [todo EXCEPT ![s] = @ \ hand[s]]
  /\ hand' = [hand EXCEPT ![s] = {}]
  /\ scan' = [scan EXCEPT ![s] = "scanning"]
  /\ UNCHANGED <<requestVars, physicalVars, tableVars, found, cases>>

(* Wrong variant: the flushed cases outlive the session.                   *)
EndScanKeepsInserts(s, outcome) ==
  /\ scan' = [scan EXCEPT ![s] = outcome]
  /\ todo' = [todo EXCEPT ![s] = {}]
  /\ hand' = [hand EXCEPT ![s] = {}]
  /\ IF scanner = s
     THEN writer' = NoWriter /\ scanner' = NoScan
     ELSE UNCHANGED <<writer, scanner>>
  /\ UNCHANGED <<requestVars, physicalVars, tableVars, found, inserted>>

(* The session ends, and with it the lock it may hold.                     *)
EndScan(s, outcome) ==
  /\ scan' = [scan EXCEPT ![s] = outcome]
  /\ todo' = [todo EXCEPT ![s] = {}]
  /\ hand' = [hand EXCEPT ![s] = {}]
  /\ inserted' = [inserted EXCEPT ![s] = {}]
  /\ IF scanner = s
     THEN writer' = NoWriter /\ scanner' = NoScan
     ELSE UNCHANGED <<writer, scanner>>
  /\ UNCHANGED <<requestVars, physicalVars, tableVars, found>>

(* Wrong variant: the error is swallowed and the scan reports success.     *)
CaseLockSwallowed(s) ==
  /\ scan[s] = "opening"
  /\ writer # NoWriter
  /\ scanner # s
  /\ EndScan(s, "done")
  /\ UNCHANGED cases

(* busy_timeout runs out: OperationalError, which no caller catches.       *)
CaseLockExpires(s) ==
  /\ scan[s] = "opening"
  /\ writer # NoWriter
  /\ scanner # s
  /\ EndScan(s, "failed")
  /\ UNCHANGED cases

CommitScan(s) ==
  /\ scan[s] = "scanning"
  /\ todo[s] = {}
  /\ cases' = [r \in Requests |-> IF r \in inserted[s] THEN cases[r] + 1 ELSE cases[r]]
  /\ EndScan(s, "done")

CommitScanFails(s) ==
  /\ "commit" \in Faults
  /\ scan[s] = "scanning"
  /\ todo[s] = {}
  /\ EndScan(s, "failed")
  /\ UNCHANGED cases

ScanStep(s) ==
  \/ ReuseCase(s) \/ MissCase(s) \/ OpenCase(s) \/ CaseLockExpires(s)
  \/ CommitScan(s) \/ CommitScanFails(s)

(* The process dies with its requests and its scans.                       *)
CrashAll ==
  /\ Crash
  /\ scanner # NoScan => writer' = NoWriter
  /\ scan' = [s \in Scans |-> IF Scanning(s) THEN "killed" ELSE scan[s]]
  /\ todo' = [s \in Scans |-> {}]
  /\ hand' = [s \in Scans |-> {}]
  /\ inserted' = [s \in Scans |-> {}]
  /\ scanner' = NoScan
  /\ UNCHANGED <<found, cases>>

(* Operations goes on; the lock a scan holds is its own to give back.      *)
ServeRequests ==
  /\ \/ \E r \in Requests : Serve(r)
     \/ OutsideBegins
     \/ scanner = NoScan /\ OutsideEnds
     \/ DrumMovesLate
  /\ UNCHANGED scanVars

ScanInit ==
  /\ Init
  /\ scan = [s \in Scans |-> "idle"]
  /\ found = [s \in Scans |-> {}]
  /\ todo = [s \in Scans |-> {}]
  /\ hand = [s \in Scans |-> {}]
  /\ inserted = [s \in Scans |-> {}]
  /\ scanner = NoScan
  /\ cases = [r \in Requests |-> 0]

ScanNext ==
  \/ \E s \in Scans : StartScan(s) \/ ScanStep(s)
  \/ ServeRequests
  \/ CrashAll

ScanSpec == ScanInit /\ [][ScanNext]_allVars

(* The threads of requests are scheduled, as in FairSpec; nothing is asked *)
(* of the scans.                                                           *)
FairScanSpec ==
  /\ ScanSpec
  /\ \A r \in Requests : WF_allVars(Serve(r) /\ UNCHANGED scanVars)
-----------------------------------------------------------------------------
(* Each scan works on operations that exist, and one scan at most holds    *)
(* the lock: a scan that has flushed a case does.                          *)
ScanTypeOK ==
  /\ scan \in [Scans -> {"idle", "scanning", "opening", "done", "failed", "killed"}]
  /\ found \in [Scans -> SUBSET Requests]
  /\ todo \in [Scans -> SUBSET Requests]
  /\ hand \in [Scans -> SUBSET Requests]
  /\ inserted \in [Scans -> SUBSET Requests]
  /\ scanner \in Scans \cup {NoScan}
  /\ cases \in [Requests -> Nat]
  /\ scanner # NoScan => writer = Outside
  /\ \A s \in Scans : inserted[s] # {} => scanner = s

(* A scan that reports success has an open, committed case for every       *)
(* candidate it reports, also when its insert had to wait, and a later     *)
(* crash does not take it away.                                            *)
CandidatesHaveCases ==
  \A s \in Scans : scan[s] = "done" => \A r \in found[s] : cases[r] > 0

(* A case is opened for operations in recovery_required only: an operation *)
(* that succeeded, or failed with its door shut, never gets one.           *)
CasesAreForUncertain ==
  \A r \in Requests : cases[r] > 0 => operation[r] = "recovery_required"

(* A repeated scan reuses the open case: there is one per operation.       *)
(* tests/test_recovery_orchestration.py:110 names this promise.            *)
OneOpenCasePerOperation ==
  \A r \in Requests : cases[r] <= 1

(* Operations that want recovery keep wanting it: nothing resolves them.   *)
(* A scan therefore never finds less than an earlier one, and /readiness   *)
(* that has said degraded says so ever after.                              *)
CandidatesStay ==
  [][\A s \in Scans : scan[s] = "done" /\ scan'[s] = "scanning" => found[s] \subseteq found'[s]]_allVars

(* A scan only opens cases: with the rest of the system it behaves as      *)
(* Operations with one more outside session.                               *)
ImplementsOperations == Spec

(* A scan delivers what CaseBook promises: to those who see no more of it  *)
(* than whether it runs, how it ended and what it reports.                 *)
Outcome(s) ==
  IF Scanning(s) THEN "running" ELSE IF scan[s] = "killed" THEN "failed" ELSE scan[s]

Report(s) == IF Outcome(s) \in {"running", "done"} THEN found[s] ELSE {}

Book ==
  INSTANCE CaseBook WITH
    Subjects <- Requests,
    wanting <- Candidates,
    scan <- [s \in Scans |-> Outcome(s)],
    scope <- [s \in Scans |-> Report(s)]
ImplementsCaseBook == Book!Spec

(* The parts of the inductive invariant behind the theorems.               *)
WorkIsFound ==
  \A s \in Scans :
    /\ todo[s] \cup inserted[s] \subseteq found[s]
    /\ hand[s] \subseteq todo[s]
    /\ \A r \in found[s] : operation[r] = "recovery_required"
    /\ ~ Scanning(s) => todo[s] = {} /\ inserted[s] = {}
    /\ scan[s] # "opening" => hand[s] = {}

(* A candidate has its case, or the scan is not through with it.           *)
CaseOrWork ==
  \A s \in Scans : Scanning(s) \/ scan[s] = "done" =>
    \A r \in found[s] : cases[r] > 0 \/ r \in todo[s] \/ r \in inserted[s]

ScanInv == ScanTypeOK /\ WorkIsFound /\ CaseOrWork /\ CasesAreForUncertain

(* Where there is one scan at a time, what it inserts has no case yet.     *)
InsertsAreNew ==
  \A s \in Scans : \A r \in Requests :
    /\ r \in inserted[s] \cup hand[s] => cases[r] = 0
    /\ ~ (r \in inserted[s] /\ r \in todo[s])
=============================================================================
