-------------------------- MODULE RecoveryScanProofs --------------------------
(***************************************************************************)
(* Theorems about RecoveryScan.  A scan is an outside session to           *)
(* Operations, so all that OperationsProofs shows of the tables is known   *)
(* here, and settled operations keep the state a scan has read.            *)
(***************************************************************************)
EXTENDS RecoveryScan, OperationsProofs

(* A step of the whole is a step of Operations, or invisible to it, as     *)
(* long as the lock of a scan is the outside session's.                    *)
LEMMA StepsImplement ==
  ASSUME ScanTypeOK, [ScanNext]_allVars
  PROVE  [Next]_vars
<1> USE DEF vars
<1>1. ASSUME NEW s \in Scans, StartScan(s) \/ ReuseCase(s) \/ MissCase(s)
      PROVE  UNCHANGED vars
  BY <1>1 DEF StartScan, ReuseCase, MissCase
<1>2. ASSUME NEW s \in Scans, OpenCase(s)
      PROVE  OutsideBegins \/ UNCHANGED vars
  <2>1. CASE writer = NoWriter
    BY <1>2, <2>1 DEF OpenCase, OutsideBegins
  <2>2. CASE scanner = s
    BY <1>2, <2>2, ScansOK DEF OpenCase, ScanTypeOK
  <2> QED BY <1>2, <2>1, <2>2 DEF OpenCase
<1>3. ASSUME NEW s \in Scans, NEW outcome, EndScan(s, outcome)
      PROVE  OutsideEnds \/ UNCHANGED vars
  <2>1. CASE scanner = s
    BY <1>3, <2>1, ScansOK DEF EndScan, OutsideEnds, ScanTypeOK
  <2>2. CASE scanner # s
    BY <1>3, <2>2 DEF EndScan
  <2> QED BY <2>1, <2>2
<1>4. ASSUME NEW s \in Scans, ScanStep(s)
      PROVE  OutsideBegins \/ OutsideEnds \/ UNCHANGED vars
  BY <1>1, <1>2, <1>3, <1>4 DEF ScanStep, CaseLockExpires, CommitScan, CommitScanFails
<1>5. ServeRequests => Next
  BY DEF ServeRequests, Next
<1>6. CrashAll => Next
  BY DEF CrashAll, Next
<1>7. UNCHANGED allVars => UNCHANGED vars
  BY DEF allVars
<1> QED BY <1>1, <1>4, <1>5, <1>6, <1>7 DEF ScanNext, Next

(* No request can take, or give back, the lock of an outside session.      *)
LEMMA OutsideKeepsLock ==
  ASSUME writer = Outside, IndInv,
         (\E r \in Requests : Serve(r)) \/ OutsideBegins \/ DrumMovesLate
  PROVE  writer' = writer
<1>1. ASSUME NEW r \in Requests, Serve(r)
      PROVE  writer' = writer
  <2>1. phase[r] # "executing"
    BY ConstantsOK DEF IndInv, OneOperationAtTheMachine
  <2> QED
    BY <1>1, <2>1, ConstantsOK
       DEF Serve, ValidateRequest, RejectRequest, CreateOperation, LockWaitExpires,
           MoveDrum, MoveFails, UnlockSlot, UnlockFails, ApplyInventory, RefuseInventory,
           Commit, CommitFails, At, AtInventory
<1> QED BY <1>1, ConstantsOK DEF OutsideBegins, DrumMovesLate

(* The types of a scan, and its hold of the lock.                          *)
LEMMA ScanTypesStep ==
  ASSUME IndInv, ScanTypeOK, [ScanNext]_allVars
  PROVE  ScanTypeOK'
<1> USE ScansOK
<1>1. ASSUME NEW s \in Scans, StartScan(s)
      PROVE  ScanTypeOK'
  BY <1>1 DEF StartScan, ScanTypeOK, Candidates, vars
<1>2. ASSUME NEW s \in Scans, ReuseCase(s) \/ MissCase(s)
      PROVE  ScanTypeOK'
  BY <1>2 DEF ReuseCase, MissCase, ScanTypeOK, vars
<1>3. ASSUME NEW s \in Scans, OpenCase(s)
      PROVE  ScanTypeOK'
  <2>1. \A x \in Scans \ {s} : inserted'[x] = {}
    BY <1>3, ConstantsOK DEF OpenCase, ScanTypeOK
  <2> QED BY <1>3, <2>1 DEF OpenCase, ScanTypeOK
<1>4. ASSUME NEW s \in Scans, NEW outcome \in {"done", "failed"}, EndScan(s, outcome),
             cases' \in [Requests -> Nat]
      PROVE  ScanTypeOK'
  BY <1>4 DEF EndScan, ScanTypeOK
<1>5. ASSUME NEW s \in Scans, CommitScan(s)
      PROVE  ScanTypeOK'
  <2>1. cases' \in [Requests -> Nat]
    BY <1>5 DEF CommitScan, ScanTypeOK
  <2> QED BY <1>4, <1>5, <2>1 DEF CommitScan
<1>6. ASSUME NEW s \in Scans, CaseLockExpires(s) \/ CommitScanFails(s)
      PROVE  ScanTypeOK'
  BY <1>4, <1>6 DEF CaseLockExpires, CommitScanFails, ScanTypeOK
<1>7. CASE ServeRequests
  <2>1. UNCHANGED scanVars
    BY <1>7 DEF ServeRequests
  <2>2. scanner # NoScan => writer' = writer
    <3> SUFFICES ASSUME scanner # NoScan PROVE writer' = writer
      OBVIOUS
    <3>1. writer = Outside
      BY DEF ScanTypeOK
    <3> QED BY <1>7, <3>1, OutsideKeepsLock DEF ServeRequests
  <2> QED BY <2>1, <2>2 DEF scanVars, ScanTypeOK
<1>8. CASE CrashAll
  BY <1>8 DEF CrashAll, ScanTypeOK
<1>9. CASE UNCHANGED allVars
  BY <1>9 DEF allVars, vars, scanVars, ScanTypeOK
<1> QED
  BY <1>1, <1>2, <1>3, <1>5, <1>6, <1>7, <1>8, <1>9 DEF ScanNext, ScanStep

(* What a scan has found wants recovery and goes on wanting it, and no     *)
(* candidate is lost on the way to its case.                               *)
LEMMA ScanInvStep ==
  ASSUME IndInv, ScanInv, [ScanNext]_allVars
  PROVE  ScanInv'
<1>0. /\ scan \in [Scans -> {"idle", "scanning", "opening", "done", "failed", "killed"}]
      /\ found \in [Scans -> SUBSET Requests]
      /\ todo \in [Scans -> SUBSET Requests]
      /\ hand \in [Scans -> SUBSET Requests]
      /\ inserted \in [Scans -> SUBSET Requests]
      /\ cases \in [Requests -> Nat]
  BY DEF ScanInv, ScanTypeOK
<1>1. ScanTypeOK'
  BY ScanTypesStep DEF ScanInv
<1>2. \A r \in Requests : operation[r] = "recovery_required" => operation'[r] = "recovery_required"
  BY StepsImplement, SettledKept DEF ScanInv, NoRow
<1>3. \A r \in Candidates : operation[r] = "recovery_required"
  BY DEF Candidates, IndInv, TypeOK, Final, Successful
<1>4. ASSUME NEW s \in Scans, StartScan(s)
      PROVE  (WorkIsFound /\ CaseOrWork /\ CasesAreForUncertain)'
  <2>1. WorkIsFound'
    BY <1>0, <1>3, <1>4 DEF StartScan, ScanInv, WorkIsFound, Scanning, Candidates,
                            vars, tableVars
  <2>2. CaseOrWork'
    BY <1>0, <1>4 DEF StartScan, ScanInv, CaseOrWork, Scanning
  <2>3. CasesAreForUncertain'
    BY <1>2, <1>4 DEF StartScan, ScanInv, CasesAreForUncertain
  <2> QED BY <2>1, <2>2, <2>3
<1>5. ASSUME NEW s \in Scans, ReuseCase(s) \/ MissCase(s)
      PROVE  (WorkIsFound /\ CaseOrWork /\ CasesAreForUncertain)'
  <2>1. WorkIsFound'
    BY <1>0, <1>2, <1>5 DEF ReuseCase, MissCase, ScanInv, WorkIsFound, Scanning,
                            vars, tableVars
  <2>2. CaseOrWork'
    BY <1>0, <1>5 DEF ReuseCase, MissCase, ScanInv, CaseOrWork, Scanning
  <2>3. CasesAreForUncertain'
    BY <1>2, <1>5 DEF ReuseCase, MissCase, ScanInv, CasesAreForUncertain
  <2> QED BY <2>1, <2>2, <2>3
<1>6. ASSUME NEW s \in Scans, OpenCase(s)
      PROVE  (WorkIsFound /\ CaseOrWork /\ CasesAreForUncertain)'
  <2>1. WorkIsFound'
    BY <1>0, <1>2, <1>6 DEF OpenCase, ScanInv, WorkIsFound, Scanning, tableVars
  <2>2. CaseOrWork'
    BY <1>0, <1>6 DEF OpenCase, ScanInv, CaseOrWork, Scanning
  <2>3. CasesAreForUncertain'
    BY <1>2, <1>6 DEF OpenCase, ScanInv, CasesAreForUncertain
  <2> QED BY <2>1, <2>2, <2>3
<1>7. ASSUME NEW s \in Scans, CommitScan(s)
      PROVE  (WorkIsFound /\ CaseOrWork /\ CasesAreForUncertain)'
  <2>1. WorkIsFound'
    BY <1>0, <1>2, <1>7 DEF CommitScan, EndScan, ScanInv, WorkIsFound, Scanning, tableVars
  <2>2. CaseOrWork'
    <3>1. \A r \in Requests : cases[r] > 0 \/ r \in inserted[s] => cases'[r] > 0
      BY <1>0, <1>7 DEF CommitScan
    <3>2. \A r \in found[s] : cases'[r] > 0
      BY <1>0, <1>7, <3>1 DEF CommitScan, ScanInv, CaseOrWork, Scanning
    <3> QED BY <1>0, <1>7, <3>1, <3>2 DEF CommitScan, EndScan, ScanInv, CaseOrWork, Scanning
  <2>3. CasesAreForUncertain'
    <3>1. \A r \in inserted[s] : operation[r] = "recovery_required"
      BY DEF ScanInv, WorkIsFound
    <3> QED BY <1>0, <1>2, <1>7, <3>1 DEF CommitScan, ScanInv, CasesAreForUncertain
  <2> QED BY <2>1, <2>2, <2>3
<1>8. ASSUME NEW s \in Scans, CaseLockExpires(s) \/ CommitScanFails(s)
      PROVE  (WorkIsFound /\ CaseOrWork /\ CasesAreForUncertain)'
  <2>0. EndScan(s, "failed") /\ cases' = cases
    BY <1>8 DEF CaseLockExpires, CommitScanFails
  <2>1. WorkIsFound'
    BY <1>0, <1>2, <2>0 DEF EndScan, ScanInv, WorkIsFound, Scanning, tableVars
  <2>2. CaseOrWork'
    BY <1>0, <2>0 DEF EndScan, ScanInv, CaseOrWork, Scanning
  <2>3. CasesAreForUncertain'
    BY <1>2, <2>0 DEF ScanInv, CasesAreForUncertain
  <2> QED BY <2>1, <2>2, <2>3
<1>9. ASSUME ServeRequests \/ UNCHANGED allVars
      PROVE  (WorkIsFound /\ CaseOrWork /\ CasesAreForUncertain)'
  <2>0. UNCHANGED scanVars
    BY <1>9 DEF ServeRequests, allVars
  <2>1. WorkIsFound'
    BY <1>0, <1>2, <2>0 DEF scanVars, ScanInv, WorkIsFound, Scanning
  <2>2. CaseOrWork' /\ CasesAreForUncertain'
    BY <1>2, <2>0 DEF scanVars, ScanInv, CaseOrWork, CasesAreForUncertain, Scanning
  <2> QED BY <2>1, <2>2
<1>10. ASSUME CrashAll
       PROVE  (WorkIsFound /\ CaseOrWork /\ CasesAreForUncertain)'
  <2>1. WorkIsFound'
    BY <1>0, <1>2, <1>10 DEF CrashAll, ScanInv, WorkIsFound, Scanning
  <2>2. CaseOrWork'
    BY <1>0, <1>10 DEF CrashAll, ScanInv, CaseOrWork, WorkIsFound, Scanning
  <2>3. CasesAreForUncertain'
    BY <1>2, <1>10 DEF CrashAll, ScanInv, CasesAreForUncertain
  <2> QED BY <2>1, <2>2, <2>3
<1> QED
  BY <1>1, <1>4, <1>5, <1>6, <1>7, <1>8, <1>9, <1>10 DEF ScanInv, ScanNext, ScanStep

(* Before the first scan there is nothing to lose.                         *)
LEMMA ScanInvInit ==
  ASSUME ScanInit
  PROVE  ScanInv
<1> USE DEF ScanInit
<1>1. ScanTypeOK /\ WorkIsFound
  BY DEF ScanTypeOK, WorkIsFound, Scanning
<1>2. CaseOrWork /\ CasesAreForUncertain
  BY DEF CaseOrWork, CasesAreForUncertain, Scanning
<1> QED BY <1>1, <1>2 DEF ScanInv

(* The invariants of Operations and of the scans hold together.            *)
THEOREM ScanInductive == ScanSpec => [](IndInv /\ ScanInv)
<1>1. ScanInit => IndInv /\ ScanInv
  BY InitIndInv, ScanInvInit, ConstantsOK DEF ScanInit
<1>2. IndInv /\ ScanInv /\ [ScanNext]_allVars => (IndInv /\ ScanInv)'
  BY ScanInvStep, StepsImplement, NextIndInv, ConstantsOK DEF ScanInv
<1> QED BY <1>1, <1>2, PTL DEF ScanSpec

(* A scan is no more than an outside session to Operations: what is proved *)
(* of requests and inventory holds while any number of scans run.          *)
THEOREM ScansImplementOperations == ScanSpec => ImplementsOperations
<1>1. ScanInit => Init
  BY DEF ScanInit
<1>2. ScanInv /\ [ScanNext]_allVars => [Next]_vars
  BY StepsImplement DEF ScanInv
<1> QED BY <1>1, <1>2, ScanInductive, PTL DEF ScanSpec, Spec, ImplementsOperations

(* A scan that reports success leaves no candidate without a case, with    *)
(* any number of scans and requests beside it.                             *)
THEOREM ScanIsComplete == ScanSpec => []CandidatesHaveCases
<1>1. ScanInv => CandidatesHaveCases
  BY DEF ScanInv, CandidatesHaveCases, CaseOrWork, WorkIsFound, Scanning
<1> QED BY <1>1, ScanInductive, PTL

(* A scan's work stays within what it has found, and only the scanner that *)
(* holds the write lock has inserted anything.                             *)
THEOREM ScanTypeCorrect == ScanSpec => []ScanTypeOK
<1>1. ScanInv => ScanTypeOK
  BY DEF ScanInv
<1> QED BY <1>1, ScanInductive, PTL

(* No operation that settled otherwise ever gets a recovery case.          *)
THEOREM CasesAreJustified == ScanSpec => []CasesAreForUncertain
<1>1. ScanInv => CasesAreForUncertain
  BY DEF ScanInv
<1> QED BY <1>1, ScanInductive, PTL

(* With no second scan beside it, a scan inserts only what has no case.    *)
LEMMA InsertsStep ==
  ASSUME IndInv, ScanInv, InsertsAreNew, OneOpenCasePerOperation,
         \A s, t \in Scans : s = t, [ScanNext]_allVars
  PROVE  InsertsAreNew' /\ OneOpenCasePerOperation'
<1>0. /\ scan \in [Scans -> {"idle", "scanning", "opening", "done", "failed", "killed"}]
      /\ found \in [Scans -> SUBSET Requests]
      /\ todo \in [Scans -> SUBSET Requests]
      /\ hand \in [Scans -> SUBSET Requests]
      /\ inserted \in [Scans -> SUBSET Requests]
      /\ cases \in [Requests -> Nat]
  BY DEF ScanInv, ScanTypeOK
<1>1. ASSUME NEW s \in Scans, StartScan(s)
      PROVE  InsertsAreNew' /\ OneOpenCasePerOperation'
  <2>1. inserted[s] = {} /\ hand[s] = {}
    BY <1>1 DEF StartScan, ScanInv, WorkIsFound, Scanning
  <2> QED BY <1>0, <1>1, <2>1 DEF StartScan, InsertsAreNew, OneOpenCasePerOperation
<1>2. ASSUME NEW s \in Scans, ReuseCase(s) \/ MissCase(s)
      PROVE  InsertsAreNew' /\ OneOpenCasePerOperation'
  BY <1>0, <1>2 DEF ReuseCase, MissCase, InsertsAreNew, OneOpenCasePerOperation
<1>3. ASSUME NEW s \in Scans, OpenCase(s)
      PROVE  InsertsAreNew' /\ OneOpenCasePerOperation'
  BY <1>0, <1>3 DEF OpenCase, InsertsAreNew, OneOpenCasePerOperation
<1>4. ASSUME NEW s \in Scans, CommitScan(s)
      PROVE  InsertsAreNew' /\ OneOpenCasePerOperation'
  <2>1. \A t \in Scans : inserted'[t] = {} /\ hand'[t] = {}
    BY <1>0, <1>4 DEF CommitScan, EndScan
  <2>2. OneOpenCasePerOperation'
    BY <1>0, <1>4 DEF CommitScan, InsertsAreNew, OneOpenCasePerOperation
  <2> QED BY <2>1, <2>2 DEF InsertsAreNew
<1>5. ASSUME NEW s \in Scans, CaseLockExpires(s) \/ CommitScanFails(s)
      PROVE  InsertsAreNew' /\ OneOpenCasePerOperation'
  <2>0. EndScan(s, "failed") /\ cases' = cases
    BY <1>5 DEF CaseLockExpires, CommitScanFails
  <2> QED BY <1>0, <2>0 DEF EndScan, InsertsAreNew, OneOpenCasePerOperation
<1>6. CASE CrashAll
  BY <1>6 DEF CrashAll, InsertsAreNew, OneOpenCasePerOperation
<1>7. CASE ServeRequests \/ UNCHANGED allVars
  BY <1>7 DEF ServeRequests, allVars, scanVars, InsertsAreNew, OneOpenCasePerOperation
<1> QED BY <1>1, <1>2, <1>3, <1>4, <1>5, <1>6, <1>7 DEF ScanNext, ScanStep

(* Scans that do not overlap never open a second case for an operation,    *)
(* however often they are repeated, interrupted or turned away.            *)
THEOREM OneCaseWithoutOverlap ==
  ASSUME \A s, t \in Scans : s = t
  PROVE  ScanSpec => []OneOpenCasePerOperation
<1>1. ScanInit => InsertsAreNew /\ OneOpenCasePerOperation
  BY DEF ScanInit, InsertsAreNew, OneOpenCasePerOperation
<1>2. IndInv /\ ScanInv /\ InsertsAreNew /\ OneOpenCasePerOperation /\ [ScanNext]_allVars
        => (InsertsAreNew /\ OneOpenCasePerOperation)'
  BY InsertsStep
<1> QED BY <1>1, <1>2, ScanInductive, PTL DEF ScanSpec

(* What a scan has found, the next one finds again.                        *)
THEOREM CandidatesPersist == ScanSpec => CandidatesStay
<1> DEFINE Stay ==
      \A s \in Scans : scan[s] = "done" /\ scan'[s] = "scanning" => found[s] \subseteq found'[s]
<1>1. ASSUME IndInv, ScanInv, [ScanNext]_allVars PROVE Stay
  <2> SUFFICES ASSUME NEW s \in Scans, scan[s] = "done", scan'[s] = "scanning"
               PROVE  found[s] \subseteq found'[s]
    OBVIOUS
  <2>0. /\ scan \in [Scans -> {"idle", "scanning", "opening", "done", "failed", "killed"}]
        /\ found \in [Scans -> SUBSET Requests]
    BY <1>1 DEF ScanInv, ScanTypeOK
  <2>1. CASE \E t \in Scans : StartScan(t)
    <3>1. found[s] \subseteq Candidates
      BY <1>1, <2>0 DEF ScanInv, WorkIsFound, Candidates, NoRow
    <3> QED BY <2>0, <2>1, <3>1 DEF StartScan
  <2>2. CASE ~ \E t \in Scans : StartScan(t)
    <3>1. found' = found
      BY <1>1, <2>2 DEF ScanNext, ScanStep, ReuseCase, MissCase, OpenCase, CaseLockExpires,
                        CommitScan, CommitScanFails, EndScan, CrashAll, ServeRequests,
                        scanVars, allVars
    <3> QED BY <3>1
  <2> QED BY <2>1, <2>2
<1>2. IndInv /\ ScanInv /\ [ScanNext]_allVars => [Stay]_allVars
  BY <1>1
<1> QED BY <1>2, ScanInductive, PTL DEF ScanSpec, CandidatesStay
-----------------------------------------------------------------------------
(* Every step of a scan, seen from outside, is one CaseBook allows.        *)

LEMMA BookInit == ScanInit => Book!Init
<1>1. SUFFICES ASSUME ScanInit PROVE Book!Init
  OBVIOUS
<1>2. \A s \in Scans : Outcome(s) = "idle" /\ Report(s) = {}
  BY <1>1 DEF ScanInit, Outcome, Report, Scanning
<1>3. QED
  BY <1>1, <1>2 DEF ScanInit, Book!Init, Candidates

(* What the others report is none of a scan's business.                    *)
LEMMA OthersReport ==
  ASSUME NEW t \in Scans, scan'[t] = scan[t], found'[t] = found[t]
  PROVE  Outcome(t)' = Outcome(t) /\ Report(t)' = Report(t)
BY DEF Outcome, Report, Scanning

LEMMA BookStep ==
  ASSUME IndInv, ScanInv, [ScanNext]_allVars
  PROVE  [Book!Next]_(Book!bookVars)
<1> USE DEF Book!bookVars
<1>0. /\ scan \in [Scans -> {"idle", "scanning", "opening", "done", "failed", "killed"}]
      /\ found \in [Scans -> SUBSET Requests]
      /\ inserted \in [Scans -> SUBSET Requests]
      /\ cases \in [Requests -> Nat]
  BY DEF ScanInv, ScanTypeOK
<1>1. ASSUME UNCHANGED <<scan, found, cases>>, Candidates \subseteq Candidates'
      PROVE  [Book!Next]_(Book!bookVars)
  <2>1. \A t \in Scans : Outcome(t)' = Outcome(t) /\ Report(t)' = Report(t)
    BY <1>1, OthersReport
  <2>2. Candidates' \subseteq Requests
    BY DEF Candidates
  <2>3. Book!WantRecovery
    BY <1>1, <2>1, <2>2 DEF Book!WantRecovery
  <2>4. QED
    BY <2>3 DEF Book!Next
<1>2. ASSUME NEW s \in Scans, StartScan(s)
      PROVE  Book!Begin(s)
  <2>1. Outcome(s) # "running" /\ Outcome(s)' = "running" /\ Report(s)' = Candidates
    BY <1>0, <1>2 DEF StartScan, Outcome, Report, Scanning
  <2>2. \A t \in Scans \ {s} : Outcome(t)' = Outcome(t) /\ Report(t)' = Report(t)
    BY <1>0, <1>2, OthersReport DEF StartScan
  <2>3. Candidates' = Candidates /\ cases' = cases
    BY <1>2 DEF StartScan, vars, tableVars, Candidates
  <2>4. QED
    BY <2>1, <2>2, <2>3 DEF Book!Begin, Book!Running
<1>3. ASSUME NEW s \in Scans, ReuseCase(s) \/ MissCase(s) \/ OpenCase(s)
      PROVE  UNCHANGED Book!bookVars
  <2>1. Outcome(s)' = Outcome(s) /\ Report(s)' = Report(s)
    BY <1>0, <1>3 DEF ReuseCase, MissCase, OpenCase, Outcome, Report, Scanning
  <2>2. \A t \in Scans \ {s} : Outcome(t)' = Outcome(t) /\ Report(t)' = Report(t)
    BY <1>0, <1>3, OthersReport DEF ReuseCase, MissCase, OpenCase
  <2>3. Candidates' = Candidates /\ cases' = cases
    BY <1>3 DEF ReuseCase, MissCase, OpenCase, vars, tableVars, Candidates
  <2>4. QED
    BY <2>1, <2>2, <2>3
<1>4. ASSUME NEW s \in Scans, CommitScan(s)
      PROVE  Book!Succeed(s)
  <2>1. /\ Outcome(s) = "running" /\ Outcome(s)' = "done"
        /\ Report(s) = found[s] /\ Report(s)' = found[s]
    BY <1>0, <1>4 DEF CommitScan, EndScan, Outcome, Report, Scanning
  <2>2. \A t \in Scans \ {s} : Outcome(t)' = Outcome(t) /\ Report(t)' = Report(t)
    BY <1>0, <1>4, OthersReport DEF CommitScan, EndScan
  <2>3. Candidates' = Candidates
    BY <1>4 DEF CommitScan, EndScan, tableVars, Candidates
  <2>4. inserted[s] \subseteq found[s]
    BY DEF ScanInv, WorkIsFound
  <2>5. cases' = [r \in Requests |-> cases[r] + IF r \in inserted[s] THEN 1 ELSE 0]
    BY <1>0, <1>4 DEF CommitScan
  <2>6. \A r \in found[s] : cases'[r] > 0
    BY <1>0, <1>4, <2>5 DEF CommitScan, ScanInv, CaseOrWork, Scanning
  <2>7. QED
    BY <2>1, <2>2, <2>3, <2>4, <2>5, <2>6 DEF Book!Succeed, Book!Running
<1>5. ASSUME NEW s \in Scans, CaseLockExpires(s) \/ CommitScanFails(s)
      PROVE  Book!Fail({s}) /\ s \in Book!Running
  <2>1. EndScan(s, "failed") /\ cases' = cases /\ Scanning(s)
    BY <1>5 DEF CaseLockExpires, CommitScanFails, Scanning
  <2>2. Outcome(s) = "running" /\ Outcome(s)' = "failed" /\ Report(s)' = {}
    BY <1>0, <2>1 DEF EndScan, Outcome, Report, Scanning
  <2>3. \A t \in Scans \ {s} : Outcome(t)' = Outcome(t) /\ Report(t)' = Report(t)
    BY <1>0, <2>1, OthersReport DEF EndScan
  <2>4. Candidates' = Candidates
    BY <2>1 DEF EndScan, tableVars, Candidates
  <2>5. QED
    BY <2>1, <2>2, <2>3, <2>4 DEF Book!Fail, Book!Running
<1>6. CASE ServeRequests \/ UNCHANGED allVars
  <2>1. UNCHANGED <<scan, found, cases>>
    BY <1>6 DEF ServeRequests, scanVars, allVars
  <2>2. \A r \in Requests : operation[r] = "recovery_required" => operation'[r] = "recovery_required"
    BY StepsImplement, SettledKept DEF ScanInv, NoRow
  <2>3. \A r \in Candidates : operation[r] = "recovery_required"
    BY DEF Candidates, IndInv, TypeOK, Final, Successful
  <2>4. Candidates \subseteq Candidates'
    BY <2>2, <2>3 DEF Candidates, NoRow
  <2>5. QED
    BY <1>1, <2>1, <2>4
<1>7. CASE CrashAll
  <2> DEFINE stopped == {s \in Scans : Scanning(s)}
  <2>1. \A s \in Scans : /\ s \in stopped <=> Outcome(s) = "running"
                         /\ s \in stopped => Outcome(s)' = "failed" /\ Report(s)' = {}
                         /\ s \notin stopped => Outcome(s)' = Outcome(s) /\ Report(s)' = Report(s)
    BY <1>0, <1>7 DEF CrashAll, Outcome, Report, Scanning
  <2>2. Candidates' = Candidates /\ cases' = cases
    BY <1>7 DEF CrashAll, Crash, tableVars, Candidates
  <2> HIDE DEF stopped
  <2>3. stopped \subseteq Scans
    BY DEF stopped
  <2>4. Book!Fail(stopped) /\ stopped \subseteq Book!Running
    BY <2>1, <2>2, <2>3 DEF Book!Fail, Book!Running
  <2>5. QED
    BY <2>4 DEF Book!Next
<1>8. ASSUME NEW s \in Scans, StartScan(s) \/ ScanStep(s)
      PROVE  [Book!Next]_(Book!bookVars)
  BY <1>2, <1>3, <1>4, <1>5, <1>8 DEF ScanStep, Book!Next
<1>9. QED
  BY <1>6, <1>7, <1>8 DEF ScanNext

(* A scan finds all that wants recovery, and leaves a case for each or     *)
(* nothing at all, with any number of scans and requests beside it.        *)
THEOREM ScansImplementCaseBook == ScanSpec => ImplementsCaseBook
<1>1. IndInv /\ ScanInv /\ [ScanNext]_allVars => [Book!Next]_(Book!bookVars)
  BY BookStep
<1>2. QED
  BY <1>1, BookInit, ScanInductive, PTL DEF ScanSpec, ImplementsCaseBook, Book!Spec
=============================================================================
