---------------------------- MODULE ReadinessProofs ----------------------------
(***************************************************************************)
(* Theorems about Readiness.  A check is one more scan, so what            *)
(* RecoveryScanProofs shows of scans holds of it; an operation that wants  *)
(* recovery when a check begins is still there for its scan to find.       *)
(***************************************************************************)
EXTENDS Readiness, RecoveryScanProofs

(* A step of a check is a step of its scan, or invisible to it.            *)
LEMMA ChecksScan ==
  ASSUME [ReadinessNext]_readinessVars
  PROVE  [ScanNext]_allVars
<1>1. \A s \in Checks : s \in Scans
  BY ChecksOK
<1>2. ASSUME NEW s \in Checks, BeginCheck(s) \/ RefuseCheck(s) \/ Answer(s)
      PROVE  UNCHANGED allVars
  BY <1>2 DEF BeginCheck, RefuseCheck, Answer
<1>3. ASSUME NEW s \in Checks, CheckHardware(s) \/ ScanStep(s)
      PROVE  ScanNext
  BY <1>1, <1>3 DEF CheckHardware, ScanNext
<1>4. ScanElsewhere \/ ServeElsewhere \/ CrashChecks => ScanNext
  BY DEF ScanElsewhere, ServeElsewhere, CrashChecks, ScanNext
<1>5. UNCHANGED readinessVars => UNCHANGED allVars
  BY DEF readinessVars
<1> QED BY <1>2, <1>3, <1>4, <1>5 DEF ReadinessNext, CheckStep

(* Readiness checks are scans to the operations: what is proved of scans   *)
(* holds while any number of checks run.                                   *)
THEOREM ReadinessImplementsScans == ReadinessSpec => ImplementsScans
<1>1. ReadinessInit => ScanInit
  BY DEF ReadinessInit
<1>2. [ReadinessNext]_readinessVars => [ScanNext]_allVars
  BY ChecksScan
<1> QED BY <1>1, <1>2, PTL DEF ReadinessSpec, ImplementsScans, ScanSpec

(* What a step of a scan leaves alone, and how it moves the scan.          *)
LEMMA ScanStepFrame ==
  ASSUME NEW s \in Scans, StartScan(s) \/ ScanStep(s), ScanTypeOK
  PROVE  \A t \in Scans \ {s} : scan'[t] = scan[t] /\ found'[t] = found[t]
<1> USE DEF ScanTypeOK
<1>1. CASE StartScan(s) \/ ReuseCase(s) \/ MissCase(s) \/ OpenCase(s)
  BY <1>1 DEF StartScan, ReuseCase, MissCase, OpenCase
<1>2. CASE CaseLockExpires(s) \/ CommitScan(s) \/ CommitScanFails(s)
  BY <1>2 DEF CaseLockExpires, CommitScan, CommitScanFails, EndScan
<1> QED BY <1>1, <1>2 DEF ScanStep

(* A scan that goes on is one that was going on, with what it has found.   *)
LEMMA ScanGoesOn ==
  ASSUME NEW s \in Scans, ScanStep(s), ScanTypeOK
  PROVE  Scanning(s) /\ found' = found
<1>1. CASE ReuseCase(s) \/ MissCase(s) \/ OpenCase(s)
  BY <1>1 DEF ReuseCase, MissCase, OpenCase, Scanning
<1>2. CASE CaseLockExpires(s) \/ CommitScan(s) \/ CommitScanFails(s)
  BY <1>2 DEF CaseLockExpires, CommitScan, CommitScanFails, EndScan, Scanning
<1> QED BY <1>1, <1>2 DEF ScanStep

(* Where checks are and what they have answered.                           *)
LEMMA ReadinessStep ==
  ASSUME IndInv, ScanInv, ReadinessInv, [ReadinessNext]_readinessVars
  PROVE  ReadinessInv'
<1>0. /\ ReadinessTypeOK /\ AwaitingIsFound /\ AnswersAreDerived /\ ScanTypeOK
      /\ Checks \subseteq Scans
  BY ChecksOK DEF ReadinessInv, ScanInv
<1>1. Wants \subseteq Wants'
  <2>1. [Next]_vars
    BY <1>0, ChecksScan, StepsImplement
  <2> QED BY <2>1, SettledKept DEF Wants, NoRow
<1>2. Wants \subseteq Candidates /\ Wants \subseteq Requests /\ Wants' \subseteq Requests
  BY DEF Wants, Candidates, NoRow
<1> USE DEF ReadinessInv, ReadinessTypeOK, AwaitingIsFound, AnswersAreDerived, Scanning
<1>3. ASSUME NEW s \in Checks, BeginCheck(s) \/ RefuseCheck(s)
      PROVE  ReadinessInv'
  <2>1. UNCHANGED <<scan, found, impaired>>
    BY <1>3 DEF BeginCheck, RefuseCheck, allVars, scanVars
  <2> QED BY <1>0, <1>1, <1>2, <1>3, <2>1 DEF BeginCheck, RefuseCheck, Derive
<1>4. ASSUME NEW s \in Checks, CheckHardware(s)
      PROVE  ReadinessInv'
  <2>1. /\ found'[s] = Candidates
        /\ \A t \in Scans \ {s} : scan'[t] = scan[t] /\ found'[t] = found[t]
    BY <1>0, <1>4 DEF CheckHardware, StartScan, ScanTypeOK
  <2>2. /\ \A t \in Checks \ {s} : check'[t] = check[t] /\ impaired'[t] = impaired[t]
        /\ check'[s] = "recovery"
        /\ UNCHANGED <<answer, awaiting>>
        /\ answer[s] = "none"
        /\ check' \in [Checks -> {"idle", "hardware", "recovery"}]
        /\ impaired' \in [Checks -> BOOLEAN]
    BY <1>0, <1>4 DEF CheckHardware
  <2>3. ReadinessTypeOK'
    BY <1>0, <2>1, <2>2
  <2>4. AwaitingIsFound'
    BY <1>0, <1>1, <1>2, <2>1, <2>2
  <2>5. AnswersAreDerived'
    BY <1>0, <2>1, <2>2 DEF Derive
  <2> QED BY <2>3, <2>4, <2>5
<1>5. ASSUME NEW s \in Checks, check[s] = "recovery", ScanStep(s), UNCHANGED checkVars
      PROVE  ReadinessInv'
  <2>1. /\ found' = found
        /\ \A t \in Scans \ {s} : scan'[t] = scan[t]
    BY <1>0, <1>5, ScanStepFrame, ScanGoesOn
  <2>2. UNCHANGED <<check, impaired, answer, awaiting>>
    BY <1>5 DEF checkVars
  <2> QED BY <1>0, <1>1, <1>5, <2>1, <2>2 DEF Derive
<1>6. ASSUME NEW s \in Checks, Answer(s)
      PROVE  ReadinessInv'
  <2>1. UNCHANGED <<scan, found, impaired, awaiting>>
    BY <1>6 DEF Answer, allVars, scanVars
  <2>2. Derive(s) \in {"ready", "degraded"}
    BY DEF Derive
  <2>3. \A t \in Checks : Derive(t)' = Derive(t)
    BY <2>1 DEF Derive
  <2> QED BY <1>0, <1>1, <1>6, <2>1, <2>2, <2>3 DEF Answer
<1>7. ASSUME ScanElsewhere
      PROVE  ReadinessInv'
  <2> PICK s \in Scans \ Checks : StartScan(s) \/ ScanStep(s)
    BY <1>7 DEF ScanElsewhere
  <2>1. \A t \in Checks : scan'[t] = scan[t] /\ found'[t] = found[t]
    BY <1>0, ScanStepFrame
  <2>2. UNCHANGED <<check, impaired, answer, awaiting>>
    BY <1>7 DEF ScanElsewhere, checkVars
  <2> QED BY <1>0, <1>1, <2>1, <2>2 DEF Derive
<1>8. ASSUME ServeElsewhere \/ UNCHANGED readinessVars
      PROVE  ReadinessInv'
  <2>1. UNCHANGED <<scan, found, check, impaired, answer, awaiting>>
    BY <1>8 DEF ServeElsewhere, ServeRequests, readinessVars, allVars, scanVars, checkVars
  <2> QED BY <1>0, <1>1, <2>1 DEF Derive
<1>9. ASSUME CrashChecks
      PROVE  ReadinessInv'
  <2>1. /\ UNCHANGED <<found, impaired, answer, awaiting>>
        /\ check' = [s \in Checks |-> "idle"]
        /\ scan' = [s \in Scans |-> IF Scanning(s) THEN "killed" ELSE scan[s]]
    BY <1>9 DEF CrashChecks, CrashAll
  <2>2. \A s \in Checks : ~ Scanning(s)'
    BY <1>0, <2>1
  <2> QED BY <1>0, <1>1, <2>1, <2>2 DEF Derive
<1> QED
  BY <1>3, <1>4, <1>5, <1>6, <1>7, <1>8, <1>9 DEF ReadinessNext, CheckStep

(* The strengthening behind the theorems about readiness.                  *)
THEOREM ReadinessInductive == ReadinessSpec => []ReadinessInv
<1>1. ReadinessInit => ReadinessInv
  <2> SUFFICES ASSUME ReadinessInit PROVE ReadinessInv
    OBVIOUS
  <2>1. \A s \in Checks : ~ Scanning(s)
    BY ChecksOK DEF ReadinessInit, ScanInit, Scanning
  <2> QED BY <2>1 DEF ReadinessInit, ReadinessInv, ReadinessTypeOK, AwaitingIsFound,
                      AnswersAreDerived
<1>2. IndInv /\ ScanInv /\ ReadinessInv /\ [ReadinessNext]_readinessVars => ReadinessInv'
  BY ReadinessStep
<1>3. ReadinessSpec => [](IndInv /\ ScanInv)
  BY ReadinessImplementsScans, ScanInductive DEF ImplementsScans
<1> QED BY <1>1, <1>2, <1>3, PTL DEF ReadinessSpec

(* A check has the scan of its stage.                                      *)
THEOREM ReadinessTypeCorrect == ReadinessSpec => []ReadinessTypeOK
<1>1. ReadinessInv => ReadinessTypeOK
  BY DEF ReadinessInv
<1> QED BY <1>1, ReadinessInductive, PTL

(* Ready is said of a machine on which nothing waited for recovery.        *)
THEOREM ReadyMeansReady == ReadinessSpec => []ReadyIsTrue
<1>1. ReadinessInv => ReadyIsTrue
  BY DEF ReadinessInv, ReadyIsTrue, AwaitingIsFound, AnswersAreDerived, Derive
<1> QED BY <1>1, ReadinessInductive, PTL

(* Degraded always comes with a device or with open cases to look at.      *)
THEOREM DegradedMeansCases == ReadinessSpec => []DegradedIsExplained
<1>1. ReadinessInv /\ CandidatesHaveCases => DegradedIsExplained
  BY ChecksOK DEF ReadinessInv, DegradedIsExplained, AnswersAreDerived, Derive, CandidatesHaveCases
<1>2. ReadinessSpec => []CandidatesHaveCases
  BY ReadinessImplementsScans, ScanIsComplete DEF ImplementsScans
<1> QED BY <1>1, <1>2, ReadinessInductive, PTL
=============================================================================
