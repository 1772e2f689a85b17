--------------------------- MODULE ServiceModeProofs ---------------------------
(***************************************************************************)
(* Theorems about ServiceMode, for any calls, requests, sessions, stock    *)
(* and faults: what is proved of the operations stays true next to service *)
(* mode, the events explain the sessions, and nothing but a drum test or a *)
(* lost move explains a pulse that misses its slot.                        *)
(***************************************************************************)
EXTENDS ServiceMode, HistoryProofs, FiniteSetTheorems

(* A service call touches the drum and the session rows, nothing else of   *)
(* the operations, unless it leaves the write lock taken.                  *)
LEMMA ServiceTouches ==
  ASSUME ConstantsOK, ServiceOK, IndInv, NEW c \in ServiceCalls, ServiceStep(c), ~ OutsideBegins
  PROVE  /\ UNCHANGED <<requestVars, writer, opened, errored>>
         /\ UNCHANGED <<operation, history, balance, ledger>>
         /\ drum' \in Nat /\ lateMove' \in Nat \cup {NoPosition}
         /\ session' \in [Sessions -> SessionRow]
<1> USE DEF vars, physicalVars, tableVars
<1>0. /\ drum \in Nat /\ lateMove \in Nat \cup {NoPosition}
      /\ session \in [Sessions -> SessionRow]
      /\ ServiceCommand[c] \in ServiceRequest
  BY DEF IndInv, TypeOK, ServiceOK
<1>1. CASE \/ RejectCaller(c) \/ LoadSession(c) \/ RecordDiagnostic(c) \/ RejectArgument(c)
           \/ ServiceWaitExpires(c) \/ EventNamesNoRow(c) \/ ServiceCommitFails(c)
           \/ ContainerRefuses(c)
  <2>1. UNCHANGED vars
    BY <1>1 DEF RejectCaller, LoadSession, RecordDiagnostic, RejectArgument,
                ServiceWaitExpires, EventNamesNoRow, ServiceCommitFails, ContainerRefuses
  <2> QED BY <1>0, <2>1
<1>2. CASE EnterServiceMode(c)
  <2>1. [kind |-> "service", status |-> "active"] \in SessionRow
    BY DEF SessionRow
  <2> QED BY <1>0, <1>2, <2>1 DEF EnterServiceMode
<1>3. CASE ExitServiceMode(c)
  <2>1. \A row \in SessionRow : [row EXCEPT !.status = "completed"] \in SessionRow
    BY DEF SessionRow
  <2> QED BY <1>0, <1>3, <2>1 DEF ExitServiceMode
<1>4. CASE TestDrum(c)
  <2>1. ServiceCommand[c].position \in Nat
    BY <1>0, <1>4 DEF ServiceRequest, TestDrum
  <2> QED BY <1>0, <1>4, <2>1 DEF TestDrum, Command, MoveIsLost
<1>5. CASE TestDevice(c)
  BY <1>0, <1>5 DEF TestDevice, Command
<1> QED BY <1>1, <1>2, <1>3, <1>4, <1>5 DEF ServiceStep

(* The invariant of the operations says nothing of the session rows but    *)
(* their type.                                                             *)
LEMMA ServiceKeepsIndInv ==
  ASSUME IndInv,
         UNCHANGED <<requestVars, writer, opened, errored>>,
         UNCHANGED <<operation, history, balance, ledger>>,
         drum' \in Nat, lateMove' \in Nat \cup {NoPosition},
         session' \in [Sessions -> SessionRow]
  PROVE  IndInv'
<1> USE DEF requestVars
<1>1. TypeOK'
  BY DEF IndInv, TypeOK
<1>2. OneOperationAtTheMachine' /\ RequestPrepared' /\ SettledIffCommitted'
  BY DEF IndInv, OneOperationAtTheMachine, RequestPrepared, SettledIffCommitted
<1>3. StateFitsType' /\ PulseFitsState'
  BY DEF IndInv, StateFitsType, PulseFitsState
<1>4. FlushedWriteIsCurrent'
  BY DEF IndInv, FlushedWriteIsCurrent, Stock, Cell, QuantityAfter
<1>5. StockIsNatural' /\ StockNeverNegative' /\ LedgerExplainsBalance'
  BY DEF IndInv, StockIsNatural, StockNeverNegative, LedgerExplainsBalance
<1>6. DispensesHadStock' /\ DoorsAreAccountedFor' /\ ErrorsAreClassified'
  <2>1. DispensesHadStock'
    BY DEF IndInv, DispensesHadStock, Cell
  <2>2. DoorsAreAccountedFor'
    BY DEF IndInv, DoorsAreAccountedFor, StockMovesThroughOpenedSlot, LostDoorsHaveACause, LeftNoRow, Cell
  <2>3. ErrorsAreClassified'
    BY DEF IndInv, ErrorsAreClassified, LeftNoRow
  <2> QED BY <2>1, <2>2, <2>3
<1>7. MovedOnceIffSuccessful'
  <2>1. MovementsAreSuccessful'
    BY DEF IndInv, MovedOnceIffSuccessful, MovementsAreSuccessful, Cell, QuantityAfter
  <2>2. SuccessesAreInLedger'
    BY DEF IndInv, MovedOnceIffSuccessful, SuccessesAreInLedger, Cell
  <2> QED BY <2>1, <2>2 DEF MovedOnceIffSuccessful
<1> QED BY <1>1, <1>2, <1>3, <1>4, <1>5, <1>6, <1>7 DEF IndInv

(* A step is a service call's, one of the operations, or none.  A call     *)
(* that leaves the write lock taken is an outside writer to them.          *)
LEMMA StepsAreTwoKinds ==
  ASSUME [ServiceNext]_systemVars
  PROVE  \/ [Next]_vars
         \/ \E c \in ServiceCalls : ServiceStep(c) /\ ~ OutsideBegins
BY DEF ServiceNext, ServeOperations, CrashService, Next, systemVars

(* Whatever the step, the invariant of the operations is kept.             *)
LEMMA NextKeepsIndInv ==
  ASSUME ConstantsOK, ServiceOK, IndInv, [ServiceNext]_systemVars
  PROVE  IndInv'
<1>1. CASE [Next]_vars
  BY <1>1, NextIndInv
<1>2. CASE \E c \in ServiceCalls : ServiceStep(c) /\ ~ OutsideBegins
  BY <1>2, ServiceTouches, ServiceKeepsIndInv
<1> QED BY <1>1, <1>2, StepsAreTwoKinds

(* The inductive invariant of Operations holds next to service mode.       *)
THEOREM OperationsNextToService == ServiceSpec => []IndInv
<1>1. ServiceInit => IndInv
  BY InitIndInv, ConstantsOK DEF ServiceInit
<1>2. IndInv /\ [ServiceNext]_systemVars => IndInv'
  BY NextKeepsIndInv, ConstantsOK, ServiceOK
<1> QED BY <1>1, <1>2, PTL DEF ServiceSpec

(* The histories, too: a service call writes none and leaves the requests' *)
(* trails alone.                                                           *)
THEOREM HistoryNextToService == ServiceSpec => []HistoryExplainsState
<1> DEFINE Inv == TrailInv /\ HistoryExplainsState
<1>1. ServiceInit => Inv
  BY DEF ServiceInit, Init, TrailInv, HistoryExplainsState
<1>2. IndInv /\ Inv /\ [ServiceNext]_systemVars => Inv'
  <2> SUFFICES ASSUME IndInv, Inv, [ServiceNext]_systemVars PROVE Inv'
    OBVIOUS
  <2>1. CASE [Next]_vars
    BY <2>1, NextTrail
  <2>2. CASE \E c \in ServiceCalls : ServiceStep(c) /\ ~ OutsideBegins
    <3>1. UNCHANGED <<request, phase, trail, state, operation, history>>
      BY <2>2, ConstantsOK, ServiceOK, ServiceTouches DEF requestVars
    <3> QED BY <3>1, TrailFrame
  <2> QED BY <2>1, <2>2, StepsAreTwoKinds
<1>3. Inv => HistoryExplainsState
  OBVIOUS
<1> QED BY <1>1, <1>2, <1>3, OperationsNextToService, PTL DEF ServiceSpec

(* Settled operations, their histories and their movements stay as they    *)
(* are next to service mode.                                               *)
THEOREM SettledNextToService ==
  ServiceSpec =>
    [][/\ \A r \in Requests : operation[r] # NoRow => UNCHANGED <<operation[r], history[r]>>
       /\ \A c \in Cells : Extends(ledger[c], ledger'[c])]_systemVars
<1> DEFINE Kept ==
      /\ \A r \in Requests : operation[r] # NoRow => UNCHANGED <<operation[r], history[r]>>
      /\ \A c \in Cells : Extends(ledger[c], ledger'[c])
<1>1. IndInv /\ [ServiceNext]_systemVars => Kept
  <2> SUFFICES ASSUME IndInv, [ServiceNext]_systemVars PROVE Kept
    OBVIOUS
  <2>1. CASE [Next]_vars
    BY <2>1, SettledKept, LedgerGrows
  <2>2. CASE \E c \in ServiceCalls : ServiceStep(c) /\ ~ OutsideBegins
    <3>1. UNCHANGED <<operation, history, ledger>>
      BY <2>2, ConstantsOK, ServiceOK, ServiceTouches
    <3>2. ASSUME NEW c \in Cells PROVE Extends(ledger[c], ledger[c])
      <4>1. ledger[c] \in Seq(Movement)
        BY DEF IndInv, TypeOK
      <4>2. SubSeq(ledger[c], 1, Len(ledger[c])) = ledger[c]
        BY <4>1, SubSeqFull
      <4> QED BY <4>1, <4>2, LenProperties DEF Extends
    <3> QED BY <3>1, <3>2
  <2> QED BY <2>1, <2>2, StepsAreTwoKinds
<1>2. IndInv /\ [ServiceNext]_systemVars => [Kept]_systemVars
  BY <1>1
<1> QED BY <1>2, OperationsNextToService, PTL DEF ServiceSpec

(* Service mode leaves the stock to the operations: with it next to them   *)
(* the tables still behave as InventoryLedger.                             *)
THEOREM ServiceImplementsLedger == ServiceSpec => ServiceKeepsInventory
<1>1. ServiceInit => Inventory!Init
  BY DEF ServiceInit, Init, Inventory!Init, NoRow, Inventory!NoRow, Cells, Inventory!Cells,
            Stock, InitialStock
<1>2. IndInv /\ [ServiceNext]_systemVars => [Inventory!Next]_(Inventory!tables)
  <2> SUFFICES ASSUME IndInv, [ServiceNext]_systemVars
               PROVE  Inventory!Next \/ UNCHANGED Inventory!tables
    OBVIOUS
  <2>1. CASE \E c \in ServiceCalls : ServiceStep(c) /\ ~ OutsideBegins
    BY <2>1, ConstantsOK, ServiceOK, ServiceTouches DEF requestVars, Inventory!tables, Stock
  <2>2. CASE [Next]_vars
    <3>1. CASE \E r \in Requests : Commit(r)
      <4> PICK r \in Requests : Commit(r)
        BY <3>1
      <4> QED BY SuccessIsMove, FailureIsFail DEF Inventory!Next
    <3>2. CASE ~ \E r \in Requests : Commit(r)
      BY <2>2, <3>2, OtherStepsStutter DEF Inventory!tables, tableVars, Stock
    <3> QED BY <3>1, <3>2
  <2> QED BY <2>1, <2>2, StepsAreTwoKinds
<1> QED
  BY <1>1, <1>2, OperationsNextToService, PTL
     DEF ServiceSpec, Inventory!Spec, ImplementsInventoryLedger, ServiceKeepsInventory

-----------------------------------------------------------------------------
(* Events explain sessions.                                                *)

Explained == NoTraceWithoutRow /\ EventsExplainSessions

(* Steps that change neither the session rows nor what speaks of them.     *)
LEMMA ExplainedFrame ==
  ASSUME Explained, UNCHANGED session,
         \A s \in Sessions : UNCHANGED <<Entered(s), Exited(s), RefilledIn(s)>>
  PROVE  Explained'
BY DEF Explained, NoTraceWithoutRow, EventsExplainSessions

(* What a request that has settled worked in does not change, and what it  *)
(* settled as is for a commit to say.                                      *)
LEMMA RefilledInKept ==
  ASSUME IndInv, [Next]_vars, ~ \E r \in Requests : Commit(r), NEW s \in Sessions
  PROVE  RefilledIn(s)' = RefilledIn(s)
<1>1. UNCHANGED operation
  BY OtherStepsStutter DEF tableVars
<1>2. \A r \in Requests : operation[r] # NoRow => sid'[r] = sid[r]
  <2> SUFFICES ASSUME NEW r \in Requests, operation[r] # NoRow
               PROVE  sid'[r] = sid[r]
    OBVIOUS
  <2>0. phase[r] = "ok"
    BY DEF IndInv, SettledIffCommitted
  <2>1. CASE \E x \in Requests : Serve(x)
    <3> PICK x \in Requests : Serve(x)
      BY <2>1
    <3>1. CASE CreateOperation(x)
      BY <2>0, <3>1 DEF CreateOperation, IndInv, TypeOK
    <3>2. CASE ValidateRequest(x) \/ RejectRequest(x) \/ LockWaitExpires(x)
      BY <3>2 DEF ValidateRequest, RejectRequest, LockWaitExpires
    <3>3. CASE MoveDrum(x) \/ UnlockSlot(x) \/ ApplyInventory(x)
      BY <3>3 DEF MoveDrum, UnlockSlot, ApplyInventory
    <3>4. CASE MoveFails(x) \/ UnlockFails(x)
      BY <3>4 DEF MoveFails, UnlockFails, HandleHardwareError, FileHardwareError,
                  LoseHardwareError, Discard
    <3>5. CASE RefuseInventory(x) \/ CommitFails(x)
      BY <3>5 DEF RefuseInventory, CommitFails, Discard
    <3> QED BY <3>1, <3>2, <3>3, <3>4, <3>5 DEF Serve
  <2>2. CASE OutsideBegins \/ OutsideEnds \/ DrumMovesLate
    BY <2>2 DEF OutsideBegins, OutsideEnds, DrumMovesLate, requestVars
  <2>3. CASE Crash
    BY <2>3 DEF Crash
  <2>4. CASE UNCHANGED vars
    BY <2>4 DEF vars, requestVars
  <2> QED BY <2>1, <2>2, <2>3, <2>4 DEF Next
<1> QED BY <1>1, <1>2 DEF RefilledIn, NoRow

(* A refill completes the session it worked in, and says so.               *)
LEMMA CommitExplains ==
  ASSUME ConstantsOK, IndInv, Explained, NEW r \in Requests, Commit(r), UNCHANGED serviceVars
  PROVE  Explained'
<1> USE DEF Commit, serviceVars
<1>1. \A s \in Sessions : UNCHANGED <<Entered(s), Exited(s)>>
  BY DEF Entered, Exited
<1>2. operation[r] = NoRow /\ operation \in [Requests -> Final \cup {NoRow}]
  BY DEF IndInv, SettledIffCommitted, TypeOK
<1>3. CASE state[r] # "session_completed"
  <2>1. \A s \in Sessions : RefilledIn(s)' = RefilledIn(s)
    BY <1>2, <1>3 DEF RefilledIn, NoRow
  <2> QED BY <1>1, <1>3, <2>1, ExplainedFrame
<1>4. CASE state[r] = "session_completed"
  <2>1. sid[r] \in Sessions
    BY <1>4 DEF IndInv, RequestPrepared, StateFitsType
  <2>2. \A s \in Sessions : RefilledIn(s)' =
          IF s = sid[r] THEN RefilledIn(s) \cup {r} ELSE RefilledIn(s)
    BY <1>2, <1>4 DEF RefilledIn, NoRow
  <2>3. session \in [Sessions -> SessionRow]
    BY DEF IndInv, TypeOK
  <2>4. /\ session'[sid[r]] = SavedSession(r)
        /\ \A s \in Sessions : s # sid[r] => session'[s] = session[s]
    BY <1>4, <2>1, <2>3
  <2>5. SavedSession(r).status = "completed" /\ SavedSession(r) # NoSessionRow
    BY DEF SavedSession, NoSessionRow, NoRow
  <2>6. NoTraceWithoutRow'
    BY <1>1, <2>2, <2>4, <2>5 DEF Explained, NoTraceWithoutRow
  <2>7. ASSUME NEW s \in Sessions, InitialSession[s] = NoSessionRow
        PROVE  session'[s].kind = "service" <=> Entered(s)' # {}
    <3>1. CASE s # sid[r]
      BY <1>1, <2>4, <2>7, <3>1 DEF Explained, EventsExplainSessions
    <3>2. CASE s = sid[r] /\ session[s] # NoSessionRow
      <4>1. session'[s].kind = session[s].kind
        BY <2>4, <3>2 DEF SavedSession
      <4>2. session[s].kind = "service" <=> Entered(s) # {}
        BY <2>7 DEF Explained, EventsExplainSessions
      <4> QED BY <1>1, <4>1, <4>2
    <3>3. CASE s = sid[r] /\ session[s] = NoSessionRow
      <4>1. Entered(s) = {}
        BY <3>3 DEF Explained, NoTraceWithoutRow
      <4> QED BY <1>1, <2>4, <3>3, <4>1 DEF SavedSession
    <3> QED BY <3>1, <3>2, <3>3
  <2>8. ASSUME NEW s \in Sessions
        PROVE  /\ Cardinality(Entered(s)') <= 1
               /\ session'[s].status = "completed" =>
                    \/ InitialSession[s].status = "completed"
                    \/ Exited(s)' # {} \/ RefilledIn(s)' # {}
               /\ session'[s].status = "active" => Exited(s)' = {} /\ RefilledIn(s)' = {}
    <3>1. CASE s # sid[r]
      BY <1>1, <2>2, <2>4, <3>1 DEF Explained, EventsExplainSessions
    <3>2. CASE s = sid[r]
      BY <1>1, <2>2, <2>4, <2>5, <3>2 DEF Explained, EventsExplainSessions
    <3> QED BY <3>1, <3>2
  <2>9. EventsExplainSessions'
    BY <2>7, <2>8 DEF EventsExplainSessions
  <2> QED BY <2>6, <2>9 DEF Explained
<1> QED BY <1>3, <1>4

(* Entering takes an id nobody has used.                                   *)
LEMMA EnterExplains ==
  ASSUME ConstantsOK, IndInv, Explained, NEW c \in ServiceCalls, EnterServiceMode(c)
  PROVE  Explained'
<1> USE DEF EnterServiceMode
<1>1. PICK k \in Sessions :
        /\ session[k] = NoSessionRow
        /\ session' = [session EXCEPT ![k] = [kind |-> "service", status |-> "active"]]
        /\ events' = events \cup {<<c, k>>}
  OBVIOUS
<1>2. \A s \in Sessions : UNCHANGED <<Exited(s), RefilledIn(s)>>
  BY <1>1 DEF Exited, RefilledIn, Asks, requestVars
<1>3. \A s \in Sessions : Entered(s)' = IF s = k THEN Entered(s) \cup {c} ELSE Entered(s)
  BY <1>1 DEF Entered, Asks
<1>4. /\ session'[k].kind = "service" /\ session'[k].status = "active"
      /\ session'[k] # NoSessionRow
      /\ \A s \in Sessions : s # k => session'[s] = session[s]
  BY <1>1 DEF IndInv, TypeOK, NoSessionRow, NoRow
<1>5. Entered(k) = {} /\ Exited(k) = {} /\ RefilledIn(k) = {}
  BY <1>1 DEF Explained, NoTraceWithoutRow
<1>6. NoTraceWithoutRow'
  BY <1>2, <1>3, <1>4 DEF Explained, NoTraceWithoutRow
<1>7. Cardinality(Entered(k)') <= 1
  <2>1. Entered(k)' = {c}
    BY <1>3, <1>5
  <2>2. Cardinality({c}) = 1
    BY FS_Singleton
  <2>3. Cardinality(Entered(k)') = 1
    BY ONLY <2>1, <2>2
  <2> QED BY ONLY <2>3
<1>8. EventsExplainSessions'
  <2> SUFFICES ASSUME NEW s \in Sessions
               PROVE  /\ Cardinality(Entered(s)') <= 1
                      /\ InitialSession[s] = NoSessionRow =>
                           (session'[s].kind = "service" <=> Entered(s)' # {})
                      /\ session'[s].status = "completed" =>
                           \/ InitialSession[s].status = "completed"
                           \/ Exited(s)' # {} \/ RefilledIn(s)' # {}
                      /\ session'[s].status = "active" => Exited(s)' = {} /\ RefilledIn(s)' = {}
    BY DEF EventsExplainSessions
  <2>1. CASE s # k
    BY <1>2, <1>3, <1>4, <2>1 DEF Explained, EventsExplainSessions
  <2>2. CASE s = k
    <3>1. Entered(s)' # {}
      BY <1>3, <2>2
    <3> QED BY <1>2, <1>4, <1>5, <1>7, <2>2, <3>1
  <2> QED BY <2>1, <2>2
<1> QED BY <1>6, <1>8 DEF Explained

(* Exiting completes a row that is there.                                  *)
LEMMA ExitExplains ==
  ASSUME ConstantsOK, ServiceOK, IndInv, ServiceTypeOK, StageFitsKind, Explained,
         NEW c \in ServiceCalls, ExitServiceMode(c)
  PROVE  Explained'
<1> USE DEF ExitServiceMode
<1> DEFINE k == Target(c)
<1>1. Asks(c, "exit") /\ k \in Sessions /\ session[k] # NoSessionRow
  BY DEF StageFitsKind, ServiceOK, ServiceTypeOK, Asks, Target
<1>2. \A s \in Sessions : UNCHANGED <<Entered(s), RefilledIn(s)>>
  BY <1>1 DEF Entered, RefilledIn, Asks, requestVars
<1>3. \A s \in Sessions : Exited(s)' = IF s = k THEN Exited(s) \cup {c} ELSE Exited(s)
  BY <1>1 DEF Exited, Asks
<1>4. /\ session'[k].kind = session[k].kind /\ session'[k].status = "completed"
      /\ session'[k] # NoSessionRow
      /\ \A s \in Sessions : s # k => session'[s] = session[s]
  <2>1. session[k] \in SessionRow /\ session \in [Sessions -> SessionRow]
    BY <1>1 DEF IndInv, TypeOK
  <2>2. session'[k] = [session[k] EXCEPT !.status = "completed"]
    BY <1>1, <2>1
  <2> QED BY <1>1, <2>1, <2>2 DEF SessionRow, NoSessionRow, NoRow
<1> HIDE DEF k
<1>5. NoTraceWithoutRow'
  BY <1>2, <1>3, <1>4 DEF Explained, NoTraceWithoutRow
<1>6. EventsExplainSessions'
  <2> SUFFICES ASSUME NEW s \in Sessions
               PROVE  /\ Cardinality(Entered(s)') <= 1
                      /\ InitialSession[s] = NoSessionRow =>
                           (session'[s].kind = "service" <=> Entered(s)' # {})
                      /\ session'[s].status = "completed" =>
                           \/ InitialSession[s].status = "completed"
                           \/ Exited(s)' # {} \/ RefilledIn(s)' # {}
                      /\ session'[s].status = "active" => Exited(s)' = {} /\ RefilledIn(s)' = {}
    BY DEF EventsExplainSessions
  <2>1. CASE s # k
    <3>1. UNCHANGED <<session[s], Entered(s), Exited(s), RefilledIn(s)>>
      BY <1>2, <1>3, <1>4, <2>1
    <3> QED BY <3>1 DEF Explained, EventsExplainSessions
  <2>2. CASE s = k
    BY <1>2, <1>3, <1>4, <2>2 DEF Explained, EventsExplainSessions
  <2> QED BY <2>1, <2>2
<1> QED BY <1>5, <1>6 DEF Explained

(* Every other step of a service call writes an event that names no        *)
(* session, or none.                                                       *)
LEMMA OtherCallsExplain ==
  ASSUME ServiceTypeOK, StageFitsKind, Explained, NEW c \in ServiceCalls, ServiceStep(c),
         ~ EnterServiceMode(c), ~ ExitServiceMode(c)
  PROVE  Explained'
<1> USE DEF vars, requestVars, tableVars
<1>1. CASE RecordDiagnostic(c)
  <2>1. ~ Asks(c, "enter") /\ ~ Asks(c, "exit")
    BY <1>1 DEF RecordDiagnostic, StageFitsKind, IsDiagnostic, Asks
  <2>2. \A s \in Sessions : UNCHANGED <<Entered(s), Exited(s)>>
    BY <1>1, <2>1 DEF RecordDiagnostic, Entered, Exited, Asks
  <2>3. UNCHANGED <<operation, sid, session>>
    BY <1>1 DEF RecordDiagnostic
  <2> QED BY <2>2, <2>3, ExplainedFrame DEF RefilledIn
<1>2. CASE ~ RecordDiagnostic(c)
  <2>1. UNCHANGED <<operation, sid, session, events>>
    BY <1>2 DEF ServiceStep, RejectCaller, LoadSession, RejectArgument, TestDrum, TestDevice,
                Command, ServiceWaitExpires, EventNamesNoRow, ServiceCommitFails,
                ContainerRefuses, OutsideBegins
  <2> QED BY <2>1, ExplainedFrame DEF Entered, Exited, RefilledIn
<1> QED BY <1>1, <1>2

-----------------------------------------------------------------------------
(* The steps of the calls.                                                 *)

CallsOK == ServiceTypeOK /\ StageFitsKind /\ ContainerWasLeft /\ TracesAreAccountedFor

(* Only entering and exiting touch the session rows.                       *)
LEMMA OtherCallsKeepSessions ==
  ASSUME NEW c \in ServiceCalls, ServiceStep(c), ~ EnterServiceMode(c), ~ ExitServiceMode(c)
  PROVE  UNCHANGED session
BY DEF ServiceStep, RejectCaller, LoadSession, RejectArgument, TestDrum, TestDevice, Command,
       RecordDiagnostic, ServiceWaitExpires, EventNamesNoRow, ServiceCommitFails,
       ContainerRefuses, OutsideBegins, vars, tableVars

(* Session rows are never deleted.                                         *)
LEMMA RowsStay ==
  ASSUME IndInv, [ServiceNext]_systemVars, NEW s \in Sessions, session[s] # NoSessionRow
  PROVE  session'[s] # NoSessionRow
<1>0. session \in [Sessions -> SessionRow]
  BY DEF IndInv, TypeOK
<1>1. CASE \E c \in ServiceCalls : ServiceStep(c) /\ ~ OutsideBegins
  <2> PICK c \in ServiceCalls : ServiceStep(c) /\ ~ OutsideBegins
    BY <1>1
  <2>1. CASE EnterServiceMode(c)
    BY <1>0, <2>1 DEF EnterServiceMode
  <2>2. CASE ExitServiceMode(c)
    <3>1. PICK k : session' = [session EXCEPT ![k].status = "completed"]
      BY <2>2 DEF ExitServiceMode
    <3>2. CASE s = k
      <4>1. session'[s] = [session[s] EXCEPT !.status = "completed"]
        BY <1>0, <3>1, <3>2
      <4>2. session'[s].status = "completed"
        BY <1>0, <4>1 DEF SessionRow
      <4> QED BY <4>2 DEF NoSessionRow, NoRow
    <3> QED BY <1>0, <3>1, <3>2
  <2>3. CASE ~ EnterServiceMode(c) /\ ~ ExitServiceMode(c)
    BY <2>3, OtherCallsKeepSessions
  <2> QED BY <2>1, <2>2, <2>3
<1>2. CASE [Next]_vars /\ \E r \in Requests : Commit(r)
  <2> PICK r \in Requests : Commit(r)
    BY <1>2
  <2>1. SavedSession(r) # NoSessionRow
    BY DEF SavedSession, NoSessionRow, NoRow
  <2> QED BY <1>0, <2>1 DEF Commit
<1>3. CASE [Next]_vars /\ ~ \E r \in Requests : Commit(r)
  BY <1>3, OtherStepsStutter DEF tableVars
<1> QED BY <1>1, <1>2, <1>3, StepsAreTwoKinds

(* So an event that names a row goes on doing so.                          *)
LEMMA NamesStay ==
  ASSUME ServiceOK,
         \A s \in Sessions : session[s] # NoSessionRow => session'[s] # NoSessionRow
  PROVE  \A c \in ServiceCalls : NamesRow(c) => NamesRow(c)'
<1>1. \A c \in ServiceCalls : Target(c) = NoSession \/ Target(c) \in Sessions
  BY DEF ServiceOK, ServiceRequest, Target
<1> QED BY <1>1 DEF NamesRow, Target

(* What a call leaves behind when it moves on: enough for the others.      *)
LEMMA CallMoves ==
  ASSUME ServiceOK, CallsOK, NEW c \in ServiceCalls, stage[c] \in Pending,
         NEW answer \in Over \cup {"loaded", "acted"}, Ends(c, answer),
         \A s \in Sessions : session[s] # NoSessionRow => session'[s] # NoSessionRow,
         container' \in ContainerStates, container' = "holding" => writer' = Outside,
         container' # "usable" =>
           container # "usable" \/ (IsDiagnostic(c) /\ answer \in RootErrors),
         outcome' \in [ServiceCalls -> {"none", "success", "failure"}],
         \A d \in ServiceCalls \ {c} : outcome'[d] = outcome[d],
         outcome'[c] # "none" => IsDiagnostic(c),
         answer = "acted" => IsDiagnostic(c) /\ outcome'[c] # "none",
         answer = "loaded" => Asks(c, "exit") /\ session'[Target(c)] # NoSessionRow,
         events \subseteq events',
         \A e \in events' : e \in events \/ (e[1] = c /\ answer = "done"),
         IsDiagnostic(c) /\ answer = "done" => <<c, outcome'[c]>> \in events' /\ NamesRow(c)',
         IsDiagnostic(c) /\ answer = "pending_rollback_error" => container # "usable"
  PROVE  CallsOK'
<1> USE DEF CallsOK, IsDiagnostic, Asks
<1>1. stage \in [ServiceCalls -> Pending \cup Over]
  BY DEF ServiceTypeOK
<1>2. stage'[c] = answer /\ \A d \in ServiceCalls \ {c} : stage'[d] = stage[d]
  BY <1>1 DEF Ends
<1>3. \A d \in ServiceCalls : NamesRow(d) => NamesRow(d)'
  BY NamesStay
<1>4. stage[c] \notin Over
  BY DEF Pending, Over, RootErrors
<1>5. ServiceTypeOK'
  <2>1. stage' \in [ServiceCalls -> Pending \cup Over]
    BY <1>1 DEF Ends, Pending
  <2>2. \A e \in events' : e[1] \in ServiceCalls /\ stage'[e[1]] = "done"
    BY <1>2, <1>4 DEF ServiceTypeOK, Over
  <2>3. ASSUME NEW d \in ServiceCalls
        PROVE  stage'[d] = "acted" => outcome'[d] # "none"
    BY <1>2, <2>3 DEF ServiceTypeOK
  <2>4. ASSUME NEW d \in ServiceCalls, stage'[d] = "loaded"
        PROVE  session'[Target(d)] # NoSessionRow
    <3>1. CASE d = c
      BY <1>2, <2>4, <3>1 DEF Target
    <3>2. CASE d # c
      <4>1. stage[d] = "loaded" /\ ServiceCommand[d].kind = "exit"
        BY <1>2, <2>4, <3>2 DEF StageFitsKind
      <4>2. Target(d) \in Sessions /\ session[Target(d)] # NoSessionRow
        BY <4>1 DEF ServiceTypeOK, ServiceOK, Target
      <4> QED BY <4>2
    <3> QED BY <3>1, <3>2
  <2> QED BY <2>1, <2>2, <2>3, <2>4 DEF ServiceTypeOK, Target
<1>6. StageFitsKind'
  BY <1>2, <1>4 DEF StageFitsKind, Over
<1>7. ContainerWasLeft'
  BY <1>2, <1>4 DEF ContainerWasLeft, Over
<1>8. TracesAreAccountedFor'
  <2>1. ASSUME NEW d \in ServiceCalls, IsDiagnostic(d), stage'[d] = "done"
        PROVE  <<d, outcome'[d]>> \in events' /\ NamesRow(d)'
    BY <1>2, <1>3, <2>1 DEF TracesAreAccountedFor
  <2>2. ASSUME NEW d \in ServiceCalls, IsDiagnostic(d), stage'[d] = "pending_rollback_error"
        PROVE  \E x \in ServiceCalls : IsDiagnostic(x) /\ stage[x] \in RootErrors
    BY <1>2, <2>2 DEF TracesAreAccountedFor, ContainerWasLeft
  <2>3. \A x \in ServiceCalls : stage[x] \in RootErrors => stage'[x] = stage[x]
    BY <1>2, <1>4 DEF Over
  <2> QED BY <2>1, <2>2, <2>3 DEF TracesAreAccountedFor
<1> QED BY <1>5, <1>6, <1>7, <1>8

(* A write that fails ends the call, with an error and nothing written.    *)
LEMMA WritesThatFail ==
  ASSUME NEW c \in ServiceCalls,
         \/ ServiceWaitExpires(c) \/ EventNamesNoRow(c) \/ ServiceCommitFails(c)
         \/ ContainerRefuses(c)
  PROVE  \E answer \in RootErrors \cup {"pending_rollback_error"} :
           /\ Ends(c, answer) /\ stage[c] \in {"idle", "loaded", "acted"}
           /\ answer = "pending_rollback_error" => container # "usable"
           /\ UNCHANGED <<outcome, events>>
           /\ \/ UNCHANGED <<container, writer>>
              \/ /\ stage[c] = "acted" /\ answer \in RootErrors
                 /\ container' = "invalid" \/ (container' = "holding" /\ writer' = Outside)
<1>1. CASE ServiceWaitExpires(c)
  BY <1>1 DEF ServiceWaitExpires, RequestWrites, ContainerWrites, RootErrors, vars
<1>2. CASE EventNamesNoRow(c)
  BY <1>2 DEF EventNamesNoRow, ContainerWrites, RootErrors
<1>3. CASE ServiceCommitFails(c)
  <2>1. Ends(c, "operational_error") /\ UNCHANGED <<outcome, events>>
    BY <1>3 DEF ServiceCommitFails
  <2>2. CASE RequestWrites(c) /\ UNCHANGED <<vars, container>>
    BY <2>1, <2>2 DEF RequestWrites, RootErrors, vars
  <2>3. CASE ContainerWrites(c) /\ container' = "invalid"
    BY <2>1, <2>3 DEF ContainerWrites, RootErrors
  <2>4. CASE ContainerWrites(c) /\ container' = "holding" /\ OutsideBegins
    BY <2>1, <2>4 DEF ContainerWrites, RootErrors, OutsideBegins
  <2> QED BY <1>3, <2>2, <2>3, <2>4 DEF ServiceCommitFails
<1>4. CASE ContainerRefuses(c)
  BY <1>4 DEF ContainerRefuses, vars
<1> QED BY <1>1, <1>2, <1>3, <1>4

(* Each step of a call is such a move.                                     *)
LEMMA CallsStep ==
  ASSUME ServiceOK, CallsOK, NEW c \in ServiceCalls, ServiceStep(c),
         \A s \in Sessions : session[s] # NoSessionRow => session'[s] # NoSessionRow
  PROVE  CallsOK'
<1>0. /\ outcome \in [ServiceCalls -> {"none", "success", "failure"}]
      /\ container \in ContainerStates /\ (container = "holding" => writer = Outside)
      /\ outcome[c] # "none" => IsDiagnostic(c)
      /\ stage[c] = "acted" => IsDiagnostic(c)
      /\ \A x \in ServiceCalls : NamesRow(x) => NamesRow(x)'
  BY NamesStay DEF CallsOK, ServiceTypeOK, StageFitsKind
<1>1. CASE RejectCaller(c) \/ RejectArgument(c)
  <2>1. /\ Ends(c, "refused") /\ stage[c] = "idle"
        /\ UNCHANGED <<writer, outcome, events, container>>
    BY <1>1 DEF RejectCaller, RejectArgument, vars
  <2> QED BY <1>0, <2>1, CallMoves DEF Over, Pending
<1>2. CASE EnterServiceMode(c)
  <2>1. /\ Ends(c, "done") /\ stage[c] = "idle" /\ ~ IsDiagnostic(c)
        /\ UNCHANGED <<writer, outcome, container>>
        /\ events \subseteq events'
        /\ \A e \in events' : e \in events \/ e[1] = c
    BY <1>2 DEF EnterServiceMode, IsDiagnostic, Asks
  <2> QED BY <1>0, <2>1, CallMoves DEF Over, Pending
<1>3. CASE LoadSession(c)
  <2>1. /\ Asks(c, "exit") /\ stage[c] = "idle" /\ Target(c) \in Sessions
        /\ UNCHANGED <<writer, outcome, events, container>>
    BY <1>3 DEF LoadSession, ServiceOK, Target, Asks, vars
  <2>2. \/ Ends(c, "refused")
        \/ Ends(c, "loaded") /\ session[Target(c)] # NoSessionRow
    BY <1>3 DEF LoadSession
  <2> QED BY <1>0, <2>1, <2>2, CallMoves DEF Over, Pending
<1>4. CASE ExitServiceMode(c)
  <2>1. /\ Ends(c, "done") /\ stage[c] = "loaded" /\ ~ IsDiagnostic(c)
        /\ UNCHANGED <<writer, outcome, container>>
        /\ events \subseteq events'
        /\ \A e \in events' : e \in events \/ e[1] = c
    BY <1>4 DEF ExitServiceMode, CallsOK, StageFitsKind, IsDiagnostic, Asks
  <2> QED BY <1>0, <2>1, CallMoves DEF Over, Pending
<1>5. CASE TestDrum(c) \/ TestDevice(c)
  <2>1. PICK result \in {"success", "failure"} : Command(c, result)
    BY <1>5 DEF TestDrum, TestDevice
  <2>2. /\ Ends(c, "acted") /\ stage[c] = "idle" /\ IsDiagnostic(c)
        /\ outcome' = [outcome EXCEPT ![c] = result]
        /\ UNCHANGED <<writer, events, container>>
    BY <2>1 DEF Command
  <2> QED BY <1>0, <2>2, CallMoves DEF Pending
<1>6. CASE RecordDiagnostic(c)
  <2>1. /\ Ends(c, "done") /\ stage[c] = "acted" /\ NamesRow(c)
        /\ events' = events \cup {<<c, outcome[c]>>}
        /\ UNCHANGED <<writer, outcome, container>>
    BY <1>6 DEF RecordDiagnostic, vars
  <2>2. /\ events \subseteq events' /\ <<c, outcome'[c]>> \in events'
        /\ \A e \in events' : e \in events \/ e[1] = c
    BY <2>1
  <2> QED BY <1>0, <2>1, <2>2, CallMoves DEF Over, Pending
<1>7. CASE \/ ServiceWaitExpires(c) \/ EventNamesNoRow(c) \/ ServiceCommitFails(c)
           \/ ContainerRefuses(c)
  <2>1. PICK answer \in RootErrors \cup {"pending_rollback_error"} :
           /\ Ends(c, answer) /\ stage[c] \in {"idle", "loaded", "acted"}
           /\ answer = "pending_rollback_error" => container # "usable"
           /\ UNCHANGED <<outcome, events>>
           /\ \/ UNCHANGED <<container, writer>>
              \/ /\ stage[c] = "acted" /\ answer \in RootErrors
                 /\ container' = "invalid" \/ (container' = "holding" /\ writer' = Outside)
    BY <1>7, WritesThatFail
  <2>2. answer \in Over /\ answer \notin {"done", "loaded", "acted"}
    BY DEF Over, RootErrors
  <2> QED BY <1>0, <2>1, <2>2, CallMoves DEF Pending, ContainerStates
<1> QED BY <1>1, <1>2, <1>3, <1>4, <1>5, <1>6, <1>7 DEF ServiceStep

(* No request gets past a lock that another writer keeps.                  *)
LEMMA OutsideKeepsLock ==
  ASSUME ConstantsOK, IndInv, NEW r \in Requests, Serve(r), writer = Outside
  PROVE  writer' = Outside
<1>1. NoWriter # Outside /\ Outside \notin Requests
  BY DEF ConstantsOK
<1>2. phase[r] # "executing"
  BY <1>1 DEF IndInv, OneOperationAtTheMachine
<1>3. ValidateRequest(r) \/ RejectRequest(r) \/ CreateOperation(r) \/ LockWaitExpires(r)
  BY <1>2 DEF Serve, MoveDrum, MoveFails, UnlockSlot, UnlockFails, ApplyInventory,
              RefuseInventory, CommitFails, Commit, At, AtInventory
<1> QED BY <1>1, <1>3 DEF ValidateRequest, RejectRequest, CreateOperation, LockWaitExpires

(* The operations leave the calls alone, a crash ends those in progress.   *)
LEMMA CallsBystand ==
  ASSUME ConstantsOK, IndInv, CallsOK,
         ServeOperations \/ CrashService \/ UNCHANGED systemVars,
         \A s \in Sessions : session[s] # NoSessionRow => session'[s] # NoSessionRow
  PROVE  CallsOK'
<1> USE DEF CallsOK, ServiceTypeOK
<1>0. ServiceOK
  BY ServiceOK
<1>a. \A x \in ServiceCalls : NamesRow(x) => NamesRow(x)'
  BY <1>0, NamesStay
<1>b. \A c \in ServiceCalls : stage[c] = "loaded" => Target(c) \in Sessions
  BY <1>0 DEF ServiceOK, StageFitsKind, Asks, Target
<1>1. CASE CrashService
  <2>1. \A c \in ServiceCalls : stage'[c] = stage[c] \/
          (stage'[c] = "killed" /\ stage[c] \in {"loaded", "acted"})
    BY <1>1 DEF CrashService
  <2>2. stage' \in [ServiceCalls -> Pending \cup Over]
    BY <1>1 DEF CrashService, Over
  <2>3. UNCHANGED <<outcome, events>> /\ container' = "usable"
    BY <1>1 DEF CrashService
  <2>4. ServiceTypeOK'
    BY <1>b, <2>1, <2>2, <2>3 DEF ContainerStates, Target
  <2>5. StageFitsKind' /\ ContainerWasLeft'
    BY <2>1, <2>3 DEF StageFitsKind, ContainerWasLeft, IsDiagnostic, Asks
  <2>6. TracesAreAccountedFor'
    <3>1. \A c \in ServiceCalls : stage[c] \in RootErrors => stage'[c] = stage[c]
      BY <2>1 DEF RootErrors
    <3> QED BY <1>a, <2>1, <2>3, <3>1 DEF TracesAreAccountedFor, IsDiagnostic, Asks
  <2> QED BY <2>4, <2>5, <2>6
<1>2. CASE ServeOperations \/ UNCHANGED systemVars
  <2>1. UNCHANGED <<stage, outcome, events, container>>
    BY <1>2 DEF ServeOperations, systemVars, serviceVars
  <2>2. container = "holding" => writer' = Outside
    <3> SUFFICES ASSUME container = "holding" PROVE writer' = Outside
      OBVIOUS
    <3>1. writer = Outside /\ writer # NoWriter
      BY DEF ConstantsOK
    <3>2. \/ \E r \in Requests : Serve(r)
          \/ UNCHANGED writer
      BY <1>2, <3>1 DEF ServeOperations, OutsideBegins, DrumMovesLate, systemVars, vars
    <3> QED BY <3>1, <3>2, OutsideKeepsLock
  <2>3. ServiceTypeOK'
    BY <1>b, <2>1, <2>2 DEF Target
  <2>4. StageFitsKind' /\ ContainerWasLeft' /\ TracesAreAccountedFor'
    BY <1>a, <2>1 DEF StageFitsKind, ContainerWasLeft, TracesAreAccountedFor, IsDiagnostic, Asks
  <2> QED BY <2>3, <2>4
<1> QED BY <1>1, <1>2

(* Sessions and events stay explained by every step.                       *)
LEMMA NextExplains ==
  ASSUME ConstantsOK, ServiceOK, IndInv, ServiceIndInv, [ServiceNext]_systemVars
  PROVE  Explained'
<1>0. ServiceTypeOK /\ StageFitsKind /\ Explained
  BY DEF ServiceIndInv, Explained
<1>1. CASE \E c \in ServiceCalls : ServiceStep(c)
  BY <1>0, <1>1, EnterExplains, ExitExplains, OtherCallsExplain
<1>2. CASE ServeOperations /\ \E r \in Requests : Commit(r)
  BY <1>0, <1>2, CommitExplains DEF ServeOperations
<1>3. CASE (ServeOperations \/ CrashService \/ UNCHANGED systemVars) /\ ~ \E r \in Requests : Commit(r)
  <2>1. [Next]_vars
    BY <1>3 DEF ServeOperations, CrashService, Next, systemVars
  <2>2. UNCHANGED <<session, events>>
    BY <1>3, <2>1, OtherStepsStutter
       DEF ServeOperations, CrashService, systemVars, serviceVars, tableVars
  <2>3. \A s \in Sessions : UNCHANGED <<Entered(s), Exited(s)>>
    BY <2>2 DEF Entered, Exited
  <2> QED BY <1>0, <1>3, <2>1, <2>2, <2>3, RefilledInKept, ExplainedFrame
<1>4. CASE (CrashService \/ UNCHANGED systemVars) /\ \E r \in Requests : Commit(r)
  <2> PICK r \in Requests : Commit(r)
    BY <1>4
  <2>1. operation' # operation
    BY DEF Commit, IndInv, SettledIffCommitted, TypeOK, Final, Successful, NoRow
  <2> QED BY <1>4, <2>1 DEF CrashService, Crash, systemVars, vars, tableVars
<1> QED BY <1>1, <1>2, <1>3, <1>4 DEF ServiceNext

(* The strengthening behind the theorems about sessions and events.        *)
THEOREM ServiceInductive == ServiceSpec => []ServiceIndInv
<1>1. ServiceInit => ServiceIndInv
  <2> SUFFICES ASSUME ServiceInit PROVE ServiceIndInv
    OBVIOUS
  <2>1. /\ \A s \in Sessions : Entered(s) = {} /\ Exited(s) = {} /\ RefilledIn(s) = {}
        /\ session = InitialSession
    BY DEF ServiceInit, Init, Entered, Exited, RefilledIn, NoRow
  <2>2. CallsOK
    BY DEF ServiceInit, CallsOK, ServiceTypeOK, StageFitsKind, ContainerWasLeft,
           TracesAreAccountedFor, Pending, ContainerStates
  <2>3. EventsExplainSessions
    BY <2>1, FS_EmptySet DEF EventsExplainSessions, NoSessionRow, NoRow
  <2>4. NoTraceWithoutRow
    BY <2>1 DEF NoTraceWithoutRow
  <2> QED BY <2>2, <2>3, <2>4 DEF CallsOK, ServiceIndInv
<1>2. IndInv /\ ServiceIndInv /\ [ServiceNext]_systemVars => ServiceIndInv'
  <2> SUFFICES ASSUME IndInv, ServiceIndInv, [ServiceNext]_systemVars
               PROVE  ServiceIndInv'
    OBVIOUS
  <2>1. Explained'
    BY ConstantsOK, ServiceOK, NextExplains
  <2>2. CallsOK'
    BY ConstantsOK, ServiceOK, RowsStay, CallsStep, CallsBystand
       DEF ServiceIndInv, CallsOK, ServiceNext
  <2> QED BY <2>1, <2>2 DEF Explained, CallsOK, ServiceIndInv
<1> QED BY <1>1, <1>2, OperationsNextToService, PTL DEF ServiceSpec

(* Calls keep to their path.                                               *)
THEOREM ServiceTypeCorrect == ServiceSpec => []ServiceTypeOK
<1>1. ServiceIndInv => ServiceTypeOK
  BY DEF ServiceIndInv
<1> QED BY <1>1, ServiceInductive, PTL

(* Events and operations explain the session rows.                         *)
THEOREM SessionsAreExplained == ServiceSpec => []EventsExplainSessions
<1>1. ServiceIndInv => EventsExplainSessions
  BY DEF ServiceIndInv
<1> QED BY <1>1, ServiceInductive, PTL

(* A diagnostic that ends well has left the device's own answer; one that  *)
(* could not be recorded says so, after one that failed before.            *)
THEOREM TracesAreTold == ServiceSpec => []TracesAreAccountedFor
<1>1. ServiceIndInv => TracesAreAccountedFor
  BY DEF ServiceIndInv
<1> QED BY <1>1, ServiceInductive, PTL

(* A session that has ended stays ended.                                   *)
THEOREM EndedStaysEnded == ServiceSpec => EndedSessionsStayEnded
<1> DEFINE Kept ==
      \A s \in Sessions : session[s].status = "completed" => session'[s].status = "completed"
<1>1. IndInv /\ [ServiceNext]_systemVars => Kept
  <2> SUFFICES ASSUME IndInv, [ServiceNext]_systemVars,
                      NEW s \in Sessions, session[s].status = "completed"
               PROVE  session'[s].status = "completed"
    OBVIOUS
  <2>0. session \in [Sessions -> SessionRow]
    BY DEF IndInv, TypeOK
  <2>1. CASE \E c \in ServiceCalls : EnterServiceMode(c)
    <3>1. PICK k \in Sessions : /\ session[k] = NoSessionRow
                                /\ UNCHANGED [x \in Sessions \ {k} |-> session[x]]
      BY <2>0, <2>1 DEF EnterServiceMode
    <3>2. s # k
      BY <3>1 DEF NoSessionRow, NoRow
    <3> QED BY <3>1, <3>2
  <2>2. CASE \E c \in ServiceCalls : ExitServiceMode(c)
    <3>1. PICK k : session' = [session EXCEPT ![k].status = "completed"]
      BY <2>2 DEF ExitServiceMode
    <3>2. CASE s = k
      <4>1. session'[s] = [session[s] EXCEPT !.status = "completed"]
        BY <2>0, <3>1, <3>2
      <4> QED BY <2>0, <4>1 DEF SessionRow
    <3> QED BY <2>0, <3>1, <3>2
  <2>3. CASE \E r \in Requests : Commit(r)
    <3> PICK r \in Requests : Commit(r)
      BY <2>3
    <3>1. SavedSession(r).status = "completed"
      BY DEF SavedSession
    <3> QED BY <2>0, <3>1 DEF Commit
  <2>4. CASE [Next]_vars /\ ~ \E r \in Requests : Commit(r)
    BY <2>4, OtherStepsStutter DEF tableVars
  <2>5. CASE \E c \in ServiceCalls :
               ServiceStep(c) /\ ~ EnterServiceMode(c) /\ ~ ExitServiceMode(c)
    BY <2>5, OtherCallsKeepSessions
  <2> QED BY <2>1, <2>2, <2>3, <2>4, <2>5, StepsAreTwoKinds
<1>2. IndInv /\ [ServiceNext]_systemVars => [Kept]_systemVars
  BY <1>1
<1> QED BY <1>2, OperationsNextToService, PTL DEF ServiceSpec, EndedSessionsStayEnded

-----------------------------------------------------------------------------
(* Where the drum can be.                                                  *)

(* The positions a command may have sent it to only grow.                  *)
LEMMA TestsStay ==
  ASSUME ServiceIndInv, [ServiceNext]_systemVars
  PROVE  TestPositions \subseteq TestPositions'
<1>1. \A d \in ServiceCalls : outcome[d] # "none" => outcome'[d] # "none"
  <2>1. CASE \E c \in ServiceCalls, result \in {"success", "failure"} : Command(c, result)
    <3>1. PICK c \in ServiceCalls, result \in {"success", "failure"} :
             outcome' = [outcome EXCEPT ![c] = result]
      BY <2>1 DEF Command
    <3> QED BY <3>1 DEF ServiceIndInv, ServiceTypeOK
  <2>2. CASE UNCHANGED outcome
    BY <2>2
  <2> QED
    BY <2>1, <2>2
       DEF ServiceNext, ServiceStep, RejectCaller, EnterServiceMode, LoadSession, ExitServiceMode,
           RejectArgument, TestDrum, TestDevice, RecordDiagnostic, ServiceWaitExpires,
           EventNamesNoRow, ServiceCommitFails, ContainerRefuses,
           CrashService, ServeOperations, serviceVars, systemVars
<1> QED BY <1>1 DEF TestPositions, Asks

(* More positions explain as much.                                         *)
LEMMA TracedMore ==
  ASSUME NEW A, NEW B, A \subseteq B
  PROVE  DrumTraced(A) => DrumTraced(B)
BY DEF DrumTraced

(* A drum test sends the drum where it says, now or late.                  *)
LEMMA TestTraced ==
  ASSUME ServiceTypeOK, NEW c \in ServiceCalls, TestDrum(c), DrumTraced(TestPositions'),
         UNCHANGED requestVars
  PROVE  DrumTraced(TestPositions)'
<1> DEFINE p == ServiceCommand[c].position
<1>1. p \in TestPositions'
  BY DEF TestDrum, Command, TestPositions, ServiceTypeOK, Asks
<1>2. /\ drum' \in {drum, p} /\ lateMove' \in {lateMove, p}
      /\ UNCHANGED <<opened, errored, phase, state, slot>>
  BY DEF TestDrum, Command, MoveIsLost, requestVars
<1>3. StrayPositions' = StrayPositions
  BY <1>2 DEF StrayPositions, CutShort
<1>4. \A r \in Requests : At(r, "unlock_requested")' = At(r, "unlock_requested")
  BY <1>2 DEF At
<1> HIDE DEF p
<1> QED BY <1>1, <1>2, <1>3, <1>4 DEF DrumTraced

(* Lost moves and drum tests are all that makes a pulse miss its slot,     *)
(* however diagnostics and operations come together at the drum.           *)
THEOREM PulsesAreTraced == ServiceSpec => []PulsesAreExplained
<1> DEFINE Traced == "off_target" \notin Faults => DrumTraced(TestPositions)
<1>1. ServiceInit => Traced
  BY DEF ServiceInit, Init, DrumTraced, At
<1>2. IndInv /\ ServiceIndInv /\ Traced /\ [ServiceNext]_systemVars => Traced'
  <2> SUFFICES ASSUME IndInv, ServiceIndInv, "off_target" \notin Faults,
                      DrumTraced(TestPositions), [ServiceNext]_systemVars
               PROVE  DrumTraced(TestPositions)'
    OBVIOUS
  <2>0. DrumTraced(TestPositions')
    BY TestsStay, TracedMore
  <2>1. CASE [Next]_vars
    <3> DEFINE others == TestPositions'
    <3>1. DrumTraced(others)
      BY <2>0
    <3> HIDE DEF others
    <3>2. /\ lateMove' \in {NoPosition} \cup StrayPositions' \cup others
          /\ \A r \in Requests :
               /\ At(r, "unlock_requested")' =>
                    drum' \in {Position[slot'[r]]} \cup StrayPositions' \cup others
               /\ opened'[r] # NoPosition =>
                    opened'[r] \in {Position[slot'[r]]} \cup StrayPositions' \cup others
      BY <2>1, <3>1, ConstantsOK, TracedStep DEF DrumTraced
    <3> QED BY <3>2 DEF others, DrumTraced
  <2>2. CASE \E c \in ServiceCalls : TestDrum(c)
    BY <2>0, <2>2, TestTraced DEF ServiceIndInv, TestDrum, Command
  <2>3. CASE \E c \in ServiceCalls : ServiceStep(c) /\ ~ OutsideBegins /\ ~ TestDrum(c)
    <3>1. UNCHANGED <<requestVars, opened, errored>>
      BY <2>3, ConstantsOK, ServiceOK, ServiceTouches
    <3>2. UNCHANGED <<drum, lateMove>>
      BY <2>3
         DEF ServiceStep, RejectCaller, EnterServiceMode, LoadSession, ExitServiceMode,
             RejectArgument, TestDevice, RecordDiagnostic, ServiceWaitExpires, EventNamesNoRow,
             ServiceCommitFails, ContainerRefuses, vars, physicalVars
    <3>3. StrayPositions' = StrayPositions
      BY <3>1 DEF StrayPositions, CutShort, requestVars
    <3>4. \A r \in Requests : At(r, "unlock_requested")' = At(r, "unlock_requested")
      BY <3>1 DEF At, requestVars
    <3> QED BY <2>0, <3>1, <3>2, <3>3, <3>4 DEF DrumTraced, requestVars
  <2> QED BY <2>1, <2>2, <2>3, StepsAreTwoKinds
<1>3. Traced => PulsesAreExplained
  BY DEF DrumTraced, PulsesAreExplained
<1> QED BY <1>1, <1>2, <1>3, OperationsNextToService, ServiceInductive, PTL DEF ServiceSpec

-----------------------------------------------------------------------------
(* What is left to do.                                                     *)

LEMMA CallStepsAreFew ==
  ASSUME NEW c
  PROVE  CallStepsLeft(c) \in 0 .. 2 /\ CallStepsLeft(c)' \in 0 .. 2
BY DEF CallStepsLeft

(* A call's step takes it on, and no other call.                           *)
LEMMA CallComesNearer ==
  ASSUME ServiceTypeOK, NEW c \in ServiceCalls, ServiceStep(c)
  PROVE  /\ CallStepsLeft(c)' < CallStepsLeft(c)
         /\ \A d \in ServiceCalls \ {c} : CallStepsLeft(d)' = CallStepsLeft(d)
<1>1. ASSUME NEW answer, Ends(c, answer), stage[c] \in Pending,
             \/ answer \in Over
             \/ stage[c] = "idle" /\ answer \in {"loaded", "acted"}
      PROVE  /\ CallStepsLeft(c)' < CallStepsLeft(c)
             /\ \A d \in ServiceCalls \ {c} : CallStepsLeft(d)' = CallStepsLeft(d)
  <2>1. stage'[c] = answer /\ \A d \in ServiceCalls \ {c} : stage'[d] = stage[d]
    BY <1>1 DEF Ends, ServiceTypeOK
  <2>2. \A d \in ServiceCalls \ {c} : CallStepsLeft(d)' = CallStepsLeft(d)
    BY <2>1 DEF CallStepsLeft
  <2>3. CallStepsLeft(c)' < CallStepsLeft(c)
    BY <1>1, <2>1 DEF CallStepsLeft, Pending, Over, RootErrors
  <2> QED BY <2>2, <2>3
<1>2. CASE RejectCaller(c) \/ EnterServiceMode(c) \/ RejectArgument(c)
  BY <1>1, <1>2 DEF RejectCaller, EnterServiceMode, RejectArgument, Pending, Over
<1>3. CASE LoadSession(c)
  BY <1>1, <1>3 DEF LoadSession, Pending, Over
<1>4. CASE ExitServiceMode(c) \/ RecordDiagnostic(c)
  BY <1>1, <1>4 DEF ExitServiceMode, RecordDiagnostic, Pending, Over
<1>5. CASE TestDrum(c) \/ TestDevice(c)
  BY <1>1, <1>5 DEF TestDrum, TestDevice, Command, Pending
<1>6. CASE ServiceWaitExpires(c) \/ EventNamesNoRow(c) \/ ServiceCommitFails(c) \/ ContainerRefuses(c)
  BY <1>1, <1>6, WritesThatFail DEF Pending, Over
<1> QED BY <1>2, <1>3, <1>4, <1>5, <1>6 DEF ServiceStep

(* Each step of a service call brings it nearer to its end, and no other   *)
(* call, operation or crash takes it further away.                         *)
THEOREM CallsAreNear == ServiceSpec => CallsComeNearer
<1> DEFINE Nearer ==
      \A c \in ServiceCalls :
        /\ CallStepsLeft(c)' <= CallStepsLeft(c)
        /\ ServiceStep(c) => CallStepsLeft(c)' < CallStepsLeft(c)
<1>1. ServiceIndInv /\ [ServiceNext]_systemVars => Nearer
  <2> SUFFICES ASSUME ServiceTypeOK, [ServiceNext]_systemVars PROVE Nearer
    BY DEF ServiceIndInv
  <2>1. \A c \in ServiceCalls : ServiceStep(c) => CallStepsLeft(c)' < CallStepsLeft(c)
    BY CallComesNearer
  <2>2. CASE \E c \in ServiceCalls : ServiceStep(c)
    <3>1. PICK c \in ServiceCalls : ServiceStep(c)
      BY <2>2
    <3>2. \A d \in ServiceCalls : CallStepsLeft(d)' <= CallStepsLeft(d)
      BY <3>1, CallComesNearer, CallStepsAreFew
    <3> QED BY <2>1, <3>2
  <2>3. CASE CrashService
    <3>1. ASSUME NEW c \in ServiceCalls
          PROVE  CallStepsLeft(c)' <= CallStepsLeft(c)
      <4>1. stage'[c] = stage[c] \/ stage'[c] = "killed"
        BY <2>3 DEF CrashService
      <4>2. CallStepsLeft(c)' = CallStepsLeft(c) \/ CallStepsLeft(c)' = 0
        BY <4>1 DEF CallStepsLeft
      <4> QED BY <4>2, CallStepsAreFew
    <3> QED BY <2>1, <3>1
  <2>4. CASE UNCHANGED stage
    <3>1. \A c \in ServiceCalls : CallStepsLeft(c)' = CallStepsLeft(c)
      BY <2>4 DEF CallStepsLeft
    <3> QED BY <2>1, <3>1, CallStepsAreFew
  <2> QED BY <2>2, <2>3, <2>4 DEF ServiceNext, ServeOperations, serviceVars, systemVars
<1>2. ServiceIndInv /\ [ServiceNext]_systemVars => [Nearer]_systemVars
  BY <1>1
<1> QED BY <1>2, ServiceInductive, PTL DEF ServiceSpec, CallsComeNearer

(* With operations and diagnostics side by side, no request and no call is *)
(* ever without a step to take, but for a diagnostic that waits for one    *)
(* that has one.                                                           *)
THEOREM NobodyStuckNextToService == ServiceSpec => [](NobodyIsStuck /\ NoCallIsStuck)
<1>1. IndInv => NobodyIsStuck
  BY ConstantsOK, UnansweredCanGoOn
<1>2. ServiceIndInv => NoCallIsStuck
  <2> SUFFICES ASSUME ServiceIndInv, NEW k \in Sessions, session[k] = NoSessionRow,
                      NEW c \in ServiceCalls, stage[c] \in Pending
               PROVE  \/ CallCanGoOn(c)
                      \/ \E d \in ServiceCalls : stage[d] = "acted" /\ CallCanGoOn(d)
    BY DEF NoCallIsStuck
  <2>1. \A d \in ServiceCalls : stage[d] = "acted" => CallCanGoOn(d)
    BY DEF ServiceIndInv, StageFitsKind, CallCanGoOn
  <2>2. CASE stage[c] = "loaded"
    BY <2>2 DEF ServiceIndInv, StageFitsKind, CallCanGoOn
  <2>3. CASE stage[c] = "idle" /\ ~ IsDiagnostic(c)
    <3>1. Asks(c, "enter") \/ Asks(c, "exit")
      BY <2>3, ServiceOK DEF ServiceRequest, IsDiagnostic, Asks
    <3> QED BY <2>3, <3>1 DEF CallCanGoOn
  <2>4. CASE stage[c] = "idle" /\ IsDiagnostic(c)
    BY <2>1, <2>4 DEF CallCanGoOn, ContainerIsFree
  <2> QED BY <2>1, <2>2, <2>3, <2>4 DEF Pending
<1> QED BY <1>1, <1>2, OperationsNextToService, ServiceInductive, PTL
=============================================================================
