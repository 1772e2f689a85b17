--------------------------- MODULE OperationsProofs ---------------------------
(***************************************************************************)
(* Theorems about Operations, for any requests, catalogue, stock, sessions *)
(* and faults.  The inductive invariant is IndInv of Operations: an        *)
(* executing request holds the write lock, so what it has flushed rests on *)
(* tables nobody else changes until it commits or rolls back.              *)
(***************************************************************************)
EXTENDS Operations, SequenceTheorems, TLAPS

(* Where the paths of execute() stop.                                      *)
LEMMA PathEnds ==
  ASSUME NEW type \in OrchestratedTypes
  PROVE  /\ BeforeMove[type][Len(BeforeMove[type])] = "positioning_requested"
         /\ AfterMove[type][Len(AfterMove[type])] =
              IF type = "refill_item" THEN "balance_update_pending" ELSE "unlock_requested"
         /\ AfterUnlock[Len(AfterUnlock)] = "inventory_write_pending"
         /\ AfterWrite[type][Len(AfterWrite[type])] =
              IF type = "refill_item" THEN "session_completed" ELSE "completed"
<1>0. AfterUnlock[Len(AfterUnlock)] = "inventory_write_pending"
  BY DEF AfterUnlock, UnlockSuccess
<1>1. /\ BeforeMove["dispense"][Len(BeforeMove["dispense"])] = "positioning_requested"
       /\ BeforeMove["return"][Len(BeforeMove["return"])] = "positioning_requested"
       /\ BeforeMove["refill_item"][Len(BeforeMove["refill_item"])] = "positioning_requested"
  BY DEF BeforeMove, DispenseBeforeMove, ReturnBeforeMove, RefillBeforeMove, OrchestratedTypes
<1>2. /\ AfterMove["dispense"][Len(AfterMove["dispense"])] = "unlock_requested"
       /\ AfterMove["return"][Len(AfterMove["return"])] = "unlock_requested"
       /\ AfterMove["refill_item"][Len(AfterMove["refill_item"])] = "balance_update_pending"
  BY DEF AfterMove, PositioningSuccess, OrchestratedTypes
<1>3. /\ AfterWrite["dispense"][Len(AfterWrite["dispense"])] = "completed"
       /\ AfterWrite["return"][Len(AfterWrite["return"])] = "completed"
       /\ AfterWrite["refill_item"][Len(AfterWrite["refill_item"])] = "session_completed"
  BY DEF AfterWrite, OrchestratedTypes
<1> QED BY <1>0, <1>1, <1>2, <1>3 DEF OrchestratedTypes

(* They are paths of operation states.                                     *)
LEMMA PathTypes ==
  ASSUME NEW type \in OrchestratedTypes
  PROVE  /\ BeforeMove[type] \in Seq(OperationState)
         /\ AfterMove[type] \in Seq(OperationState)
         /\ AfterUnlock \in Seq(OperationState)
         /\ AfterWrite[type] \in Seq(OperationState)
         /\ <<"failed">> \in Seq(OperationState)
         /\ <<"recovery_required">> \in Seq(OperationState)
<1>0. AfterUnlock \in Seq(OperationState)
  BY DEF AfterUnlock, UnlockSuccess, OperationState
<1>5. <<"failed">> \in Seq(OperationState) /\ <<"recovery_required">> \in Seq(OperationState)
  BY DEF OperationState
<1>1. BeforeMove["dispense"] \in Seq(OperationState) /\ BeforeMove["return"] \in Seq(OperationState) /\ BeforeMove["refill_item"] \in Seq(OperationState)
  BY DEF BeforeMove, DispenseBeforeMove, ReturnBeforeMove, RefillBeforeMove, OrchestratedTypes, OperationState
<1>2. AfterMove["dispense"] \in Seq(OperationState) /\ AfterMove["return"] \in Seq(OperationState) /\ AfterMove["refill_item"] \in Seq(OperationState)
  BY DEF AfterMove, PositioningSuccess, OrchestratedTypes, OperationState
<1>3. AfterWrite["dispense"] \in Seq(OperationState) /\ AfterWrite["return"] \in Seq(OperationState) /\ AfterWrite["refill_item"] \in Seq(OperationState)
  BY DEF AfterWrite, OrchestratedTypes, OperationState
<1> QED BY <1>0, <1>5, <1>1, <1>2, <1>3 DEF OrchestratedTypes

(* A walk along one of them changes the request's own state and trail.     *)
LEMMA WalkType ==
  ASSUME NEW r \in Requests, NEW path \in Seq(OperationState),
         trail \in [Requests -> Seq(OperationState)],
         state \in [Requests -> Stops \cup {NoRow}],
         path[Len(path)] \in Stops,
         Walk(r, path)
  PROVE  /\ trail' \in [Requests -> Seq(OperationState)]
         /\ state' \in [Requests -> Stops \cup {NoRow}]
         /\ state'[r] = path[Len(path)]
         /\ \A x \in Requests \ {r} : state'[x] = state[x]
<1>1. trail[r] \o path \in Seq(OperationState)
  BY ConcatProperties
<1> QED BY <1>1 DEF Walk

(* While no table changes and settled requests keep their slot and their   *)
(* pulse, everything the invariant says of the tables stays true.          *)
LEMMA TableFrame ==
  ASSUME IndInv,
         UNCHANGED <<request, tableVars>>,
         \A x \in Requests : operation[x] # NoRow =>
           slot'[x] = slot[x]
  PROVE  /\ StockIsNatural'
         /\ StockNeverNegative'
         /\ LedgerExplainsBalance'
         /\ MovedOnceIffSuccessful'
<1>1. \A x \in Requests : operation[x] # NoRow => Cell(x)' = Cell(x)
  BY DEF Cell, tableVars
<1>2. StockIsNatural' /\ StockNeverNegative' /\ LedgerExplainsBalance'
  BY DEF IndInv, StockIsNatural, StockNeverNegative, LedgerExplainsBalance, tableVars
<1>3. ASSUME NEW c \in Cells, NEW i \in DOMAIN ledger[c]
      PROVE  ledger[c][i] \in Movement
  <2>1. ledger[c] \in Seq(Movement)
    BY DEF IndInv, TypeOK
  <2> QED BY <2>1, <1>3
<1>4. MovementsAreSuccessful'
  <2> SUFFICES ASSUME NEW c \in Cells, NEW i \in DOMAIN ledger[c],
                      NEW r \in Requests, r = ledger[c][i].operation
               PROVE  /\ operation[r] \in Successful
                      /\ c = Cell(r)'
                      /\ ledger[c][i].after = QuantityAfter(r, ledger[c][i].before)'
                      /\ \A j \in DOMAIN ledger[c] : ledger[c][j].operation = r => i = j
    BY <1>3 DEF MovementsAreSuccessful, tableVars, Movement, Cell, QuantityAfter
  <2>2. /\ operation[r] \in Successful
        /\ c = Cell(r)
        /\ ledger[c][i].after = QuantityAfter(r, ledger[c][i].before)
        /\ \A j \in DOMAIN ledger[c] : ledger[c][j].operation = r => i = j
    BY DEF IndInv, MovedOnceIffSuccessful, MovementsAreSuccessful
  <2>3. Cell(r)' = Cell(r)
    BY <1>1, <2>2 DEF Successful, NoRow
  <2>4. QuantityAfter(r, ledger[c][i].before)' = QuantityAfter(r, ledger[c][i].before)
    BY DEF QuantityAfter, tableVars
  <2> QED BY <2>2, <2>3, <2>4
<1>5. SuccessesAreInLedger'
  BY <1>1 DEF IndInv, MovedOnceIffSuccessful, SuccessesAreInLedger, tableVars, Successful, NoRow
<1> QED BY <1>2, <1>4, <1>5 DEF MovedOnceIffSuccessful

(* A request without a row that has what its kind needs, or whose loss of  *)
(* what the machine did has a cause.                                       *)
Accounted(r) ==
  /\ operation[r] = NoRow
  /\ phase[r] \in {"validated", "executing"} /\ request[r].type = "dispense" /\ ledger[Cell(r)] = <<>> =>
       InitialBalance[Cell(r)] # Absent /\ InitialBalance[Cell(r)] >= request[r].qty
  /\ phase[r] \in Answered /\ opened[r] # NoPosition =>
       \/ phase[r] = "killed"
       \/ phase[r] = "failed" /\ "commit" \in Faults
       \/ phase[r] = "refused" /\ request[r].type = "dispense" /\ ledger[Cell(r)] # <<>>
  /\ phase[r] \in Answered /\ r \in errored =>
       \/ phase[r] = "killed"
       \/ phase[r] = "failed" /\ (request[r].type = "refill_item" \/ "commit" \in Faults)

(* While no table changes, what the invariant says of doors and errors     *)
(* holds of the requests a step leaves alone and of those it accounts for. *)
LEMMA AccountFrame ==
  ASSUME IndInv,
         UNCHANGED <<request, tableVars>>,
         \A x \in Requests :
           \/ Accounted(x)'
           \/ /\ phase'[x] = phase[x] /\ slot'[x] = slot[x] /\ opened'[x] = opened[x]
              /\ x \in errored' => x \in errored
  PROVE  /\ DispensesHadStock'
         /\ DoorsAreAccountedFor'
         /\ ErrorsAreClassified'
<1> USE DEF tableVars
<1>1. DispensesHadStock'
  BY DEF IndInv, DispensesHadStock, Accounted, Cell
<1>2. StockMovesThroughOpenedSlot' /\ \A x \in Requests : operation'[x] = "failed" => opened'[x] = NoPosition
  BY DEF IndInv, DoorsAreAccountedFor, StockMovesThroughOpenedSlot, Accounted, NoRow
<1>3. LostDoorsHaveACause'
  BY DEF IndInv, DoorsAreAccountedFor, LostDoorsHaveACause, LeftNoRow, Accounted, Cell
<1>4. ErrorsAreClassified'
  BY DEF IndInv, ErrorsAreClassified, LeftNoRow, Accounted, Successful, NoRow
<1> QED BY <1>1, <1>2, <1>3, <1>4 DEF DoorsAreAccountedFor

(* The holder of the write lock is the only request that executes.         *)
LEMMA Alone ==
  ASSUME IndInv, NEW r \in Requests, phase[r] = "executing"
  PROVE  writer = r /\ \A x \in Requests \ {r} : phase[x] # "executing"
BY DEF IndInv, OneOperationAtTheMachine

(* A prepared request works in a cell, whose stock is a natural number.    *)
LEMMA CellStock ==
  ASSUME IndInv, NEW r \in Requests, phase[r] = "executing"
  PROVE  Cell(r) \in Cells /\ Stock(Cell(r)) \in Nat
<1>1. slot[r] \in Slots /\ request[r].item \in Items
  BY DEF IndInv, RequestPrepared, TypeOK, Request
<1>2. Cell(r) \in Cells
  BY <1>1 DEF Cell, Cells
<1> QED BY <1>2 DEF IndInv, StockIsNatural, Stock, Absent

(* Validation reads, and gives the request its slot.                       *)
LEMMA ValidateRequestStep ==
  ASSUME ConstantsOK, IndInv, NEW r \in Requests, ValidateRequest(r)
  PROVE  IndInv'
<1> USE DEF ValidateRequest, physicalVars, tableVars
<1>0. operation[r] = NoRow
  BY DEF IndInv, SettledIffCommitted
<1>1. PICK s \in Slots : Acceptable(request[r], s) /\ slot' = [slot EXCEPT ![r] = s]
  OBVIOUS
<1>2. request[r].qty >= 0
  <2>1. request[r] \in Request
    BY DEF IndInv, TypeOK
  <2>2. request[r].qty \in Int /\ request[r].type \in OrchestratedTypes
    BY <2>1 DEF Request
  <2>3. Acceptable(request[r], s)
    BY <1>1
  <2>4. CASE request[r].type = "dispense"
    BY <2>2, <2>3, <2>4 DEF Acceptable, CanDispense, CanReturn, CanRefill
  <2>5. CASE request[r].type = "return"
    BY <2>2, <2>3, <2>5 DEF Acceptable, CanDispense, CanReturn, CanRefill
  <2>6. CASE request[r].type = "refill_item"
    BY <2>2, <2>3, <2>6 DEF Acceptable, CanDispense, CanReturn, CanRefill
  <2> QED BY <2>2, <2>4, <2>5, <2>6 DEF OrchestratedTypes
<1>3. TypeOK'
  BY <1>1 DEF IndInv, TypeOK, Phases
<1>4. OneOperationAtTheMachine'
  BY DEF IndInv, TypeOK, OneOperationAtTheMachine
<1>5. RequestPrepared'
  BY <1>1, <1>2 DEF IndInv, TypeOK, RequestPrepared
<1>6. SettledIffCommitted'
  BY DEF IndInv, TypeOK, SettledIffCommitted
<1>7. StateFitsType' /\ PulseFitsState'
  BY DEF IndInv, TypeOK, StateFitsType, PulseFitsState
<1>8. FlushedWriteIsCurrent'
  BY <1>1 DEF IndInv, TypeOK, FlushedWriteIsCurrent, Stock, Cell, QuantityAfter
<1>9. Accounted(r)'
  <2>1. ASSUME request[r].type = "dispense", ledger[<<s, request[r].item>>] = <<>>
        PROVE  InitialBalance[<<s, request[r].item>>] # Absent /\ InitialBalance[<<s, request[r].item>>] >= request[r].qty
    <3>1. HasStock(request[r], s)
      BY <1>1, <2>1 DEF Acceptable, CanDispense
    <3>2. <<s, request[r].item>> \in Cells
      BY DEF IndInv, TypeOK, Request, Cells
    <3> QED BY <2>1, <3>1, <3>2 DEF HasStock, IndInv, LedgerExplainsBalance
  <2>2. phase'[r] = "validated" /\ slot'[r] = s
    BY <1>1 DEF IndInv, TypeOK
  <2> QED BY <1>0, <2>1, <2>2 DEF Accounted, Cell, Answered
<1>10. DispensesHadStock' /\ DoorsAreAccountedFor' /\ ErrorsAreClassified'
  BY <1>1, <1>9, AccountFrame DEF IndInv, TypeOK
<1>11. QED
  BY <1>0, <1>1, <1>3, <1>4, <1>5, <1>6, <1>7, <1>8, <1>10, TableFrame DEF IndInv, TypeOK

(* A request that is turned away, or gives up waiting, changes nothing.    *)
LEMMA RefusalStep ==
  ASSUME ConstantsOK, IndInv, NEW r \in Requests,
         RejectRequest(r) \/ LockWaitExpires(r)
  PROVE  IndInv'
<1> USE DEF RejectRequest, LockWaitExpires, physicalVars, tableVars
<1>3. TypeOK'
  BY DEF IndInv, TypeOK, Phases, Answered
<1>4. OneOperationAtTheMachine'
  BY DEF IndInv, TypeOK, OneOperationAtTheMachine
<1>5. RequestPrepared'
  BY DEF IndInv, TypeOK, RequestPrepared
<1>6. SettledIffCommitted'
  BY DEF IndInv, TypeOK, SettledIffCommitted
<1>7. StateFitsType' /\ PulseFitsState'
  BY DEF IndInv, TypeOK, StateFitsType, PulseFitsState
<1>8. FlushedWriteIsCurrent'
  BY DEF IndInv, TypeOK, FlushedWriteIsCurrent, Stock, Cell, QuantityAfter
<1>9. Accounted(r)'
  BY DEF IndInv, TypeOK, SettledIffCommitted, PulseFitsState, Accounted
<1>10. DispensesHadStock' /\ DoorsAreAccountedFor' /\ ErrorsAreClassified'
  BY <1>9, AccountFrame DEF IndInv, TypeOK
<1>11. QED
  BY <1>3, <1>4, <1>5, <1>6, <1>7, <1>8, <1>10, TableFrame DEF IndInv

(* The first INSERT, under the write lock it takes.                        *)
LEMMA CreateOperationStep ==
  ASSUME ConstantsOK, IndInv, NEW r \in Requests, CreateOperation(r)
  PROVE  IndInv'
<1> USE DEF CreateOperation, physicalVars, tableVars
<1> DEFINE path == BeforeMove[request[r].type]
<1>0. request[r] \in Request /\ request[r].type \in OrchestratedTypes
  BY DEF IndInv, TypeOK, Request
<1>1. path \in Seq(OperationState) /\ path[Len(path)] = "positioning_requested"
  BY <1>0, PathEnds, PathTypes
<1>2. /\ trail' \in [Requests -> Seq(OperationState)]
      /\ state' \in [Requests -> Stops \cup {NoRow}]
      /\ state'[r] = "positioning_requested"
      /\ \A x \in Requests \ {r} : state'[x] = state[x]
  <2> HIDE DEF path
  <2>1. path[Len(path)] \in Stops
    BY <1>1 DEF Stops
  <2>2. Walk(r, path)
    BY DEF path
  <2> QED BY <1>1, <2>1, <2>2, WalkType DEF IndInv, TypeOK
<1>a. PICK s \in Sessions \cup {NoSession} :
        WorksIn(r, s) /\ sid' = [sid EXCEPT ![r] = s]
  OBVIOUS
<1>b. request[r].type = "refill_item" => s \in Sessions
  BY <1>a, <1>0 DEF WorksIn, Request
<1>3. TypeOK'
  BY <1>2, <1>a DEF IndInv, TypeOK, Phases
<1>c. \A x \in Requests : phase[x] # "executing"
  BY DEF IndInv, OneOperationAtTheMachine, ConstantsOK
<1>4. OneOperationAtTheMachine'
  BY <1>c DEF IndInv, TypeOK, OneOperationAtTheMachine
<1>5. RequestPrepared'
  BY <1>2, <1>a, <1>b DEF IndInv, TypeOK, RequestPrepared, NoRow
<1>6. SettledIffCommitted'
  BY DEF IndInv, TypeOK, SettledIffCommitted
<1>7. StateFitsType' /\ PulseFitsState'
  BY <1>2, <1>c DEF IndInv, TypeOK, StateFitsType, PulseFitsState
<1>8. FlushedWriteIsCurrent'
  BY <1>2, <1>c DEF IndInv, TypeOK, FlushedWriteIsCurrent, Successful
<1>9. Accounted(r)'
  BY DEF IndInv, TypeOK, SettledIffCommitted, DispensesHadStock, Accounted, Cell, Answered
<1>10. DispensesHadStock' /\ DoorsAreAccountedFor' /\ ErrorsAreClassified'
  BY <1>9, AccountFrame DEF IndInv, TypeOK
<1>11. QED
  BY <1>3, <1>4, <1>5, <1>6, <1>7, <1>8, <1>10, TableFrame DEF IndInv

(* Inside the transaction only the request's own rows, flushed and not yet *)
(* committed, move on.                                                     *)
LEMMA WalkStep ==
  ASSUME ConstantsOK, IndInv, NEW r \in Requests, phase[r] = "executing",
         NEW path \in Seq(OperationState), path[Len(path)] \in Stops,
         Walk(r, path),
         UNCHANGED <<request, phase, slot, sid, writer, tableVars>>,
         \A x \in Requests \ {r} :
           opened'[x] = opened[x] /\ (x \in errored' => x \in errored)
  PROVE  /\ trail' \in [Requests -> Seq(OperationState)]
         /\ state' \in [Requests -> Stops \cup {NoRow}]
         /\ state'[r] = path[Len(path)]
         /\ OneOperationAtTheMachine'
         /\ RequestPrepared'
         /\ SettledIffCommitted'
         /\ operation[r] = NoRow
         /\ DispensesHadStock' /\ DoorsAreAccountedFor' /\ ErrorsAreClassified'
         /\ \A x \in Requests \ {r} : phase'[x] # "executing" /\ state'[x] = state[x]
<1>1. /\ trail' \in [Requests -> Seq(OperationState)]
      /\ state' \in [Requests -> Stops \cup {NoRow}]
      /\ state'[r] = path[Len(path)]
      /\ \A x \in Requests \ {r} : state'[x] = state[x]
  BY WalkType DEF IndInv, TypeOK
<1>2. \A x \in Requests \ {r} : phase'[x] # "executing"
  BY Alone
<1>3. OneOperationAtTheMachine'
  BY DEF IndInv, OneOperationAtTheMachine
<1>4. RequestPrepared'
  BY <1>1, <1>2 DEF IndInv, RequestPrepared, Stops, Final, Successful, NoRow
<1>5. SettledIffCommitted' /\ operation[r] = NoRow
  BY DEF IndInv, SettledIffCommitted, tableVars
<1>6. Accounted(r)'
  BY <1>5 DEF IndInv, DispensesHadStock, Accounted, Cell, Answered, tableVars
<1>7. DispensesHadStock' /\ DoorsAreAccountedFor' /\ ErrorsAreClassified'
  BY <1>6, AccountFrame
<1> QED BY <1>1, <1>2, <1>3, <1>4, <1>5, <1>7

(* The drum is where the request asked for it.                             *)
LEMMA MoveDrumStep ==
  ASSUME ConstantsOK, IndInv, NEW r \in Requests, MoveDrum(r)
  PROVE  IndInv'
<1> USE DEF MoveDrum, At
<1> DEFINE path == AfterMove[request[r].type]
<1>1. request[r] \in Request /\ request[r].type \in OrchestratedTypes
  BY DEF IndInv, TypeOK, Request
<1>2. /\ path \in Seq(OperationState)
      /\ path[Len(path)] = IF request[r].type = "refill_item"
                           THEN "balance_update_pending" ELSE "unlock_requested"
  BY <1>1, PathEnds, PathTypes
<1>3. path[Len(path)] \in Stops
  BY <1>2 DEF Stops
<1>4. Walk(r, path)
  OBVIOUS
<1> HIDE DEF path
<1>5. /\ trail' \in [Requests -> Seq(OperationState)]
      /\ state' \in [Requests -> Stops \cup {NoRow}]
      /\ state'[r] = path[Len(path)]
      /\ OneOperationAtTheMachine'
      /\ RequestPrepared'
      /\ SettledIffCommitted'
      /\ operation[r] = NoRow
      /\ DispensesHadStock' /\ DoorsAreAccountedFor' /\ ErrorsAreClassified'
      /\ \A x \in Requests \ {r} : phase'[x] # "executing" /\ state'[x] = state[x]
  BY <1>2, <1>3, <1>4, WalkStep
<1>6. drum' \in Nat
  <2>1. slot[r] \in Slots
    BY DEF IndInv, RequestPrepared
  <2> QED BY <2>1 DEF ConstantsOK
<1>7. TypeOK'
  BY <1>5, <1>6 DEF IndInv, TypeOK, tableVars
<1>8. StateFitsType' /\ PulseFitsState'
  BY <1>2, <1>5 DEF IndInv, TypeOK, StateFitsType, PulseFitsState
<1>9. FlushedWriteIsCurrent'
  BY <1>2, <1>5 DEF FlushedWriteIsCurrent, Successful
<1> QED
  BY <1>5, <1>7, <1>8, <1>9, TableFrame DEF IndInv

(* The lock pulse.                                                         *)
LEMMA UnlockSlotStep ==
  ASSUME ConstantsOK, IndInv, NEW r \in Requests, UnlockSlot(r)
  PROVE  IndInv'
<1> USE DEF UnlockSlot, At
<1>1. request[r] \in Request /\ request[r].type \in OrchestratedTypes
  BY DEF IndInv, TypeOK, Request
<1>2. /\ AfterUnlock \in Seq(OperationState)
      /\ AfterUnlock[Len(AfterUnlock)] = "inventory_write_pending"
  BY <1>1, PathEnds, PathTypes
<1>3. AfterUnlock[Len(AfterUnlock)] \in Stops
  BY <1>2 DEF Stops
<1>4. Walk(r, AfterUnlock)
  OBVIOUS
<1>5. /\ opened' \in [Requests -> Nat \cup {NoPosition}]
      /\ opened'[r] # NoPosition
      /\ \A x \in Requests \ {r} : opened'[x] = opened[x]
  BY DEF IndInv, TypeOK, NoPosition
<1>6. /\ trail' \in [Requests -> Seq(OperationState)]
      /\ state' \in [Requests -> Stops \cup {NoRow}]
      /\ state'[r] = "inventory_write_pending"
      /\ OneOperationAtTheMachine'
      /\ RequestPrepared'
      /\ SettledIffCommitted'
      /\ operation[r] = NoRow
      /\ DispensesHadStock' /\ DoorsAreAccountedFor' /\ ErrorsAreClassified'
      /\ \A x \in Requests \ {r} : phase'[x] # "executing" /\ state'[x] = state[x]
  BY <1>2, <1>3, <1>4, <1>5, WalkStep
<1>7. TypeOK'
  BY <1>5, <1>6 DEF IndInv, TypeOK, tableVars
<1>8. request[r].type # "refill_item" /\ r \notin errored
  BY DEF IndInv, StateFitsType, PulseFitsState
<1>9. StateFitsType' /\ PulseFitsState'
  <2>1. StateFitsType'
    BY <1>6, <1>8 DEF IndInv, TypeOK, StateFitsType
  <2>2. PulseFitsState'
    BY <1>5, <1>6, <1>8 DEF IndInv, TypeOK, PulseFitsState
  <2> QED BY <2>1, <2>2
<1>10. FlushedWriteIsCurrent'
  BY <1>6 DEF FlushedWriteIsCurrent, Successful
<1> QED
  BY <1>5, <1>6, <1>7, <1>9, <1>10, TableFrame DEF IndInv

(* A rollback leaves the tables as they were, whatever the hardware did    *)
(* for the request before it.                                              *)
LEMMA DiscardStep ==
  ASSUME ConstantsOK, IndInv, NEW r \in Requests, phase[r] = "executing",
         NEW answer \in {"refused", "failed"}, Discard(r, answer), Accounted(r)',
         drum' \in Nat, lateMove' \in Nat \cup {NoPosition},
         opened' \in [Requests -> Nat \cup {NoPosition}],
         errored' \subseteq Requests,
         \A x \in Requests \ {r} :
           opened'[x] = opened[x] /\ (x \in errored' <=> x \in errored)
  PROVE  IndInv'
<1> USE DEF Discard
<1>1. operation[r] = NoRow /\ \A x \in Requests \ {r} : phase[x] # "executing"
  BY Alone DEF IndInv, SettledIffCommitted
<1>2. \A x \in Requests : phase'[x] # "executing"
  BY <1>1 DEF IndInv, TypeOK
<1>3. TypeOK'
  <2>1. <<>> \in Seq(OperationState) /\ NoTxn \in Transaction
    BY DEF NoTxn, Transaction
  <2> QED BY <2>1 DEF IndInv, TypeOK, Phases, Answered, tableVars
<1>4. OneOperationAtTheMachine' /\ StateFitsType' /\ FlushedWriteIsCurrent'
  BY <1>2 DEF OneOperationAtTheMachine, StateFitsType, FlushedWriteIsCurrent
<1>5. RequestPrepared'
  BY <1>2 DEF IndInv, TypeOK, RequestPrepared
<1>6. SettledIffCommitted'
  BY DEF IndInv, TypeOK, SettledIffCommitted, tableVars
<1>7. PulseFitsState'
  BY <1>2 DEF IndInv, TypeOK, PulseFitsState
<1>8. DispensesHadStock' /\ DoorsAreAccountedFor' /\ ErrorsAreClassified'
  BY AccountFrame DEF IndInv, TypeOK
<1> QED
  BY <1>1, <1>3, <1>4, <1>5, <1>6, <1>7, <1>8, TableFrame DEF IndInv

(* A HardwareError, from the drum or from the lock, in a state where the   *)
(* handler files it as the pulse demands.                                  *)
LEMMA HandleHardwareErrorStep ==
  ASSUME ConstantsOK, IndInv, NEW r \in Requests, phase[r] = "executing",
         HandleHardwareError(r),
         drum' \in Nat, lateMove' \in Nat \cup {NoPosition},
         opened' \in [Requests -> Nat \cup {NoPosition}],
         \A x \in Requests \ {r} : opened'[x] = opened[x],
         \/ state[r] = "positioning_requested" /\ opened' = opened
         \/ state[r] = "unlock_requested"
  PROVE  IndInv'
<1>1. errored' = errored \cup {r} /\ errored' \subseteq Requests
  BY DEF HandleHardwareError, FileHardwareError, LoseHardwareError, IndInv, TypeOK
<1>2. CASE request[r].type = "refill_item"
  <2>1. Discard(r, "failed")
    BY <1>2 DEF HandleHardwareError, FileHardwareError, LoseHardwareError
  <2>2. Accounted(r)'
    <3>1. state[r] = "positioning_requested" /\ opened'[r] = NoPosition /\ operation[r] = NoRow
      BY <1>2 DEF IndInv, StateFitsType, PulseFitsState, SettledIffCommitted
    <3> QED BY <1>2, <2>1, <3>1 DEF Discard, Accounted, tableVars, IndInv, TypeOK
  <2> QED BY <1>1, <2>1, <2>2, DiscardStep
<1>3. CASE request[r].type # "refill_item"
  <2> DEFINE path == IF state[r] \in UncertainStates
                     THEN << "recovery_required" >> ELSE << "failed" >>
  <2>1. request[r].type \in OrchestratedTypes
    BY DEF IndInv, TypeOK, Request
  <2>2. /\ path \in Seq(OperationState)
        /\ path[Len(path)] = IF state[r] = "positioning_requested"
                             THEN "failed" ELSE "recovery_required"
    <3>1. CASE state[r] = "positioning_requested"
      BY <3>1, <2>1, PathTypes DEF UncertainStates
    <3>2. CASE state[r] = "unlock_requested"
      BY <3>2, <2>1, PathTypes DEF UncertainStates
    <3> QED BY <3>1, <3>2
  <2>3. path[Len(path)] \in Stops
    BY <2>2 DEF Stops, Final
  <2>4. Walk(r, path) /\ UNCHANGED <<request, phase, slot, sid, txn, writer, tableVars>>
    BY <1>3 DEF HandleHardwareError, FileHardwareError, LoseHardwareError
  <2> HIDE DEF path
  <2>5. /\ trail' \in [Requests -> Seq(OperationState)]
        /\ state' \in [Requests -> Stops \cup {NoRow}]
        /\ state'[r] = path[Len(path)]
        /\ OneOperationAtTheMachine'
        /\ RequestPrepared'
        /\ SettledIffCommitted'
        /\ operation[r] = NoRow
        /\ DispensesHadStock' /\ DoorsAreAccountedFor' /\ ErrorsAreClassified'
        /\ \A x \in Requests \ {r} : phase'[x] # "executing" /\ state'[x] = state[x]
    BY <1>1, <2>2, <2>3, <2>4, WalkStep
  <2>6. TypeOK'
    BY <1>1, <2>4, <2>5 DEF IndInv, TypeOK, tableVars
  <2>7. StateFitsType'
    BY <1>3, <2>2, <2>4, <2>5 DEF StateFitsType
  <2>8. PulseFitsState'
    BY <1>1, <2>2, <2>4, <2>5 DEF IndInv, PulseFitsState
  <2>9. FlushedWriteIsCurrent'
    BY <2>2, <2>4, <2>5 DEF FlushedWriteIsCurrent, Successful
  <2> QED
    BY <1>1, <2>4, <2>5, <2>6, <2>7, <2>8, <2>9, TableFrame DEF IndInv
<1> QED BY <1>2, <1>3

(* The two calls that can end in a HardwareError.                          *)
LEMMA HardwareFailureStep ==
  ASSUME ConstantsOK, IndInv, NEW r \in Requests, MoveFails(r) \/ UnlockFails(r)
  PROVE  IndInv'
<1>1. drum \in Nat /\ lateMove \in Nat \cup {NoPosition} /\ opened \in [Requests -> Nat \cup {NoPosition}]
  BY DEF IndInv, TypeOK
<1>2. CASE MoveFails(r)
  <2>1. phase[r] = "executing" /\ state[r] = "positioning_requested"
    BY <1>2 DEF MoveFails, At
  <2>2. Position[slot[r]] \in Nat
    BY <2>1 DEF IndInv, RequestPrepared, ConstantsOK
  <2>3. drum' \in Nat /\ lateMove' \in Nat \cup {NoPosition} /\ opened' = opened
    BY <1>1, <1>2, <2>2 DEF MoveFails, MoveIsLost
  <2>4. HandleHardwareError(r)
    BY <1>2 DEF MoveFails
  <2> QED BY <1>1, <2>1, <2>3, <2>4, HandleHardwareErrorStep
<1>3. CASE UnlockFails(r)
  <2>1. phase[r] = "executing" /\ state[r] = "unlock_requested"
    BY <1>3 DEF UnlockFails, At
  <2>2. /\ opened' \in [Requests -> Nat \cup {NoPosition}]
        /\ \A x \in Requests \ {r} : opened'[x] = opened[x]
        /\ drum' = drum /\ lateMove' = lateMove
    BY <1>1, <1>3 DEF UnlockFails
  <2>3. HandleHardwareError(r)
    BY <1>3 DEF UnlockFails
  <2> QED BY <1>1, <2>1, <2>2, <2>3, HandleHardwareErrorStep
<1> QED BY <1>2, <1>3

(* The rollbacks that follow a ValidationError or a failed commit.         *)
LEMMA RollbackStep ==
  ASSUME ConstantsOK, IndInv, NEW r \in Requests, RefuseInventory(r) \/ CommitFails(r)
  PROVE  IndInv'
<1>0. operation[r] = NoRow
  BY DEF RefuseInventory, CommitFails, AtInventory, At, IndInv, SettledIffCommitted
<1>1. CASE CommitFails(r)
  <2>1. phase[r] = "executing" /\ Discard(r, "failed") /\ UNCHANGED physicalVars /\ "commit" \in Faults
    BY <1>1 DEF CommitFails
  <2>2. Accounted(r)'
    BY <1>0, <2>1 DEF Discard, Accounted, tableVars, IndInv, TypeOK
  <2> QED BY <2>1, <2>2, DiscardStep DEF IndInv, TypeOK, physicalVars
<1>2. CASE RefuseInventory(r)
  <2>1. /\ phase[r] = "executing" /\ Discard(r, "refused") /\ UNCHANGED physicalVars
        /\ ~ Writable(r)
        /\ state[r] \in {"inventory_write_pending", "balance_update_pending"}
    BY <1>2 DEF RefuseInventory, AtInventory, At
  <2>2. request[r].type = "dispense" /\ ~ HasStock(request[r], slot[r])
    BY <2>1 DEF Writable
  <2>3. Cell(r) \in Cells
    BY <2>1, CellStock
  <2>4. ledger[Cell(r)] # <<>>
    <3> SUFFICES ASSUME ledger[Cell(r)] = <<>> PROVE FALSE
      OBVIOUS
    <3>1. balance[Cell(r)] = InitialBalance[Cell(r)]
      BY <2>3 DEF IndInv, LedgerExplainsBalance
    <3>2. InitialBalance[Cell(r)] # Absent /\ InitialBalance[Cell(r)] >= request[r].qty
      BY <2>1, <2>2 DEF IndInv, DispensesHadStock
    <3> QED BY <2>2, <3>1, <3>2 DEF HasStock, Cell
  <2>5. r \notin errored
    BY <2>1 DEF IndInv, PulseFitsState
  <2>6. Accounted(r)'
    <3>1. phase'[r] = "refused"
      BY <2>1 DEF Discard, IndInv, TypeOK
    <3> QED BY <1>0, <2>1, <2>2, <2>4, <2>5, <3>1 DEF Discard, Accounted, Cell, tableVars, physicalVars
  <2> QED BY <2>1, <2>6, DiscardStep DEF IndInv, TypeOK, physicalVars
<1> QED BY <1>1, <1>2

(* Sessions of others, and a movement that comes late.                     *)
LEMMA OutsideStep ==
  ASSUME ConstantsOK, IndInv, OutsideBegins \/ OutsideEnds \/ DrumMovesLate
  PROVE  IndInv'
<1> USE DEF OutsideBegins, OutsideEnds, DrumMovesLate, requestVars, physicalVars, tableVars
<1>1. TypeOK'
  BY DEF IndInv, TypeOK
<1>2. OneOperationAtTheMachine'
  BY DEF IndInv, OneOperationAtTheMachine, ConstantsOK
<1>3. RequestPrepared' /\ SettledIffCommitted' /\ StateFitsType' /\ PulseFitsState'
  BY DEF IndInv, RequestPrepared, SettledIffCommitted, StateFitsType, PulseFitsState
<1>4. FlushedWriteIsCurrent'
  BY DEF IndInv, FlushedWriteIsCurrent, Stock, Cell, QuantityAfter
<1>5. DispensesHadStock' /\ DoorsAreAccountedFor' /\ ErrorsAreClassified'
  BY AccountFrame
<1> QED BY <1>1, <1>2, <1>3, <1>4, <1>5, TableFrame DEF IndInv

(* A crash takes every request in flight with it.                          *)
LEMMA CrashStep ==
  ASSUME ConstantsOK, IndInv, Crash
  PROVE  IndInv'
<1> USE DEF Crash, InFlight, tableVars
<1>1. \A x \in Requests : phase'[x] # "executing"
  OBVIOUS
<1>2. \A x \in Requests : operation[x] # NoRow => phase[x] = "ok"
  BY DEF IndInv, SettledIffCommitted
<1>3. TypeOK'
  <2>1. <<>> \in Seq(OperationState) /\ NoTxn \in Transaction
    BY DEF NoTxn, Transaction
  <2>2. lateMove' \in Nat \cup {NoPosition}
    BY DEF MoveOutlivesCrash, At, IndInv, TypeOK, RequestPrepared, ConstantsOK
  <2> QED BY <2>1, <2>2 DEF IndInv, TypeOK, Phases, Answered
<1>4. OneOperationAtTheMachine' /\ StateFitsType' /\ FlushedWriteIsCurrent'
  BY <1>1 DEF OneOperationAtTheMachine, StateFitsType, FlushedWriteIsCurrent
<1>5. RequestPrepared' /\ SettledIffCommitted' /\ PulseFitsState'
  BY DEF IndInv, TypeOK, RequestPrepared, SettledIffCommitted, PulseFitsState
<1>6. \A x \in Requests : InFlight(x) => Accounted(x)'
  BY DEF IndInv, SettledIffCommitted, Accounted
<1>7. DispensesHadStock' /\ DoorsAreAccountedFor' /\ ErrorsAreClassified'
  BY <1>6, AccountFrame
<1> QED BY <1>3, <1>4, <1>5, <1>7, TableFrame DEF IndInv

(* What the inventory service computes is an amount of the request's cell. *)
LEMMA QuantityType ==
  ASSUME IndInv, NEW r \in Requests, NEW before \in Int
  PROVE  QuantityAfter(r, before) \in Int
<1>1. request[r] \in Request
  BY DEF IndInv, TypeOK
<1>2. request[r].qty \in Int /\ request[r].type \in OrchestratedTypes
  BY <1>1 DEF Request
<1>3. CASE request[r].type = "dispense"
  BY <1>2, <1>3 DEF QuantityAfter
<1>4. CASE request[r].type = "return"
  BY <1>2, <1>4 DEF QuantityAfter
<1>5. CASE request[r].type = "refill_item" /\ request[r].mode = "set"
  BY <1>2, <1>5 DEF QuantityAfter
<1>6. CASE request[r].type = "refill_item" /\ request[r].mode # "set"
  BY <1>2, <1>6 DEF QuantityAfter
<1> QED BY <1>2, <1>3, <1>4, <1>5, <1>6 DEF OrchestratedTypes

(* The balance is read and the transaction flushed under the write lock.   *)
LEMMA ApplyInventoryStep ==
  ASSUME ConstantsOK, IndInv, NEW r \in Requests, ApplyInventory(r)
  PROVE  IndInv'
<1> DEFINE path == AfterWrite[request[r].type]
           before == Stock(Cell(r))
           after == QuantityAfter(r, before)
<1>0. /\ phase[r] = "executing"
      /\ state[r] \in {"inventory_write_pending", "balance_update_pending"}
      /\ Walk(r, path)
      /\ txn' = [txn EXCEPT ![r] = [before |-> before, after |-> after]]
      /\ Writable(r)
      /\ UNCHANGED <<request, phase, slot, sid, writer, physicalVars, tableVars>>
  BY DEF ApplyInventory, AtInventory, At
<1>1. request[r] \in Request /\ request[r].type \in OrchestratedTypes /\ request[r].qty \in Int
  BY DEF IndInv, TypeOK, Request
<1>2. /\ path \in Seq(OperationState)
      /\ path[Len(path)] = IF request[r].type = "refill_item"
                           THEN "session_completed" ELSE "completed"
  BY <1>1, PathEnds, PathTypes
<1>3. path[Len(path)] \in Stops
  BY <1>2 DEF Stops, Final, Successful
<1>4. Cell(r) \in Cells /\ before \in Nat /\ after \in Int
  BY <1>0, CellStock, QuantityType
<1>5. after >= 0
  <2>1. request[r].qty >= 0
    BY <1>0 DEF IndInv, RequestPrepared
  <2>2. CASE request[r].type = "dispense"
    <3>1. balance[Cell(r)] # Absent /\ balance[Cell(r)] >= request[r].qty
      BY <1>0, <2>2 DEF Writable, HasStock, Cell
    <3> QED BY <1>1, <1>4, <2>2, <3>1 DEF Stock, QuantityAfter
  <2>3. CASE request[r].type = "return"
    BY <1>1, <1>4, <2>1, <2>3 DEF QuantityAfter
  <2>4. CASE request[r].type = "refill_item" /\ request[r].mode = "set"
    BY <1>1, <1>4, <2>1, <2>4 DEF QuantityAfter
  <2>5. CASE request[r].type = "refill_item" /\ request[r].mode # "set"
    BY <1>1, <1>4, <2>1, <2>5 DEF QuantityAfter
  <2> QED BY <1>1, <2>2, <2>3, <2>4, <2>5 DEF OrchestratedTypes
<1> HIDE DEF path
<1>6. /\ trail' \in [Requests -> Seq(OperationState)]
      /\ state' \in [Requests -> Stops \cup {NoRow}]
      /\ state'[r] = path[Len(path)]
      /\ OneOperationAtTheMachine'
      /\ RequestPrepared'
      /\ SettledIffCommitted'
      /\ operation[r] = NoRow
      /\ DispensesHadStock' /\ DoorsAreAccountedFor' /\ ErrorsAreClassified'
      /\ \A x \in Requests \ {r} : phase'[x] # "executing" /\ state'[x] = state[x]
  BY <1>0, <1>2, <1>3, WalkStep DEF physicalVars
<1> HIDE DEF before, after
<1>7. txn' \in [Requests -> Transaction] /\ txn'[r] = [before |-> before, after |-> after]
  BY <1>0, <1>4 DEF IndInv, TypeOK, Transaction
<1>8. TypeOK'
  BY <1>0, <1>6, <1>7 DEF IndInv, TypeOK, tableVars, physicalVars
<1>9. StateFitsType'
  BY <1>0, <1>2, <1>6 DEF StateFitsType
<1>10. PulseFitsState'
  <2>1. request[r].type # "refill_item" => state[r] = "inventory_write_pending"
    BY <1>0 DEF IndInv, StateFitsType
  <2> QED BY <1>0, <1>2, <1>6, <2>1 DEF IndInv, PulseFitsState, physicalVars
<1>11. FlushedWriteIsCurrent'
  <2>1. Stock(Cell(r))' = before
    BY <1>0 DEF before, Stock, Cell, tableVars
  <2>2. txn'[r].before = before /\ txn'[r].after = after
    BY <1>7
  <2>3. QuantityAfter(r, txn[r].before)' = after
    BY <1>0, <2>2 DEF QuantityAfter, after
  <2> QED BY <1>5, <1>6, <2>1, <2>2, <2>3 DEF FlushedWriteIsCurrent
<1> QED
  BY <1>0, <1>6, <1>8, <1>9, <1>10, <1>11, TableFrame DEF IndInv, physicalVars

(* A request that has not settled is nowhere in the ledger.                *)
LEMMA NotInLedgerYet ==
  ASSUME IndInv, NEW r \in Requests, operation[r] = NoRow,
         NEW c \in Cells, NEW i \in DOMAIN ledger[c]
  PROVE  /\ ledger[c][i] \in Movement
         /\ ledger[c][i].operation \in Requests \ {r}
         /\ operation[ledger[c][i].operation] \in Successful
<1>1. ledger[c] \in Seq(Movement)
  BY DEF IndInv, TypeOK
<1>2. ledger[c][i] \in Movement
  BY <1>1
<1>3. operation[ledger[c][i].operation] \in Successful
  BY DEF IndInv, MovedOnceIffSuccessful, MovementsAreSuccessful
<1> QED BY <1>2, <1>3 DEF Movement, Successful, NoRow

(* The end of a transaction, up to what it does to the stock.              *)
LEMMA CommitFrame ==
  ASSUME ConstantsOK, IndInv, NEW r \in Requests, Commit(r)
  PROVE  /\ phase[r] = "executing" /\ state[r] \in Final /\ operation[r] = NoRow
         /\ operation' \in [Requests -> Final \cup {NoRow}]
         /\ operation'[r] = state[r]
         /\ \A x \in Requests \ {r} : operation'[x] = operation[x]
         /\ \A x \in Requests : Cell(x)' = Cell(x)
         /\ \A x \in Requests, b \in Int : QuantityAfter(x, b)' = QuantityAfter(x, b)
         /\ OneOperationAtTheMachine'
         /\ RequestPrepared'
         /\ SettledIffCommitted'
         /\ StateFitsType'
         /\ PulseFitsState'
         /\ FlushedWriteIsCurrent'
         /\ DispensesHadStock'
         /\ DoorsAreAccountedFor'
         /\ ErrorsAreClassified'
<1> USE DEF Commit, physicalVars
<1>1. /\ phase[r] = "executing" /\ state[r] \in Final /\ operation[r] = NoRow
      /\ \A x \in Requests \ {r} : phase[x] # "executing"
  BY Alone DEF IndInv, SettledIffCommitted
<1>2. /\ operation' \in [Requests -> Final \cup {NoRow}]
      /\ operation'[r] = state[r]
      /\ \A x \in Requests \ {r} : operation'[x] = operation[x]
  BY <1>1 DEF IndInv, TypeOK
<1>3. /\ \A x \in Requests : Cell(x)' = Cell(x)
      /\ \A x \in Requests, b \in Int : QuantityAfter(x, b)' = QuantityAfter(x, b)
  BY DEF Cell, QuantityAfter
<1>4. \A x \in Requests : phase'[x] # "executing"
  BY <1>1 DEF IndInv, TypeOK
<1>5. OneOperationAtTheMachine' /\ StateFitsType' /\ FlushedWriteIsCurrent'
  BY <1>4 DEF OneOperationAtTheMachine, StateFitsType, FlushedWriteIsCurrent
<1>6. RequestPrepared'
  BY <1>1, <1>4 DEF IndInv, TypeOK, RequestPrepared
<1>7. SettledIffCommitted'
  BY <1>1, <1>2 DEF IndInv, TypeOK, SettledIffCommitted, Final, Successful, NoRow
<1>8. PulseFitsState'
  BY <1>4 DEF IndInv, TypeOK, PulseFitsState
<1>9. \A c \in Cells : ledger'[c] = <<>> => ledger[c] = <<>>
  <2>1. ledger' = ledger \/ \E e \in Movement : ledger' = [ledger EXCEPT ![Cell(r)] = Append(@, e)]
    <3>1. [operation |-> r, before |-> txn[r].before, after |-> txn[r].after] \in Movement
      BY DEF IndInv, TypeOK, Transaction, Movement
    <3> QED BY <3>1
  <2>2. CASE ledger' = ledger
    BY <2>2
  <2>3. ASSUME NEW e \in Movement, ledger' = [ledger EXCEPT ![Cell(r)] = Append(@, e)]
        PROVE  \A c \in Cells : ledger'[c] = <<>> => ledger[c] = <<>>
    <3>1. Cell(r) \in Cells /\ ledger \in [Cells -> Seq(Movement)]
      BY <1>1, CellStock DEF IndInv, TypeOK
    <3>2. Append(ledger[Cell(r)], e) # <<>>
      BY <3>1, AppendProperties
    <3> QED BY <2>3, <3>1, <3>2
  <2> QED BY <2>1, <2>2, <2>3
<1>10. ASSUME NEW x \in Requests, phase[x] \in {"validated", "executing", "ok"} \/ opened[x] # NoPosition
       PROVE  Cell(x) \in Cells
  BY <1>10 DEF IndInv, RequestPrepared, TypeOK, Request, Cell, Cells
<1>11. phase'[r] = "ok" /\ \A x \in Requests \ {r} : phase'[x] = phase[x]
  BY DEF IndInv, TypeOK
<1>12. DispensesHadStock'
  BY <1>3, <1>9, <1>10, <1>11 DEF IndInv, DispensesHadStock
<1>13. LostDoorsHaveACause'
  <2> SUFFICES ASSUME NEW x \in Requests, LeftNoRow(x)', opened[x] # NoPosition
               PROVE  \/ phase'[x] = "killed"
                      \/ phase'[x] = "failed" /\ "commit" \in Faults
                      \/ phase'[x] = "refused" /\ request[x].type = "dispense" /\ ledger'[Cell(x)'] # <<>>
    BY DEF LostDoorsHaveACause
  <2>1. x # r
    BY <1>1, <1>2 DEF LeftNoRow, Final, Successful, NoRow
  <2>2. LeftNoRow(x)
    BY <1>2, <1>11, <2>1 DEF LeftNoRow
  <2> QED BY <1>3, <1>9, <1>10, <1>11, <2>1, <2>2 DEF IndInv, DoorsAreAccountedFor, LostDoorsHaveACause
<1>14. DoorsAreAccountedFor'
  BY <1>1, <1>2, <1>13 DEF IndInv, DoorsAreAccountedFor, StockMovesThroughOpenedSlot, PulseFitsState
<1>15. ErrorsAreClassified'
  BY <1>1, <1>2, <1>11 DEF IndInv, ErrorsAreClassified, LeftNoRow, PulseFitsState, Successful, Final, NoRow
<1> QED BY <1>1, <1>2, <1>3, <1>5, <1>6, <1>7, <1>8, <1>12, <1>14, <1>15

(* Committing a failure leaves stock and ledger alone.                     *)
LEMMA CommitFailureStep ==
  ASSUME ConstantsOK, IndInv, NEW r \in Requests, Commit(r), state[r] \notin Successful
  PROVE  IndInv'
<1>1. /\ operation[r] = NoRow /\ state[r] \in Final
      /\ operation' \in [Requests -> Final \cup {NoRow}]
      /\ operation'[r] = state[r]
      /\ \A x \in Requests \ {r} : operation'[x] = operation[x]
      /\ \A x \in Requests : Cell(x)' = Cell(x)
      /\ \A x \in Requests, b \in Int : QuantityAfter(x, b)' = QuantityAfter(x, b)
  BY CommitFrame
<1>2. balance' = balance /\ ledger' = ledger /\ session' = session
  BY DEF Commit, Successful
<1>3. TypeOK'
  BY <1>1, <1>2 DEF Commit, IndInv, TypeOK, Phases, Answered, physicalVars
<1>4. StockIsNatural' /\ StockNeverNegative' /\ LedgerExplainsBalance'
  BY <1>2 DEF IndInv, StockIsNatural, StockNeverNegative, LedgerExplainsBalance
<1>5. MovementsAreSuccessful'
  <2> SUFFICES ASSUME NEW c \in Cells, NEW i \in DOMAIN ledger[c],
                      NEW x \in Requests, x = ledger[c][i].operation
               PROVE  /\ operation'[x] \in Successful
                      /\ c = Cell(x)'
                      /\ ledger[c][i].after = QuantityAfter(x, ledger[c][i].before)'
                      /\ \A j \in DOMAIN ledger[c] : ledger[c][j].operation = x => i = j
    BY <1>1, <1>2, NotInLedgerYet DEF MovementsAreSuccessful, Cell, QuantityAfter
  <2>1. x # r /\ ledger[c][i] \in Movement
    BY <1>1, NotInLedgerYet
  <2>2. /\ operation[x] \in Successful
        /\ c = Cell(x)
        /\ ledger[c][i].after = QuantityAfter(x, ledger[c][i].before)
        /\ \A j \in DOMAIN ledger[c] : ledger[c][j].operation = x => i = j
    BY DEF IndInv, MovedOnceIffSuccessful, MovementsAreSuccessful
  <2>3. QuantityAfter(x, ledger[c][i].before)' = QuantityAfter(x, ledger[c][i].before)
    BY <1>2 DEF Commit, QuantityAfter
  <2> QED BY <1>1, <2>1, <2>2, <2>3
<1>6. SuccessesAreInLedger'
  BY <1>1, <1>2 DEF IndInv, MovedOnceIffSuccessful, SuccessesAreInLedger
<1> QED
  BY <1>3, <1>4, <1>5, <1>6, CommitFrame DEF IndInv, MovedOnceIffSuccessful

(* Committing a success moves the stock of the request's cell from what it *)
(* is, and leaves one movement behind.                                     *)
LEMMA CommitSuccessStep ==
  ASSUME ConstantsOK, IndInv, NEW r \in Requests, Commit(r), state[r] \in Successful
  PROVE  IndInv'
<1> DEFINE cell == Cell(r)
           entry == [operation |-> r, before |-> txn[r].before, after |-> txn[r].after]
<1>1. /\ phase[r] = "executing" /\ operation[r] = NoRow /\ state[r] \in Final
      /\ operation' \in [Requests -> Final \cup {NoRow}]
      /\ operation'[r] = state[r]
      /\ \A x \in Requests \ {r} : operation'[x] = operation[x]
      /\ \A x \in Requests : Cell(x)' = Cell(x)
      /\ \A x \in Requests, b \in Int : QuantityAfter(x, b)' = QuantityAfter(x, b)
  BY CommitFrame
<1>2. /\ balance' = [balance EXCEPT ![cell] = txn[r].after]
      /\ ledger' = [ledger EXCEPT ![cell] = Append(@, entry)]
  BY DEF Commit
<1>3. cell \in Cells /\ entry \in Movement
  <2>1. txn[r] \in Transaction
    BY DEF IndInv, TypeOK
  <2> QED BY <1>1, <2>1, CellStock DEF Transaction, Movement
<1>4. /\ entry.operation = r
      /\ entry.before = Stock(cell)
      /\ entry.after = QuantityAfter(r, entry.before)
      /\ entry.after >= 0
  BY <1>1 DEF IndInv, FlushedWriteIsCurrent
<1>a. txn[r].after = entry.after
  OBVIOUS
<1> HIDE DEF entry
<1>5. ledger \in [Cells -> Seq(Movement)] /\ balance \in [Cells -> Int]
  BY DEF IndInv, TypeOK
<1>6. /\ ledger' \in [Cells -> Seq(Movement)] /\ balance' \in [Cells -> Int]
      /\ \A c \in Cells \ {cell} : ledger'[c] = ledger[c] /\ balance'[c] = balance[c]
      /\ ledger'[cell] = Append(ledger[cell], entry)
      /\ balance'[cell] = entry.after
  <2>1. Append(ledger[cell], entry) \in Seq(Movement)
    BY <1>3, <1>5, AppendProperties
  <2>2. /\ ledger' \in [Cells -> Seq(Movement)]
        /\ \A c \in Cells \ {cell} : ledger'[c] = ledger[c]
        /\ ledger'[cell] = Append(ledger[cell], entry)
    BY <1>2, <1>3, <1>5, <2>1
  <2>3. entry.after \in Int
    BY <1>3 DEF Movement
  <2>4. /\ balance' \in [Cells -> Int]
        /\ \A c \in Cells \ {cell} : balance'[c] = balance[c]
        /\ balance'[cell] = entry.after
    BY <1>2, <1>3, <1>5, <1>a, <2>3
  <2> QED BY <2>2, <2>4
<1>7. /\ Len(ledger'[cell]) = Len(ledger[cell]) + 1
      /\ \A i \in 1 .. Len(ledger[cell]) : ledger'[cell][i] = ledger[cell][i]
      /\ ledger'[cell][Len(ledger[cell]) + 1] = entry
      /\ Len(ledger[cell]) \in Nat
      /\ DOMAIN ledger[cell] = 1 .. Len(ledger[cell])
      /\ DOMAIN ledger'[cell] = 1 .. Len(ledger[cell]) + 1
      /\ ledger'[cell] # <<>>
  <2>1. ledger[cell] \in Seq(Movement)
    BY <1>3, <1>5
  <2>2. Len(ledger[cell]) \in Nat /\ DOMAIN ledger[cell] = 1 .. Len(ledger[cell])
    BY <2>1, LenProperties
  <2>3. /\ ledger'[cell] # <<>>
        /\ Len(ledger'[cell]) = Len(ledger[cell]) + 1
        /\ \A i \in 1 .. Len(ledger[cell]) : ledger'[cell][i] = ledger[cell][i]
        /\ ledger'[cell][Len(ledger[cell]) + 1] = entry
    BY <1>3, <1>6, <2>1, AppendProperties
  <2>4. DOMAIN ledger'[cell] = 1 .. Len(ledger'[cell])
    BY <1>3, <1>6, LenProperties
  <2> QED BY <2>2, <2>3, <2>4
<1> HIDE DEF cell
<1>8. TypeOK'
  <2>1. session' \in [Sessions -> SessionRow]
    <3>1. CASE state[r] = "session_completed"
      <4>1. sid[r] \in Sessions
        BY <1>1, <3>1 DEF IndInv, RequestPrepared, StateFitsType
      <4>2. session[sid[r]] \in SessionRow
        BY <4>1 DEF IndInv, TypeOK
      <4>3. SavedSession(r) \in SessionRow
        BY <4>2 DEF SavedSession, SessionRow
      <4> QED BY <3>1, <4>3 DEF Commit, IndInv, TypeOK
    <3>2. CASE state[r] # "session_completed"
      BY <3>2 DEF Commit, IndInv, TypeOK
    <3> QED BY <3>1, <3>2
  <2> QED BY <1>1, <1>6, <2>1 DEF Commit, IndInv, TypeOK, Phases, Answered, physicalVars
<1>9. StockIsNatural' /\ StockNeverNegative'
  <2>1. entry.after \in Nat
    BY <1>3, <1>4 DEF Movement
  <2>2. \A c \in Cells : c # cell => balance'[c] = balance[c] /\ ledger'[c] = ledger[c]
    BY <1>6
  <2>3. balance'[cell] = entry.after
    BY <1>6
  <2>4. StockIsNatural'
    BY <2>1, <2>2, <2>3 DEF IndInv, StockIsNatural
  <2>5. StockNeverNegative'
    BY <2>1, <2>2, <2>3 DEF IndInv, StockNeverNegative
  <2> QED BY <2>4, <2>5
<1>10. LedgerExplainsBalance'
  <2> SUFFICES ASSUME NEW c \in Cells
               PROVE  /\ ledger'[c] = <<>> => balance'[c] = InitialBalance[c]
                      /\ ledger'[c] # <<>> =>
                           /\ ledger'[c][1].before = InitialStock(c)
                           /\ balance'[c] = ledger'[c][Len(ledger'[c])].after
                      /\ \A i \in 1 .. Len(ledger'[c]) - 1 :
                           ledger'[c][i + 1].before = ledger'[c][i].after
    BY DEF LedgerExplainsBalance, InitialStock
  <2>0. /\ ledger[c] = <<>> => balance[c] = InitialBalance[c]
        /\ ledger[c] # <<>> => /\ ledger[c][1].before = InitialStock(c)
                               /\ balance[c] = ledger[c][Len(ledger[c])].after
                               /\ balance[c] >= 0
        /\ \A i \in 1 .. Len(ledger[c]) - 1 : ledger[c][i + 1].before = ledger[c][i].after
    BY DEF IndInv, LedgerExplainsBalance, StockNeverNegative
  <2>1. CASE c # cell
    BY <1>6, <2>0, <2>1
  <2>2. CASE c = cell
    <3>1. ledger'[c][1].before = InitialStock(c)
      <4>1. CASE ledger[c] = <<>>
        BY <1>3, <1>4, <1>7, <2>0, <2>2, <4>1 DEF Stock, InitialStock
      <4>2. CASE ledger[c] # <<>>
        <5>1. 1 \in 1 .. Len(ledger[c])
          BY <1>5, <1>7, <2>2, <4>2
        <5> QED BY <1>7, <2>0, <2>2, <4>2, <5>1
      <4> QED BY <4>1, <4>2
    <3>2. balance'[c] = ledger'[c][Len(ledger'[c])].after
      BY <1>6, <1>7, <2>2
    <3>3. ASSUME NEW i \in 1 .. Len(ledger'[c]) - 1
          PROVE  ledger'[c][i + 1].before = ledger'[c][i].after
      <4>1. CASE i = Len(ledger[c])
        <5>1. ledger[c] # <<>> /\ i \in 1 .. Len(ledger[c])
          BY <1>7, <2>2, <3>3, <4>1
        <5>2. entry.before = balance[c]
          BY <1>4, <2>0, <2>2, <5>1 DEF Stock, Absent
        <5> QED BY <1>7, <2>0, <2>2, <4>1, <5>1, <5>2
      <4>2. CASE i # Len(ledger[c])
        <5>1. i \in 1 .. Len(ledger[c]) - 1 /\ i + 1 \in 1 .. Len(ledger[c])
          BY <1>7, <2>2, <3>3, <4>2
        <5> QED BY <1>7, <2>0, <2>2, <5>1
      <4> QED BY <4>1, <4>2
    <3> QED BY <1>7, <2>2, <3>1, <3>2, <3>3
  <2> QED BY <2>1, <2>2
<1>11. MovementsAreSuccessful'
  <2> SUFFICES ASSUME NEW c \in Cells, NEW i \in DOMAIN ledger'[c],
                      NEW x \in Requests, x = ledger'[c][i].operation
               PROVE  /\ operation'[x] \in Successful
                      /\ c = Cell(x)'
                      /\ ledger'[c][i].after = QuantityAfter(x, ledger'[c][i].before)
                      /\ \A j \in DOMAIN ledger'[c] : ledger'[c][j].operation = x => i = j
    <3>1. ASSUME NEW c \in Cells, NEW i \in DOMAIN ledger'[c]
          PROVE  ledger'[c][i].operation \in Requests /\ ledger'[c][i].before \in Int
      <4>1. ledger'[c] \in Seq(Movement)
        BY <1>6
      <4>2. ledger'[c][i] \in Movement
        BY <4>1
      <4> QED BY <4>2 DEF Movement
    <3> QED BY <1>1, <3>1 DEF MovementsAreSuccessful, Cell, QuantityAfter, Commit
  <2>1. ASSUME NEW d \in Cells, NEW j \in DOMAIN ledger[d]
        PROVE  ledger[d][j] \in Movement /\ ledger[d][j].operation \in Requests \ {r}
    BY <1>1, NotInLedgerYet
  <2>2. CASE c = cell /\ i = Len(ledger[c]) + 1
    <3>1. x = r
      BY <1>4, <1>7, <2>2
    <3>2. ASSUME NEW j \in DOMAIN ledger'[c], ledger'[c][j].operation = x
          PROVE  i = j
      <4>1. j \notin DOMAIN ledger[c]
        BY <1>7, <2>1, <2>2, <3>1, <3>2
      <4> QED BY <1>7, <2>2, <4>1
    <3> QED BY <1>1, <1>4, <1>7, <2>2, <3>1, <3>2 DEF cell
  <2>3. CASE ~ (c = cell /\ i = Len(ledger[c]) + 1)
    <3>1. i \in DOMAIN ledger[c] /\ ledger'[c][i] = ledger[c][i]
      <4>1. CASE c = cell
        BY <1>7, <2>3, <4>1
      <4>2. CASE c # cell
        BY <1>6, <4>2
      <4> QED BY <4>1, <4>2
    <3>2. x # r /\ ledger[c][i].before \in Int
      BY <2>1, <3>1 DEF Movement
    <3>3. /\ operation[x] \in Successful
          /\ c = Cell(x)
          /\ ledger[c][i].after = QuantityAfter(x, ledger[c][i].before)
          /\ \A j \in DOMAIN ledger[c] : ledger[c][j].operation = x => i = j
      BY <3>1 DEF IndInv, MovedOnceIffSuccessful, MovementsAreSuccessful
    <3>4. ASSUME NEW j \in DOMAIN ledger'[c], ledger'[c][j].operation = x
          PROVE  i = j
      <4>1. j \in DOMAIN ledger[c] /\ ledger'[c][j] = ledger[c][j]
        <5>1. CASE c = cell
          <6>1. j # Len(ledger[c]) + 1
            BY <1>4, <1>7, <3>2, <3>4, <5>1
          <6>2. j \in 1 .. Len(ledger[c]) + 1 /\ Len(ledger[c]) \in Nat
            BY <1>7, <3>4, <5>1
          <6>3. j \in 1 .. Len(ledger[c])
            BY <6>1, <6>2
          <6> QED BY <1>7, <5>1, <6>3
        <5>2. CASE c # cell
          BY <1>6, <5>2
        <5> QED BY <5>1, <5>2
      <4> QED BY <3>3, <3>4, <4>1
    <3> QED BY <1>1, <3>1, <3>2, <3>3, <3>4
  <2> QED BY <2>2, <2>3
<1>12. SuccessesAreInLedger'
  <2> SUFFICES ASSUME NEW x \in Requests, operation'[x] \in Successful
               PROVE  \E i \in DOMAIN ledger'[Cell(x)] : ledger'[Cell(x)][i].operation = x
    BY <1>1 DEF SuccessesAreInLedger
  <2>1. CASE x = r
    BY <1>4, <1>7, <2>1 DEF cell
  <2>2. CASE x # r
    <3>1. PICK i \in DOMAIN ledger[Cell(x)] : ledger[Cell(x)][i].operation = x
      BY <1>1, <2>2 DEF IndInv, MovedOnceIffSuccessful, SuccessesAreInLedger
    <3>2. x \in Requests /\ phase[x] = "ok"
      BY <1>1, <2>2 DEF IndInv, SettledIffCommitted, Successful, NoRow
    <3>3. Cell(x) \in Cells
      BY <3>2 DEF IndInv, RequestPrepared, TypeOK, Request, Cell, Cells
    <3>4. CASE Cell(x) = cell
      <4>1. i \in DOMAIN ledger'[cell] /\ ledger'[cell][i] = ledger[cell][i]
        BY <1>7, <3>1, <3>4
      <4> QED BY <3>1, <3>4, <4>1
    <3>5. CASE Cell(x) # cell
      BY <1>6, <3>1, <3>3, <3>5
    <3> QED BY <3>4, <3>5
  <2> QED BY <2>1, <2>2
<1> QED
  BY <1>8, <1>9, <1>10, <1>11, <1>12, CommitFrame DEF IndInv, MovedOnceIffSuccessful

-----------------------------------------------------------------------------
(* The invariant holds in every initial state.                             *)
LEMMA InitIndInv ==
  ASSUME ConstantsOK, Init
  PROVE  IndInv
<1> USE DEF Init
<1>1. TypeOK
  <2>1. request \in [Requests -> Request]
    BY DEF ConstantsOK
  <2>2. \A S : <<>> \in Seq(S)
    OBVIOUS
  <2>3. NoTxn \in Transaction
    BY DEF NoTxn, Transaction
  <2>4. balance \in [Cells -> Int]
    BY DEF ConstantsOK, Absent
  <2>5. session \in [Sessions -> SessionRow]
    BY DEF ConstantsOK
  <2> QED BY <2>1, <2>2, <2>3, <2>4, <2>5 DEF TypeOK, Phases
<1>2. /\ OneOperationAtTheMachine /\ RequestPrepared /\ SettledIffCommitted
      /\ StateFitsType /\ PulseFitsState /\ FlushedWriteIsCurrent
  BY DEF OneOperationAtTheMachine, RequestPrepared, SettledIffCommitted,
         StateFitsType, PulseFitsState, FlushedWriteIsCurrent
<1>3. StockIsNatural /\ StockNeverNegative
  BY DEF ConstantsOK, StockIsNatural, StockNeverNegative
<1>4. LedgerExplainsBalance
  BY DEF LedgerExplainsBalance
<1>5. MovedOnceIffSuccessful
  BY DEF MovedOnceIffSuccessful, MovementsAreSuccessful, SuccessesAreInLedger, Successful, NoRow
<1>6. DispensesHadStock /\ DoorsAreAccountedFor /\ ErrorsAreClassified
  BY DEF DispensesHadStock, DoorsAreAccountedFor, StockMovesThroughOpenedSlot,
         LostDoorsHaveACause, LeftNoRow, ErrorsAreClassified, NoRow
<1> QED BY <1>1, <1>2, <1>3, <1>4, <1>5, <1>6 DEF IndInv

(* Steps that change no variable keep it.                                  *)
LEMMA StutterStep ==
  ASSUME IndInv, UNCHANGED vars
  PROVE  IndInv'
<1> USE DEF vars, requestVars, physicalVars, tableVars
<1>1. TypeOK' /\ OneOperationAtTheMachine' /\ RequestPrepared' /\ SettledIffCommitted'
  BY DEF IndInv, TypeOK, OneOperationAtTheMachine, RequestPrepared, SettledIffCommitted
<1>2. StateFitsType' /\ PulseFitsState'
  BY DEF IndInv, StateFitsType, PulseFitsState
<1>3. FlushedWriteIsCurrent'
  BY DEF IndInv, FlushedWriteIsCurrent, Stock, Cell, QuantityAfter
<1>4. DispensesHadStock' /\ DoorsAreAccountedFor' /\ ErrorsAreClassified'
  BY AccountFrame
<1> QED BY <1>1, <1>2, <1>3, <1>4, TableFrame DEF IndInv

(* Every step keeps it.                                                    *)
LEMMA NextIndInv ==
  ASSUME ConstantsOK, IndInv, [Next]_vars
  PROVE  IndInv'
<1>1. CASE \E r \in Requests : Serve(r)
  <2> SUFFICES ASSUME NEW r \in Requests, Serve(r) PROVE IndInv'
    BY <1>1
  <2>1. CASE Commit(r)
    BY <2>1, CommitSuccessStep, CommitFailureStep
  <2> QED
    BY <2>1, ValidateRequestStep, RefusalStep, CreateOperationStep, MoveDrumStep,
       UnlockSlotStep, HardwareFailureStep, ApplyInventoryStep, RollbackStep
       DEF Serve
<1>2. CASE OutsideBegins \/ OutsideEnds \/ DrumMovesLate
  BY <1>2, OutsideStep
<1>3. CASE Crash
  BY <1>3, CrashStep
<1>4. CASE UNCHANGED vars
  BY <1>4, StutterStep
<1> QED BY <1>1, <1>2, <1>3, <1>4 DEF Next

(* The strengthening behind the theorems is an invariant.                  *)
THEOREM Inductive == Spec => []IndInv
<1>1. Init => IndInv
  BY InitIndInv, ConstantsOK
<1>2. IndInv /\ [Next]_vars => IndInv'
  BY NextIndInv, ConstantsOK
<1> QED BY <1>1, <1>2, PTL DEF Spec

(* Every variable keeps to its type, for any requests, catalogue and stock. *)
THEOREM TypeCorrect == Spec => []TypeOK
<1>1. IndInv => TypeOK
  BY DEF IndInv
<1> QED BY <1>1, Inductive, PTL

(* However many requests run at once, the drum and the locks serve one.    *)
THEOREM OneAtTheMachine == Spec => []OneOperationAtTheMachine
<1>1. IndInv => OneOperationAtTheMachine
  BY DEF IndInv
<1> QED BY <1>1, Inductive, PTL

(* Balances are explained by their movements: no update is ever lost.      *)
THEOREM LedgerIsComplete == Spec => []LedgerExplainsBalance
<1>1. IndInv => LedgerExplainsBalance
  BY DEF IndInv
<1> QED BY <1>1, Inductive, PTL

(* A committed movement never leaves a negative stock.                     *)
THEOREM StockSuffices == Spec => []StockNeverNegative
<1>1. IndInv => StockNeverNegative
  BY DEF IndInv
<1> QED BY <1>1, Inductive, PTL

(* An operation moves its stock exactly once if it succeeds, never if not. *)
THEOREM MovedOnce == Spec => []MovedOnceIffSuccessful
<1>1. IndInv => MovedOnceIffSuccessful
  BY DEF IndInv
<1> QED BY <1>1, Inductive, PTL

(* A completed dispense or return has opened its door, a failed one has    *)
(* not, and a door opened for an operation that left no row was lost to a  *)
(* crash, to a commit that failed, or to a rival for the same stock.       *)
THEOREM DoorsAccounted == Spec => []DoorsAreAccountedFor
<1>1. IndInv => DoorsAreAccountedFor
  BY DEF IndInv
<1> QED BY <1>1, Inductive, PTL

(* No operation that met a hardware error is filed as a success, and one   *)
(* is lost only with a refill, a commit that fails, or a crash.            *)
THEOREM ErrorsFiled == Spec => []ErrorsAreClassified
<1>1. IndInv => ErrorsAreClassified
  BY DEF IndInv
<1> QED BY <1>1, Inductive, PTL

-----------------------------------------------------------------------------
(* Operations implements InventoryLedger: a commit is the one step that    *)
(* the ledger sees.                                                        *)
LEMMA SuccessIsMove ==
  ASSUME IndInv, NEW r \in Requests, Commit(r), state[r] \in Successful
  PROVE  \E c \in Inventory!Cells :
           Inventory!Debit(r, c) \/ Inventory!Credit(r, c) \/ Inventory!Recount(r, c)
<1> DEFINE c == Cell(r)
<1>0. phase[r] = "executing"
  BY DEF Commit
<1>1. c \in Inventory!Cells
  BY <1>0, CellStock DEF Cells, Inventory!Cells
<1>2. c[2] = request[r].item
  BY DEF Cell
<1>3. request[r].type \in OrchestratedTypes /\ request[r].qty \in Int
  BY DEF IndInv, TypeOK, Request
<1>4. Stock(c) \in Nat
  BY <1>0, CellStock
<1>5. [d \in Cells |-> Stock(d)][c] = Stock(c)
  BY <1>1 DEF Cells, Inventory!Cells
<1>6. /\ txn[r].before = Stock(c)
      /\ txn[r].after = QuantityAfter(r, Stock(c))
      /\ txn[r].after >= 0
  BY <1>0 DEF IndInv, FlushedWriteIsCurrent
<1>7. operation[r] = Inventory!NoRow
  BY <1>0 DEF IndInv, SettledIffCommitted, NoRow, Inventory!NoRow
<1>8. Inventory!Move(r, c, state[r], QuantityAfter(r, Stock(c)))
  <2>1. balance' = [balance EXCEPT ![c] = txn[r].after]
    BY DEF Commit
  <2>2. [d \in Cells |-> Stock(d)'] = [[d \in Cells |-> Stock(d)] EXCEPT ![c] = txn[r].after]
    <3>1. balance \in [Cells -> Int] /\ c \in Cells
      BY <1>1 DEF IndInv, TypeOK, Absent, Cells, Inventory!Cells
    <3> HIDE DEF c
    <3>2. \A d \in Cells : Stock(d)' = IF d = c THEN txn[r].after ELSE Stock(d)
      BY <1>6, <2>1, <3>1 DEF Stock, Absent
    <3>3. QED
      BY <3>1, <3>2
  <2>3. QED
    BY <1>2, <1>5, <1>6, <1>7, <2>2 DEF Inventory!Move, Commit
<1> HIDE DEF c
<1>9. /\ request[r].type = "refill_item" => state[r] = "session_completed"
      /\ request[r].type # "refill_item" => state[r] = "completed"
  BY <1>0 DEF IndInv, StateFitsType, Successful
<1>10. CASE request[r].type = "dispense"
  <2>1. QuantityAfter(r, Stock(c)) = Stock(c) - request[r].qty
    BY <1>10 DEF QuantityAfter
  <2>2. Stock(c) >= request[r].qty
    BY <1>3, <1>4, <1>6, <2>1
  <2>3. Inventory!Debit(r, c)
    BY <1>5, <1>8, <1>9, <1>10, <2>1, <2>2 DEF Inventory!Debit
  <2> QED BY <1>1, <2>3
<1>11. CASE request[r].type = "return"
  <2>1. QuantityAfter(r, Stock(c)) = Stock(c) + request[r].qty
    BY <1>11 DEF QuantityAfter
  <2>2. Inventory!Credit(r, c)
    BY <1>5, <1>8, <1>9, <1>11, <2>1 DEF Inventory!Credit
  <2> QED BY <1>1, <2>2
<1>12. CASE request[r].type = "refill_item"
  <2>1. QuantityAfter(r, Stock(c)) = IF request[r].mode = "set" THEN request[r].qty
                                     ELSE Stock(c) + request[r].qty
    BY <1>12 DEF QuantityAfter
  <2>2. Inventory!Recount(r, c)
    BY <1>5, <1>8, <1>9, <1>12, <2>1 DEF Inventory!Recount
  <2> QED BY <1>1, <2>2
<1> QED BY <1>3, <1>10, <1>11, <1>12 DEF OrchestratedTypes

(* Committing a failure settles the operation and moves nothing.           *)
LEMMA FailureIsFail ==
  ASSUME IndInv, NEW r \in Requests, Commit(r), state[r] \notin Successful
  PROVE  Inventory!Fail(r)
<1>1. operation[r] = Inventory!NoRow
  BY DEF Commit, IndInv, SettledIffCommitted, NoRow, Inventory!NoRow
<1>2. state[r] \in {"failed", "recovery_required"}
  BY DEF Commit, Final
<1> QED BY <1>1, <1>2 DEF Commit, Inventory!Fail, Successful, Stock

(* Every other step leaves the tables as they are.                         *)
LEMMA OtherStepsStutter ==
  ASSUME [Next]_vars, ~ \E r \in Requests : Commit(r)
  PROVE  UNCHANGED <<request, tableVars>>
<1> USE DEF tableVars
<1>1. CASE \E r \in Requests : Serve(r)
  <2> SUFFICES ASSUME NEW r \in Requests, Serve(r)
               PROVE  UNCHANGED <<request, tableVars>>
    BY <1>1
  <2>1. CASE ValidateRequest(r) \/ RejectRequest(r) \/ CreateOperation(r) \/ LockWaitExpires(r)
    BY <2>1 DEF ValidateRequest, RejectRequest, CreateOperation, LockWaitExpires
  <2>2. CASE MoveDrum(r) \/ UnlockSlot(r) \/ ApplyInventory(r)
    BY <2>2 DEF MoveDrum, UnlockSlot, ApplyInventory
  <2>3. CASE MoveFails(r) \/ UnlockFails(r)
    BY <2>3 DEF MoveFails, UnlockFails, HandleHardwareError, FileHardwareError, LoseHardwareError, Discard
  <2>4. CASE RefuseInventory(r) \/ CommitFails(r)
    BY <2>4 DEF RefuseInventory, CommitFails, Discard
  <2> QED BY <2>1, <2>2, <2>3, <2>4 DEF Serve
<1>2. CASE OutsideBegins \/ OutsideEnds \/ DrumMovesLate
  BY <1>2 DEF OutsideBegins, OutsideEnds, DrumMovesLate, requestVars
<1>3. CASE Crash
  BY <1>3 DEF Crash
<1>4. CASE UNCHANGED vars
  BY <1>4 DEF vars, requestVars
<1> QED BY <1>1, <1>2, <1>3, <1>4 DEF Next

(* The inventory behaves as InventoryLedger promises, for any requests,    *)
(* catalogue, stock and faults.                                            *)
THEOREM ImplementsLedger == Spec => ImplementsInventoryLedger
<1>1. Init => Inventory!Init
  BY DEF Init, Inventory!Init, NoRow, Inventory!NoRow, Cells, Inventory!Cells, Stock, InitialStock
<1>2. IndInv /\ [Next]_vars => [Inventory!Next]_(Inventory!tables)
  <2> SUFFICES ASSUME IndInv, [Next]_vars
               PROVE  Inventory!Next \/ UNCHANGED Inventory!tables
    OBVIOUS
  <2>1. CASE \E r \in Requests : Commit(r)
    <3> PICK r \in Requests : Commit(r)
      BY <2>1
    <3>1. CASE state[r] \in Successful
      BY <3>1, SuccessIsMove DEF Inventory!Next
    <3>2. CASE state[r] \notin Successful
      BY <3>2, FailureIsFail DEF Inventory!Next
    <3> QED BY <3>1, <3>2
  <2>2. CASE ~ \E r \in Requests : Commit(r)
    BY <2>2, OtherStepsStutter DEF Inventory!tables, tableVars, Stock
  <2> QED BY <2>1, <2>2
<1> QED BY <1>1, <1>2, Inductive, PTL DEF Spec, Inventory!Spec, ImplementsInventoryLedger

-----------------------------------------------------------------------------
(* What a request has resolved stays, and so does that it was cut short.   *)
LEMMA CutsStay ==
  ASSUME IndInv, [Next]_vars
  PROVE  /\ errored \subseteq errored'
         /\ \A x \in Requests :
              /\ phase[x] # "arrived" => slot'[x] = slot[x]
              /\ phase[x] = "killed" => phase'[x] = "killed"
<1>0. /\ phase \in [Requests -> Phases]
      /\ slot \in [Requests -> Slots \cup {NoSlot}]
  BY DEF IndInv, TypeOK
<1>1. CASE \E r \in Requests : Serve(r)
  <2> PICK r \in Requests : Serve(r)
    BY <1>1
  <2>1. CASE ValidateRequest(r)
    BY <1>0, <2>1 DEF ValidateRequest, physicalVars
  <2>2. CASE RejectRequest(r) \/ LockWaitExpires(r) \/ CreateOperation(r)
    BY <1>0, <2>2 DEF RejectRequest, LockWaitExpires, CreateOperation, physicalVars
  <2>3. CASE MoveDrum(r) \/ UnlockSlot(r) \/ ApplyInventory(r) \/ Commit(r)
    BY <1>0, <2>3 DEF MoveDrum, UnlockSlot, ApplyInventory, Commit, physicalVars
  <2>4. CASE MoveFails(r) \/ UnlockFails(r)
    <3>1. phase[r] = "executing" /\ HandleHardwareError(r)
      BY <2>4 DEF MoveFails, UnlockFails, At
    <3> QED BY <1>0, <3>1 DEF HandleHardwareError, FileHardwareError, LoseHardwareError, Discard
  <2>5. CASE RefuseInventory(r) \/ CommitFails(r)
    BY <1>0, <2>5 DEF RefuseInventory, CommitFails, Discard, AtInventory, At, physicalVars
  <2> QED BY <2>1, <2>2, <2>3, <2>4, <2>5 DEF Serve
<1>2. CASE OutsideBegins \/ OutsideEnds \/ DrumMovesLate
  BY <1>2 DEF OutsideBegins, OutsideEnds, DrumMovesLate, requestVars, physicalVars
<1>3. CASE Crash
  BY <1>0, <1>3 DEF Crash, InFlight
<1>4. CASE UNCHANGED vars
  BY <1>4 DEF vars, requestVars, physicalVars
<1> QED BY <1>1, <1>2, <1>3, <1>4 DEF Next

(* So a stray position stays one.                                          *)
LEMMA StraysStay ==
  ASSUME IndInv, [Next]_vars
  PROVE  StrayPositions \subseteq StrayPositions'
<1>1. \A x \in Requests : CutShort(x) => phase[x] # "arrived"
  BY DEF CutShort, IndInv, PulseFitsState
<1>2. \A x \in Requests : CutShort(x) => CutShort(x)' /\ slot'[x] = slot[x]
  BY <1>1, CutsStay DEF CutShort
<1> QED BY <1>2 DEF StrayPositions

(* A command that is cut short owes a stray position.                      *)
LEMMA StrayBegins ==
  ASSUME ConstantsOK, IndInv, NEW r \in Requests, phase[r] = "executing",
         CutShort(r)', slot'[r] = slot[r], "late_move" \in Faults
  PROVE  Position[slot[r]] \in StrayPositions'
<1>1. slot[r] # NoSlot
  BY DEF IndInv, RequestPrepared, ConstantsOK
<1> QED BY <1>1 DEF StrayPositions

(* What drum, late move and pulses may be after a step, given what they    *)
(* may have been before.                                                   *)
LEMMA TracedFrame ==
  ASSUME IndInv, [Next]_vars, NEW others, DrumTraced(others),
         \/ UNCHANGED lateMove
         \/ lateMove' \in {NoPosition} \cup StrayPositions',
         \A x \in Requests :
           \/ ~ At(x, "unlock_requested")'
           \/ At(x, "unlock_requested") /\ UNCHANGED drum
           \/ At(x, "unlock_requested") /\ drum' = lateMove /\ lateMove # NoPosition
           \/ phase[x] # "arrived" /\ drum' = Position[slot[x]],
         \A x \in Requests :
           \/ UNCHANGED opened[x]
           \/ At(x, "unlock_requested") /\ opened'[x] = drum
  PROVE  DrumTraced(others)'
<1>1. StrayPositions \subseteq StrayPositions'
  BY StraysStay
<1>2. \A x \in Requests :
        At(x, "unlock_requested") \/ opened[x] # NoPosition => phase[x] # "arrived"
  BY DEF At, IndInv, PulseFitsState
<1>3. \A x \in Requests : phase[x] # "arrived" => slot'[x] = slot[x]
  BY CutsStay
<1>4. lateMove' \in {NoPosition} \cup StrayPositions' \cup others
  BY <1>1 DEF DrumTraced
<1>5. ASSUME NEW x \in Requests, At(x, "unlock_requested")'
      PROVE  drum' \in {Position[slot'[x]]} \cup StrayPositions' \cup others
  BY <1>1, <1>2, <1>3, <1>5 DEF DrumTraced
<1>6. ASSUME NEW x \in Requests, opened'[x] # NoPosition
      PROVE  opened'[x] \in {Position[slot'[x]]} \cup StrayPositions' \cup others
  <2>1. CASE UNCHANGED opened[x]
    BY <1>1, <1>2, <1>3, <1>6, <2>1 DEF DrumTraced
  <2>2. CASE At(x, "unlock_requested") /\ opened'[x] = drum
    BY <1>1, <1>2, <1>3, <2>2 DEF DrumTraced
  <2> QED BY <2>1, <2>2
<1> QED BY <1>4, <1>5, <1>6 DEF DrumTraced

(* The drum moves under the write lock only, or late.                      *)
LEMMA TracedStep ==
  ASSUME ConstantsOK, IndInv, [Next]_vars, "off_target" \notin Faults,
         NEW others, DrumTraced(others)
  PROVE  DrumTraced(others)'
<1>0. /\ phase \in [Requests -> Phases] /\ state \in [Requests -> Stops \cup {NoRow}]
      /\ opened \in [Requests -> Nat \cup {NoPosition}]
  BY DEF IndInv, TypeOK
<1>1. CASE \E r \in Requests : Serve(r)
  <2> PICK r \in Requests : Serve(r)
    BY <1>1
  <2>1. CASE ValidateRequest(r) \/ RejectRequest(r) \/ LockWaitExpires(r)
    <3>1. \A x \in Requests : At(x, "unlock_requested")' => At(x, "unlock_requested")
      BY <1>0, <2>1 DEF ValidateRequest, RejectRequest, LockWaitExpires, At
    <3> QED BY <2>1, <3>1, TracedFrame
            DEF ValidateRequest, RejectRequest, LockWaitExpires, physicalVars
  <2>2. CASE CreateOperation(r)
    <3>1. request[r].type \in OrchestratedTypes
      BY DEF IndInv, TypeOK, Request
    <3>2. state'[r] = "positioning_requested"
      BY <1>0, <2>2, <3>1, PathEnds DEF CreateOperation, Walk
    <3>3. \A x \in Requests : At(x, "unlock_requested")' => At(x, "unlock_requested")
      BY <1>0, <2>2, <3>2 DEF CreateOperation, Walk, At
    <3> QED BY <2>2, <3>3, TracedFrame DEF CreateOperation, physicalVars
  <2>3. CASE MoveDrum(r)
    <3>1. phase[r] = "executing" /\ \A x \in Requests \ {r} : phase[x] # "executing"
      BY <2>3, Alone DEF MoveDrum, At
    <3>2. /\ drum' = Position[slot[r]] /\ UNCHANGED <<phase, lateMove, opened>>
      BY <2>3 DEF MoveDrum
    <3> QED BY <3>1, <3>2, TracedFrame DEF At
  <2>4. CASE UnlockSlot(r) \/ ApplyInventory(r)
    <3>1. phase[r] = "executing" /\ \A x \in Requests \ {r} : phase[x] # "executing"
      BY <2>4, Alone DEF UnlockSlot, ApplyInventory, AtInventory, At
    <3>2. request[r].type \in OrchestratedTypes
      BY DEF IndInv, TypeOK, Request
    <3>3. state'[r] # "unlock_requested"
      <4>1. CASE UnlockSlot(r)
        BY <1>0, <3>2, <4>1, PathEnds DEF UnlockSlot, Walk
      <4>2. CASE ApplyInventory(r)
        BY <1>0, <3>2, <4>2, PathEnds DEF ApplyInventory, Walk
      <4> QED BY <2>4, <4>1, <4>2
    <3>4. \A x \in Requests : ~ At(x, "unlock_requested")'
      BY <2>4, <3>1, <3>3 DEF UnlockSlot, ApplyInventory, At
    <3>5. /\ UNCHANGED lateMove
          /\ \A x \in Requests :
               UNCHANGED opened[x] \/ (At(x, "unlock_requested") /\ opened'[x] = drum)
      BY <1>0, <2>4 DEF UnlockSlot, ApplyInventory, physicalVars
    <3> QED BY <3>4, <3>5, TracedFrame
  <2>5. CASE MoveFails(r) \/ UnlockFails(r)
    <3>1. phase[r] = "executing" /\ \A x \in Requests \ {r} : phase[x] # "executing"
      BY <2>5, Alone DEF MoveFails, UnlockFails, At
    <3>2. HandleHardwareError(r)
      BY <2>5 DEF MoveFails, UnlockFails
    <3>3. \A x \in Requests : ~ At(x, "unlock_requested")'
      BY <1>0, <3>1, <3>2
         DEF HandleHardwareError, FileHardwareError, LoseHardwareError, Discard, Walk, At
    <3>4. CutShort(r)' /\ slot' = slot
      BY <3>2 DEF HandleHardwareError, FileHardwareError, LoseHardwareError, Discard, CutShort
    <3>5. UNCHANGED lateMove \/ lateMove' \in StrayPositions'
      BY <2>5, <3>1, <3>4, StrayBegins DEF MoveFails, MoveIsLost, UnlockFails
    <3>6. \A x \in Requests :
            UNCHANGED opened[x] \/ (At(x, "unlock_requested") /\ opened'[x] = drum)
      BY <1>0, <2>5 DEF MoveFails, UnlockFails
    <3> QED BY <3>3, <3>5, <3>6, TracedFrame
  <2>6. CASE RefuseInventory(r) \/ CommitFails(r) \/ Commit(r)
    <3>1. \A x \in Requests : At(x, "unlock_requested")' => At(x, "unlock_requested")
      BY <1>0, <2>6 DEF RefuseInventory, CommitFails, Discard, Commit, At
    <3> QED BY <2>6, <3>1, TracedFrame DEF RefuseInventory, CommitFails, Commit, physicalVars
  <2> QED BY <2>1, <2>2, <2>3, <2>4, <2>5, <2>6 DEF Serve
<1>2. CASE OutsideBegins \/ OutsideEnds \/ DrumMovesLate \/ UNCHANGED vars
  <2>1. UNCHANGED <<phase, state, opened>>
    BY <1>2 DEF OutsideBegins, OutsideEnds, DrumMovesLate, vars, requestVars, physicalVars
  <2>2. \/ UNCHANGED <<drum, lateMove>>
        \/ (lateMove # NoPosition /\ drum' = lateMove /\ lateMove' = NoPosition)
    BY <1>2 DEF OutsideBegins, OutsideEnds, DrumMovesLate, vars, physicalVars
  <2> QED BY <2>1, <2>2, TracedFrame DEF At
<1>3. CASE Crash
  <2>1. \A x \in Requests : ~ At(x, "unlock_requested")'
    BY <1>0, <1>3 DEF Crash, InFlight, At
  <2>2. UNCHANGED lateMove \/ lateMove' \in StrayPositions'
    <3> SUFFICES ASSUME NEW r \in Requests, "late_move" \in Faults,
                        At(r, "positioning_requested"), lateMove' = Position[slot[r]]
                 PROVE  lateMove' \in StrayPositions'
      BY <1>3 DEF Crash, MoveOutlivesCrash
    <3>1. CutShort(r)' /\ slot' = slot
      BY <1>3 DEF Crash, InFlight, At, CutShort
    <3> QED BY <3>1, StrayBegins DEF At
  <2>3. UNCHANGED opened
    BY <1>3 DEF Crash
  <2> QED BY <2>1, <2>2, <2>3, TracedFrame
<1> QED BY <1>1, <1>2, <1>3 DEF Next

(* A pulse fires at the slot of its request, or where a lost move of       *)
(* another one takes the drum: however many requests drive it, whichever   *)
(* of them fail, and whatever is carried out late.                         *)
THEOREM MissesAreExplained == Spec => []MissedSlotsHaveACause
<1> DEFINE Traced == "off_target" \notin Faults => DrumTraced({})
<1>1. Init => Traced
  BY DEF Init, DrumTraced, At
<1>2. IndInv /\ Traced /\ [Next]_vars => Traced'
  BY TracedStep, ConstantsOK
<1>3. Traced => MissedSlotsHaveACause
  BY DEF DrumTraced, MissedSlotsHaveACause
<1> QED BY <1>1, <1>2, <1>3, Inductive, PTL DEF Spec

(* So every pulse is at its slot, if the drum stops where it is told to    *)
(* and no command is carried out late.                                     *)
THEOREM PulseAtSlot ==
  ASSUME "late_move" \notin Faults, "off_target" \notin Faults
  PROVE  Spec => []UnlockFacesSlot
<1>1. MissedSlotsHaveACause => UnlockFacesSlot
  BY DEF MissedSlotsHaveACause, UnlockFacesSlot, StrayPositions
<1> QED BY <1>1, MissesAreExplained, PTL

(* What a step may not touch: the rows of settled operations, and the      *)
(* movements that are in the ledger.                                       *)
LEMMA SettledKept ==
  ASSUME IndInv, [Next]_vars
  PROVE  \A r \in Requests : operation[r] # NoRow => UNCHANGED <<operation[r], history[r]>>
<1>1. CASE \E r \in Requests : Commit(r)
  <2> PICK r \in Requests : Commit(r)
    BY <1>1
  <2>1. operation[r] = NoRow
    BY DEF Commit, IndInv, SettledIffCommitted
  <2> QED BY <2>1 DEF Commit, IndInv, TypeOK
<1>2. CASE ~ \E r \in Requests : Commit(r)
  BY <1>2, OtherStepsStutter DEF tableVars
<1> QED BY <1>1, <1>2

(* A cell's ledger is a prefix of what it is after the step.               *)
LEMMA LedgerGrows ==
  ASSUME IndInv, [Next]_vars, NEW c \in Cells
  PROVE  Extends(ledger[c], ledger'[c])
<1>0. ledger[c] \in Seq(Movement)
  BY DEF IndInv, TypeOK
<1>1. ASSUME NEW s \in Seq(Movement), NEW t \in Seq(Movement),
             Len(s) <= Len(t), \A i \in 1 .. Len(s) : t[i] = s[i]
      PROVE  Extends(s, t)
  <2>1. SubSeq(t, 1, Len(s)) = s
    BY <1>1, SubSeqProperties, SeqEqual, LenProperties
  <2> QED BY <1>1, <2>1 DEF Extends
<1>2. ledger'[c] = ledger[c] \/ \E e \in Movement : ledger'[c] = Append(ledger[c], e)
  <2>1. CASE \E r \in Requests : Commit(r)
    <3> PICK r \in Requests : Commit(r)
      BY <2>1
    <3>1. txn[r] \in Transaction
      BY DEF IndInv, TypeOK
    <3>2. [operation |-> r, before |-> txn[r].before, after |-> txn[r].after] \in Movement
      BY <3>1 DEF Transaction, Movement
    <3> QED BY <3>2 DEF Commit, IndInv, TypeOK
  <2>2. CASE ~ \E r \in Requests : Commit(r)
    BY <2>2, OtherStepsStutter DEF tableVars
  <2> QED BY <2>1, <2>2
<1>3. CASE ledger'[c] = ledger[c]
  BY <1>0, <1>1, <1>3, LenProperties
<1>4. CASE \E e \in Movement : ledger'[c] = Append(ledger[c], e)
  <2> PICK e \in Movement : ledger'[c] = Append(ledger[c], e)
    BY <1>4
  <2>1. /\ ledger'[c] \in Seq(Movement)
        /\ Len(ledger[c]) <= Len(ledger'[c])
        /\ \A i \in 1 .. Len(ledger[c]) : ledger'[c][i] = ledger[c][i]
    BY <1>0, AppendProperties, LenProperties
  <2> QED BY <1>0, <1>1, <2>1
<1> QED BY <1>2, <1>3, <1>4

(* Settled operations, their history and their movements stay as they are. *)
THEOREM SettledStays == Spec => SettledStaysSettled
<1> DEFINE Kept ==
      /\ \A r \in Requests : operation[r] # NoRow => UNCHANGED <<operation[r], history[r]>>
      /\ \A c \in Cells : Extends(ledger[c], ledger'[c])
<1>1. IndInv /\ [Next]_vars => Kept
  BY SettledKept, LedgerGrows
<1>2. IndInv /\ [Next]_vars => [Kept]_vars
  BY <1>1
<1> QED BY <1>2, Inductive, PTL DEF Spec, SettledStaysSettled
-----------------------------------------------------------------------------
(* What is left to do.  With a fair scheduler these two make every request *)
(* end: it can go on until it is answered, and that takes at most six      *)
(* steps, which nothing undoes.                                            *)

(* Nobody else takes part in a request's progress.                         *)
LEMMA OthersWait ==
  ASSUME NEW x, phase'[x] = phase[x], state'[x] = state[x]
  PROVE  StepsLeft(x)' = StepsLeft(x)
BY DEF StepsLeft, StopsLeft, At, AtInventory

LEMMA StepsAreFew ==
  ASSUME NEW r
  PROVE  /\ StepsLeft(r) \in 0 .. 6 /\ StepsLeft(r)' \in 0 .. 6
         /\ phase[r] = "executing" => StepsLeft(r) \in 1 .. 4
         /\ phase'[r] \in Answered => StepsLeft(r)' = 0
<1>1. StopsLeft(r) \in 1 .. 4 /\ StopsLeft(r)' \in 1 .. 4
  BY DEF StopsLeft
<1>2. QED
  BY <1>1 DEF StepsLeft, Answered

LEMMA ServeComesNearer ==
  ASSUME ConstantsOK, IndInv, NEW r \in Requests, Serve(r)
  PROVE  /\ StepsLeft(r)' < StepsLeft(r)
         /\ \A x \in Requests \ {r} : phase'[x] = phase[x] /\ state'[x] = state[x]
<1> DEFINE type == request[r].type
           others == \A x \in Requests \ {r} : phase'[x] = phase[x] /\ state'[x] = state[x]
<1>0. /\ phase \in [Requests -> Phases] /\ state \in [Requests -> Stops \cup {NoRow}]
      /\ type \in OrchestratedTypes
  BY ConstantsOK DEF IndInv, TypeOK, Request
<1>1. CASE ValidateRequest(r) \/ RejectRequest(r)
  BY <1>0, <1>1 DEF ValidateRequest, RejectRequest, StepsLeft, Answered
<1>2. CASE CreateOperation(r)
  <2>1. phase[r] = "validated" /\ phase'[r] = "executing" /\ state'[r] = "positioning_requested" /\ others
    BY <1>0, <1>2, PathEnds DEF CreateOperation, Walk
  <2>2. QED
    BY <2>1 DEF StepsLeft, StopsLeft, Answered, At
<1>3. CASE LockWaitExpires(r)
  BY <1>0, <1>3 DEF LockWaitExpires, StepsLeft, Answered
<1>4. ASSUME NEW answer \in Answered, phase[r] = "executing", Discard(r, answer)
      PROVE  StepsLeft(r)' < StepsLeft(r) /\ others
  <2>1. phase'[r] \in Answered /\ others
    BY <1>0, <1>4 DEF Discard
  <2>2. QED
    BY <1>4, <2>1, StepsAreFew
<1>5. CASE MoveDrum(r)
  <2>1. /\ At(r, "positioning_requested") /\ phase' = phase /\ others
        /\ state'[r] = IF type = "refill_item" THEN "balance_update_pending" ELSE "unlock_requested"
    BY <1>0, <1>5, PathEnds DEF MoveDrum, Walk
  <2>2. QED
    BY <2>1 DEF StepsLeft, StopsLeft, Answered, At, AtInventory
<1>6. CASE UnlockSlot(r)
  <2>1. /\ At(r, "unlock_requested") /\ phase' = phase /\ others
        /\ state'[r] = "inventory_write_pending"
    BY <1>0, <1>6, PathEnds DEF UnlockSlot, Walk, OrchestratedTypes
  <2>2. QED
    BY <2>1 DEF StepsLeft, StopsLeft, Answered, At, AtInventory
<1>7. CASE MoveFails(r) \/ UnlockFails(r)
  <2>1. HandleHardwareError(r) /\ (At(r, "positioning_requested") \/ At(r, "unlock_requested"))
    BY <1>7 DEF MoveFails, UnlockFails
  <2>2. CASE type = "refill_item"
    BY <1>4, <2>1, <2>2 DEF HandleHardwareError, LoseHardwareError, Answered, At
  <2>3. CASE type # "refill_item"
    <3>1. phase' = phase /\ others /\ state'[r] \in {"failed", "recovery_required"}
      BY <1>0, <2>1, <2>3 DEF HandleHardwareError, FileHardwareError, Walk
    <3>2. QED
      BY <2>1, <3>1 DEF StepsLeft, StopsLeft, Answered, At, AtInventory
  <2>4. QED
    BY <2>2, <2>3
<1>8. CASE ApplyInventory(r)
  <2>1. /\ AtInventory(r) /\ phase' = phase /\ others
        /\ state'[r] \in Successful
    BY <1>0, <1>8, PathEnds DEF ApplyInventory, Walk, Successful
  <2>2. QED
    BY <2>1 DEF StepsLeft, StopsLeft, Answered, At, AtInventory, Successful
<1>9. CASE RefuseInventory(r)
  BY <1>4, <1>9 DEF RefuseInventory, AtInventory, At, Answered
<1>10. CASE CommitFails(r)
  BY <1>4, <1>10 DEF CommitFails, Answered
<1>11. CASE Commit(r)
  <2>1. /\ phase[r] = "executing" /\ phase'[r] = "ok" /\ others
    BY <1>0, <1>11 DEF Commit
  <2>2. QED
    <3>1. "ok" \in Answered
      BY DEF Answered
    <3>2. QED
      BY <2>1, <3>1, StepsAreFew
<1>12. QED
  BY <1>1, <1>2, <1>3, <1>5, <1>6, <1>7, <1>8, <1>9, <1>10, <1>11 DEF Serve

(* Each step of a request's thread, failing ones included, brings it at    *)
(* least one step nearer to its answer, and no step of another takes it    *)
(* further away: no request is tried again, and an answer is final.        *)
THEOREM AnswersNear == Spec => AnswersComeNearer
<1> DEFINE Nearer ==
      \A r \in Requests :
        /\ StepsLeft(r)' <= StepsLeft(r)
        /\ Serve(r) => StepsLeft(r)' < StepsLeft(r)
<1>1. ASSUME ConstantsOK, IndInv, [Next]_vars PROVE Nearer
  <2>0. \A r \in Requests : StepsLeft(r) \in 0 .. 6 /\ StepsLeft(r)' \in 0 .. 6
    BY StepsAreFew
  <2>1. \A r \in Requests : Serve(r) => StepsLeft(r)' < StepsLeft(r)
    BY <1>1, ServeComesNearer
  <2>2. CASE \E r \in Requests : Serve(r)
    <3>1. PICK r \in Requests : Serve(r)
      BY <2>2
    <3>2. StepsLeft(r)' < StepsLeft(r)
          /\ \A x \in Requests \ {r} : StepsLeft(x)' = StepsLeft(x)
      BY <1>1, <3>1, ServeComesNearer, OthersWait
    <3>3. \A x \in Requests : StepsLeft(x)' <= StepsLeft(x)
      BY <2>0, <3>1, <3>2
    <3>4. QED
      BY <2>1, <3>3
  <2>3. CASE Crash
    <3>1. \A r \in Requests : StepsLeft(r)' <= StepsLeft(r)
      <4>1. SUFFICES ASSUME NEW r \in Requests PROVE StepsLeft(r)' <= StepsLeft(r)
        OBVIOUS
      <4>2. CASE InFlight(r)
        <5>1. phase'[r] = "killed"
          BY <2>3, <4>2 DEF Crash
        <5>2. QED
          <6>1. "killed" \in Answered
            BY DEF Answered
          <6>2. QED
            BY <2>0, <5>1, <6>1, StepsAreFew
      <4>3. CASE ~ InFlight(r)
        <5>1. phase'[r] = phase[r] /\ state'[r] = state[r]
          BY <2>3, <4>3 DEF Crash
        <5>2. StepsLeft(r)' = StepsLeft(r)
          BY <5>1, OthersWait
        <5>3. QED
          BY <2>0, <5>2
      <4>4. QED
        BY <4>2, <4>3
    <3>2. QED
      BY <2>1, <3>1
  <2>4. CASE OutsideBegins \/ OutsideEnds \/ DrumMovesLate \/ UNCHANGED vars
    <3>1. phase' = phase /\ state' = state
      BY <2>4 DEF OutsideBegins, OutsideEnds, DrumMovesLate, requestVars, vars
    <3>2. \A r \in Requests : StepsLeft(r)' = StepsLeft(r)
      BY <3>1, OthersWait
    <3>3. QED
      BY <2>0, <2>1, <3>2
  <2>5. QED
    BY <1>1, <2>2, <2>3, <2>4 DEF Next
<1>2. IndInv /\ [Next]_vars => [Nearer]_vars
  BY <1>1, ConstantsOK
<1>3. QED
  BY <1>2, Inductive, PTL DEF Spec, AnswersComeNearer

(* An unanswered request has a guard that holds: what it has reached says  *)
(* which.                                                                  *)
LEMMA UnansweredCanGoOn == ASSUME ConstantsOK, IndInv PROVE NobodyIsStuck
<1>1. SUFFICES ASSUME NEW k \in Sessions, session[k] = NoSessionRow,
                      NEW r \in Requests, phase[r] \notin Answered
               PROVE  CanGoOn(r)
  BY DEF NobodyIsStuck
<1>2. phase[r] \in {"arrived", "validated", "executing"}
  BY <1>1 DEF IndInv, TypeOK, Phases
<1>3. CASE phase[r] = "validated"
  <2>1. request[r].session \in Sessions \cup {NoSession}
    BY DEF IndInv, TypeOK, Request
  <2>2. \E s \in Sessions \cup {NoSession} : WorksIn(r, s)
    BY <1>1, <2>1 DEF WorksIn
  <2>3. QED
    BY <1>3, <2>2 DEF CanGoOn
<1>4. CASE phase[r] = "executing"
  <2>1. state[r] \in Stops
    BY <1>4 DEF IndInv, TypeOK, RequestPrepared
  <2>2. QED
    BY <1>4, <2>1 DEF CanGoOn, Stops, AtInventory, At
<1>5. QED
  BY <1>2, <1>3, <1>4 DEF CanGoOn

(* Whatever other requests, sessions and crashes do, a request that has no *)
(* answer is never without a step to take.                                 *)
THEOREM NobodyStuck == Spec => []NobodyIsStuck
<1>1. IndInv => NobodyIsStuck
  BY ConstantsOK, UnansweredCanGoOn
<1>2. QED
  BY <1>1, Inductive, PTL
=============================================================================
