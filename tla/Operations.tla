------------------------------ MODULE Operations ------------------------------
(***************************************************************************)
(* The orchestrated operations of the machine: dispense, return and refill *)
(* (src/app/application/{dispense,return,refill}_service.py), run by       *)
(* concurrent API requests over one SQLite database and one drum.          *)
(*                                                                         *)
(* Each request owns a SQLAlchemy session.  What the session has not       *)
(* committed (state, trail, txn, sid) is visible to that request alone;    *)
(* operation, history, balance, ledger and session are the committed       *)
(* tables.  The first INSERT takes SQLite's single write lock (writer) and *)
(* the one commit at the end of execute, or a rollback, gives it back; the *)
(* calls to the drum and to the lock happen in between.                    *)
(*                                                                         *)
(* Code between two calls out of the process runs as one action: only a    *)
(* crash could separate its statements, and a crash undoes them all.       *)
(***************************************************************************)
EXTENDS Integers, Sequences, OperationStates

CONSTANTS
  Requests,        \* executions of POST /operations/{dispense,return,refill}
  Workload,        \* the requests clients may send
  Slots, Items,
  Position,        \* slot |-> drum_position
  Bindings,        \* rows of slot_item_bindings
  InitialBalance,  \* the inventory_balances rows at the start
  Sessions,        \* ids of operation_sessions rows
  InitialSession,  \* the operation_sessions rows at the start
  Faults,          \* which faults the environment may inject
  NoWriter, Outside, NoSlot, NoSession

Absent == -1                       \* a row inventory_balances does not have
NoPosition == -1                   \* no lock pulse, no late movement
NoTxn == [before |-> 0, after |-> -1]
NoRow == "no_row"

Cells == Slots \X Items

OrchestratedTypes == {"dispense", "return", "refill_item"}

Request ==
  [type: OrchestratedTypes, slot: Slots \cup {NoSlot}, item: Items,
   qty: Int, mode: {"set", "add"}, session: Sessions \cup {NoSession}]

Binding == [id: Nat, slot: Slots, item: Items, kind: {"return", "primary"}]

SessionRow == [kind: {"refill", "service", NoRow}, status: {"active", "completed", NoRow}]
NoSessionRow == [kind |-> NoRow, status |-> NoRow]

ASSUME ConstantsOK ==
  /\ Workload \subseteq Request
  /\ Position \in [Slots -> Nat]
  /\ Bindings \subseteq Binding
  /\ InitialBalance \in [Cells -> Nat \cup {Absent}]
  /\ InitialSession \in [Sessions -> SessionRow]
  /\ Faults \subseteq {"move", "late_move", "off_target", "unlock", "commit", "crash"}
  /\ NoWriter \notin Requests
  /\ Outside \notin Requests \cup {NoWriter}
  /\ NoSlot \notin Slots
  /\ NoSession \notin Sessions

VARIABLES
  request,   \* what each client asked for
  phase,     \* where execute() is, then the answer the client got
  slot,      \* the resolved slot
  sid,       \* the session row a refill works in
  state,     \* operation.operation_state as the request's session has it
  trail,     \* the history rows the session has flushed
  txn,       \* the inventory transaction the session has flushed
  writer,    \* holder of SQLite's write lock; Outside: any other session
  drum,      \* where the drum stands
  lateMove,  \* a movement the controller still owes after a timeout
  opened,    \* drum position at which the request's lock pulse fired
  errored,   \* requests that were handed a HardwareError
  operation, \* committed operations.operation_state
  history,   \* committed operation_state_history
  balance,   \* committed inventory_balances
  ledger,    \* committed inventory_transactions, by cell
  session    \* committed operation_sessions

requestVars  == <<request, phase, slot, sid, state, trail, txn>>
physicalVars == <<drum, lateMove, opened, errored>>
tableVars    == <<operation, history, balance, ledger, session>>
vars == <<requestVars, writer, physicalVars, tableVars>>

(* The client got the operation's result, a 4xx of a ValidationError or    *)
(* NotFoundError, a 500 of anything else, or no answer.                    *)
Answered == {"ok", "refused", "failed", "killed"}
Phases == {"arrived", "validated", "executing"} \cup Answered

Cell(r) == <<slot[r], request[r].item>>

-----------------------------------------------------------------------------
(* The states each execute() walks through, cut at its calls to the drum,  *)
(* to the lock and to the inventory service.                               *)

DispenseBeforeMove ==
  << "created", "authorized", "validation_in_progress", "validated",
     "queued_for_execution", "positioning_requested" >>

ReturnBeforeMove ==
  << "created", "authorized", "return_rules_validation",
     "return_slot_resolution_in_progress", "return_slot_resolved",
     "validated", "queued_for_execution", "positioning_requested" >>

RefillBeforeMove ==
  << "created", "authorized", "service_mode_requested",
     "service_mode_active", "awaiting_slot_selection", "slot_selected",
     "positioning_requested" >>

BeforeMove ==
  [dispense    |-> DispenseBeforeMove,
   return      |-> ReturnBeforeMove,
   refill_item |-> RefillBeforeMove]

(* _record_positioning_success.                                            *)
PositioningSuccess ==
  << "positioning_acknowledged", "positioning_in_progress", "positioning_completed" >>

AfterMove ==
  [type \in OrchestratedTypes |->
     PositioningSuccess \o
       (IF type = "refill_item"
        THEN << "awaiting_qty_input", "qty_entered", "balance_update_pending" >>
        ELSE << "unlock_requested" >>)]

(* _record_unlock_success.                                                 *)
UnlockSuccess == << "unlock_acknowledged", "unlock_completed" >>

(* Wrong variant: the completion is not verified.                          *)
AfterUnlockUnverified ==
  UnlockSuccess \o << "user_action_pending", "inventory_write_pending" >>

AfterUnlock ==
  UnlockSuccess \o
    << "user_action_pending", "completion_verification", "inventory_write_pending" >>

(* Wrong variant: the operation is left where the inventory was written.   *)
AfterWriteUnfinished ==
  [type \in OrchestratedTypes |->
     IF type = "refill_item" THEN << "balance_updated" >> ELSE << "inventory_written" >>]

AfterWrite ==
  [type \in OrchestratedTypes |->
     IF type = "refill_item"
     THEN << "balance_updated", "awaiting_next_action",
             "session_completion_requested",
             "session_finalization_in_progress", "session_completed" >>
     ELSE << "inventory_written", "completed" >>]

Successful == {"completed", "session_completed"}
Final == Successful \cup {"failed", "recovery_required"}

(* Where execute() is out of the process, or has nothing left but to commit. *)
Stops ==
  Final \cup {"positioning_requested", "unlock_requested",
             "inventory_write_pending", "balance_update_pending"}

(* _transition, once for every state of the path.  Its first statement,    *)
(* assert_transition_allowed, is left out: HistoryExplainsState shows that *)
(* it never has anything to object to.                                     *)
Walk(r, path) ==
  /\ state' = [state EXCEPT ![r] = path[Len(path)]]
  /\ trail' = [trail EXCEPT ![r] = @ \o path]

-----------------------------------------------------------------------------
(* validate_request and the reads that precede the first INSERT.  No lock  *)
(* is held: what they read may change before the operation is created.     *)

(* Wrong variant: a missing row is not replaced by one of quantity 0.      *)
StockOfMissingRow(c) == balance[c]

Stock(c) == IF balance[c] = Absent THEN 0 ELSE balance[c]

Eligible(b, item) == b \in Bindings /\ b.item = item

Precedes(a, b) ==
  \/ a.kind = "return" /\ b.kind = "primary"
  \/ a.kind = b.kind /\ a.id <= b.id

(* find_preferred_binding_for_item: return bindings first, then lowest id. *)
IsPreferred(b, item) ==
  /\ Eligible(b, item)
  /\ \A other \in Bindings : Eligible(other, item) => Precedes(b, other)

ResolvesTo(req, s) ==
  \/ req.slot = s
  \/ /\ req.type = "return"
     /\ req.slot = NoSlot
     /\ \E b \in Bindings : IsPreferred(b, req.item) /\ b.slot = s

HasStock(req, s) ==
  /\ balance[<<s, req.item>>] # Absent
  /\ balance[<<s, req.item>>] >= req.qty

CanDispense(req, s) == req.qty > 0 /\ HasStock(req, s)

CanReturn(req) == req.qty > 0

CanRefill(req) ==
  /\ req.qty >= 0
  /\ req.session # NoSession => session[req.session] # NoSessionRow

Acceptable(req, s) ==
  /\ ResolvesTo(req, s)
  /\ req.type = "dispense"    => CanDispense(req, s)
  /\ req.type = "return"      => CanReturn(req)
  /\ req.type = "refill_item" => CanRefill(req)

ValidateRequest(r) ==
  /\ phase[r] = "arrived"
  /\ \E s \in Slots :
       /\ Acceptable(request[r], s)
       /\ slot' = [slot EXCEPT ![r] = s]
  /\ phase' = [phase EXCEPT ![r] = "validated"]
  /\ UNCHANGED <<request, sid, state, trail, txn, writer, physicalVars, tableVars>>

(* ValidationError or NotFoundError before anything is written.            *)
RejectRequest(r) ==
  /\ phase[r] = "arrived"
  /\ ~ \E s \in Slots : Acceptable(request[r], s)
  /\ phase' = [phase EXCEPT ![r] = "refused"]
  /\ UNCHANGED <<request, slot, sid, state, trail, txn, writer, physicalVars, tableVars>>

-----------------------------------------------------------------------------
(* The first flush: INSERT of the operation (and of the refill session)    *)
(* takes the write lock; the transitions up to the drum call follow.       *)

WorksIn(r, s) ==
  IF request[r].type = "refill_item"
  THEN IF request[r].session = NoSession
       THEN s \in Sessions /\ session[s] = NoSessionRow
       ELSE s = request[r].session
  ELSE s = NoSession

(* Wrong variant: the flush in create_operation takes no lock.             *)
CreateOperationUnlocked(r) ==
  /\ phase[r] = "validated"
  /\ writer' = r
  /\ \E s \in Sessions \cup {NoSession} :
       WorksIn(r, s) /\ sid' = [sid EXCEPT ![r] = s]
  /\ Walk(r, BeforeMove[request[r].type])
  /\ phase' = [phase EXCEPT ![r] = "executing"]
  /\ UNCHANGED <<request, slot, txn, physicalVars, tableVars>>

CreateOperation(r) ==
  /\ phase[r] = "validated"
  /\ writer = NoWriter
  /\ writer' = r
  /\ \E s \in Sessions \cup {NoSession} :
       WorksIn(r, s) /\ sid' = [sid EXCEPT ![r] = s]
  /\ Walk(r, BeforeMove[request[r].type])
  /\ phase' = [phase EXCEPT ![r] = "executing"]
  /\ UNCHANGED <<request, slot, txn, physicalVars, tableVars>>

(* Wrong variant: only a wait for another request ever ends.               *)
LockWaitWithoutTimeout(r) ==
  /\ phase[r] = "validated"
  /\ writer \in Requests
  /\ phase' = [phase EXCEPT ![r] = "failed"]
  /\ UNCHANGED <<request, slot, sid, state, trail, txn, writer, physicalVars, tableVars>>

(* PRAGMA busy_timeout runs out while another session holds the lock.      *)
LockWaitExpires(r) ==
  /\ phase[r] = "validated"
  /\ writer # NoWriter
  /\ phase' = [phase EXCEPT ![r] = "failed"]
  /\ UNCHANGED <<request, slot, sid, state, trail, txn, writer, physicalVars, tableVars>>

(* Wrong variant: an error path that leaves the transaction open.          *)
DiscardKeepsLock(r, answer) ==
  /\ phase' = [phase EXCEPT ![r] = answer]
  /\ state' = [state EXCEPT ![r] = NoRow]
  /\ trail' = [trail EXCEPT ![r] = <<>>]
  /\ txn' = [txn EXCEPT ![r] = NoTxn]
  /\ UNCHANGED <<request, slot, sid, writer, tableVars>>

(* rollback(), or close() of a session with uncommitted work: every flushed *)
(* row of the request is gone and the write lock is free.                  *)
Discard(r, answer) ==
  /\ phase' = [phase EXCEPT ![r] = answer]
  /\ state' = [state EXCEPT ![r] = NoRow]
  /\ trail' = [trail EXCEPT ![r] = <<>>]
  /\ txn' = [txn EXCEPT ![r] = NoTxn]
  /\ writer' = NoWriter
  /\ UNCHANGED <<request, slot, sid, tableVars>>

At(r, s) == phase[r] = "executing" /\ state[r] = s

-----------------------------------------------------------------------------
(* Hardware calls.                                                         *)

(* The drum controller answers MOVED and a position, which execute() puts  *)
(* in the history but does not compare with the slot's.                    *)
MoveDrum(r) ==
  /\ At(r, "positioning_requested")
  /\ \/ drum' = Position[slot[r]]
     \/ "off_target" \in Faults /\ \E s \in Slots : drum' = Position[s]
  /\ Walk(r, AfterMove[request[r].type])
  /\ UNCHANGED <<request, phase, slot, sid, txn, writer, lateMove, opened, errored, tableVars>>

UnlockSlot(r) ==
  /\ At(r, "unlock_requested")
  /\ opened' = [opened EXCEPT ![r] = drum]
  /\ Walk(r, AfterUnlock)
  /\ UNCHANGED <<request, phase, slot, sid, txn, writer, drum, lateMove, errored, tableVars>>

(* Wrong variant: uncertain only once the lock has answered.               *)
UncertainAfterUnlock ==
  {"unlock_acknowledged", "unlock_completed", "user_action_pending",
   "completion_verification", "inventory_write_pending", "inventory_written"}

(* States in which _handle_hardware_error cannot know what the machine did. *)
UncertainStates ==
  {"positioning_completed", "unlock_requested", "unlock_acknowledged",
   "unlock_completed", "user_action_pending", "completion_verification",
   "inventory_write_pending", "inventory_written"}

(* record_hardware_failure, for dispense and return; a commit follows.     *)
FileHardwareError(r) ==
  /\ Walk(r, IF state[r] \in UncertainStates
             THEN << "recovery_required" >> ELSE << "failed" >>)
  /\ UNCHANGED <<request, phase, slot, sid, txn, writer, tableVars>>

(* The refill handler dies of the NameError at its line 132: the request's *)
(* session is closed without a commit.                                     *)
LoseHardwareError(r) == Discard(r, "failed")

(* Wrong variant: the error is swallowed and the operation goes on.        *)
HardwareErrorSwallowed(r) ==
  /\ errored' = errored \cup {r}
  /\ Walk(r, IF state[r] = "positioning_requested" THEN AfterMove[request[r].type]
                                                   ELSE AfterUnlock)
  /\ UNCHANGED <<request, phase, slot, sid, txn, writer, tableVars>>

(* except HardwareError.                                                   *)
HandleHardwareError(r) ==
  /\ errored' = errored \cup {r}
  /\ IF request[r].type = "refill_item" THEN LoseHardwareError(r) ELSE FileHardwareError(r)

(* A busy, timed out or failed move: the drum stays, has moved all the     *)
(* same, or (after a timeout) is going to move later.                      *)
MoveIsLost(position) ==
  \/ UNCHANGED <<drum, lateMove>>
  \/ drum' = position /\ UNCHANGED lateMove
  \/ /\ "late_move" \in Faults
     /\ lateMove' = position
     /\ UNCHANGED drum

MoveFails(r) ==
  /\ "move" \in Faults
  /\ At(r, "positioning_requested")
  /\ MoveIsLost(Position[slot[r]])
  /\ HandleHardwareError(r)
  /\ UNCHANGED opened

DrumMovesLate ==
  /\ lateMove # NoPosition
  /\ drum' = lateMove
  /\ lateMove' = NoPosition
  /\ UNCHANGED <<requestVars, writer, opened, errored, tableVars>>

(* A failed unlock: the pulse may have fired before the answer was lost.   *)
UnlockFails(r) ==
  /\ "unlock" \in Faults
  /\ At(r, "unlock_requested")
  /\ \/ UNCHANGED opened
     \/ opened' = [opened EXCEPT ![r] = drum]
  /\ HandleHardwareError(r)
  /\ UNCHANGED <<drum, lateMove>>

-----------------------------------------------------------------------------
(* InventoryMutationService: the balance row is read again, under the      *)
(* write lock, and changed together with an inventory transaction.         *)

QuantityAfter(r, before) ==
  CASE request[r].type = "dispense" -> before - request[r].qty
    [] request[r].type = "return"   -> before + request[r].qty
    [] request[r].type = "refill_item" /\ request[r].mode = "set" -> request[r].qty
    [] OTHER -> before + request[r].qty

(* Wrong variant: the stock is not read again under the lock.              *)
WritableUnchecked(r) == TRUE

Writable(r) == request[r].type = "dispense" => HasStock(request[r], slot[r])

AtInventory(r) == At(r, "inventory_write_pending") \/ At(r, "balance_update_pending")

ApplyInventory(r) ==
  /\ AtInventory(r)
  /\ Writable(r)
  /\ LET before == Stock(Cell(r))
     IN  txn' = [txn EXCEPT ![r] = [before |-> before,
                                    after  |-> QuantityAfter(r, before)]]
  /\ Walk(r, AfterWrite[request[r].type])
  /\ UNCHANGED <<request, phase, slot, sid, writer, physicalVars, tableVars>>

(* The stock went while the request waited: ValidationError, rollback.     *)
RefuseInventory(r) ==
  /\ AtInventory(r)
  /\ ~ Writable(r)
  /\ Discard(r, "refused")
  /\ UNCHANGED physicalVars

-----------------------------------------------------------------------------
(* The end of the transaction.                                             *)

(* Wrong variant: the refill leaves its session open.                      *)
SavedSessionActive(r) ==
  [kind |-> IF session[sid[r]] = NoSessionRow THEN "refill" ELSE session[sid[r]].kind,
   status |-> "active"]

SavedSession(r) ==
  [kind |-> IF session[sid[r]] = NoSessionRow THEN "refill" ELSE session[sid[r]].kind,
   status |-> "completed"]

(* Wrong variant: a failed operation moves stock all the same.             *)
CommitMovesAnyway(r) ==
  /\ phase[r] = "executing"
  /\ state[r] \in Final
  /\ operation' = [operation EXCEPT ![r] = state[r]]
  /\ history' = [history EXCEPT ![r] = trail[r]]
  /\ balance' = [balance EXCEPT ![Cell(r)] = QuantityAfter(r, Stock(Cell(r)))]
  /\ ledger' = [ledger EXCEPT ![Cell(r)] =
                  Append(@, [operation |-> r, before |-> Stock(Cell(r)),
                             after |-> QuantityAfter(r, Stock(Cell(r)))])]
  /\ session' = IF state[r] = "session_completed"
                THEN [session EXCEPT ![sid[r]] = SavedSession(r)] ELSE session
  /\ writer' = NoWriter
  /\ phase' = [phase EXCEPT ![r] = "ok"]
  /\ UNCHANGED <<request, slot, sid, state, trail, txn, physicalVars>>

(* Wrong variant: the transaction of an earlier operation is overwritten.  *)
CommitRewritesLedger(r) ==
  /\ phase[r] = "executing"
  /\ state[r] \in Final
  /\ operation' = [operation EXCEPT ![r] = state[r]]
  /\ history' = [history EXCEPT ![r] = trail[r]]
  /\ IF state[r] \in Successful
     THEN /\ balance' = [balance EXCEPT ![Cell(r)] = txn[r].after]
          /\ ledger' = [ledger EXCEPT ![Cell(r)] =
                          << [operation |-> r, before |-> txn[r].before,
                              after |-> txn[r].after] >>]
     ELSE UNCHANGED <<balance, ledger>>
  /\ session' = IF state[r] = "session_completed"
                THEN [session EXCEPT ![sid[r]] = SavedSession(r)] ELSE session
  /\ writer' = NoWriter
  /\ phase' = [phase EXCEPT ![r] = "ok"]
  /\ UNCHANGED <<request, slot, sid, state, trail, txn, physicalVars>>

Commit(r) ==
  /\ phase[r] = "executing"
  /\ state[r] \in Final
  /\ operation' = [operation EXCEPT ![r] = state[r]]
  /\ history' = [history EXCEPT ![r] = trail[r]]
  /\ IF state[r] \in Successful
     THEN /\ balance' = [balance EXCEPT ![Cell(r)] = txn[r].after]
          /\ ledger' = [ledger EXCEPT ![Cell(r)] =
                          Append(@, [operation |-> r,
                                     before |-> txn[r].before,
                                     after |-> txn[r].after])]
     ELSE UNCHANGED <<balance, ledger>>
  /\ IF state[r] = "session_completed"
     THEN session' = [session EXCEPT ![sid[r]] = SavedSession(r)]
     ELSE UNCHANGED session
  /\ writer' = NoWriter
  /\ phase' = [phase EXCEPT ![r] = "ok"]
  /\ UNCHANGED <<request, slot, sid, state, trail, txn, physicalVars>>

(* OperationalError out of commit(): rollback, the exception is re-raised.  *)
CommitFails(r) ==
  /\ "commit" \in Faults
  /\ phase[r] = "executing"
  /\ state[r] \in Final
  /\ Discard(r, "failed")
  /\ UNCHANGED physicalVars

InFlight(r) == phase[r] \in {"validated", "executing"}

(* A command that is on its way when its sender dies may still be obeyed.  *)
MoveOutlivesCrash ==
  \/ UNCHANGED lateMove
  \/ /\ "late_move" \in Faults
     /\ \E r \in Requests :
          At(r, "positioning_requested") /\ lateMove' = Position[slot[r]]

(* The process dies: SQLite rolls back what it had not committed.  Another *)
(* process that holds the lock may die with it or survive.                 *)

Crash ==
  /\ "crash" \in Faults
  /\ phase' = [r \in Requests |-> IF InFlight(r) THEN "killed" ELSE phase[r]]
  /\ state' = [r \in Requests |-> IF InFlight(r) THEN NoRow ELSE state[r]]
  /\ trail' = [r \in Requests |-> IF InFlight(r) THEN <<>> ELSE trail[r]]
  /\ txn' = [r \in Requests |-> IF InFlight(r) THEN NoTxn ELSE txn[r]]
  /\ \/ writer' = NoWriter
     \/ writer = Outside /\ UNCHANGED writer
  /\ MoveOutlivesCrash
  /\ UNCHANGED <<request, slot, sid, drum, opened, errored, tableVars>>

(* Sessions this module does not follow (recovery scans, service mode, the *)
(* command line) write too and hold the same lock while they do.           *)
OutsideBegins ==
  /\ writer = NoWriter
  /\ writer' = Outside
  /\ UNCHANGED <<requestVars, physicalVars, tableVars>>

OutsideEnds ==
  /\ writer = Outside
  /\ writer' = NoWriter
  /\ UNCHANGED <<requestVars, physicalVars, tableVars>>

-----------------------------------------------------------------------------
Init ==
  /\ request \in [Requests -> Workload]
  /\ phase = [r \in Requests |-> "arrived"]
  /\ slot = [r \in Requests |-> NoSlot]
  /\ sid = [r \in Requests |-> NoSession]
  /\ state = [r \in Requests |-> NoRow]
  /\ trail = [r \in Requests |-> <<>>]
  /\ txn = [r \in Requests |-> NoTxn]
  /\ writer = NoWriter
  /\ drum = 0
  /\ lateMove = NoPosition
  /\ opened = [r \in Requests |-> NoPosition]
  /\ errored = {}
  /\ operation = [r \in Requests |-> NoRow]
  /\ history = [r \in Requests |-> <<>>]
  /\ balance = InitialBalance
  /\ ledger = [c \in Cells |-> <<>>]
  /\ session = InitialSession

(* What the thread that serves request r does next.                        *)
Serve(r) ==
  \/ ValidateRequest(r) \/ RejectRequest(r)
  \/ CreateOperation(r) \/ LockWaitExpires(r)
  \/ MoveDrum(r) \/ MoveFails(r)
  \/ UnlockSlot(r) \/ UnlockFails(r)
  \/ ApplyInventory(r) \/ RefuseInventory(r)
  \/ Commit(r) \/ CommitFails(r)

Next ==
  \/ \E r \in Requests : Serve(r)
  \/ OutsideBegins \/ OutsideEnds
  \/ DrumMovesLate
  \/ Crash

Spec == Init /\ [][Next]_vars

(* Server threads are scheduled and every call they make is bounded by a   *)
(* timeout: busy_timeout for the lock, the endpoint timeouts for hardware. *)
FairSpec == Spec /\ \A r \in Requests : WF_vars(Serve(r))
-----------------------------------------------------------------------------
(***************************************************************************)
(* Properties                                                              *)
(***************************************************************************)

Transaction == [before : Int, after : Int]
Movement == [operation : Requests, before : Int, after : Int]

(* Every variable keeps to the values the code gives it.                   *)
TypeOK ==
  /\ request \in [Requests -> Request]
  /\ phase \in [Requests -> Phases]
  /\ slot \in [Requests -> Slots \cup {NoSlot}]
  /\ sid \in [Requests -> Sessions \cup {NoSession}]
  /\ state \in [Requests -> Stops \cup {NoRow}]
  /\ trail \in [Requests -> Seq(OperationState)]
  /\ txn \in [Requests -> Transaction]
  /\ writer \in Requests \cup {NoWriter, Outside}
  /\ drum \in Nat
  /\ lateMove \in Nat \cup {NoPosition}
  /\ opened \in [Requests -> Nat \cup {NoPosition}]
  /\ errored \subseteq Requests
  /\ operation \in [Requests -> Final \cup {NoRow}]
  /\ history \in [Requests -> Seq(OperationState)]
  /\ balance \in [Cells -> Int]
  /\ ledger \in [Cells -> Seq(Movement)]
  /\ session \in [Sessions -> SessionRow]

(* At most one request is between its first INSERT and the end of its      *)
(* transaction: nothing in the code guards the drum, the write lock taken  *)
(* by the flush in create_operation is what keeps the calls of two         *)
(* requests apart.                                                         *)
OneOperationAtTheMachine ==
  \A r \in Requests : phase[r] = "executing" => writer = r

(* A lock pulse fires with the drum at the slot the request resolved       *)
(* (docs/software-spec.md:205, "opens the slot that is needed").           *)
UnlockFacesSlot ==
  \A r \in Requests : opened[r] # NoPosition => opened[r] = Position[slot[r]]

(* Where the drum can be although nobody wants it there: where a command   *)
(* that timed out, or outlived the process, takes it late.                 *)
CutShort(r) == r \in errored \/ phase[r] = "killed"

StrayPositions ==
  IF "late_move" \in Faults
  THEN {Position[slot[r]] : r \in {x \in Requests : CutShort(x) /\ slot[x] # NoSlot}}
  ELSE {}

(* A pulse at a foreign slot opens the one that another request's lost     *)
(* move takes the drum to late, and no other: whatever else runs, nobody   *)
(* moves the drum between the move of a request and its unlock.            *)
MissedSlotsHaveACause ==
  "off_target" \notin Faults =>
    \A r \in Requests :
      opened[r] # NoPosition => opened[r] \in {Position[slot[r]]} \cup StrayPositions

InitialStock(c) == IF InitialBalance[c] = Absent THEN 0 ELSE InitialBalance[c]

(* inventory_transactions explain inventory_balances: in every cell the    *)
(* first movement starts from the initial stock, each next one from where  *)
(* the one before it ended, and the balance is where the last one ended.   *)
(* A lost update between two requests would break the chain.               *)
LedgerExplainsBalance ==
  \A c \in Cells :
    /\ ledger[c] = <<>> => balance[c] = InitialBalance[c]
    /\ ledger[c] # <<>> => /\ ledger[c][1].before = InitialStock(c)
                           /\ balance[c] = ledger[c][Len(ledger[c])].after
    /\ \A i \in 1 .. Len(ledger[c]) - 1 :
         ledger[c][i + 1].before = ledger[c][i].after

(* No operation takes more than there is, whatever its validation saw.     *)
StockNeverNegative ==
  \A c \in Cells : ledger[c] # <<>> => balance[c] >= 0

MovementsAreSuccessful ==
  \A c \in Cells : \A i \in DOMAIN ledger[c] :
    LET r == ledger[c][i].operation
    IN  /\ operation[r] \in Successful
        /\ c = Cell(r)
        /\ ledger[c][i].after = QuantityAfter(r, ledger[c][i].before)
        /\ \A j \in DOMAIN ledger[c] : ledger[c][j].operation = r => i = j

SuccessesAreInLedger ==
  \A r \in Requests :
    operation[r] \in Successful =>
      \E i \in DOMAIN ledger[Cell(r)] : ledger[Cell(r)][i].operation = r

(* An operation that succeeded has moved stock exactly once, in its own    *)
(* cell, by the quantity asked for; any other has moved none, whatever     *)
(* failed between its first INSERT and its commit.                         *)
MovedOnceIffSuccessful == MovementsAreSuccessful /\ SuccessesAreInLedger

(* Stock leaves or enters through an opened door: a completed dispense or  *)
(* return had its lock pulse, so the balance changes only after the unlock *)
(* (docs/software-spec.md:455, :507).                                      *)
StockMovesThroughOpenedSlot ==
  \A r \in Requests : operation[r] = "completed" => opened[r] # NoPosition

LeftNoRow(r) == phase[r] \in Answered /\ operation[r] = NoRow

(* Nothing but a crash, a commit that fails, and a rival that has moved    *)
(* the stock of the same cell since makes an opened door disappear.        *)
LostDoorsHaveACause ==
  \A r \in Requests : LeftNoRow(r) /\ opened[r] # NoPosition =>
    \/ phase[r] = "killed"
    \/ phase[r] = "failed" /\ "commit" \in Faults
    \/ phase[r] = "refused" /\ request[r].type = "dispense" /\ ledger[Cell(r)] # <<>>

(* What became of a door: a completed operation has opened it, a failed    *)
(* one, which recovery will never look at, has not, and where one was      *)
(* opened and no row is left the cause is one of three.                    *)
DoorsAreAccountedFor ==
  /\ StockMovesThroughOpenedSlot
  /\ \A r \in Requests : operation[r] = "failed" => opened[r] = NoPosition
  /\ LostDoorsHaveACause

(* A hardware error is filed as an error, and is lost only in a refill, by *)
(* a commit that fails, or in a crash.                                     *)
ErrorsAreClassified ==
  \A r \in Requests : r \in errored =>
    /\ operation[r] \notin Successful
    /\ LeftNoRow(r) =>
         \/ phase[r] = "killed"
         \/ phase[r] = "failed" /\ (request[r].type = "refill_item" \/ "commit" \in Faults)

(* The committed history of an operation is a path of the state machine    *)
(* from created to the state the operation is in; no history is left of an *)
(* operation that was rolled back.                                         *)
HistoryExplainsState ==
  \A r \in Requests :
    IF operation[r] = NoRow
    THEN history[r] = <<>>
    ELSE /\ Len(history[r]) > 1
         /\ history[r][1] = "created"
         /\ history[r][Len(history[r])] = operation[r]
         /\ IsTransitionPath(request[r].type, history[r])

Extends(old, new) == Len(old) <= Len(new) /\ SubSeq(new, 1, Len(old)) = old

(* Settled operations, their history and inventory movements are never     *)
(* changed afterwards, by no other operation and by no fault.              *)
SettledStaysSettled ==
  [][/\ \A r \in Requests : operation[r] # NoRow => UNCHANGED <<operation[r], history[r]>>
     /\ \A c \in Cells : Extends(ledger[c], ledger'[c])]_vars

(* The committed tables behave as InventoryLedger: no interleaving, error  *)
(* or crash lets an operation settle twice, move stock in two steps, or    *)
(* move it from a value that is no longer the balance.                     *)
Inventory ==
  INSTANCE InventoryLedger WITH Opening <- [c \in Cells |-> InitialStock(c)],
                                stock <- [c \in Cells |-> Stock(c)]
ImplementsInventoryLedger == Inventory!Spec

-----------------------------------------------------------------------------
(* The parts of the inductive invariant behind the theorems.               *)

(* What a request has when it starts executing, and keeps.                 *)
RequestPrepared ==
  \A r \in Requests :
    /\ phase[r] \in {"validated", "executing", "ok"} \/ opened[r] # NoPosition =>
         slot[r] \in Slots /\ request[r].qty >= 0
    /\ phase[r] = "executing" /\ request[r].type = "refill_item" =>
         sid[r] \in Sessions
    /\ phase[r] = "executing" => state[r] # NoRow

(* Only a committed request has rows in the tables.                        *)
SettledIffCommitted ==
  \A r \in Requests : operation[r] # NoRow <=> phase[r] = "ok"

(* The states a request of each type can stop in.                          *)
StateFitsType ==
  \A r \in Requests : phase[r] = "executing" =>
    /\ state[r] \in {"balance_update_pending", "session_completed"} =>
         request[r].type = "refill_item"
    /\ state[r] \in {"unlock_requested", "inventory_write_pending", "completed",
                     "failed", "recovery_required"} =>
         request[r].type # "refill_item"

(* How far the hardware calls of a request have come.                      *)
PulseFitsState ==
  \A r \in Requests :
    /\ phase[r] \in {"arrived", "validated"} \/
       (phase[r] = "executing" /\
        state[r] \in {"positioning_requested", "unlock_requested", "failed"}) =>
         opened[r] = NoPosition
    /\ phase[r] = "executing" /\ state[r] \in {"inventory_write_pending", "completed"} =>
         opened[r] # NoPosition
    /\ phase[r] = "executing" /\ r \in errored =>
         state[r] \in {"failed", "recovery_required"}
    /\ phase[r] \in {"arrived", "validated"} => r \notin errored

(* The flushed inventory transaction starts from the committed balance:    *)
(* nobody else can have changed it since.                                  *)
FlushedWriteIsCurrent ==
  \A r \in Requests : phase[r] = "executing" /\ state[r] \in Successful =>
    /\ txn[r].before = Stock(Cell(r))
    /\ txn[r].after = QuantityAfter(r, txn[r].before)
    /\ txn[r].after >= 0

(* What a dispense was validated against is there until a movement in its  *)
(* cell is committed.                                                      *)
DispensesHadStock ==
  \A r \in Requests :
    /\ phase[r] \in {"validated", "executing"} /\ request[r].type = "dispense"
    /\ ledger[Cell(r)] = <<>>
    => InitialBalance[Cell(r)] # Absent /\ InitialBalance[Cell(r)] >= request[r].qty

StockIsNatural == \A c \in Cells : balance[c] \in Nat \cup {Absent}

(* Between a request's move and its lock pulse the drum is where the       *)
(* request needs it, or where a lost move or something in others took it.  *)
DrumTraced(others) ==
  LET stray == StrayPositions \cup others
  IN  /\ lateMove \in {NoPosition} \cup StrayPositions \cup others
      /\ \A r \in Requests :
           /\ At(r, "unlock_requested") => drum \in {Position[slot[r]]} \cup stray
           /\ opened[r] # NoPosition => opened[r] \in {Position[slot[r]]} \cup stray

(* The invariant the theorems of OperationsProofs rest on.                 *)
IndInv ==
  /\ TypeOK
  /\ OneOperationAtTheMachine
  /\ RequestPrepared
  /\ SettledIffCommitted
  /\ StateFitsType
  /\ PulseFitsState
  /\ FlushedWriteIsCurrent
  /\ StockIsNatural
  /\ StockNeverNegative
  /\ LedgerExplainsBalance
  /\ MovedOnceIffSuccessful
  /\ DispensesHadStock
  /\ DoorsAreAccountedFor
  /\ ErrorsAreClassified

(* Every request is answered: no path out of execute() keeps the write     *)
(* lock, and nobody waits for it longer than busy_timeout.                 *)
EveryRequestAnswered ==
  \A r \in Requests : (phase[r] # "arrived") ~> (phase[r] \in Answered)

(* The write lock is given back on every way out, a crash included.        *)
WriterReleases ==
  \A r \in Requests : (writer = r) ~> (writer # r)

(* The calls out of the process, and the commit, an execution has left.    *)
StopsLeft(r) ==
  IF At(r, "positioning_requested") THEN 4
  ELSE IF At(r, "unlock_requested") THEN 3
  ELSE IF AtInventory(r) THEN 2
  ELSE 1

(* The most steps the thread that serves a request has yet to take.        *)
StepsLeft(r) ==
  IF phase[r] = "arrived" THEN 6
  ELSE IF phase[r] = "validated" THEN 5
  ELSE IF phase[r] = "executing" THEN StopsLeft(r)
  ELSE 0

(* A thread comes nearer to its answer with each of its steps, whatever    *)
(* way that takes, and nobody else, nor a crash, ever takes it back.       *)
AnswersComeNearer ==
  [][\A r \in Requests : /\ StepsLeft(r)' <= StepsLeft(r)
                         /\ Serve(r) => StepsLeft(r)' < StepsLeft(r)]_vars

(* The guard of some step of Serve(r) holds.                               *)
CanGoOn(r) ==
  \/ phase[r] = "arrived"
  \/ /\ phase[r] = "validated"
     /\ writer = NoWriter => \E s \in Sessions \cup {NoSession} : WorksIn(r, s)
  \/ /\ phase[r] = "executing"
     /\ state[r] \in Final \/ AtInventory(r) \/ state[r] \in {"positioning_requested", "unlock_requested"}

(* No request waits for another: with a session row left for a refill that *)
(* brings none, every request that has no answer can take a step.          *)
NobodyIsStuck ==
  (\E s \in Sessions : session[s] = NoSessionRow) =>
    \A r \in Requests : phase[r] \in Answered \/ CanGoOn(r)

-----------------------------------------------------------------------------
(* What docs and comments say and the code does not keep (see README).     *)

(* docs/software-spec.md:575: recovery analyses the unfinished operations. *)
(* It can only find what is in the database: a door that was opened must   *)
(* leave an operation that recovery, or the ledger, knows of.              *)
OpenedSlotIsRecorded ==
  \A r \in Requests :
    phase[r] \in Answered /\ opened[r] # NoPosition =>
      operation[r] \in Successful \cup {"recovery_required"}

(* docs/software-spec.md:913: hardware errors are to be stored.            *)
HardwareErrorIsRecorded ==
  \A r \in Requests :
    phase[r] \in Answered /\ r \in errored =>
      operation[r] \in {"failed", "recovery_required"}

(* docs/software-spec.md:765: no new movement command before the previous  *)
(* movement has ended.                                                     *)
MoveAwaitsPreviousMove ==
  [][\A r \in Requests :
       At(r, "positioning_requested") /\ phase'[r] = "executing" /\ ~ At(r, "positioning_requested")'
         => lateMove = NoPosition]_vars
=============================================================================
