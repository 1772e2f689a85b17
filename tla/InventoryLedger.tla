--------------------------- MODULE InventoryLedger ---------------------------
(***************************************************************************)
(* What the inventory of the machine promises, whatever happens inside a   *)
(* request: an operation settles once, in one step, and a successful one   *)
(* moves the stock of one cell from what it is at that moment, leaving the *)
(* movement behind in the ledger.  Operations implements this module.      *)
(***************************************************************************)
EXTENDS Integers, Sequences

CONSTANTS
  Requests, Slots, Items,
  Opening     \* the stock of each cell at the start

NoRow == "no_row"
Cells == Slots \X Items

VARIABLES
  request,    \* what each operation is asked to do
  operation,  \* how it settled
  stock,      \* of each cell; one without a row has none
  ledger      \* inventory_transactions, by cell

tables == <<request, operation, stock, ledger>>

Init ==
  /\ operation = [o \in Requests |-> NoRow]
  /\ stock = Opening
  /\ ledger = [c \in Cells |-> <<>>]

(* The operation settles in the given state and moves the cell to after.   *)
Move(o, c, outcome, after) ==
  /\ operation[o] = NoRow
  /\ request[o].item = c[2]
  /\ operation' = [operation EXCEPT ![o] = outcome]
  /\ stock' = [stock EXCEPT ![c] = after]
  /\ ledger' = [ledger EXCEPT ![c] =
                  Append(@, [operation |-> o, before |-> stock[c], after |-> after])]
  /\ UNCHANGED request

Debit(o, c) ==
  /\ request[o].type = "dispense"
  /\ stock[c] >= request[o].qty
  /\ Move(o, c, "completed", stock[c] - request[o].qty)

Credit(o, c) ==
  /\ request[o].type = "return"
  /\ Move(o, c, "completed", stock[c] + request[o].qty)

Recount(o, c) ==
  /\ request[o].type = "refill_item"
  /\ Move(o, c, "session_completed",
          IF request[o].mode = "set" THEN request[o].qty
                                     ELSE stock[c] + request[o].qty)

(* A failure settles the operation and moves nothing.                      *)
Fail(o) ==
  /\ operation[o] = NoRow
  /\ \E outcome \in {"failed", "recovery_required"} :
       operation' = [operation EXCEPT ![o] = outcome]
  /\ UNCHANGED <<request, stock, ledger>>

Next ==
  \E o \in Requests :
    \/ Fail(o)
    \/ \E c \in Cells : Debit(o, c) \/ Credit(o, c) \/ Recount(o, c)

Spec == Init /\ [][Next]_tables
=============================================================================
