--------------------------- MODULE MCReconciliation ---------------------------
(* Small instances of Reconciliation for TLC.                              *)
EXTENDS Reconciliation, FiniteSets, TLC

CONSTANTS op1, op2, scan1, scan2

(* The one operation may have been left at the start, around the inventory *)
(* write, near the end and in every way a failure is filed; the other just *)
(* before the write, or there with its failure filed.                      *)
Telling ==
  {"created", "completion_verification", "qty_entered", "inventory_write_pending",
   "balance_update_pending", "inventory_written", "balance_updated",
   "session_finalization_in_progress", "completed", "session_completed"}

MCLeft ==
  [o \in Stopped |->
     IF o = op1
     THEN {l \in Leftover : OperationSequence[l.type][l.steps] \in Telling}
     ELSE {l \in Leftover : /\ l.type = "dispense" /\ l.steps = 15 /\ l.writes = 0
                            /\ l.end # "failed"}]

Symmetry == Permutations(Scans)
=============================================================================
