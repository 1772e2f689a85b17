--------------------------- MODULE OperationStates ---------------------------
(***************************************************************************)
(* The operation state machine of src/app/application/state_machine.py:    *)
(* for each operation type the order of its states, its terminal states,   *)
(* and the transitions OperationRecorder.transition lets through.          *)
(***************************************************************************)
EXTENDS Naturals, Sequences

(* domain/enums.py.                                                         *)
OperationState ==
  {"created", "authorized", "validation_in_progress",
   "return_rules_validation", "return_slot_resolution_in_progress",
   "return_slot_resolved", "validated", "queued_for_execution",
   "positioning_requested", "positioning_acknowledged",
   "positioning_in_progress", "positioning_completed", "unlock_requested",
   "unlock_acknowledged", "unlock_completed", "user_action_pending",
   "completion_verification", "inventory_write_pending", "inventory_written",
   "service_mode_requested", "service_mode_active",
   "awaiting_slot_selection", "slot_selected", "awaiting_qty_input",
   "qty_entered", "balance_update_pending", "balance_updated",
   "awaiting_next_action", "session_completion_requested",
   "session_finalization_in_progress", "session_completed", "startup_scan",
   "recovery_targets_found", "hardware_state_requested",
   "recovery_evaluation_in_progress", "operation_reconciliation_in_progress",
   "manual_confirmation_required", "manual_reconciliation_in_progress",
   "recovery_actions_commit_pending", "recovery_actions_committed",
   "post_recovery_safety_check", "degraded_ready", "system_ready",
   "completed", "rejected", "cancelled", "timed_out", "failed",
   "recovery_required"}

OperationSequence ==
  [dispense |->
     << "created", "authorized", "validation_in_progress", "validated",
        "queued_for_execution", "positioning_requested",
        "positioning_acknowledged", "positioning_in_progress",
        "positioning_completed", "unlock_requested", "unlock_acknowledged",
        "unlock_completed", "user_action_pending", "completion_verification",
        "inventory_write_pending", "inventory_written", "completed" >>,
   return |->
     << "created", "authorized", "return_rules_validation",
        "return_slot_resolution_in_progress", "return_slot_resolved",
        "validated", "queued_for_execution", "positioning_requested",
        "positioning_acknowledged", "positioning_in_progress",
        "positioning_completed", "unlock_requested", "unlock_acknowledged",
        "unlock_completed", "user_action_pending", "completion_verification",
        "inventory_write_pending", "inventory_written", "completed" >>,
   refill_item |->
     << "created", "authorized", "service_mode_requested",
        "service_mode_active", "awaiting_slot_selection", "slot_selected",
        "positioning_requested", "positioning_acknowledged",
        "positioning_in_progress", "positioning_completed",
        "awaiting_qty_input", "qty_entered", "balance_update_pending",
        "balance_updated", "awaiting_next_action",
        "session_completion_requested", "session_finalization_in_progress",
        "session_completed" >>,
   recovery |->
     << "startup_scan", "recovery_targets_found", "hardware_state_requested",
        "recovery_evaluation_in_progress",
        "operation_reconciliation_in_progress", "manual_confirmation_required",
        "manual_reconciliation_in_progress",
        "recovery_actions_commit_pending", "recovery_actions_committed",
        "post_recovery_safety_check", "degraded_ready", "system_ready",
        "failed" >>]

TerminalStates ==
  [dispense    |-> {"completed", "rejected", "cancelled", "timed_out",
                    "failed", "recovery_required"},
   return      |-> {"completed", "rejected", "cancelled", "timed_out",
                    "failed", "recovery_required"},
   refill_item |-> {"session_completed", "cancelled", "failed",
                    "recovery_required"},
   recovery    |-> {"degraded_ready", "system_ready", "failed"}]

CommonFallbacks == {"failed", "recovery_required"}

OperationTypes == DOMAIN OperationSequence

(* get_allowed_target_states: the successor in the sequence, the fallbacks, *)
(* the refill loop back to another slot and the recovery shortcut.          *)
Successors(type, state) ==
  {OperationSequence[type][i + 1] :
     i \in {j \in 1 .. Len(OperationSequence[type]) - 1 :
              OperationSequence[type][j] = state}}

Detours(type, state) ==
  CASE type = "refill_item" /\ state = "awaiting_next_action" ->
         {"awaiting_slot_selection"}
    [] type = "recovery" /\ state = "manual_confirmation_required" ->
         {"recovery_actions_commit_pending"}
    [] OTHER -> {}

AllowedTargets(type, state) ==
  IF state \in TerminalStates[type]
  THEN {}
  ELSE Successors(type, state) \cup CommonFallbacks \cup Detours(type, state)

CanTransition(type, from, to) == to \in AllowedTargets(type, from)

(* assert_transition_path: every step of the path is an allowed transition. *)
IsTransitionPath(type, path) ==
  \A i \in 1 .. Len(path) - 1 : CanTransition(type, path[i], path[i + 1])
=============================================================================
