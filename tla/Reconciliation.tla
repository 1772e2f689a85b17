---------------------------- MODULE Reconciliation ----------------------------
(***************************************************************************)
(* What recovery scans conclude about operations that stopped:             *)
(* RecoveryReconciliationService, the cases RecoveryService writes, and    *)
(* what ManualResolutionPreparationService tells an operator.              *)
(*                                                                         *)
(* execute() never commits an unfinished operation; the databases this     *)
(* code is for hold them all the same, left by tests, by callers that      *)
(* drive OperationRecorder step by step, or by other versions.  Scans      *)
(* overlap: each works on operations as its session has loaded them, its   *)
(* first flush takes SQLite's write lock, and the rows it has flushed are  *)
(* its own (draft) until the commit makes them the tables of all.          *)
(***************************************************************************)
EXTENDS OperationStates, Integers

CONSTANTS
  Stopped,    \* operations somebody left behind
  HasItem,    \* those that name an item; all of them name a slot
  HasSession, \* those that belong to an operation session
  Left,       \* operation |-> the ways it may have been left
  Scans, NoScan,
  Nothing     \* no operation at hand, no case found

Orchestrated == {"dispense", "return", "refill_item"}

(* _inventory_checkpoint_states.                                           *)
PendingState(t) ==
  IF t = "refill_item" THEN "balance_update_pending" ELSE "inventory_write_pending"

WrittenState(t) ==
  IF t = "refill_item" THEN "balance_updated" ELSE "inventory_written"

(* _is_before_inventory_mutation.                                          *)
IsBeforeMutation(t, s) ==
  \E i, j \in 1 .. Len(OperationSequence[t]) :
    i < j /\ OperationSequence[t][i] = s /\ OperationSequence[t][j] = PendingState(t)

(* What may have been left of an operation: its sequence up to some state, *)
(* the transaction flushed before the state that says so, or an end that   *)
(* record_hardware_failure gave it before the inventory was written.       *)
Leftover ==
  {l \in [type : Orchestrated, steps : 1 .. 19, end : {"none", "failed", "recovery_required"},
          writes : {0, 1}] :
     LET sequence == OperationSequence[l.type]
         reached(s) == \E i \in 1 .. l.steps : sequence[i] = s
         last == sequence[l.steps]
     IN  /\ l.steps <= Len(sequence)
         /\ l.writes = 1 => l.end = "none" /\ reached(PendingState(l.type))
         /\ l.end # "none" => last = PendingState(l.type) \/ ~ reached(PendingState(l.type))
         /\ reached(WrittenState(l.type)) => l.writes = 1}

ASSUME StoppedOK ==
  /\ HasItem \subseteq Stopped
  /\ HasSession \subseteq Stopped
  /\ Left \in [Stopped -> SUBSET Leftover]
  /\ NoScan \notin Scans

VARIABLES
  type,       \* operation_type
  writes,     \* number of inventory_transactions of the operation
  stoppedIn,  \* the state it was left in
  table,      \* the committed operations, their history and the open cases
  draft,      \* the same as the holder of the write lock sees it
  writer,     \* the scan that holds the lock, or NoScan
  scan,       \* where each scan is
  unfinished, \* unfinished_operation_ids it will report
  seen,       \* the states of its candidates, as its session has loaded them
  todo,       \* the candidates it has yet to work on
  hand,       \* the one at hand, and the case found for it
  brief       \* a manual resolution being prepared

leftVars == <<type, writes, stoppedIn>>
reconVars == <<leftVars, table, draft, writer, scan, unfinished, seen, todo, hand, brief>>

Roles == {"primary_operation", "parent_session", "affected_item", "affected_slot",
          "inventory_snapshot_target", "inventory_evidence"}

NotSeen == "not seen"
-----------------------------------------------------------------------------
(* Wrong variant: the state is believed without a look at transactions.    *)
ReconcileByState(o, s) ==
  IF s = WrittenState(type[o]) THEN "no_action_needed"
  ELSE IF s = PendingState(type[o]) THEN "inventory_write_likely_missing"
  ELSE IF IsBeforeMutation(type[o], s) THEN "operation_likely_failed_before_inventory_mutation"
  ELSE "manual_review_required"

(* reconcile_operation, of an operation that was loaded in state s.        *)
Reconcile(o, s) ==
  IF s = WrittenState(type[o]) /\ writes[o] > 0 THEN "no_action_needed"
  ELSE IF s \in {PendingState(type[o]), WrittenState(type[o])} /\ writes[o] = 0
       THEN "inventory_write_likely_missing"
  ELSE IF writes[o] = 0 /\ IsBeforeMutation(type[o], s)
       THEN "operation_likely_failed_before_inventory_mutation"
  ELSE "manual_review_required"

(* _classify_recovery_case.                                                *)
Classify(outcome) ==
  CASE outcome = "inventory_write_likely_missing" -> "pending_inventory_write"
    [] outcome = "no_action_needed" -> "uncertain_outcome"
    [] OTHER -> "manual_review_required"

(* The columns _ensure_recovery_case sets: classification and context_json *)
(* (the summary repeats the context).                                      *)
Verdict(o, s) ==
  [classification |-> Classify(Reconcile(o, s)),
   context |-> [outcome |-> Reconcile(o, s), detected |-> s]]

(* How many rows of each role _ensure_case_entities asks for.              *)
Wanted(o, role) ==
  CASE role = "inventory_evidence" -> writes[o]
    [] role \in {"affected_item", "inventory_snapshot_target"} -> IF o \in HasItem THEN 1 ELSE 0
    [] role = "parent_session" -> IF o \in HasSession THEN 1 ELSE 0
    [] OTHER -> 1

NonRecoverable == {"completed", "session_completed", "degraded_ready", "system_ready",
                   "rejected", "cancelled", "timed_out", "failed"}

(* list_unfinished.                                                        *)
Unfinished == {o \in Stopped : table.state[o] \notin NonRecoverable \cup {"recovery_required"}}

(* list_recovery_scan_candidates.                                          *)
Candidates == {o \in Stopped : table.state[o] \notin NonRecoverable}

-----------------------------------------------------------------------------
(* What a scan writes for the operation at hand, into the tables t.        *)

(* Wrong variant: what the context had is merged over what it should have. *)
OverwriteContextKept(row, loaded, new) ==
  [row EXCEPT !.classification =
     IF loaded.classification = new.classification THEN @ ELSE new.classification]

(* A flush updates the columns the session has changed since it loaded the *)
(* row.                                                                    *)
Overwrite(row, loaded, new) ==
  [classification |-> IF loaded.classification = new.classification
                      THEN row.classification ELSE new.classification,
   context |-> IF loaded.context = new.context THEN row.context ELSE new.context,
   entities |-> row.entities]

(* Wrong variant: the rows are added without a look at those there are.    *)
WithEntitiesAgain(o, row) ==
  [row EXCEPT !.entities = [role \in Roles |-> @[role] + Wanted(o, role)]]

(* get_case_entity finds what is there: only missing rows are added.       *)
WithEntities(o, row) ==
  [row EXCEPT !.entities =
     [role \in Roles |-> IF @[role] < Wanted(o, role) THEN Wanted(o, role) ELSE @[role]]]

NewCase(o, verdict) ==
  WithEntities(o, [classification |-> verdict.classification, context |-> verdict.context,
                   entities |-> [role \in Roles |-> 0]])

(* _ensure_recovery_case: the first open case is reused, if there was one. *)
EnsureCase(t, o, loaded, verdict) ==
  LET open == t.cases[o]
  IN  [t EXCEPT !.cases[o] =
         IF loaded = Nothing
         THEN Append(open, NewCase(o, verdict))
         ELSE [open EXCEPT ![1] = WithEntities(o, Overwrite(open[1], loaded, verdict))]]

(* Wrong variant: marked operations are marked again.                      *)
NeedsMarkAlways(s, o) == o \in Stopped /\ s \in Scans

(* The early return of _mark_operation_for_recovery.                       *)
NeedsMark(s, o) == seen[s][o] # "recovery_required"

(* Wrong variant: the case is closed on the spot when all is there.        *)
MarkWithVerdict(s, t, o) ==
  IF NeedsMark(s, o)
  THEN [t EXCEPT
          !.state[o] = IF Reconcile(o, seen[s][o]) = "no_action_needed"
                       THEN "completed" ELSE "recovery_required",
          !.history[o] = Append(@, "recovery_required")]
  ELSE t

(* _mark_operation_for_recovery: state and history row.                    *)
Mark(s, t, o) ==
  IF NeedsMark(s, o)
  THEN [t EXCEPT !.state[o] = "recovery_required",
                 !.history[o] = Append(@, "recovery_required")]
  ELSE t

View(s) == IF writer = s THEN draft ELSE table

Running(s) == scan[s] \in {"listing", "scanning"}
-----------------------------------------------------------------------------
(* scan_recovery_targets.  Its two lists are two reads.                    *)
StartScan(s) ==
  /\ ~ Running(s)
  /\ scan' = [scan EXCEPT ![s] = "listing"]
  /\ unfinished' = [unfinished EXCEPT ![s] = Unfinished]
  /\ seen' = [seen EXCEPT ![s] = [o \in Stopped |-> NotSeen]]
  /\ UNCHANGED <<leftVars, table, draft, writer, todo, hand, brief>>

ListCandidates(s) ==
  /\ scan[s] = "listing"
  /\ scan' = [scan EXCEPT ![s] = "scanning"]
  /\ seen' = [seen EXCEPT ![s] =
                [o \in Stopped |-> IF o \in Candidates THEN table.state[o] ELSE NotSeen]]
  /\ todo' = [todo EXCEPT ![s] = Candidates]
  /\ UNCHANGED <<leftVars, table, draft, writer, unfinished, hand, brief>>

(* find_open_case_by_operation_id: the oldest one.                         *)
LookUpCase(s) ==
  /\ scan[s] = "scanning"
  /\ hand[s] = Nothing
  /\ \E o \in todo[s] :
       LET open == View(s).cases[o]
       IN  hand' = [hand EXCEPT ![s] =
                      [operation |-> o, loaded |-> IF open = <<>> THEN Nothing ELSE open[1]]]
  /\ UNCHANGED <<leftVars, table, draft, writer, scan, unfinished, seen, todo, brief>>

Done(s) ==
  /\ todo' = [todo EXCEPT ![s] = @ \ {hand[s].operation}]
  /\ hand' = [hand EXCEPT ![s] = Nothing]
  /\ UNCHANGED <<leftVars, table, scan, unfinished, seen, brief>>

AtHand(s) ==
  /\ scan[s] = "scanning"
  /\ hand[s] # Nothing

(* Wrong variant: an operation that is marked is taken to have its case.   *)
NothingToWriteIfMarked(s) == ~ NeedsMark(s, hand[s].operation)

(* All columns have the values they had, all rows are there, and the       *)
(* operation is marked: nothing is sent to the database.                   *)
NothingToWrite(s) ==
  LET o == hand[s].operation
      loaded == hand[s].loaded
      new == Verdict(o, seen[s][o])
  IN  /\ ~ NeedsMark(s, o)
      /\ loaded # Nothing
      /\ loaded.classification = new.classification /\ loaded.context = new.context
      /\ \A role \in Roles : loaded.entities[role] >= Wanted(o, role)

KeepCase(s) ==
  /\ AtHand(s)
  /\ NothingToWrite(s)
  /\ Done(s)
  /\ UNCHANGED <<draft, writer>>

(* Case, entities and mark; the transition must be an allowed one from the *)
(* state the session knows.                                                *)
WriteCase(s) ==
  /\ AtHand(s)
  /\ ~ NothingToWrite(s)
  /\ writer \in {NoScan, s}
  /\ LET o == hand[s].operation
     IN  /\ CanTransition(type[o], seen[s][o], "recovery_required") \/ ~ NeedsMark(s, o)
         /\ draft' = Mark(s, EnsureCase(View(s), o, hand[s].loaded, Verdict(o, seen[s][o])), o)
  /\ writer' = s
  /\ Done(s)

Release(s) == writer' = IF writer = s THEN NoScan ELSE writer

CommitScan(s) ==
  /\ scan[s] = "scanning"
  /\ hand[s] = Nothing
  /\ todo[s] = {}
  /\ scan' = [scan EXCEPT ![s] = "done"]
  /\ table' = View(s)
  /\ Release(s)
  /\ UNCHANGED <<leftVars, draft, unfinished, seen, todo, hand, brief>>

(* Wrong variant: nobody rolls the session back.                           *)
ScanLostUndiscarded(s) ==
  /\ Running(s)
  /\ scan' = [scan EXCEPT ![s] = "failed"]
  /\ Release(s)
  /\ unfinished' = [unfinished EXCEPT ![s] = {}]
  /\ seen' = [seen EXCEPT ![s] = [o \in Stopped |-> NotSeen]]
  /\ todo' = [todo EXCEPT ![s] = {}]
  /\ hand' = [hand EXCEPT ![s] = Nothing]
  /\ UNCHANGED <<leftVars, table, draft, brief>>

(* busy_timeout runs out, a statement or the commit fails, or the process  *)
(* dies: one transaction, nothing of it remains.                           *)
ScanLost(s) ==
  /\ Running(s)
  /\ scan' = [scan EXCEPT ![s] = "failed"]
  /\ draft' = IF writer = s THEN table ELSE draft
  /\ Release(s)
  /\ unfinished' = [unfinished EXCEPT ![s] = {}]
  /\ seen' = [seen EXCEPT ![s] = [o \in Stopped |-> NotSeen]]
  /\ todo' = [todo EXCEPT ![s] = {}]
  /\ hand' = [hand EXCEPT ![s] = Nothing]
  /\ UNCHANGED <<leftVars, table, brief>>

ScanStep(s) ==
  \/ ListCandidates(s) \/ LookUpCase(s) \/ KeepCase(s) \/ WriteCase(s)
  \/ CommitScan(s) \/ ScanLost(s)

-----------------------------------------------------------------------------
(* prepare_case: the case, then its entities.                              *)

(* _recommend_categories.                                                  *)
Recommend(context) ==
  CASE context.outcome = "inventory_write_likely_missing" ->
         {"review_operation_history", "verify_inventory_records", "confirm_physical_state"}
    [] context.outcome = "no_action_needed" ->
         {"review_operation_history", "decide_case_closure"}
    [] OTHER ->
         {"review_operation_history", "verify_inventory_records", "confirm_physical_state",
          "decide_case_closure"}

NoBrief == [step |-> "none"]

(* listed is what the list of entities would be at the first read.  The    *)
(* code does not read it then; AdviceIsOfOneMoment compares it.            *)
ReadCase ==
  /\ brief.step # "reading"
  /\ \E o \in Stopped : \E i \in 1 .. Len(table.cases[o]) :
       brief' = [step |-> "reading", operation |-> o, place |-> i,
                 context |-> table.cases[o][i].context,
                 listed |-> table.cases[o][i].entities]
  /\ UNCHANGED <<leftVars, table, draft, writer, scan, unfinished, seen, todo, hand>>

ReadEntities ==
  /\ brief.step = "reading"
  /\ brief' = [step |-> "ready",
               listed |-> brief.listed,
               impacted |-> table.cases[brief.operation][brief.place].entities,
               recommended |-> Recommend(brief.context)]
  /\ UNCHANGED <<leftVars, table, draft, writer, scan, unfinished, seen, todo, hand>>

-----------------------------------------------------------------------------
Path(l) ==
  LET walked == SubSeq(OperationSequence[l.type], 1, l.steps)
  IN  IF l.end = "none" THEN walked ELSE Append(walked, l.end)

LastOf(path) == path[Len(path)]

ReconInit ==
  /\ \E left \in [Stopped -> Leftover] :
       /\ \A o \in Stopped : left[o] \in Left[o]
       /\ type = [o \in Stopped |-> left[o].type]
       /\ writes = [o \in Stopped |-> left[o].writes]
       /\ stoppedIn = [o \in Stopped |-> LastOf(Path(left[o]))]
       /\ table = [state |-> stoppedIn,
                   history |-> [o \in Stopped |-> Path(left[o])],
                   cases |-> [o \in Stopped |-> <<>>]]
  /\ draft = table
  /\ writer = NoScan
  /\ scan = [s \in Scans |-> "idle"]
  /\ unfinished = [s \in Scans |-> {}]
  /\ seen = [s \in Scans |-> [o \in Stopped |-> NotSeen]]
  /\ todo = [s \in Scans |-> {}]
  /\ hand = [s \in Scans |-> Nothing]
  /\ brief = NoBrief

ReconNext ==
  \/ \E s \in Scans : StartScan(s) \/ ScanStep(s)
  \/ ReadCase \/ ReadEntities

ReconSpec == ReconInit /\ [][ReconNext]_reconVars
-----------------------------------------------------------------------------
Reached(o, state) == \E i \in 1 .. Len(table.history[o]) : table.history[o][i] = state

Cases(o) == {table.cases[o][i] : i \in 1 .. Len(table.cases[o])}

(* Only the holder of the lock has rows of its own, and reports are kept   *)
(* apart from work.                                                        *)
ReconTypeOK ==
  /\ type \in [Stopped -> Orchestrated]
  /\ table.state \in [Stopped -> OperationState]
  /\ writes \in [Stopped -> Nat]
  /\ scan \in [Scans -> {"idle", "listing", "scanning", "done", "failed"}]
  /\ todo \in [Scans -> SUBSET Stopped]
  /\ unfinished \in [Scans -> SUBSET Stopped]
  /\ writer \in Scans \cup {NoScan}
  /\ IF writer = NoScan THEN draft = table ELSE scan[writer] = "scanning"

(* No verdict without its evidence (docs/software-spec.md:1007, recovery   *)
(* may not make up an outcome it cannot prove): "nothing to do" is said    *)
(* only of an operation whose transaction is recorded and whose history    *)
(* says so, "write missing" and "failed before" only of one without any.   *)
VerdictsHaveEvidence ==
  \A o \in Stopped : \A c \in Cases(o) :
    LET outcome == c.context.outcome
    IN  /\ outcome = "no_action_needed" => writes[o] > 0 /\ Reached(o, WrittenState(type[o]))
        /\ outcome = "inventory_write_likely_missing" =>
             writes[o] = 0 /\ Reached(o, PendingState(type[o]))
        /\ outcome = "operation_likely_failed_before_inventory_mutation" =>
             writes[o] = 0 /\ ~ Reached(o, PendingState(type[o]))

(* What a case says belongs together: its classification to its outcome,   *)
(* its outcome to the state it says was detected.  Two sessions that       *)
(* update the same case each send the columns they believe changed.        *)
VerdictsAreWhole ==
  \A o \in Stopped : \A c \in Cases(o) :
    [classification |-> c.classification, context |-> c.context] = Verdict(o, c.context.detected)

(* A scan that succeeds leaves nothing unfinished, however the scans       *)
(* before it ended and whatever scans run beside it: all it has reported,  *)
(* as unfinished or as a candidate, waits in recovery_required, and has a  *)
(* case.                                                                   *)
ScanLeavesNothingUnfinished ==
  \A s \in Scans : scan[s] = "done" =>
    /\ Unfinished = {}
    /\ unfinished[s] \subseteq Candidates
    /\ Candidates = {o \in Stopped : seen[s][o] # NotSeen}
    /\ \A o \in Candidates : table.cases[o] # <<>>

(* Three lists of states have to agree for a scan to get through: what it  *)
(* takes for a candidate, what it takes for marked, and what the state     *)
(* machine lets go to recovery_required, from a state that may be out of   *)
(* date.  One candidate that cannot be marked fails the scan of all, and   *)
(* with it /readiness.                                                     *)
CandidatesCanBeMarked ==
  \A s \in Scans : \A o \in todo[s] :
    NeedsMark(s, o) => CanTransition(type[o], seen[s][o], "recovery_required")

(* History grows by one legal step, and by none where scans come one after *)
(* the other; a scan that overlaps with the one that marked an operation   *)
(* at most notes again that it wants recovery.                             *)
HistoryStaysLegal ==
  \A o \in Stopped :
    LET history == table.history[o]
    IN  /\ \A i \in 1 .. Len(history) - 1 :
             \/ CanTransition(type[o], history[i], history[i + 1])
             \/ history[i] = "recovery_required" /\ history[i + 1] = "recovery_required"
        /\ LastOf(history) = table.state[o]

(* A case names its operation, session, slot, item and balance once, and   *)
(* every recorded transaction, however often it is reused.                 *)
EntitiesAreComplete ==
  \A o \in Stopped : \A c \in Cases(o) : \A role \in Roles :
    c.entities[role] = Wanted(o, role)

(* An operator's advice is of one moment, although the case and its        *)
(* entities are two reads and scans may rewrite the case between them: the *)
(* list shown is the one that was beside the verdict when that was read.   *)
(* So what closing a case without a look at stock and slot rests on, the   *)
(* recorded movement, is in the list.                                      *)
AdviceIsOfOneMoment ==
  brief.step = "ready" =>
    /\ brief.impacted = brief.listed
    /\ "confirm_physical_state" \notin brief.recommended =>
         brief.impacted["inventory_evidence"] > 0

(* With operations left in any state and verdicts written beside, a scan   *)
(* delivers what CaseBook promises.                                        *)
Outcome(s) == IF Running(s) THEN "running" ELSE scan[s]

Report(s) ==
  IF scan[s] = "listing" THEN Candidates ELSE {o \in Stopped : seen[s][o] # NotSeen}

Book ==
  INSTANCE CaseBook WITH
    Subjects <- Stopped,
    wanting <- Candidates,
    cases <- [o \in Stopped |-> Len(table.cases[o])],
    scan <- [s \in Scans |-> Outcome(s)],
    scope <- [s \in Scans |-> Report(s)]
ImplementsCaseBook == Book!Spec

(* "Do not change history after the fact" (docs/codex-implementation-      *)
(* brief.md:393): a case keeps saying in which state the operation was     *)
(* found stopped.                                                          *)
CasesTellWhereItStopped ==
  \A o \in Stopped : \A c \in Cases(o) : c.context.detected = stoppedIn[o]

-----------------------------------------------------------------------------
(* The invariant the theorems of ReconciliationProofs rest on.             *)

(* The states a scan can find an operation in, and the cases it writes.    *)
Sights(o) == {stoppedIn[o], "recovery_required"}

CaseOf(o, s) ==
  [classification |-> Verdict(o, s).classification,
   context |-> Verdict(o, s).context,
   entities |-> [role \in Roles |-> Wanted(o, role)]]

CaseRows == {CaseOf(o, s) : o \in Stopped, s \in OperationState}

GoodCases(o) == {CaseOf(o, s) : s \in Sights(o)}

Recoverable == {o \in Stopped : stoppedIn[o] \notin NonRecoverable}

LeftOK ==
  /\ type \in [Stopped -> Orchestrated]
  /\ writes \in [Stopped -> {0, 1}]
  /\ stoppedIn \in [Stopped -> OperationState]
  /\ \A o \in Stopped : stoppedIn[o] = WrittenState(type[o]) => writes[o] = 1

LegalHistory(o, history) ==
  \A i \in 1 .. Len(history) - 1 :
    \/ CanTransition(type[o], history[i], history[i + 1])
    \/ history[i] = "recovery_required" /\ history[i + 1] = "recovery_required"

Has(history, state) == \E i \in 1 .. Len(history) : history[i] = state

(* What the history has to show for the state the operation stopped in.    *)
HistoryTells(o, history) ==
  /\ stoppedIn[o] \in {PendingState(type[o]), WrittenState(type[o])} => Has(history, stoppedIn[o])
  /\ IsBeforeMutation(type[o], stoppedIn[o]) /\ writes[o] = 0 =>
       ~ Has(history, PendingState(type[o]))

(* Holds of the tables and of the draft alike.                             *)
TableOK(t) ==
  /\ t \in [state : [Stopped -> OperationState], history : [Stopped -> Seq(OperationState)],
            cases : [Stopped -> Seq(CaseRows)]]
  /\ \A o \in Stopped :
       /\ t.state[o] \in Sights(o)
       /\ t.state[o] = stoppedIn[o] \/ o \in Recoverable
       /\ t.history[o] # <<>>
       /\ LastOf(t.history[o]) = t.state[o]
       /\ LegalHistory(o, t.history[o])
       /\ HistoryTells(o, t.history[o])
       /\ \A i \in 1 .. Len(t.cases[o]) : t.cases[o][i] \in GoodCases(o)

(* A table only gains marks and cases.                                     *)
Extends(t, u) ==
  \A o \in Stopped :
    /\ t.state[o] = "recovery_required" => u.state[o] = "recovery_required"
    /\ Len(t.cases[o]) <= Len(u.cases[o])

Settled(t, o) == t.state[o] = "recovery_required" /\ t.cases[o] # <<>>

ScanOK(s) ==
  /\ todo[s] \subseteq Recoverable
  /\ unfinished[s] \subseteq Recoverable
  /\ \A o \in Stopped :
       /\ seen[s][o] \in Sights(o) \cup {NotSeen}
       /\ seen[s][o] = "recovery_required" => table.state[o] = "recovery_required"
       /\ scan[s] \in {"scanning", "done"} => (seen[s][o] # NotSeen <=> o \in Recoverable)
  /\ todo[s] # {} => scan[s] = "scanning"
  /\ hand[s] # Nothing =>
       /\ hand[s].operation \in todo[s]
       /\ hand[s].loaded # Nothing =>
            /\ hand[s].loaded \in GoodCases(hand[s].operation)
            /\ View(s).cases[hand[s].operation] # <<>>
  /\ scan[s] = "scanning" => \A o \in Recoverable \ todo[s] : Settled(View(s), o)
  /\ scan[s] = "done" => \A o \in Recoverable : Settled(table, o)

(* The holder of the lock has opened a case at most for each operation it  *)
(* is through with.                                                        *)
DraftAddsOne ==
  \A o \in Stopped :
    /\ Len(draft.cases[o]) <= Len(table.cases[o]) + 1
    /\ Len(draft.cases[o]) # Len(table.cases[o]) =>
         writer # NoScan /\ o \in Recoverable \ todo[writer]

BriefOK ==
  /\ brief.step = "reading" =>
       /\ brief.operation \in Stopped
       /\ brief.place \in 1 .. Len(table.cases[brief.operation])
       /\ brief.context.outcome = "no_action_needed" => writes[brief.operation] = 1
       /\ brief.listed = [role \in Roles |-> Wanted(brief.operation, role)]
  /\ AdviceIsOfOneMoment

ReconIndInv ==
  /\ LeftOK
  /\ TableOK(table) /\ TableOK(draft)
  /\ Extends(table, draft)
  /\ ReconTypeOK
  /\ seen \in [Scans -> [Stopped -> OperationState \cup {NotSeen}]]
  /\ DOMAIN hand = Scans
  /\ \A s \in Scans : ScanOK(s)
  /\ BriefOK
=============================================================================
