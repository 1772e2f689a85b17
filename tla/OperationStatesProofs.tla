------------------------- MODULE OperationStatesProofs -------------------------
(***************************************************************************)
(* Theorems about the operation state machine itself, for every type: an   *)
(* operation that has begun can always be brought to its success, no step  *)
(* goes back but the refill loop, and which of its states no step enters.  *)
(***************************************************************************)
EXTENDS OperationStates, TLAPS

(* The types the services run, and recovery_service.py's own.              *)
Run == {"dispense", "return", "refill_item"}

LEMMA TypesAre == OperationTypes = Run \cup {"recovery"}
BY DEF OperationTypes, OperationSequence, Run

(* The end of a sequence is the operation's success, a state without way   *)
(* out, and the only one on it: what is queued is not over.                *)
LEMMA OnlyTheEndIsOver ==
  ASSUME NEW type \in Run
  PROVE  LET sequence == OperationSequence[type]
         IN  /\ sequence \in Seq(OperationState) /\ sequence # <<>>
             /\ \A i \in 1 .. Len(sequence) :
                  sequence[i] \in TerminalStates[type] <=> i = Len(sequence)
<1>1. CASE type = "dispense"
  BY <1>1 DEF OperationSequence, OperationState, TerminalStates
<1>2. CASE type = "return"
  BY <1>2 DEF OperationSequence, OperationState, TerminalStates
<1>3. CASE type = "refill_item"
  BY <1>3 DEF OperationSequence, OperationState, TerminalStates
<1>4. QED
  BY <1>1, <1>2, <1>3 DEF Run

LEMMA EndOfSequence ==
  ASSUME NEW type \in OperationTypes
  PROVE  LET sequence == OperationSequence[type]
             end == sequence[Len(sequence)]
         IN  /\ Len(sequence) \in Nat /\ end \in TerminalStates[type]
             /\ type \in Run => end \in {"completed", "session_completed"}
             /\ \A k \in 1 .. Len(sequence) : sequence[k] \in CommonFallbacks => k = Len(sequence)
<1>1. CASE type = "dispense"
  BY <1>1 DEF OperationSequence, CommonFallbacks, TerminalStates
<1>2. CASE type = "return"
  BY <1>2 DEF OperationSequence, CommonFallbacks, TerminalStates
<1>3. CASE type = "refill_item"
  BY <1>3 DEF OperationSequence, CommonFallbacks, TerminalStates
<1>4. CASE type = "recovery"
  BY <1>4 DEF OperationSequence, CommonFallbacks, TerminalStates, Run
<1>5. QED
  BY <1>1, <1>2, <1>3, <1>4, TypesAre DEF Run

(* No state has two places in a sequence: get_allowed_target_states may    *)
(* stop at the first one it finds.                                         *)
THEOREM SequencesDoNotRepeat ==
  ASSUME NEW type \in OperationTypes,
         NEW i \in 1 .. Len(OperationSequence[type]), NEW j \in 1 .. Len(OperationSequence[type]),
         OperationSequence[type][i] = OperationSequence[type][j]
  PROVE  i = j
<1>1. CASE type = "dispense"
  BY <1>1 DEF OperationSequence
<1>2. CASE type = "return"
  BY <1>2 DEF OperationSequence
<1>3. CASE type = "refill_item"
  BY <1>3 DEF OperationSequence
<1>4. CASE type = "recovery"
  BY <1>4 DEF OperationSequence
<1>5. QED
  BY <1>1, <1>2, <1>3, <1>4, TypesAre DEF Run

(* From wherever an operation of the services is left in its sequence,     *)
(* assert_transition_path lets the rest of it through, to its success.     *)
THEOREM NoDeadEnd ==
  ASSUME NEW type \in Run, NEW i \in 1 .. Len(OperationSequence[type])
  PROVE  LET rest == SubSeq(OperationSequence[type], i, Len(OperationSequence[type]))
         IN  /\ IsTransitionPath(type, rest)
             /\ rest[Len(rest)] \in {"completed", "session_completed"}
<1> DEFINE sequence == OperationSequence[type]
           rest == SubSeq(sequence, i, Len(sequence))
<1>1. sequence \in Seq(OperationState) /\ Len(sequence) \in Nat
  BY OnlyTheEndIsOver
<1>2. sequence[Len(sequence)] \in {"completed", "session_completed"}
  BY EndOfSequence, TypesAre
<1>3. ASSUME NEW k \in 1 .. Len(sequence) - 1
      PROVE  CanTransition(type, sequence[k], sequence[k + 1])
  <2>1. sequence[k] \notin TerminalStates[type]
    BY <1>1, OnlyTheEndIsOver
  <2>2. sequence[k + 1] \in Successors(type, sequence[k])
    BY DEF Successors
  <2>3. QED
    BY <2>1, <2>2 DEF CanTransition, AllowedTargets
<1> HIDE DEF sequence
<1>4. /\ Len(rest) = Len(sequence) - i + 1
      /\ \A k \in 1 .. Len(rest) : rest[k] = sequence[k + i - 1]
  BY <1>1 DEF sequence
<1> HIDE DEF rest
<1>5. IsTransitionPath(type, rest)
  <2>1. SUFFICES ASSUME NEW k \in 1 .. Len(rest) - 1
                 PROVE  CanTransition(type, rest[k], rest[k + 1])
    BY DEF IsTransitionPath
  <2>2. /\ k + i - 1 \in 1 .. Len(sequence) - 1
        /\ rest[k] = sequence[k + i - 1] /\ rest[k + 1] = sequence[(k + i - 1) + 1]
    BY <1>1, <1>4 DEF sequence
  <2>3. QED
    BY <1>3, <2>2
<1>6. rest[Len(rest)] = sequence[Len(sequence)]
  BY <1>1, <1>4 DEF sequence
<1>7. QED
  BY <1>2, <1>5, <1>6 DEF rest, sequence

(* Every step leads on in the sequence or out of it: only a refill session *)
(* goes back, to its next slot.  So an operation's history has no state    *)
(* twice but for the slots of one refill.                                  *)
THEOREM StepsLeadOn ==
  ASSUME NEW type \in OperationTypes, NEW i \in 1 .. Len(OperationSequence[type]),
         NEW j \in 1 .. Len(OperationSequence[type]),
         CanTransition(type, OperationSequence[type][i], OperationSequence[type][j])
  PROVE  \/ i < j
         \/ /\ type = "refill_item"
            /\ OperationSequence[type][i] = "awaiting_next_action"
            /\ OperationSequence[type][j] = "awaiting_slot_selection"
<1> DEFINE sequence == OperationSequence[type]
<1>1. /\ Len(sequence) \in Nat
      /\ \A k \in 1 .. Len(sequence) : sequence[k] \in CommonFallbacks => k = Len(sequence)
  BY EndOfSequence
<1>2. sequence[i] \notin TerminalStates[type]
  BY DEF CanTransition, AllowedTargets
<1>3. CASE sequence[j] \in Successors(type, sequence[i])
  <2>1. PICK k \in 1 .. Len(sequence) - 1 : sequence[k] = sequence[i] /\ sequence[k + 1] = sequence[j]
    BY <1>3 DEF Successors
  <2>2. k = i /\ k + 1 = j
    BY <1>1, <2>1, SequencesDoNotRepeat
  <2>3. QED
    BY <2>2
<1>4. CASE sequence[j] \in CommonFallbacks
  <2>1. sequence[Len(sequence)] \in TerminalStates[type]
    BY EndOfSequence
  <2>2. i # Len(sequence) /\ j = Len(sequence)
    BY <1>1, <1>2, <1>4, <2>1
  <2>3. QED
    BY <1>1, <2>2
<1>5. CASE sequence[j] \in Detours(type, sequence[i])
  <2>1. CASE type = "refill_item"
    BY <1>5, <2>1 DEF Detours
  <2>2. CASE type = "recovery"
    BY <1>5, <2>2 DEF Detours, OperationSequence
  <2>3. QED
    BY <1>5, <2>1, <2>2, TypesAre DEF Detours, Run
<1>6. QED
  BY <1>2, <1>3, <1>4, <1>5 DEF CanTransition, AllowedTargets

(* No step of any type enters rejected, cancelled or timed_out, which the  *)
(* terminal states of dispense, return and refill name, and a recovery     *)
(* ends in degraded_ready or failed: it is terminal, and its sequence goes *)
(* on to system_ready through it alone.                                    *)
THEOREM NeverEntered ==
  ASSUME NEW type \in OperationTypes, NEW state,
         NEW target \in {"rejected", "cancelled", "timed_out", "system_ready"}
  PROVE  ~ CanTransition(type, state, target)
<1>1. ASSUME NEW i \in 1 .. Len(OperationSequence[type]) - 1, OperationSequence[type][i + 1] = target
      PROVE  OperationSequence[type][i] \in TerminalStates[type]
  <2>1. CASE type = "dispense"
    BY <1>1, <2>1 DEF OperationSequence
  <2>2. CASE type = "return"
    BY <1>1, <2>2 DEF OperationSequence
  <2>3. CASE type = "refill_item"
    BY <1>1, <2>3 DEF OperationSequence
  <2>4. CASE type = "recovery"
    BY <1>1, <2>4 DEF OperationSequence, TerminalStates
  <2>5. QED
    BY <2>1, <2>2, <2>3, <2>4, TypesAre DEF Run
<1>2. state \notin TerminalStates[type] => target \notin Successors(type, state)
  BY <1>1 DEF Successors
<1>3. target \notin CommonFallbacks /\ target \notin Detours(type, state)
  BY DEF CommonFallbacks, Detours
<1>4. QED
  BY <1>2, <1>3 DEF CanTransition, AllowedTargets
=============================================================================
