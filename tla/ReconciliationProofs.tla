------------------------- MODULE ReconciliationProofs -------------------------
(***************************************************************************)
(* Theorems about Reconciliation, for any operations, left in any of the   *)
(* ways of Leftover, and any number of scans that overlap and fail: what   *)
(* cases say is proved by the tables, and a scan that succeeds leaves      *)
(* nothing unfinished.                                                     *)
(***************************************************************************)
EXTENDS Reconciliation, SequenceTheorems, TLAPS

(* The checkpoint is one place in each sequence: what is before it is      *)
(* found nowhere else.                                                     *)
LEMMA Checkpoint ==
  ASSUME NEW t \in Orchestrated
  PROVE  /\ PendingState(t) \in OperationState /\ WrittenState(t) \in OperationState
         /\ PendingState(t) # WrittenState(t)
         /\ {PendingState(t), WrittenState(t), "recovery_required", "failed"} \cap NonRecoverable
              = {"failed"}
         /\ "recovery_required" \notin {PendingState(t), WrittenState(t)}
         /\ "failed" \notin {PendingState(t), WrittenState(t)}
BY DEF Orchestrated, PendingState, WrittenState, OperationState, NonRecoverable

Mutation(t) == CASE t = "dispense" -> 15 [] t = "return" -> 17 [] t = "refill_item" -> 13

LEMMA SequenceShape ==
  ASSUME NEW t \in Orchestrated
  PROVE  LET sequence == OperationSequence[t]
         IN  /\ sequence \in Seq(OperationState)
             /\ Mutation(t) \in 1 .. Len(sequence) - 1
             /\ \A i \in 1 .. Len(sequence) :
                  /\ sequence[i] \notin {"failed", "recovery_required"}
                  /\ sequence[i] = PendingState(t) <=> i = Mutation(t)
                  /\ sequence[i] = WrittenState(t) <=> i = Mutation(t) + 1
<1>1. CASE t = "dispense"
  BY <1>1 DEF OperationSequence, OperationState, Mutation, PendingState, WrittenState
<1>2. CASE t = "return"
  BY <1>2 DEF OperationSequence, OperationState, Mutation, PendingState, WrittenState
<1>3. CASE t = "refill_item"
  BY <1>3 DEF OperationSequence, OperationState, Mutation, PendingState, WrittenState
<1> QED BY <1>1, <1>2, <1>3 DEF Orchestrated

LEMMA OnlyTheEndIsTerminal ==
  ASSUME NEW t \in Orchestrated, NEW i \in 1 .. Len(OperationSequence[t]) - 1
  PROVE  OperationSequence[t][i] \notin TerminalStates[t]
<1>1. CASE t = "dispense"
  BY <1>1 DEF OperationSequence, TerminalStates
<1>2. CASE t = "return"
  BY <1>2 DEF OperationSequence, TerminalStates
<1>3. CASE t = "refill_item"
  BY <1>3 DEF OperationSequence, TerminalStates
<1> QED BY <1>1, <1>2, <1>3 DEF Orchestrated

LEMMA BeforeIsBefore ==
  ASSUME NEW t \in Orchestrated,
         NEW i \in 1 .. Len(OperationSequence[t]), NEW k \in 1 .. Len(OperationSequence[t]),
         i < Mutation(t), OperationSequence[t][i] = OperationSequence[t][k]
  PROVE  k < Mutation(t)
<1>1. CASE t = "dispense"
  BY <1>1 DEF OperationSequence, Mutation
<1>2. CASE t = "return"
  BY <1>2 DEF OperationSequence, Mutation
<1>3. CASE t = "refill_item"
  BY <1>3 DEF OperationSequence, Mutation
<1> QED BY <1>1, <1>2, <1>3 DEF Orchestrated

-----------------------------------------------------------------------------
(* The ways an operation may have been left.                               *)

LEMMA PathShape ==
  ASSUME NEW l \in Leftover
  PROVE  LET sequence == OperationSequence[l.type]
         IN  /\ l.type \in Orchestrated /\ l.writes \in {0, 1}
             /\ l.steps \in 1 .. Len(sequence)
             /\ Path(l) \in Seq(OperationState)
             /\ l.end = "none" =>
                  /\ Len(Path(l)) = l.steps
                  /\ \A i \in 1 .. l.steps : Path(l)[i] = sequence[i]
             /\ l.end # "none" =>
                  /\ Len(Path(l)) = l.steps + 1
                  /\ \A i \in 1 .. l.steps : Path(l)[i] = sequence[i]
                  /\ Path(l)[l.steps + 1] = l.end
                  /\ l.end \in CommonFallbacks
                  /\ l.steps <= Mutation(l.type)
             /\ l.steps > Mutation(l.type) => l.writes = 1
<1> DEFINE sequence == OperationSequence[l.type]
           walked == SubSeq(sequence, 1, l.steps)
<1>1. /\ l.type \in Orchestrated /\ l.writes \in {0, 1}
      /\ l.steps \in 1 .. Len(sequence) /\ l.end \in {"none", "failed", "recovery_required"}
      /\ sequence \in Seq(OperationState)
  <2>1. /\ l.type \in Orchestrated /\ l.steps \in 1 .. 19 /\ l.writes \in {0, 1}
        /\ l.end \in {"none", "failed", "recovery_required"} /\ l.steps <= Len(sequence)
    BY DEF Leftover
  <2>2. sequence \in Seq(OperationState)
    BY <2>1, SequenceShape
  <2> QED BY <2>1, <2>2
<1>2. /\ walked \in Seq(OperationState) /\ Len(walked) = l.steps
      /\ \A i \in 1 .. l.steps : walked[i] = sequence[i]
  BY <1>1
<1>3. l.end \in OperationState \/ l.end = "none"
  BY <1>1 DEF OperationState
<1>4. l.end # "none" => l.steps <= Mutation(l.type)
  <2> SUFFICES ASSUME l.end # "none", ~ l.steps <= Mutation(l.type)
               PROVE  FALSE
    OBVIOUS
  <2>1. Mutation(l.type) \in 1 .. l.steps /\ sequence[Mutation(l.type)] = PendingState(l.type)
    BY <1>1, SequenceShape
  <2>2. sequence[l.steps] = PendingState(l.type)
    BY <2>1 DEF Leftover
  <2> QED BY <1>1, <2>1, <2>2, SequenceShape
<1>5. l.steps > Mutation(l.type) => l.writes = 1
  <2> SUFFICES ASSUME l.steps > Mutation(l.type)
               PROVE  l.writes = 1
    OBVIOUS
  <2>1. /\ Mutation(l.type) + 1 \in 1 .. l.steps
        /\ sequence[Mutation(l.type) + 1] = WrittenState(l.type)
    BY <1>1, SequenceShape
  <2> QED BY <2>1 DEF Leftover
<1> QED BY <1>1, <1>2, <1>3, <1>4, <1>5 DEF Path, CommonFallbacks

(* What is left starts out legal, and shows what it must.                  *)
LEMMA PathIsLegal ==
  ASSUME NEW l \in Leftover, NEW i \in 1 .. Len(Path(l)) - 1
  PROVE  CanTransition(l.type, Path(l)[i], Path(l)[i + 1])
<1> DEFINE sequence == OperationSequence[l.type]
<1>1. CASE i < l.steps
  <2>1. /\ i \in 1 .. Len(sequence) - 1 /\ sequence[i] = Path(l)[i]
        /\ sequence[i + 1] = Path(l)[i + 1]
    BY <1>1, PathShape
  <2>2. sequence[i] \notin TerminalStates[l.type]
    BY <2>1, PathShape, OnlyTheEndIsTerminal
  <2>3. sequence[i + 1] \in Successors(l.type, sequence[i])
    BY <2>1 DEF Successors
  <2> QED BY <2>1, <2>2, <2>3 DEF CanTransition, AllowedTargets
<1>2. CASE i = l.steps
  <2>1. /\ l.end # "none" /\ l.steps <= Mutation(l.type) /\ Path(l)[i] = sequence[i]
        /\ Path(l)[i + 1] \in CommonFallbacks
    BY <1>2, PathShape
  <2>2. sequence[i] \notin TerminalStates[l.type]
    <3>1. /\ l.type \in Orchestrated /\ l.steps \in 1 .. Len(sequence)
          /\ Mutation(l.type) \in 1 .. Len(sequence) - 1 /\ Len(sequence) \in Nat
      BY PathShape, SequenceShape
    <3>2. i \in 1 .. Len(sequence) - 1
      BY <1>2, <2>1, <3>1
    <3> QED BY <3>1, <3>2, OnlyTheEndIsTerminal
  <2> QED BY <2>1, <2>2 DEF CanTransition, AllowedTargets
<1> QED BY <1>1, <1>2, PathShape

LEMMA PathTells ==
  ASSUME NEW l \in Leftover
  PROVE  LET path == Path(l)
             pending == PendingState(l.type)
         IN  /\ path \in Seq(OperationState) /\ Len(path) > 0
             /\ LastOf(path) \in OperationState
             /\ LastOf(path) = WrittenState(l.type) => l.writes = 1
             /\ IsBeforeMutation(l.type, LastOf(path)) /\ l.writes = 0 => ~ Has(path, pending)
<1> DEFINE sequence == OperationSequence[l.type]
           path == Path(l)
           pending == PendingState(l.type)
<1>1. path \in Seq(OperationState) /\ Len(path) \in Nat \ {0}
  BY PathShape
<1>2. LastOf(path) = WrittenState(l.type) => l.writes = 1
  <2>1. CASE l.end = "none"
    <3>1. LastOf(path) = sequence[l.steps]
      BY <2>1, PathShape DEF LastOf
    <3>2. /\ l.type \in Orchestrated /\ l.steps \in 1 .. Len(sequence)
          /\ Mutation(l.type) \in Nat
          /\ l.steps > Mutation(l.type) => l.writes = 1
      BY PathShape, SequenceShape
    <3>3. sequence[l.steps] = WrittenState(l.type) => l.steps = Mutation(l.type) + 1
      BY <3>2, SequenceShape
    <3> QED BY <3>1, <3>2, <3>3
  <2>2. CASE l.end # "none"
    BY <2>2, PathShape, Checkpoint DEF LastOf, CommonFallbacks
  <2> QED BY <2>1, <2>2
<1>3. ASSUME IsBeforeMutation(l.type, LastOf(path)), l.writes = 0
      PROVE  ~ Has(path, pending)
  <2>1. PICK i, j \in 1 .. Len(sequence) : i < j /\ sequence[i] = LastOf(path) /\ sequence[j] = pending
    BY <1>3 DEF IsBeforeMutation
  <2>2. j = Mutation(l.type) /\ l.type \in Orchestrated
    BY <2>1, SequenceShape, PathShape
  <2>3. l.end = "none"
    <3>1. l.end # "none" => LastOf(path) \in CommonFallbacks
      BY <1>1, PathShape DEF LastOf
    <3>2. sequence[i] \notin CommonFallbacks
      BY <2>2, SequenceShape DEF CommonFallbacks
    <3> QED BY <2>1, <3>1, <3>2
  <2>4. LastOf(path) = sequence[l.steps] /\ l.steps \in 1 .. Len(sequence)
    BY <2>3, PathShape DEF LastOf
  <2>5. l.steps < Mutation(l.type)
    BY <2>1, <2>2, <2>4, BeforeIsBefore
  <2>6. /\ Len(path) = l.steps /\ l.steps \in 1 .. Len(sequence) /\ Len(sequence) \in Nat
        /\ \A k \in 1 .. l.steps : path[k] = sequence[k]
    BY <2>2, <2>3, PathShape, SequenceShape
  <2>7. \A k \in 1 .. Len(sequence) : sequence[k] = pending => k = Mutation(l.type)
    BY <2>2, SequenceShape
  <2> QED BY <2>2, <2>5, <2>6, <2>7 DEF Has
<1> QED BY <1>1, <1>2, <1>3 DEF LastOf

-----------------------------------------------------------------------------
(* The cases a scan writes.                                                *)

LEMMA WantedIsNat ==
  ASSUME LeftOK, NEW o \in Stopped, NEW role \in Roles
  PROVE  Wanted(o, role) \in {0, 1}
<1>1. writes[o] \in {0, 1}
  BY DEF LeftOK
<1> QED BY <1>1 DEF Wanted

LEMMA CaseIsRecord ==
  ASSUME LeftOK, NEW o \in Stopped, NEW s
  PROVE  NewCase(o, Verdict(o, s)) = CaseOf(o, s)
<1>1. [role \in Roles |-> IF 0 < Wanted(o, role) THEN Wanted(o, role) ELSE 0]
        = [role \in Roles |-> Wanted(o, role)]
  BY WantedIsNat
<1> QED BY <1>1 DEF NewCase, WithEntities, CaseOf

LEMMA SightsAreStates ==
  ASSUME LeftOK, NEW o \in Stopped
  PROVE  /\ Sights(o) \subseteq OperationState /\ NotSeen \notin Sights(o)
         /\ GoodCases(o) \subseteq CaseRows
<1>1. stoppedIn[o] \in OperationState /\ "recovery_required" \in OperationState
      /\ NotSeen \notin OperationState
  BY DEF LeftOK, OperationState, NotSeen
<1>2. Sights(o) \subseteq OperationState
  BY <1>1 DEF Sights
<1> QED BY <1>1, <1>2 DEF GoodCases, CaseRows

(* An update that sends only the columns that have changed leaves a whole  *)
(* case, since there are but two verdicts on one operation.                *)
LEMMA OverwrittenIsWhole ==
  ASSUME LeftOK, NEW o \in Stopped, NEW row \in GoodCases(o), NEW loaded \in GoodCases(o),
         NEW s \in Sights(o)
  PROVE  WithEntities(o, Overwrite(row, loaded, Verdict(o, s))) \in GoodCases(o)
<1> DEFINE new == Verdict(o, s)
<1>1. PICK a \in Sights(o) : row = CaseOf(o, a)
  BY DEF GoodCases
<1>2. PICK b \in Sights(o) : loaded = CaseOf(o, b)
  BY DEF GoodCases
<1>3. \/ Overwrite(row, loaded, new) = CaseOf(o, a)
      \/ Overwrite(row, loaded, new) = CaseOf(o, s)
  <2> DEFINE verdict(x) == Verdict(o, x)
             all == [role \in Roles |-> Wanted(o, role)]
             case(x) == [classification |-> verdict(x).classification,
                         context |-> verdict(x).context, entities |-> all]
  <2>1. row = case(a) /\ loaded = case(b) /\ new = verdict(s)
    BY <1>1, <1>2 DEF CaseOf
  <2>2. Overwrite(row, loaded, new) =
          [classification |-> IF loaded.classification = new.classification
                              THEN row.classification ELSE new.classification,
           context |-> IF loaded.context = new.context THEN row.context ELSE new.context,
           entities |-> row.entities]
    BY DEF Overwrite
  <2>3. a = s \/ b = s \/ a = b
    BY DEF Sights
  <2>4. Overwrite(row, loaded, new) = case(a) \/ Overwrite(row, loaded, new) = case(s)
    <3> HIDE DEF verdict, all, new
    <3> QED BY <2>1, <2>2, <2>3
  <2> QED BY <2>4 DEF CaseOf
<1>4. \A x : WithEntities(o, CaseOf(o, x)) = CaseOf(o, x)
  <2> TAKE x
  <2>1. [role \in Roles |-> IF CaseOf(o, x).entities[role] < Wanted(o, role)
                            THEN Wanted(o, role) ELSE CaseOf(o, x).entities[role]]
          = [role \in Roles |-> Wanted(o, role)]
    BY WantedIsNat DEF CaseOf
  <2> QED BY <2>1 DEF WithEntities, CaseOf
<1> QED BY <1>1, <1>3, <1>4 DEF GoodCases

Tables ==
  [state : [Stopped -> OperationState], history : [Stopped -> Seq(OperationState)],
   cases : [Stopped -> Seq(CaseRows)]]

LEMMA EnsureCaseAdds ==
  ASSUME LeftOK, NEW o \in Stopped, NEW s \in Sights(o), NEW t, TableOK(t), NEW loaded,
         loaded # Nothing => loaded \in GoodCases(o) /\ t.cases[o] # <<>>
  PROVE  LET u == EnsureCase(t, o, loaded, Verdict(o, s))
         IN  /\ u \in Tables /\ u.state = t.state /\ u.history = t.history
             /\ \A p \in Stopped : p # o => u.cases[p] = t.cases[p]
             /\ Len(u.cases[o]) >= Len(t.cases[o]) /\ Len(u.cases[o]) >= 1
             /\ \A i \in 1 .. Len(u.cases[o]) : u.cases[o][i] \in GoodCases(o)
<1> DEFINE open == t.cases[o]
           row == IF loaded = Nothing THEN NewCase(o, Verdict(o, s))
                  ELSE WithEntities(o, Overwrite(open[1], loaded, Verdict(o, s)))
           cases == IF loaded = Nothing THEN Append(open, row) ELSE [open EXCEPT ![1] = row]
           u == EnsureCase(t, o, loaded, Verdict(o, s))
<1>0. /\ t \in Tables /\ open \in Seq(CaseRows)
      /\ \A i \in 1 .. Len(open) : open[i] \in GoodCases(o)
      /\ loaded # Nothing => Len(open) >= 1
  BY DEF TableOK, Tables
<1>1. GoodCases(o) \subseteq CaseRows
  BY SightsAreStates
<1>2. row \in GoodCases(o)
  <2>1. NewCase(o, Verdict(o, s)) \in GoodCases(o)
    BY CaseIsRecord DEF GoodCases
  <2>2. loaded # Nothing => open[1] \in GoodCases(o)
    BY <1>0
  <2> QED BY <2>1, <2>2, OverwrittenIsWhole
<1>3. u = [t EXCEPT !.cases[o] = cases]
  BY DEF EnsureCase
<1>4. /\ cases \in Seq(CaseRows) /\ Len(cases) >= Len(open) /\ Len(cases) >= 1
      /\ \A i \in 1 .. Len(cases) : cases[i] \in GoodCases(o)
  <2> HIDE DEF row, open
  <2> QED BY <1>0, <1>1, <1>2
<1> HIDE DEF cases, u
<1>5. /\ u \in Tables /\ u.state = t.state /\ u.history = t.history
      /\ u.cases = [t.cases EXCEPT ![o] = cases]
  BY <1>0, <1>3, <1>4 DEF Tables
<1>6. u.cases[o] = cases /\ \A p \in Stopped : p # o => u.cases[p] = t.cases[p]
  BY <1>0, <1>5 DEF Tables
<1> QED BY <1>4, <1>5, <1>6 DEF u

(* Three lists of states agree: who is a candidate and not yet marked can  *)
(* be marked.                                                              *)
LEMMA CandidateCanBeMarked ==
  ASSUME NEW t \in Orchestrated, NEW s \in OperationState,
         s \notin NonRecoverable, s # "recovery_required"
  PROVE  CanTransition(t, s, "recovery_required")
<1>1. s \notin TerminalStates[t]
  BY DEF NonRecoverable, TerminalStates, Orchestrated
<1> QED BY <1>1 DEF CanTransition, AllowedTargets, CommonFallbacks

(* A step to recovery_required keeps a history what it was.                *)
LEMMA MarkKeepsHistory ==
  ASSUME LeftOK, NEW o \in Stopped, NEW history \in Seq(OperationState), history # <<>>,
         LegalHistory(o, history), HistoryTells(o, history),
         \/ LastOf(history) = "recovery_required"
         \/ CanTransition(type[o], LastOf(history), "recovery_required")
  PROVE  LET longer == Append(history, "recovery_required")
         IN  /\ longer \in Seq(OperationState) /\ longer # <<>>
             /\ LastOf(longer) = "recovery_required"
             /\ LegalHistory(o, longer) /\ HistoryTells(o, longer)
<1> DEFINE longer == Append(history, "recovery_required")
<1>1. /\ longer \in Seq(OperationState) /\ Len(longer) = Len(history) + 1
      /\ Len(history) \in Nat /\ Len(history) >= 1
      /\ \A i \in 1 .. Len(history) : longer[i] = history[i]
      /\ longer[Len(history) + 1] = "recovery_required"
  BY DEF OperationState
<1> HIDE DEF longer
<1>2. LegalHistory(o, longer)
  <2> SUFFICES ASSUME NEW i \in 1 .. Len(history)
               PROVE  \/ CanTransition(type[o], longer[i], longer[i + 1])
                      \/ longer[i] = "recovery_required" /\ longer[i + 1] = "recovery_required"
    BY <1>1 DEF LegalHistory
  <2>1. CASE i = Len(history)
    BY <1>1, <2>1 DEF LastOf
  <2>2. CASE i < Len(history)
    BY <1>1, <2>2 DEF LegalHistory
  <2> QED BY <1>1, <2>1, <2>2
<1>3. type[o] \in Orchestrated
  BY DEF LeftOK
<1>4. /\ \A state : Has(history, state) => Has(longer, state)
      /\ \A state : state # "recovery_required" /\ Has(longer, state) => Has(history, state)
  BY <1>1 DEF Has
<1>5. HistoryTells(o, longer)
  BY <1>3, <1>4, Checkpoint DEF HistoryTells
<1> QED BY <1>1, <1>2, <1>5 DEF longer, LastOf

LEMMA ExtendsReflexive ==
  ASSUME NEW t, TableOK(t)
  PROVE  Extends(t, t)
<1>1. \A o \in Stopped : t.cases[o] \in Seq(CaseRows)
  BY DEF TableOK
<1> QED BY <1>1 DEF Extends

LEMMA ExtendsTransitive ==
  ASSUME NEW t, NEW u, NEW v, TableOK(t), TableOK(u), TableOK(v), Extends(t, u), Extends(u, v)
  PROVE  Extends(t, v)
<1>1. \A o \in Stopped : /\ t.cases[o] \in Seq(CaseRows) /\ u.cases[o] \in Seq(CaseRows)
                         /\ v.cases[o] \in Seq(CaseRows)
  BY DEF TableOK
<1> QED BY <1>1 DEF Extends

LEMMA SettledStays ==
  ASSUME NEW t, NEW u, TableOK(t), TableOK(u), Extends(t, u), NEW o \in Stopped
  PROVE  /\ t.cases[o] # <<>> => u.cases[o] # <<>>
         /\ Settled(t, o) => Settled(u, o)
<1>1. t.cases[o] \in Seq(CaseRows) /\ u.cases[o] \in Seq(CaseRows)
  BY DEF TableOK
<1> QED BY <1>1 DEF Extends, Settled

(* What a scan writes for one operation leaves the tables in order, and    *)
(* the operation settled.                                                  *)
LEMMA WriteKeepsTable ==
  ASSUME LeftOK, NEW s, NEW o \in Recoverable, NEW t, TableOK(t), NEW loaded,
         seen[s][o] \in Sights(o),
         seen[s][o] = "recovery_required" => t.state[o] = "recovery_required",
         loaded # Nothing => loaded \in GoodCases(o) /\ t.cases[o] # <<>>
  PROVE  LET u == Mark(s, EnsureCase(t, o, loaded, Verdict(o, seen[s][o])), o)
         IN  TableOK(u) /\ Extends(t, u) /\ Settled(u, o)
<1> DEFINE e == EnsureCase(t, o, loaded, Verdict(o, seen[s][o]))
           u == Mark(s, e, o)
<1>0. o \in Stopped /\ stoppedIn[o] \notin NonRecoverable
  BY DEF Recoverable
<1>1. /\ e \in Tables /\ e.state = t.state /\ e.history = t.history
      /\ \A p \in Stopped : p # o => e.cases[p] = t.cases[p]
      /\ Len(e.cases[o]) >= Len(t.cases[o]) /\ Len(e.cases[o]) >= 1
      /\ \A i \in 1 .. Len(e.cases[o]) : e.cases[o][i] \in GoodCases(o)
  BY <1>0, EnsureCaseAdds
<1>2. t \in Tables
  BY DEF TableOK, Tables
<1>3. TableOK(e)
  BY <1>1 DEF TableOK, Tables
<1>4. Extends(t, e) /\ e.cases[o] # <<>>
  <2> HIDE DEF e
  <2>1. \A p \in Stopped : /\ e.state[p] = t.state[p]
                           /\ p # o => e.cases[p] = t.cases[p]
                           /\ e.cases[p] \in Seq(CaseRows) /\ t.cases[p] \in Seq(CaseRows)
    BY <1>1, <1>2 DEF Tables
  <2>2. \A p \in Stopped : Len(t.cases[p]) <= Len(e.cases[p])
    BY <1>1, <2>1
  <2>3. e.cases[o] # <<>>
    BY <1>0, <1>1, <2>1
  <2> QED BY <2>1, <2>2, <2>3 DEF Extends
<1> HIDE DEF e
<1>5. CASE ~ NeedsMark(s, o)
  <2>1. u = e /\ u.state[o] = "recovery_required"
    BY <1>1, <1>5 DEF Mark, NeedsMark
  <2> QED BY <1>3, <1>4, <2>1 DEF Settled, e
<1>6. CASE NeedsMark(s, o)
  <2>1. u = [e EXCEPT !.state[o] = "recovery_required",
                      !.history[o] = Append(@, "recovery_required")]
    BY <1>6 DEF Mark
  <2>2. /\ e.state \in [Stopped -> OperationState]
        /\ e.history \in [Stopped -> Seq(OperationState)]
        /\ e.cases \in [Stopped -> Seq(CaseRows)]
    BY <1>1 DEF Tables
  <2> DEFINE longer == Append(e.history[o], "recovery_required")
  <2>3. /\ longer \in Seq(OperationState) /\ longer # <<>>
        /\ LastOf(longer) = "recovery_required"
        /\ LegalHistory(o, longer) /\ HistoryTells(o, longer)
    <3>1. /\ LegalHistory(o, e.history[o]) /\ HistoryTells(o, e.history[o])
          /\ e.history[o] # <<>> /\ LastOf(e.history[o]) \in Sights(o)
      BY <1>0, <1>3 DEF TableOK
    <3>2. type[o] \in Orchestrated /\ stoppedIn[o] \in OperationState
      BY <1>0 DEF LeftOK
    <3>3. \/ LastOf(e.history[o]) = "recovery_required"
          \/ CanTransition(type[o], LastOf(e.history[o]), "recovery_required")
      BY <1>0, <3>1, <3>2, CandidateCanBeMarked DEF Sights
    <3> QED BY <1>0, <2>2, <3>1, <3>3, MarkKeepsHistory
  <2> HIDE DEF longer, u
  <2>4. /\ u.state = [e.state EXCEPT ![o] = "recovery_required"]
        /\ u.history = [e.history EXCEPT ![o] = longer]
        /\ u.cases = e.cases
        /\ u \in Tables
    BY <1>0, <1>1, <2>1, <2>2, <2>3 DEF Tables, OperationState, longer
  <2>5. TableOK(u)
    <3>1. \A p \in Stopped : p # o => /\ u.state[p] = e.state[p]
                                      /\ u.history[p] = e.history[p]
      BY <2>2, <2>4
    <3>2. u.state[o] = "recovery_required" /\ u.history[o] = longer
      BY <1>0, <2>2, <2>4
    <3> QED BY <1>0, <1>3, <2>3, <2>4, <3>1, <3>2 DEF TableOK, Tables, Sights
  <2>6. Extends(t, u)
    <3>1. Extends(e, u)
      BY <1>0, <2>2, <2>4 DEF Extends
    <3> QED BY <1>3, <1>4, <2>5, <3>1, ExtendsTransitive
  <2>7. Settled(u, o)
    BY <1>0, <1>4, <2>2, <2>4 DEF Settled
  <2> QED BY <2>5, <2>6, <2>7 DEF u, e
<1> QED BY <1>5, <1>6 DEF e

-----------------------------------------------------------------------------
(* What was left behind does not change, nor what is said in its terms.    *)

LEMMA LeftFrame ==
  ASSUME UNCHANGED leftVars
  PROVE  /\ LeftOK' = LeftOK /\ Recoverable' = Recoverable /\ CaseRows' = CaseRows
         /\ \A o : Sights(o)' = Sights(o)
         /\ \A o : GoodCases(o)' = GoodCases(o)
         /\ \A o, h : LegalHistory(o, h)' = LegalHistory(o, h)
         /\ \A o, h : HistoryTells(o, h)' = HistoryTells(o, h)
<1> USE DEF leftVars
<1>1. LeftOK' = LeftOK /\ Recoverable' = Recoverable
  BY DEF LeftOK, Recoverable
<1>2. \A o, s : Reconcile(o, s)' = Reconcile(o, s)
  BY DEF Reconcile
<1>3. \A o, role : Wanted(o, role)' = Wanted(o, role)
  BY DEF Wanted
<1>4. \A o, s : CaseOf(o, s)' = CaseOf(o, s)
  BY <1>2, <1>3 DEF CaseOf, Verdict
<1>5. CaseRows' = CaseRows /\ \A o : Sights(o)' = Sights(o) /\ GoodCases(o)' = GoodCases(o)
  BY <1>4 DEF CaseRows, GoodCases, Sights
<1>6. \A o, h : /\ LegalHistory(o, h)' = LegalHistory(o, h)
                /\ HistoryTells(o, h)' = HistoryTells(o, h)
  BY DEF LegalHistory, HistoryTells
<1> QED BY <1>1, <1>5, <1>6

LEMMA TableFrame ==
  ASSUME UNCHANGED leftVars
  PROVE  \A t : TableOK(t)' <=> TableOK(t)
<1> TAKE t
<1>1. stoppedIn' = stoppedIn
  BY DEF leftVars
<1> QED BY <1>1, LeftFrame DEF TableOK

LEMMA CandidatesAreRecoverable ==
  ASSUME LeftOK, TableOK(table)
  PROVE  /\ Candidates = Recoverable
         /\ Unfinished \subseteq Recoverable
<1>1. "recovery_required" \notin NonRecoverable
  BY DEF NonRecoverable
<1> QED BY <1>1 DEF TableOK, Candidates, Unfinished, Recoverable, Sights

(* A scan that does not move keeps its promises while the tables grow.     *)
LEMMA ScanFrame ==
  ASSUME UNCHANGED leftVars, NEW s \in Scans, ScanOK(s),
         scan'[s] = scan[s], todo'[s] = todo[s], unfinished'[s] = unfinished[s],
         seen'[s] = seen[s], hand'[s] = hand[s],
         LeftOK, TableOK(table), TableOK(table'), Extends(table, table'),
         TableOK(View(s)), TableOK(View(s)'), Extends(View(s), View(s)')
  PROVE  ScanOK(s)'
<1> DEFINE v == View(s)
           w == View(s)'
<1>0. Recoverable' = Recoverable /\ \A o : Sights(o)' = Sights(o) /\ GoodCases(o)' = GoodCases(o)
  BY LeftFrame
<1>1. Recoverable \subseteq Stopped
  BY DEF Recoverable
<1>2. \A o \in Stopped : /\ v.cases[o] # <<>> => w.cases[o] # <<>>
                         /\ Settled(v, o) => Settled(w, o)
                         /\ Settled(table, o) => Settled(table', o)
  BY SettledStays
<1>3. /\ (todo[s] \subseteq Recoverable)' /\ (unfinished[s] \subseteq Recoverable)'
      /\ (todo[s] # {} => scan[s] = "scanning")'
  BY <1>0 DEF ScanOK
<1>4. ASSUME NEW o \in Stopped
      PROVE  /\ (seen[s][o] \in Sights(o) \cup {NotSeen})'
             /\ (seen[s][o] = "recovery_required" => table.state[o] = "recovery_required")'
             /\ (scan[s] \in {"scanning", "done"} => (seen[s][o] # NotSeen <=> o \in Recoverable))'
  BY <1>0 DEF ScanOK, Extends
<1>5. (hand[s] # Nothing =>
         /\ hand[s].operation \in todo[s]
         /\ hand[s].loaded # Nothing =>
              /\ hand[s].loaded \in GoodCases(hand[s].operation)
              /\ View(s).cases[hand[s].operation] # <<>>)'
  <2> SUFFICES ASSUME hand[s] # Nothing
               PROVE  /\ hand[s].operation \in todo[s]
                      /\ hand[s].loaded # Nothing =>
                           /\ hand[s].loaded \in GoodCases(hand[s].operation)
                           /\ w.cases[hand[s].operation] # <<>>
    BY <1>0
  <2> HIDE DEF w, v
  <2>1. hand[s].operation \in Stopped
    BY <1>1 DEF ScanOK
  <2> QED BY <1>2, <2>1 DEF ScanOK, v
<1>6. (scan[s] = "scanning" => \A o \in Recoverable \ todo[s] : Settled(View(s), o))'
  <2> SUFFICES ASSUME scan[s] = "scanning", NEW o \in Recoverable \ todo[s]
               PROVE  Settled(w, o)
    BY <1>0 DEF Settled
  <2>1. Settled(v, o)
    BY DEF ScanOK
  <2> QED BY <1>1, <1>2, <2>1
<1>7. (scan[s] = "done" => \A o \in Recoverable : Settled(table, o))'
  <2> SUFFICES ASSUME scan[s] = "done", NEW o \in Recoverable
               PROVE  Settled(table', o)
    BY <1>0 DEF Settled
  <2> QED BY <1>1, <1>2 DEF ScanOK
<1> QED BY <1>3, <1>4, <1>5, <1>6, <1>7 DEF ScanOK

LEMMA BriefFrame ==
  ASSUME UNCHANGED <<leftVars, brief>>, BriefOK, TableOK(table), TableOK(table'),
         Extends(table, table')
  PROVE  BriefOK'
<1>1. \A o \in Stopped : table.cases[o] \in Seq(CaseRows) /\ table'.cases[o] \in Seq(CaseRows)
  BY DEF TableOK
<1>2. writes' = writes
  BY DEF leftVars
<1>3. \A o \in Stopped : \A role \in Roles : Wanted(o, role)' = Wanted(o, role)
  BY <1>2 DEF Wanted
<1> QED BY <1>1, <1>2, <1>3 DEF BriefOK, AdviceIsOfOneMoment, Extends

-----------------------------------------------------------------------------
(* Every step keeps the invariant.                                         *)

LEMMA OthersKeep ==
  ASSUME ReconIndInv, NEW s \in Scans, UNCHANGED leftVars,
         \A t \in Scans \ {s} :
           /\ scan'[t] = scan[t] /\ todo'[t] = todo[t] /\ unfinished'[t] = unfinished[t]
           /\ seen'[t] = seen[t] /\ hand'[t] = hand[t]
           /\ Extends(View(t), View(t)'),
         TableOK(table'), TableOK(draft'), Extends(table, table')
  PROVE  \A t \in Scans \ {s} : ScanOK(t)'
<1> TAKE t \in Scans \ {s}
<1>1. TableOK(View(t)) /\ TableOK(View(t)')
  BY DEF ReconIndInv, View
<1> QED BY <1>1, ScanFrame DEF ReconIndInv

LEMMA SameTables ==
  ASSUME ReconIndInv, UNCHANGED <<leftVars, table, draft, writer>>
  PROVE  /\ TableOK(table') /\ TableOK(draft') /\ TableOK(table)' /\ TableOK(draft)'
         /\ Extends(table, table') /\ Extends(table, draft)' /\ LeftOK'
         /\ \A t \in Scans : View(t)' = View(t) /\ Extends(View(t), View(t)')
<1>1. TableOK(table') /\ TableOK(draft') /\ TableOK(table)' /\ TableOK(draft)' /\ LeftOK'
  BY TableFrame, LeftFrame DEF ReconIndInv
<1>2. Extends(table, table') /\ Extends(table, draft)'
  BY ExtendsReflexive DEF ReconIndInv, Extends
<1>3. \A t \in Scans : View(t)' = View(t) /\ TableOK(View(t))
  BY DEF View, ReconIndInv
<1>4. \A t \in Scans : Extends(View(t), View(t)')
  BY <1>3, ExtendsReflexive
<1> QED BY <1>1, <1>2, <1>3, <1>4

LEMMA StartScanStep ==
  ASSUME StoppedOK, ReconIndInv, NEW s \in Scans, StartScan(s)
  PROVE  ReconIndInv'
<1> USE DEF StartScan
<1>1. /\ scan \in [Scans -> {"idle", "listing", "scanning", "done", "failed"}]
      /\ todo \in [Scans -> SUBSET Stopped] /\ unfinished \in [Scans -> SUBSET Stopped]
      /\ seen \in [Scans -> [Stopped -> OperationState \cup {NotSeen}]] /\ DOMAIN hand = Scans
  BY DEF ReconIndInv, ReconTypeOK
<1>2. todo[s] = {} /\ hand[s] = Nothing
  BY DEF ReconIndInv, ScanOK, Running
<1>3. Candidates = Recoverable /\ Unfinished \subseteq Recoverable /\ Recoverable' = Recoverable
  BY CandidatesAreRecoverable, LeftFrame DEF ReconIndInv
<1>4. ReconTypeOK'
  BY <1>1, <1>3 DEF ReconIndInv, ReconTypeOK, leftVars, Recoverable, Running
<1>5. ScanOK(s)'
  BY <1>1, <1>2, <1>3 DEF ScanOK, NotSeen
<1>6. \A t \in Scans \ {s} : ScanOK(t)'
  BY <1>1, SameTables, OthersKeep
<1>7. BriefOK'
  BY SameTables, BriefFrame DEF ReconIndInv
<1>8. (seen \in [Scans -> [Stopped -> OperationState \cup {NotSeen}]] /\ DOMAIN hand = Scans)'
  BY <1>1
<1> QED BY <1>4, <1>5, <1>6, <1>7, <1>8, SameTables DEF ReconIndInv

LEMMA ListCandidatesStep ==
  ASSUME StoppedOK, ReconIndInv, NEW s \in Scans, ListCandidates(s)
  PROVE  ReconIndInv'
<1> USE DEF ListCandidates
<1>1. /\ scan \in [Scans -> {"idle", "listing", "scanning", "done", "failed"}]
      /\ todo \in [Scans -> SUBSET Stopped] /\ unfinished \in [Scans -> SUBSET Stopped]
      /\ seen \in [Scans -> [Stopped -> OperationState \cup {NotSeen}]] /\ DOMAIN hand = Scans
  BY DEF ReconIndInv, ReconTypeOK
<1>2. hand[s] = Nothing /\ unfinished[s] \subseteq Recoverable
  BY DEF ReconIndInv, ScanOK
<1>3. /\ Candidates = Recoverable /\ Recoverable' = Recoverable /\ Recoverable \subseteq Stopped
      /\ \A o \in Stopped : Sights(o)' = Sights(o) /\ Sights(o) \subseteq OperationState
      /\ \A o \in Stopped : NotSeen \notin Sights(o) /\ table.state[o] \in Sights(o)
  BY CandidatesAreRecoverable, LeftFrame, SightsAreStates DEF ReconIndInv, Recoverable, TableOK
<1>4. ReconTypeOK'
  BY <1>1, <1>3 DEF ReconIndInv, ReconTypeOK, leftVars
<1>5. ScanOK(s)'
  <2>1. /\ scan'[s] = "scanning" /\ todo'[s] = Recoverable /\ hand'[s] = Nothing
        /\ unfinished'[s] = unfinished[s] /\ table' = table
        /\ seen'[s] = [o \in Stopped |-> IF o \in Recoverable THEN table.state[o] ELSE NotSeen]
    BY <1>1, <1>2, <1>3
  <2>2. \A o \in Stopped :
          /\ (seen[s][o] \in Sights(o) \cup {NotSeen})'
          /\ (seen[s][o] = "recovery_required" => table.state[o] = "recovery_required")'
          /\ (seen[s][o] # NotSeen <=> o \in Recoverable)'
    <3> TAKE o \in Stopped
    <3>1. seen'[s][o] = IF o \in Recoverable THEN table.state[o] ELSE NotSeen
      BY <2>1
    <3>2. /\ Sights(o)' = Sights(o) /\ table.state[o] \in Sights(o) /\ NotSeen \notin Sights(o)
          /\ Recoverable' = Recoverable /\ table' = table
      BY <1>3
    <3> HIDE DEF ListCandidates
    <3>3. "recovery_required" # NotSeen
      BY DEF NotSeen
    <3>4. (seen[s][o] \in Sights(o) \cup {NotSeen})'
      BY <3>1, <3>2
    <3>5. (seen[s][o] = "recovery_required" => table.state[o] = "recovery_required")'
      BY <3>1, <3>2, <3>3
    <3>6. (seen[s][o] # NotSeen <=> o \in Recoverable)'
      BY <3>1, <3>2
    <3> QED BY <3>4, <3>5, <3>6
  <2> QED BY <1>2, <1>3, <2>1, <2>2 DEF ScanOK
<1>6. \A t \in Scans \ {s} : ScanOK(t)'
  BY <1>1, SameTables, OthersKeep
<1>7. BriefOK'
  BY SameTables, BriefFrame DEF ReconIndInv
<1>8. (seen \in [Scans -> [Stopped -> OperationState \cup {NotSeen}]] /\ DOMAIN hand = Scans)'
  BY <1>1, <1>3
<1> QED BY <1>4, <1>5, <1>6, <1>7, <1>8, SameTables DEF ReconIndInv

LEMMA ViewOK ==
  ASSUME StoppedOK, ReconIndInv, NEW s \in Scans
  PROVE  /\ TableOK(View(s)) /\ Extends(table, View(s))
         /\ writer \in {NoScan, s} => View(s) = draft
<1>1. CASE writer = s
  BY <1>1 DEF View, ReconIndInv
<1>2. CASE writer # s
  BY <1>2, ExtendsReflexive DEF View, ReconIndInv, ReconTypeOK
<1> QED BY <1>1, <1>2

LEMMA LookUpCaseStep ==
  ASSUME StoppedOK, ReconIndInv, NEW s \in Scans, LookUpCase(s)
  PROVE  ReconIndInv'
<1> USE DEF LookUpCase
<1>1. /\ DOMAIN hand = Scans
      /\ seen \in [Scans -> [Stopped -> OperationState \cup {NotSeen}]]
  BY DEF ReconIndInv
<1>2. ReconTypeOK'
  BY DEF ReconIndInv, ReconTypeOK, leftVars
<1>3. ScanOK(s)'
  <2> DEFINE v == View(s)
  <2>1. PICK o \in todo[s] :
          hand' = [hand EXCEPT ![s] = [operation |-> o,
                     loaded |-> IF v.cases[o] = <<>> THEN Nothing ELSE v.cases[o][1]]]
    OBVIOUS
  <2>2. o \in Stopped /\ o \in Recoverable
    BY DEF ReconIndInv, ScanOK, Recoverable
  <2>3. TableOK(v) /\ View(s)' = v
    BY ViewOK DEF View
  <2>4. v.cases[o] # <<>> => v.cases[o][1] \in GoodCases(o)
    <3> HIDE DEF v
    <3>1. v.cases[o] \in Seq(CaseRows)
      BY <2>2, <2>3 DEF TableOK
    <3> QED BY <2>2, <2>3, <3>1 DEF TableOK
  <2>5. /\ Recoverable' = Recoverable
        /\ \A p : Sights(p)' = Sights(p) /\ GoodCases(p)' = GoodCases(p)
    BY LeftFrame
  <2>6. hand'[s].operation = o /\ hand'[s].loaded = IF v.cases[o] = <<>> THEN Nothing ELSE v.cases[o][1]
    BY <1>1, <2>1
  <2>7. (hand[s] # Nothing =>
           /\ hand[s].operation \in todo[s]
           /\ hand[s].loaded # Nothing =>
                /\ hand[s].loaded \in GoodCases(hand[s].operation)
                /\ View(s).cases[hand[s].operation] # <<>>)'
    <3> HIDE DEF v
    <3> QED BY <2>3, <2>4, <2>5, <2>6
  <2>8. UNCHANGED <<scan, unfinished, seen, todo, table>> /\ ScanOK(s)
    BY DEF ReconIndInv
  <2> HIDE DEF LookUpCase
  <2>9. (scan[s] = "scanning" => \A p \in Recoverable \ todo[s] : Settled(View(s), p))'
    <3> SUFFICES ASSUME scan[s] = "scanning", NEW p \in Recoverable \ todo[s]
                 PROVE  Settled(v, p)
      BY <2>3, <2>5, <2>8 DEF Settled
    <3> QED BY <2>8 DEF ScanOK
  <2>10. (scan[s] = "done" => \A p \in Recoverable : Settled(table, p))'
    BY <2>5, <2>8 DEF ScanOK, Settled
  <2> QED BY <2>5, <2>7, <2>8, <2>9, <2>10 DEF ScanOK
<1>4. \A t \in Scans \ {s} : ScanOK(t)'
  BY <1>1, SameTables, OthersKeep
<1>5. BriefOK'
  BY SameTables, BriefFrame DEF ReconIndInv
<1>6. (seen \in [Scans -> [Stopped -> OperationState \cup {NotSeen}]] /\ DOMAIN hand = Scans)'
  BY <1>1
<1> QED BY <1>2, <1>3, <1>4, <1>5, <1>6, SameTables DEF ReconIndInv

LEMMA KeepCaseStep ==
  ASSUME StoppedOK, ReconIndInv, NEW s \in Scans, KeepCase(s)
  PROVE  ReconIndInv'
<1> DEFINE o == hand[s].operation
<1>0. /\ AtHand(s) /\ NothingToWrite(s) /\ ScanOK(s)
      /\ UNCHANGED <<leftVars, table, draft, writer, scan, unfinished, seen, brief>>
      /\ todo' = [todo EXCEPT ![s] = @ \ {o}] /\ hand' = [hand EXCEPT ![s] = Nothing]
  BY DEF KeepCase, Done, ReconIndInv
<1>1. /\ DOMAIN hand = Scans /\ todo \in [Scans -> SUBSET Stopped]
      /\ seen \in [Scans -> [Stopped -> OperationState \cup {NotSeen}]]
  BY DEF ReconIndInv, ReconTypeOK
<1>2. ReconTypeOK'
  BY <1>0, <1>1 DEF ReconIndInv, ReconTypeOK, leftVars
<1>3. ScanOK(s)'
  <2> DEFINE v == View(s)
  <2>1. TableOK(v) /\ Extends(table, v) /\ View(s)' = v
    BY <1>0, ViewOK DEF View
  <2>2. o \in Recoverable /\ o \in Stopped
    BY <1>0 DEF ScanOK, AtHand, Recoverable
  <2>3. Settled(v, o)
    <3>1. v.state[o] = "recovery_required"
      BY <1>0, <2>1, <2>2 DEF NothingToWrite, NeedsMark, ScanOK, Extends
    <3>2. v.cases[o] # <<>>
      BY <1>0 DEF NothingToWrite, ScanOK, AtHand
    <3> QED BY <3>1, <3>2 DEF Settled
  <2>4. /\ Recoverable' = Recoverable
        /\ \A p : Sights(p)' = Sights(p) /\ GoodCases(p)' = GoodCases(p)
    BY <1>0, LeftFrame
  <2>5. todo'[s] = todo[s] \ {o} /\ hand'[s] = Nothing /\ scan[s] = "scanning"
    BY <1>0, <1>1 DEF AtHand
  <2>6. (scan[s] = "scanning" => \A p \in Recoverable \ todo[s] : Settled(View(s), p))'
    <3> SUFFICES ASSUME NEW p \in Recoverable \ (todo[s] \ {o})
                 PROVE  Settled(v, p)
      BY <2>1, <2>4, <2>5 DEF Settled
    <3> HIDE DEF o
    <3> QED BY <1>0, <2>3, <2>5 DEF ScanOK
  <2> HIDE DEF o
  <2> QED BY <1>0, <2>4, <2>5, <2>6 DEF ScanOK
<1>4. \A t \in Scans \ {s} : ScanOK(t)'
  BY <1>0, <1>1, SameTables, OthersKeep
<1>5. BriefOK'
  BY <1>0, SameTables, BriefFrame DEF ReconIndInv
<1>6. (seen \in [Scans -> [Stopped -> OperationState \cup {NotSeen}]] /\ DOMAIN hand = Scans)'
  BY <1>0, <1>1
<1> QED BY <1>0, <1>2, <1>3, <1>4, <1>5, <1>6, SameTables DEF ReconIndInv

LEMMA WriteCaseStep ==
  ASSUME StoppedOK, ReconIndInv, NEW s \in Scans, WriteCase(s)
  PROVE  ReconIndInv'
<1> DEFINE o == hand[s].operation
           v == View(s)
           u == Mark(s, EnsureCase(v, o, hand[s].loaded, Verdict(o, seen[s][o])), o)
<1>0. /\ AtHand(s) /\ writer \in {NoScan, s} /\ ScanOK(s) /\ draft' = u /\ writer' = s
      /\ UNCHANGED <<leftVars, table, scan, unfinished, seen, brief>>
      /\ todo' = [todo EXCEPT ![s] = @ \ {o}] /\ hand' = [hand EXCEPT ![s] = Nothing]
  BY DEF WriteCase, Done, ReconIndInv
<1>1. /\ DOMAIN hand = Scans /\ todo \in [Scans -> SUBSET Stopped]
      /\ seen \in [Scans -> [Stopped -> OperationState \cup {NotSeen}]]
  BY DEF ReconIndInv, ReconTypeOK
<1>2. TableOK(v) /\ Extends(table, v) /\ v = draft /\ LeftOK /\ TableOK(table) /\ NoScan \notin Scans
  BY <1>0, ViewOK DEF ReconIndInv, StoppedOK
<1>3. o \in Recoverable /\ o \in Stopped /\ scan[s] = "scanning"
  BY <1>0 DEF ScanOK, AtHand, Recoverable
<1>4. TableOK(u) /\ Extends(v, u) /\ Settled(u, o)
  <2>1. seen[s][o] \in Sights(o)
    BY <1>0, <1>3 DEF ScanOK
  <2>2. seen[s][o] = "recovery_required" => v.state[o] = "recovery_required"
    BY <1>0, <1>2, <1>3 DEF ScanOK, Extends
  <2>3. hand[s].loaded # Nothing => hand[s].loaded \in GoodCases(o) /\ v.cases[o] # <<>>
    BY <1>0 DEF ScanOK, AtHand
  <2> HIDE DEF o, v
  <2> QED BY <1>2, <1>3, <2>1, <2>2, <2>3, WriteKeepsTable
<1>5. Extends(table, u)
  BY <1>2, <1>4, ExtendsTransitive
<1> HIDE DEF u, v
<1>6. /\ TableOK(table') /\ TableOK(draft') /\ TableOK(table)' /\ TableOK(draft)' /\ LeftOK'
      /\ Extends(table, table') /\ Extends(table, draft)'
  BY <1>0, <1>2, <1>4, <1>5, TableFrame, LeftFrame, ExtendsReflexive DEF Extends
<1>7. ReconTypeOK'
  BY <1>0, <1>1, <1>2, <1>3 DEF ReconIndInv, ReconTypeOK, leftVars
<1>8. ScanOK(s)'
  <2>1. View(s)' = u /\ todo'[s] = todo[s] \ {o} /\ hand'[s] = Nothing
    BY <1>0, <1>1 DEF View
  <2>2. /\ Recoverable' = Recoverable
        /\ \A p : Sights(p)' = Sights(p) /\ GoodCases(p)' = GoodCases(p)
    BY <1>0, LeftFrame
  <2>3. (scan[s] = "scanning" => \A p \in Recoverable \ todo[s] : Settled(View(s), p))'
    <3> SUFFICES ASSUME NEW p \in Recoverable \ (todo[s] \ {o})
                 PROVE  Settled(u, p)
      BY <2>1, <2>2 DEF Settled
    <3> HIDE DEF o
    <3>1. CASE p = o
      BY <1>4, <3>1
    <3>2. CASE p # o
      <4>1. Settled(v, p) /\ p \in Stopped
        BY <1>0, <1>3, <3>2 DEF ScanOK, v, Recoverable
      <4> QED BY <1>2, <1>4, <4>1, SettledStays
    <3> QED BY <3>1, <3>2
  <2> HIDE DEF o
  <2> QED BY <1>0, <1>3, <2>1, <2>2, <2>3 DEF ScanOK
<1>9. \A t \in Scans \ {s} : ScanOK(t)'
  <2>1. \A t \in Scans \ {s} : View(t) = table /\ View(t)' = table
    BY <1>0, <1>2 DEF View
  <2> QED BY <1>0, <1>1, <1>6, <2>1, OthersKeep
<1>10. BriefOK'
  BY <1>0, <1>2, <1>6, BriefFrame DEF ReconIndInv
<1>11. (seen \in [Scans -> [Stopped -> OperationState \cup {NotSeen}]] /\ DOMAIN hand = Scans)'
  BY <1>0, <1>1
<1> QED BY <1>6, <1>7, <1>8, <1>9, <1>10, <1>11 DEF ReconIndInv

LEMMA CommitScanStep ==
  ASSUME StoppedOK, ReconIndInv, NEW s \in Scans, CommitScan(s)
  PROVE  ReconIndInv'
<1> DEFINE v == View(s)
<1>0. /\ hand[s] = Nothing /\ todo[s] = {} /\ scan[s] = "scanning" /\ ScanOK(s)
      /\ table' = v /\ draft' = draft /\ scan' = [scan EXCEPT ![s] = "done"]
      /\ writer' = (IF writer = s THEN NoScan ELSE writer)
      /\ UNCHANGED <<leftVars, unfinished, seen, todo, hand, brief>>
  BY DEF CommitScan, Release, ReconIndInv
<1>1. /\ DOMAIN hand = Scans
      /\ scan \in [Scans -> {"idle", "listing", "scanning", "done", "failed"}]
      /\ seen \in [Scans -> [Stopped -> OperationState \cup {NotSeen}]]
      /\ writer \in Scans \cup {NoScan} /\ NoScan \notin Scans
      /\ writer = NoScan => draft = table
  BY DEF ReconIndInv, ReconTypeOK, StoppedOK
<1>2. TableOK(v) /\ Extends(table, v) /\ LeftOK /\ TableOK(table) /\ TableOK(draft)
  BY ViewOK DEF ReconIndInv
<1>3. Extends(v, draft) /\ v \in {table, draft} /\ (writer = s => v = draft) /\ (writer # s => v = table)
  BY <1>2, ExtendsReflexive DEF View, ReconIndInv
<1> HIDE DEF v
<1>4. /\ TableOK(table') /\ TableOK(draft') /\ TableOK(table)' /\ TableOK(draft)' /\ LeftOK'
      /\ Extends(table, table') /\ Extends(table, draft)'
  BY <1>0, <1>2, <1>3, TableFrame, LeftFrame DEF Extends
<1>5. ReconTypeOK'
  <2>1. (table.state \in [Stopped -> OperationState])'
    BY <1>4 DEF TableOK
  <2>2. (IF writer = NoScan THEN draft = table ELSE scan[writer] = "scanning")'
    BY <1>0, <1>1, <1>3 DEF ReconIndInv, ReconTypeOK
  <2> QED BY <1>0, <1>1, <2>1, <2>2 DEF ReconIndInv, ReconTypeOK, leftVars
<1>6. ScanOK(s)'
  <2>1. scan'[s] = "done"
    BY <1>0, <1>1
  <2>2. /\ Recoverable' = Recoverable /\ Recoverable \subseteq Stopped
        /\ \A p : Sights(p)' = Sights(p) /\ GoodCases(p)' = GoodCases(p)
    BY <1>0, LeftFrame DEF Recoverable
  <2>3. \A p \in Recoverable : Settled(table', p)
    BY <1>0 DEF ScanOK, v
  <2>4. (scan[s] = "done" => \A p \in Recoverable : Settled(table, p))'
    BY <2>2, <2>3 DEF Settled
  <2>5. \A p \in Stopped : (seen[s][p] = "recovery_required" => table.state[p] = "recovery_required")'
    BY <1>0, <1>2 DEF ScanOK, Extends
  <2>6. ScanOK(s) /\ UNCHANGED <<todo, hand, unfinished, seen>>
    BY <1>0
  <2> QED BY <1>0, <2>1, <2>2, <2>4, <2>5, <2>6 DEF ScanOK
<1>7. \A t \in Scans \ {s} : ScanOK(t)'
  <2>1. ASSUME NEW t \in Scans \ {s}
        PROVE  Extends(View(t), View(t)')
    <3>1. CASE writer = t
      BY <1>0, <1>1, <1>2, <3>1, ExtendsReflexive DEF View
    <3>2. CASE writer # t
      BY <1>0, <1>1, <1>2, <3>2 DEF View
    <3> QED BY <3>1, <3>2
  <2> QED BY <1>0, <1>1, <1>4, <2>1, OthersKeep
<1>8. BriefOK'
  BY <1>0, <1>2, <1>4, BriefFrame DEF ReconIndInv
<1> QED BY <1>0, <1>1, <1>4, <1>5, <1>6, <1>7, <1>8 DEF ReconIndInv

LEMMA ScanLostStep ==
  ASSUME StoppedOK, ReconIndInv, NEW s \in Scans, ScanLost(s)
  PROVE  ReconIndInv'
<1>0. /\ table' = table /\ draft' = (IF writer = s THEN table ELSE draft)
      /\ writer' = (IF writer = s THEN NoScan ELSE writer)
      /\ scan' = [scan EXCEPT ![s] = "failed"]
      /\ unfinished' = [unfinished EXCEPT ![s] = {}]
      /\ seen' = [seen EXCEPT ![s] = [o \in Stopped |-> NotSeen]]
      /\ todo' = [todo EXCEPT ![s] = {}] /\ hand' = [hand EXCEPT ![s] = Nothing]
      /\ UNCHANGED <<leftVars, brief>>
  BY DEF ScanLost, Release
<1>1. /\ DOMAIN hand = Scans
      /\ scan \in [Scans -> {"idle", "listing", "scanning", "done", "failed"}]
      /\ todo \in [Scans -> SUBSET Stopped] /\ unfinished \in [Scans -> SUBSET Stopped]
      /\ seen \in [Scans -> [Stopped -> OperationState \cup {NotSeen}]]
      /\ writer \in Scans \cup {NoScan} /\ NoScan \notin Scans
      /\ LeftOK /\ TableOK(table) /\ TableOK(draft) /\ Extends(table, draft)
  BY DEF ReconIndInv, ReconTypeOK, StoppedOK
<1>2. /\ TableOK(table') /\ TableOK(draft') /\ TableOK(table)' /\ TableOK(draft)' /\ LeftOK'
      /\ Extends(table, table') /\ Extends(table, draft)'
  BY <1>0, <1>1, TableFrame, LeftFrame, ExtendsReflexive DEF Extends
<1>3. ReconTypeOK'
  BY <1>0, <1>1 DEF ReconIndInv, ReconTypeOK, leftVars
<1>4. ScanOK(s)'
  <2>1. /\ scan'[s] = "failed" /\ todo'[s] = {} /\ unfinished'[s] = {} /\ hand'[s] = Nothing
        /\ \A o \in Stopped : seen'[s][o] = NotSeen
    BY <1>0, <1>1
  <2> QED BY <2>1 DEF ScanOK, NotSeen
<1>5. \A t \in Scans \ {s} : ScanOK(t)'
  <2>1. ASSUME NEW t \in Scans \ {s}
        PROVE  Extends(View(t), View(t)')
    <3>1. View(t)' = View(t) /\ View(t) \in {table, draft}
      BY <1>0, <1>1 DEF View
    <3> QED BY <1>1, <3>1, ExtendsReflexive
  <2> QED BY <1>0, <1>1, <1>2, <2>1, OthersKeep
<1>6. BriefOK'
  BY <1>0, <1>1, <1>2, BriefFrame DEF ReconIndInv
<1>7. (seen \in [Scans -> [Stopped -> OperationState \cup {NotSeen}]] /\ DOMAIN hand = Scans)'
  BY <1>0, <1>1
<1> QED BY <1>2, <1>3, <1>4, <1>5, <1>6, <1>7 DEF ReconIndInv

(* What a case says of a movement, it can show.                            *)
LEMMA NoActionHasRecord ==
  ASSUME LeftOK, NEW o \in Stopped, NEW c \in GoodCases(o)
  PROVE  /\ c.context.outcome = "no_action_needed" => writes[o] = 1
         /\ c.entities["inventory_evidence"] = writes[o]
         /\ c.entities = [role \in Roles |-> Wanted(o, role)]
<1>1. PICK s \in Sights(o) : c = CaseOf(o, s)
  BY DEF GoodCases
<1>0. c.entities = [role \in Roles |-> Wanted(o, role)]
  BY <1>1 DEF CaseOf
<1>2. c.context.outcome = Reconcile(o, s) /\ c.entities["inventory_evidence"] = writes[o]
  BY <1>1 DEF CaseOf, Verdict, Roles, Wanted
<1>3. writes[o] \in {0, 1}
  BY DEF LeftOK
<1> QED BY <1>0, <1>2, <1>3 DEF Reconcile

LEMMA BriefStep ==
  ASSUME StoppedOK, ReconIndInv, ReadCase \/ ReadEntities
  PROVE  ReconIndInv'
<1>0. UNCHANGED <<leftVars, table, draft, writer, scan, unfinished, seen, todo, hand>>
  BY DEF ReadCase, ReadEntities
<1>1. LeftOK /\ TableOK(table) /\ BriefOK /\ writes' = writes
  BY <1>0 DEF ReconIndInv, leftVars
<1>2. ReconTypeOK'
  BY <1>0 DEF ReconIndInv, ReconTypeOK, leftVars
<1>3. \A s \in Scans : ScanOK(s)'
  <2> TAKE s \in Scans
  <2>1. TableOK(table') /\ Extends(table, table') /\ Extends(View(s), View(s)')
        /\ TableOK(View(s)) /\ TableOK(View(s)')
    BY <1>0, SameTables, ViewOK
  <2> QED BY <1>0, <1>1, <2>1, ScanFrame DEF ReconIndInv
<1>4. BriefOK'
  <2>1. CASE ReadCase
    <3>0. PICK o \in Stopped : \E i \in 1 .. Len(table.cases[o]) :
            brief' = [step |-> "reading", operation |-> o, place |-> i,
                      context |-> table.cases[o][i].context,
                      listed |-> table.cases[o][i].entities]
      BY <2>1 DEF ReadCase
    <3>1. PICK i \in 1 .. Len(table.cases[o]) :
            brief' = [step |-> "reading", operation |-> o, place |-> i,
                      context |-> table.cases[o][i].context,
                      listed |-> table.cases[o][i].entities]
      BY <3>0
    <3>2. table.cases[o][i] \in GoodCases(o)
      BY <1>1 DEF TableOK
    <3>3. table.cases[o][i].context.outcome = "no_action_needed" => writes[o] = 1
      BY <1>1, <3>2, NoActionHasRecord
    <3>4. table.cases[o][i].entities = [role \in Roles |-> Wanted(o, role)]
      BY <1>1, <3>2, NoActionHasRecord
    <3>5. \A role \in Roles : Wanted(o, role)' = Wanted(o, role)
      BY <1>1 DEF Wanted
    <3> QED BY <1>0, <1>1, <3>1, <3>3, <3>4, <3>5 DEF BriefOK, AdviceIsOfOneMoment
  <2>2. CASE ReadEntities
    <3> DEFINE o == brief.operation
               i == brief.place
    <3>1. /\ o \in Stopped /\ i \in 1 .. Len(table.cases[o])
          /\ brief.context.outcome = "no_action_needed" => writes[o] = 1
          /\ brief.listed = [role \in Roles |-> Wanted(o, role)]
      BY <1>1, <2>2 DEF ReadEntities, BriefOK
    <3>2. table.cases[o][i] \in GoodCases(o)
      BY <1>1, <3>1 DEF TableOK
    <3>3. table.cases[o][i].entities["inventory_evidence"] = writes[o]
      BY <1>1, <3>1, <3>2, NoActionHasRecord
    <3>4. brief' = [step |-> "ready", listed |-> brief.listed,
                    impacted |-> table.cases[o][i].entities,
                    recommended |-> Recommend(brief.context)]
      BY <2>2 DEF ReadEntities
    <3>5. "confirm_physical_state" \notin Recommend(brief.context) =>
            brief.context.outcome = "no_action_needed"
      BY DEF Recommend
    <3>6. table.cases[o][i].entities = brief.listed
      BY <1>1, <3>1, <3>2, NoActionHasRecord
    <3> QED BY <3>1, <3>3, <3>4, <3>5, <3>6 DEF BriefOK, AdviceIsOfOneMoment
  <2> QED BY <2>1, <2>2
<1>5. (seen \in [Scans -> [Stopped -> OperationState \cup {NotSeen}]] /\ DOMAIN hand = Scans)'
  BY <1>0 DEF ReconIndInv
<1> QED BY <1>0, <1>2, <1>3, <1>4, <1>5, SameTables DEF ReconIndInv

LEMMA ReconStutter ==
  ASSUME StoppedOK, ReconIndInv, UNCHANGED reconVars
  PROVE  ReconIndInv'
<1>0. UNCHANGED <<leftVars, table, draft, writer, scan, unfinished, seen, todo, hand, brief>>
  BY DEF reconVars
<1>1. ReconTypeOK'
  BY <1>0 DEF ReconIndInv, ReconTypeOK, leftVars
<1>2. \A s \in Scans : ScanOK(s)'
  <2> TAKE s \in Scans
  <2>1. TableOK(table') /\ Extends(table, table') /\ Extends(View(s), View(s)')
        /\ TableOK(View(s)) /\ TableOK(View(s)')
    BY <1>0, SameTables, ViewOK
  <2> QED BY <1>0, <2>1, ScanFrame DEF ReconIndInv
<1>3. BriefOK'
  BY <1>0, SameTables, BriefFrame DEF ReconIndInv
<1> QED BY <1>0, <1>1, <1>2, <1>3, SameTables DEF ReconIndInv

LEMMA InitReconIndInv ==
  ASSUME StoppedOK, ReconInit
  PROVE  ReconIndInv
<1>1. PICK left \in [Stopped -> Leftover] :
        /\ type = [o \in Stopped |-> left[o].type]
        /\ writes = [o \in Stopped |-> left[o].writes]
        /\ stoppedIn = [o \in Stopped |-> LastOf(Path(left[o]))]
        /\ table = [state |-> stoppedIn,
                    history |-> [o \in Stopped |-> Path(left[o])],
                    cases |-> [o \in Stopped |-> <<>>]]
  BY DEF ReconInit
<1>2. ASSUME NEW o \in Stopped
      PROVE  /\ type[o] \in Orchestrated /\ writes[o] \in {0, 1}
             /\ stoppedIn[o] \in OperationState
             /\ stoppedIn[o] = WrittenState(type[o]) => writes[o] = 1
             /\ table.history[o] \in Seq(OperationState) /\ table.history[o] # <<>>
             /\ LastOf(table.history[o]) = stoppedIn[o]
             /\ LegalHistory(o, table.history[o]) /\ HistoryTells(o, table.history[o])
  <2> DEFINE l == left[o]
  <2>0. l \in Leftover
    OBVIOUS
  <2>1. /\ type[o] = l.type /\ writes[o] = l.writes /\ stoppedIn[o] = LastOf(Path(l))
        /\ table.history[o] = Path(l)
    BY <1>1
  <2> HIDE DEF l
  <2>2. /\ l.type \in Orchestrated /\ l.writes \in {0, 1} /\ Path(l) \in Seq(OperationState)
        /\ Len(Path(l)) \in Nat \ {0} /\ LastOf(Path(l)) \in OperationState
        /\ LastOf(Path(l)) = WrittenState(l.type) => l.writes = 1
        /\ IsBeforeMutation(l.type, LastOf(Path(l))) /\ l.writes = 0 =>
             ~ Has(Path(l), PendingState(l.type))
    BY <2>0, PathShape, PathTells
  <2>3. LegalHistory(o, table.history[o])
    BY <2>0, <2>1, PathIsLegal DEF LegalHistory
  <2>4. Has(Path(l), LastOf(Path(l)))
    BY <2>2 DEF Has, LastOf
  <2>5. HistoryTells(o, table.history[o])
    BY <2>1, <2>2, <2>4 DEF HistoryTells
  <2> QED BY <2>1, <2>2, <2>3, <2>5
<1>3. LeftOK
  BY <1>1, <1>2 DEF LeftOK
<1>4. TableOK(table)
  BY <1>1, <1>2 DEF TableOK, Sights
<1>5. draft = table /\ Extends(table, draft)
  BY <1>4, ExtendsReflexive DEF ReconInit
<1>6. ReconTypeOK
  <2>1. writes \in [Stopped -> {0, 1}] /\ type \in [Stopped -> Orchestrated]
    BY <1>3 DEF LeftOK
  <2>2. writes \in [Stopped -> Nat]
    BY <2>1
  <2>3. table.state \in [Stopped -> OperationState]
    BY <1>4 DEF TableOK
  <2> QED BY <1>5, <2>1, <2>2, <2>3 DEF ReconTypeOK, ReconInit
<1>7. \A s \in Scans : ScanOK(s)
  BY DEF ReconInit, ScanOK, NotSeen
<1>8. BriefOK
  BY DEF ReconInit, BriefOK, AdviceIsOfOneMoment, NoBrief
<1> QED BY <1>3, <1>4, <1>5, <1>6, <1>7, <1>8 DEF ReconIndInv, ReconInit

LEMMA NextReconIndInv ==
  ASSUME StoppedOK, ReconIndInv, [ReconNext]_reconVars
  PROVE  ReconIndInv'
<1>1. ASSUME NEW s \in Scans, StartScan(s) \/ ScanStep(s)
      PROVE  ReconIndInv'
  BY <1>1, StartScanStep, ListCandidatesStep, LookUpCaseStep, KeepCaseStep, WriteCaseStep,
     CommitScanStep, ScanLostStep DEF ScanStep
<1> QED BY <1>1, BriefStep, ReconStutter DEF ReconNext

-----------------------------------------------------------------------------
(* ReconIndInv holds in every reachable state.                             *)
THEOREM ReconInductive == ReconSpec => []ReconIndInv
<1>1. ReconInit => ReconIndInv
  BY InitReconIndInv, StoppedOK
<1>2. ReconIndInv /\ [ReconNext]_reconVars => ReconIndInv'
  BY NextReconIndInv, StoppedOK
<1> QED BY <1>1, <1>2, PTL DEF ReconSpec

(* One scan at a time writes, on tables that are those of all when nobody  *)
(* does, and what a lost scan has written is gone.                         *)
THEOREM ReconTypeCorrect == ReconSpec => []ReconTypeOK
<1>1. ReconIndInv => ReconTypeOK
  BY DEF ReconIndInv
<1> QED BY <1>1, ReconInductive, PTL

(* Each case in the tables is a verdict on a state its operation was seen  *)
(* in, with all its entities.                                              *)
LEMMA CasesAreGood ==
  ASSUME ReconIndInv, NEW o \in Stopped, NEW c \in Cases(o)
  PROVE  \E s \in Sights(o) : c = CaseOf(o, s)
BY DEF ReconIndInv, TableOK, Cases, GoodCases

(* What a case says is proved by the tables (docs/software-spec.md:1007).  *)
THEOREM VerdictsProved == ReconSpec => []VerdictsHaveEvidence
<1>1. ReconIndInv => VerdictsHaveEvidence
  <2> SUFFICES ASSUME ReconIndInv, NEW o \in Stopped, NEW c \in Cases(o)
               PROVE  LET outcome == c.context.outcome
                      IN  /\ outcome = "no_action_needed" =>
                               writes[o] > 0 /\ Reached(o, WrittenState(type[o]))
                          /\ outcome = "inventory_write_likely_missing" =>
                               writes[o] = 0 /\ Reached(o, PendingState(type[o]))
                          /\ outcome = "operation_likely_failed_before_inventory_mutation" =>
                               writes[o] = 0 /\ ~ Reached(o, PendingState(type[o]))
    BY DEF VerdictsHaveEvidence
  <2>1. PICK s \in Sights(o) : c = CaseOf(o, s)
    BY CasesAreGood
  <2>2. c.context.outcome = Reconcile(o, s)
    BY <2>1 DEF CaseOf, Verdict
  <2>3. /\ type[o] \in Orchestrated /\ writes[o] \in {0, 1}
        /\ stoppedIn[o] = WrittenState(type[o]) => writes[o] = 1
        /\ HistoryTells(o, table.history[o])
    BY DEF ReconIndInv, LeftOK, TableOK
  <2>4. \A state : Reached(o, state) <=> Has(table.history[o], state)
    BY DEF Reached, Has
  <2>5. "recovery_required" \notin {PendingState(type[o]), WrittenState(type[o])}
        /\ PendingState(type[o]) # WrittenState(type[o])
        /\ ~ IsBeforeMutation(type[o], "recovery_required")
    BY <2>3, Checkpoint, SequenceShape DEF IsBeforeMutation
  <2>6. CASE s = "recovery_required"
    BY <2>2, <2>5, <2>6 DEF Reconcile
  <2>7. CASE s = stoppedIn[o]
    BY <2>2, <2>3, <2>4, <2>5, <2>7 DEF Reconcile, HistoryTells
  <2> QED BY <2>6, <2>7 DEF Sights
<1> QED BY <1>1, ReconInductive, PTL

(* Two sessions that update one case never leave half of each.             *)
THEOREM VerdictsWhole == ReconSpec => []VerdictsAreWhole
<1>1. ReconIndInv => VerdictsAreWhole
  <2> SUFFICES ASSUME ReconIndInv, NEW o \in Stopped, NEW c \in Cases(o)
               PROVE  [classification |-> c.classification, context |-> c.context]
                        = Verdict(o, c.context.detected)
    BY DEF VerdictsAreWhole
  <2>1. PICK s \in Sights(o) : c = CaseOf(o, s)
    BY CasesAreGood
  <2> QED BY <2>1 DEF CaseOf, Verdict
<1> QED BY <1>1, ReconInductive, PTL

(* A scan that succeeds leaves nothing unfinished.                         *)
THEOREM NothingLeftUnfinished == ReconSpec => []ScanLeavesNothingUnfinished
<1>1. ReconIndInv => ScanLeavesNothingUnfinished
  <2> SUFFICES ASSUME ReconIndInv, NEW s \in Scans, scan[s] = "done"
               PROVE  /\ Unfinished = {}
                      /\ unfinished[s] \subseteq Candidates
                      /\ Candidates = {o \in Stopped : seen[s][o] # NotSeen}
                      /\ \A o \in Candidates : table.cases[o] # <<>>
    BY DEF ScanLeavesNothingUnfinished
  <2>1. Candidates = Recoverable /\ Unfinished \subseteq Recoverable /\ Recoverable \subseteq Stopped
    BY CandidatesAreRecoverable DEF ReconIndInv, Recoverable
  <2>2. ScanOK(s)
    BY DEF ReconIndInv
  <2>3. Unfinished = {}
    BY <2>1, <2>2 DEF ScanOK, Settled, Unfinished
  <2> QED BY <2>1, <2>2, <2>3 DEF ScanOK, Settled
<1> QED BY <1>1, ReconInductive, PTL

(* No candidate fails the scan of all, however old what the scan knows.    *)
THEOREM CandidatesMarkable == ReconSpec => []CandidatesCanBeMarked
<1>1. ReconIndInv => CandidatesCanBeMarked
  <2> SUFFICES ASSUME ReconIndInv, NEW s \in Scans, NEW o \in todo[s], NeedsMark(s, o)
               PROVE  CanTransition(type[o], seen[s][o], "recovery_required")
    BY DEF CandidatesCanBeMarked
  <2>1. ScanOK(s)
    BY DEF ReconIndInv
  <2>2. /\ o \in Stopped /\ stoppedIn[o] \notin NonRecoverable
        /\ seen[s][o] \in Sights(o)
    BY <2>1 DEF ScanOK, Recoverable
  <2>3. type[o] \in Orchestrated /\ stoppedIn[o] \in OperationState /\ seen[s][o] = stoppedIn[o]
    BY <2>2 DEF ReconIndInv, LeftOK, Sights, NeedsMark
  <2> QED BY <2>2, <2>3, CandidateCanBeMarked DEF NeedsMark
<1> QED BY <1>1, ReconInductive, PTL

(* Scans append legal steps, or note twice that recovery is wanted.        *)
THEOREM HistoryLegal == ReconSpec => []HistoryStaysLegal
<1>1. ReconIndInv => HistoryStaysLegal
  BY DEF ReconIndInv, TableOK, HistoryStaysLegal, LegalHistory
<1> QED BY <1>1, ReconInductive, PTL

(* Every case has every entity once.                                       *)
THEOREM EntitiesComplete == ReconSpec => []EntitiesAreComplete
<1>1. ReconIndInv => EntitiesAreComplete
  <2> SUFFICES ASSUME ReconIndInv, NEW o \in Stopped, NEW c \in Cases(o), NEW role \in Roles
               PROVE  c.entities[role] = Wanted(o, role)
    BY DEF EntitiesAreComplete
  <2>1. PICK s \in Sights(o) : c = CaseOf(o, s)
    BY CasesAreGood
  <2> QED BY <2>1 DEF CaseOf
<1> QED BY <1>1, ReconInductive, PTL

(* An operator is advised from one picture of a case, and to close it only *)
(* with the movement in it.                                                *)
THEOREM AdviceIsSound == ReconSpec => []AdviceIsOfOneMoment
<1>1. ReconIndInv => AdviceIsOfOneMoment
  BY DEF ReconIndInv, BriefOK
<1> QED BY <1>1, ReconInductive, PTL
-----------------------------------------------------------------------------
(* The cases a transaction opens.                                          *)

(* Rows change, marks come, and one case more, for the operation at hand.  *)
LEMMA WriteAddsOne ==
  ASSUME LeftOK, NEW s, NEW o \in Stopped, NEW t, TableOK(t), NEW loaded,
         seen[s][o] \in Sights(o),
         loaded # Nothing => loaded \in GoodCases(o) /\ t.cases[o] # <<>>
  PROVE  LET u == Mark(s, EnsureCase(t, o, loaded, Verdict(o, seen[s][o])), o)
         IN  /\ \A p \in Stopped : p # o => u.cases[p] = t.cases[p]
             /\ Len(u.cases[o]) <= Len(t.cases[o]) + 1
<1> DEFINE e == EnsureCase(t, o, loaded, Verdict(o, seen[s][o]))
           u == Mark(s, e, o)
           open == t.cases[o]
<1>1. e \in Tables /\ \A p \in Stopped : p # o => e.cases[p] = t.cases[p]
  BY EnsureCaseAdds
<1>2. Len(e.cases[o]) <= Len(open) + 1
  <2>1. open \in Seq(CaseRows) /\ t.cases \in [Stopped -> Seq(CaseRows)] /\ t \in Tables
    BY DEF TableOK, Tables
  <2> DEFINE row == WithEntities(o, Overwrite(open[1], loaded, Verdict(o, seen[s][o])))
             new == NewCase(o, Verdict(o, seen[s][o]))
             longer == Append(open, new)
             changed == [open EXCEPT ![1] = row]
  <2>2. e = [t EXCEPT !.cases[o] = IF loaded = Nothing THEN longer ELSE changed]
    BY DEF EnsureCase
  <2> HIDE DEF row, new
  <2>3. Len(longer) = Len(open) + 1 /\ Len(changed) = Len(open) /\ Len(open) \in Nat
    BY <2>1
  <2> HIDE DEF longer, changed, e
  <2>4. e.cases[o] = IF loaded = Nothing THEN longer ELSE changed
    BY <2>1, <2>2 DEF Tables
  <2>5. QED
    BY <2>3, <2>4
<1>3. u.cases = e.cases
  <2> HIDE DEF e
  <2>1. QED
    BY <1>1 DEF Mark, Tables
<1>4. QED
  BY <1>1, <1>2, <1>3

LEMMA DraftStep ==
  ASSUME StoppedOK, ReconIndInv, DraftAddsOne, [ReconNext]_reconVars
  PROVE  DraftAddsOne'
<1>0. /\ LeftOK /\ TableOK(table) /\ TableOK(draft)
      /\ writer \in Scans \cup {NoScan} /\ NoScan \notin Scans
      /\ writer = NoScan => draft = table
      /\ writer # NoScan => scan[writer] = "scanning"
      /\ todo \in [Scans -> SUBSET Stopped]
      /\ DOMAIN hand = Scans
  BY DEF ReconIndInv, ReconTypeOK, StoppedOK
<1>1. \A o \in Stopped : Len(table.cases[o]) \in Nat /\ Len(draft.cases[o]) \in Nat
  BY <1>0 DEF TableOK
<1>2. Recoverable' = Recoverable
  <2>1. UNCHANGED leftVars
    BY DEF ReconNext, ScanStep, StartScan, ListCandidates, LookUpCase, KeepCase, WriteCase, Done,
           CommitScan, ScanLost, ReadCase, ReadEntities, reconVars
  <2>2. QED
    BY <2>1, LeftFrame
<1>3. ASSUME UNCHANGED <<table, draft, writer>>, writer # NoScan => todo'[writer] \subseteq todo[writer]
      PROVE  DraftAddsOne'
  BY <1>2, <1>3 DEF DraftAddsOne
<1>4. ASSUME NEW s \in Scans, StartScan(s) \/ ListCandidates(s) \/ LookUpCase(s) \/ KeepCase(s)
      PROVE  DraftAddsOne'
  BY <1>0, <1>3, <1>4 DEF StartScan, ListCandidates, LookUpCase, KeepCase, Done
<1>5. ASSUME NEW s \in Scans, WriteCase(s)
      PROVE  DraftAddsOne'
  <2> DEFINE o == hand[s].operation
             u == Mark(s, EnsureCase(View(s), o, hand[s].loaded, Verdict(o, seen[s][o])), o)
  <2>1. /\ AtHand(s) /\ writer \in {NoScan, s} /\ ScanOK(s) /\ draft' = u /\ writer' = s
        /\ table' = table /\ todo' = [todo EXCEPT ![s] = @ \ {o}]
    BY <1>5 DEF WriteCase, Done, ReconIndInv
  <2>2. o \in todo[s] /\ o \in Recoverable /\ o \in Stopped
    BY <2>1 DEF ScanOK, AtHand, Recoverable
  <2>3. View(s) = draft
    BY <1>0, <2>1 DEF View
  <2>4. /\ \A p \in Stopped : p # o => u.cases[p] = draft.cases[p]
        /\ Len(u.cases[o]) <= Len(draft.cases[o]) + 1
    <3>1. /\ seen[s][o] \in Sights(o)
          /\ hand[s].loaded # Nothing => hand[s].loaded \in GoodCases(o) /\ draft.cases[o] # <<>>
      BY <1>0, <2>1, <2>2, <2>3, SightsAreStates DEF ScanOK, AtHand
    <3> HIDE DEF o
    <3>2. QED
      BY <1>0, <2>2, <2>3, <3>1, WriteAddsOne
  <2>5. draft.cases[o] = table.cases[o] \/ Len(draft.cases[o]) = Len(table.cases[o])
    BY <1>0, <2>1, <2>2 DEF DraftAddsOne
  <2>6. Len(draft'.cases[o]) <= Len(table'.cases[o]) + 1
    BY <1>1, <2>1, <2>2, <2>4, <2>5
  <2> HIDE DEF u
  <2>7. ASSUME NEW p \in Stopped, p # o
        PROVE  /\ Len(draft'.cases[p]) <= Len(table'.cases[p]) + 1
               /\ Len(draft'.cases[p]) # Len(table'.cases[p]) => p \in Recoverable \ todo[s]
    <3>1. draft'.cases[p] = draft.cases[p] /\ table'.cases[p] = table.cases[p]
      BY <2>1, <2>4, <2>7
    <3>2. QED
      BY <1>0, <2>1, <3>1 DEF DraftAddsOne
  <2>8. todo'[s] = todo[s] \ {o}
    BY <1>0, <2>1
  <2> HIDE DEF o
  <2>9. QED
    BY <1>0, <1>2, <2>1, <2>2, <2>6, <2>7, <2>8 DEF DraftAddsOne
<1>6. ASSUME NEW s \in Scans, CommitScan(s)
      PROVE  DraftAddsOne'
  <2>1. /\ draft' = draft /\ todo' = todo
        /\ writer = s => table' = draft /\ writer' = NoScan
        /\ writer # s => table' = table /\ writer' = writer
    BY <1>6 DEF CommitScan, View, Release
  <2>2. CASE writer = s
    BY <1>1, <2>1, <2>2 DEF DraftAddsOne
  <2>3. CASE writer # s
    BY <1>3, <2>1, <2>3
  <2>4. QED
    BY <2>2, <2>3
<1>7. ASSUME NEW s \in Scans, ScanLost(s)
      PROVE  DraftAddsOne'
  <2>1. /\ table' = table /\ todo' = [todo EXCEPT ![s] = {}]
        /\ writer = s => draft' = table
        /\ writer # s => draft' = draft /\ writer' = writer
    BY <1>7 DEF ScanLost, Release
  <2>2. CASE writer = s
    BY <1>1, <2>1, <2>2 DEF DraftAddsOne
  <2>3. CASE writer # s
    BY <1>0, <1>3, <2>1, <2>3
  <2>4. QED
    BY <2>2, <2>3
<1>8. CASE ReadCase \/ ReadEntities \/ UNCHANGED reconVars
  BY <1>3, <1>8 DEF ReadCase, ReadEntities, reconVars
<1>9. QED
  BY <1>4, <1>5, <1>6, <1>7, <1>8 DEF ReconNext, ScanStep

(* What a transaction has open cases of, it has looked at, and no more     *)
(* than one for each.                                                      *)
THEOREM DraftIsAhead == ReconSpec => []DraftAddsOne
<1>1. ReconInit => DraftAddsOne
  <2>1. SUFFICES ASSUME ReconInit PROVE DraftAddsOne
    OBVIOUS
  <2>2. draft = table /\ \A o \in Stopped : table.cases[o] = <<>>
    BY <2>1 DEF ReconInit
  <2>3. QED
    BY <2>2 DEF DraftAddsOne
<1>2. ReconIndInv /\ DraftAddsOne /\ [ReconNext]_reconVars => DraftAddsOne'
  BY DraftStep, StoppedOK
<1>3. QED
  BY <1>1, <1>2, ReconInductive, PTL DEF ReconSpec
-----------------------------------------------------------------------------
(* Every step of a scan, seen from outside, is one CaseBook allows.        *)

LEMMA BookInit == ReconInit => Book!Init
<1>1. SUFFICES ASSUME ReconInit PROVE Book!Init
  OBVIOUS
<1>2. \A s \in Scans : Outcome(s) = "idle" /\ Report(s) = {}
  BY <1>1 DEF ReconInit, Outcome, Report, Running
<1>3. \A o \in Stopped : Len(table.cases[o]) = 0
  BY <1>1 DEF ReconInit
<1>4. QED
  BY <1>2, <1>3 DEF Book!Init, Candidates

(* What others do to a scan's report: nothing, as long as the same         *)
(* operations want recovery.                                               *)
LEMMA OthersReport ==
  ASSUME NEW t \in Scans, scan'[t] = scan[t], seen'[t] = seen[t], Candidates' = Candidates
  PROVE  Outcome(t)' = Outcome(t) /\ Report(t)' = Report(t)
BY DEF Outcome, Report, Running

LEMMA BookStep ==
  ASSUME StoppedOK, ReconIndInv, ReconIndInv', DraftAddsOne, [ReconNext]_reconVars
  PROVE  [Book!Next]_(Book!bookVars)
<1> USE DEF Book!bookVars
<1> DEFINE count(t) == [o \in Stopped |-> Len(t.cases[o])]
<1>0. /\ scan \in [Scans -> {"idle", "listing", "scanning", "done", "failed"}]
      /\ seen \in [Scans -> [Stopped -> OperationState \cup {NotSeen}]]
  BY DEF ReconIndInv, ReconTypeOK
<1>1. Candidates = Recoverable /\ Candidates' = Candidates /\ Recoverable \subseteq Stopped
  <2>1. UNCHANGED leftVars
    BY DEF ReconNext, ScanStep, StartScan, ListCandidates, LookUpCase, KeepCase, WriteCase, Done,
           CommitScan, ScanLost, ReadCase, ReadEntities, reconVars
  <2>2. Candidates = Recoverable /\ Recoverable' = Recoverable
    BY <2>1, CandidatesAreRecoverable, LeftFrame DEF ReconIndInv
  <2>3. (LeftOK /\ TableOK(table) => Candidates = Recoverable)'
    BY DEF TableOK, Candidates, Recoverable, Sights, NonRecoverable
  <2>4. QED
    BY <2>2, <2>3 DEF ReconIndInv, Recoverable
<1>2. ASSUME NEW s \in Scans, StartScan(s)
      PROVE  Book!Begin(s)
  <2>1. Outcome(s) # "running" /\ Outcome(s)' = "running" /\ Report(s)' = Candidates
    BY <1>0, <1>1, <1>2 DEF StartScan, Outcome, Report, Running
  <2>2. \A t \in Scans \ {s} : Outcome(t)' = Outcome(t) /\ Report(t)' = Report(t)
    BY <1>0, <1>1, <1>2, OthersReport DEF StartScan
  <2>3. table' = table
    BY <1>2 DEF StartScan
  <2>4. QED
    BY <1>1, <2>1, <2>2, <2>3 DEF Book!Begin, Book!Running
<1>3. ASSUME NEW s \in Scans, ListCandidates(s) \/ LookUpCase(s) \/ KeepCase(s) \/ WriteCase(s)
      PROVE  UNCHANGED Book!bookVars
  <2>1. Outcome(s)' = Outcome(s) /\ Report(s)' = Report(s)
    <3>1. CASE ListCandidates(s)
      <4>1. Outcome(s)' = Outcome(s) /\ Report(s) = Candidates /\ scan'[s] = "scanning"
        BY <1>0, <3>1 DEF ListCandidates, Outcome, Report, Running
      <4>2. \A o \in Stopped : seen'[s][o] # NotSeen <=> o \in Recoverable
        BY <3>1, <4>1 DEF ReconIndInv, ScanOK, Recoverable, leftVars, ListCandidates
      <4>3. QED
        BY <1>1, <4>1, <4>2 DEF Report
    <3>2. CASE LookUpCase(s) \/ KeepCase(s) \/ WriteCase(s)
      BY <1>1, <3>2, OthersReport DEF LookUpCase, KeepCase, WriteCase, Done
    <3>3. QED
      BY <1>3, <3>1, <3>2
  <2>2. \A t \in Scans \ {s} : Outcome(t)' = Outcome(t) /\ Report(t)' = Report(t)
    BY <1>0, <1>1, <1>3, OthersReport DEF ListCandidates, LookUpCase, KeepCase, WriteCase, Done
  <2>3. table' = table
    BY <1>3 DEF ListCandidates, LookUpCase, KeepCase, WriteCase, Done
  <2>4. QED
    BY <1>1, <2>1, <2>2, <2>3
<1>4. ASSUME NEW s \in Scans, CommitScan(s)
      PROVE  Book!Succeed(s)
  <2>1. /\ scan[s] = "scanning" /\ scan'[s] = "done" /\ todo[s] = {} /\ seen' = seen
        /\ table' = View(s) /\ \A t \in Scans \ {s} : scan'[t] = scan[t]
    BY <1>0, <1>4 DEF CommitScan
  <2>2. /\ Outcome(s) = "running" /\ Outcome(s)' = "done"
        /\ Report(s) = Recoverable /\ Report(s)' = Report(s)
    BY <1>1, <2>1 DEF Outcome, Report, Running, ReconIndInv, ScanOK
  <2>3. \A t \in Scans \ {s} : Outcome(t)' = Outcome(t) /\ Report(t)' = Report(t)
    BY <1>1, <2>1, OthersReport
  <2>4. \A o \in Stopped : /\ Len(table.cases[o]) \in Nat /\ Len(draft.cases[o]) \in Nat
                          /\ Len(table.cases[o]) <= Len(draft.cases[o])
    BY DEF ReconIndInv, TableOK, Extends
  <2> DEFINE opened == {o \in Recoverable : Len(table'.cases[o]) # Len(table.cases[o])}
  <2>5. \A o \in Stopped : Len(table'.cases[o]) = Len(table.cases[o]) + IF o \in opened THEN 1 ELSE 0
    <3>1. ASSUME NEW o \in Stopped, writer = s
          PROVE  Len(table'.cases[o]) = Len(table.cases[o]) + IF o \in opened THEN 1 ELSE 0
      <4>1. /\ table' = draft
            /\ Len(draft.cases[o]) <= Len(table.cases[o]) + 1
            /\ Len(draft.cases[o]) # Len(table.cases[o]) => o \in Recoverable
        BY <2>1, <3>1 DEF View, DraftAddsOne
      <4>2. Len(table.cases[o]) \in Nat /\ Len(draft.cases[o]) \in Nat
            /\ Len(table.cases[o]) <= Len(draft.cases[o])
        BY <2>4
      <4> DEFINE old == Len(table.cases[o])
                 new == Len(table'.cases[o])
      <4>3. old \in Nat /\ new \in Nat /\ old <= new /\ new <= old + 1
            /\ (new # old => o \in Recoverable)
        BY <4>1, <4>2
      <4>4. o \in opened <=> o \in Recoverable /\ new # old
        OBVIOUS
      <4> HIDE DEF old, new, opened
      <4>5. new = old + IF o \in opened THEN 1 ELSE 0
        BY <4>3, <4>4
      <4>6. QED
        BY <4>5 DEF old, new
    <3>2. CASE writer # s
      BY <2>1, <2>4, <3>2 DEF View
    <3>3. QED
      BY <3>1, <3>2
  <2>6. \A o \in Recoverable : Len(table'.cases[o]) > 0
    <3>1. \A o \in Recoverable : table'.cases[o] # <<>>
      BY <2>1 DEF ReconIndInv, ScanOK, Settled
    <3>2. \A o \in Stopped : table'.cases[o] \in Seq(CaseRows')
      BY DEF ReconIndInv, TableOK
    <3>3. QED
      BY <1>1, <3>1, <3>2
  <2>7. opened \in SUBSET Report(s)
    BY <2>2
  <2> HIDE DEF opened
  <2>8. count(table)' = [o \in Stopped |-> count(table)[o] + IF o \in opened THEN 1 ELSE 0]
    BY <2>5
  <2>9. \A o \in Report(s) : count(table)'[o] > 0
    BY <1>1, <2>2, <2>6
  <2>10. QED
    BY <1>1, <2>2, <2>3, <2>7, <2>8, <2>9 DEF Book!Succeed, Book!Running
<1>5. ASSUME NEW s \in Scans, ScanLost(s)
      PROVE  Book!Fail({s}) /\ s \in Book!Running
  <2>1. Outcome(s) = "running" /\ Outcome(s)' = "failed" /\ Report(s)' = {}
    BY <1>0, <1>5 DEF ScanLost, Outcome, Report, Running
  <2>2. \A t \in Scans \ {s} : Outcome(t)' = Outcome(t) /\ Report(t)' = Report(t)
    BY <1>0, <1>1, <1>5, OthersReport DEF ScanLost
  <2>3. table' = table
    BY <1>5 DEF ScanLost
  <2>4. QED
    BY <1>1, <2>1, <2>2, <2>3 DEF Book!Fail, Book!Running
<1>6. CASE ReadCase \/ ReadEntities \/ UNCHANGED reconVars
  <2>1. UNCHANGED <<table, scan, seen>>
    BY <1>6 DEF ReadCase, ReadEntities, reconVars
  <2>2. \A t \in Scans : Outcome(t)' = Outcome(t) /\ Report(t)' = Report(t)
    BY <1>1, <2>1, OthersReport
  <2>3. QED
    BY <1>1, <2>1, <2>2
<1>7. ASSUME NEW s \in Scans, StartScan(s) \/ ScanStep(s)
      PROVE  [Book!Next]_(Book!bookVars)
  BY <1>2, <1>3, <1>4, <1>5, <1>7 DEF ScanStep, Book!Next
<1>8. QED
  BY <1>6, <1>7 DEF ReconNext

(* A scan looks at all that wants recovery, whatever state it was left in, *)
(* and leaves a case for each, or nothing at all, also when scans that     *)
(* overlap update the same cases.                                          *)
THEOREM ReconImplementsCaseBook == ReconSpec => ImplementsCaseBook
<1>1. ReconIndInv /\ ReconIndInv' /\ DraftAddsOne /\ [ReconNext]_reconVars
        => [Book!Next]_(Book!bookVars)
  BY BookStep, StoppedOK
<1>2. QED
  BY <1>1, BookInit, ReconInductive, DraftIsAhead, PTL DEF ReconSpec, ImplementsCaseBook, Book!Spec
=============================================================================
