----------------------------- MODULE HistoryProofs -----------------------------
(***************************************************************************)
(* The history Operations commits is a path of the state machine, for any  *)
(* requests, catalogue, stock and faults.  Each stretch execute() walks    *)
(* between two calls out of the process is a run of consecutive states of  *)
(* its OperationSequence and starts where the one before it stopped, so    *)
(* the trail a request has flushed is at every moment a path from created  *)
(* to the state the request is in.                                         *)
(***************************************************************************)
EXTENDS OperationsProofs

(* A trail that leads an operation of a type from created to a state.      *)
LeadsTo(type, path, st) ==
  /\ path \in Seq(OperationState)
  /\ Len(path) > 1
  /\ path[1] = "created"
  /\ path[Len(path)] = st
  /\ IsTransitionPath(type, path)

(* Path is states first .. first + Len(path) - 1 of the type's sequence.   *)
IsStretch(type, path, first) ==
  /\ path \in Seq(OperationState) /\ Len(path) > 0
  /\ first \in Nat /\ first > 0
  /\ first + Len(path) - 1 <= Len(OperationSequence[type])
  /\ \A i \in 1 .. Len(path) : path[i] = OperationSequence[type][first + i - 1]

TrailInv ==
  \A r \in Requests :
    /\ phase[r] \in {"arrived", "validated"} => trail[r] = <<>>
    /\ phase[r] = "executing" => LeadsTo(request[r].type, trail[r], state[r])

-----------------------------------------------------------------------------
(* Only the last state of an orchestrated sequence is terminal.            *)
LEMMA TerminalIsLast ==
  ASSUME NEW type \in OrchestratedTypes,
         NEW j \in 1 .. Len(OperationSequence[type]) - 1
  PROVE  OperationSequence[type][j] \notin TerminalStates[type]
<1>1. CASE type = "dispense"
  <2>1. Len(OperationSequence["dispense"]) = 17
    BY DEF OperationSequence
  <2>2. j \in 1 .. 16
    BY <1>1, <2>1
  <2> QED BY <1>1, <2>2 DEF OperationSequence, TerminalStates
<1>2. CASE type = "return"
  <2>1. Len(OperationSequence["return"]) = 19
    BY DEF OperationSequence
  <2>2. j \in 1 .. 18
    BY <1>2, <2>1
  <2> QED BY <1>2, <2>2 DEF OperationSequence, TerminalStates
<1>3. CASE type = "refill_item"
  <2>1. Len(OperationSequence["refill_item"]) = 18
    BY DEF OperationSequence
  <2>2. j \in 1 .. 17
    BY <1>3, <2>1
  <2> QED BY <1>3, <2>2 DEF OperationSequence, TerminalStates
<1> QED BY <1>1, <1>2, <1>3 DEF OrchestratedTypes

(* Each state of a sequence may be followed by the next.                   *)
LEMMA NextIsAllowed ==
  ASSUME NEW type \in OrchestratedTypes,
         NEW j \in 1 .. Len(OperationSequence[type]) - 1
  PROVE  CanTransition(type, OperationSequence[type][j], OperationSequence[type][j + 1])
<1>1. OperationSequence[type][j] \notin TerminalStates[type]
  BY TerminalIsLast
<1>2. OperationSequence[type][j + 1] \in Successors(type, OperationSequence[type][j])
  BY DEF Successors
<1> QED BY <1>1, <1>2 DEF CanTransition, AllowedTargets

(* So a stretch of the sequence is a path.                                 *)
LEMMA StretchIsPath ==
  ASSUME NEW type \in OrchestratedTypes, NEW path, NEW first, IsStretch(type, path, first)
  PROVE  IsTransitionPath(type, path)
<1> SUFFICES ASSUME NEW i \in 1 .. Len(path) - 1
             PROVE  CanTransition(type, path[i], path[i + 1])
  BY DEF IsTransitionPath
<1> DEFINE j == first + i - 1
<1>0. Len(path) \in Nat /\ Len(OperationSequence[type]) \in Nat
  <2>1. OperationSequence["dispense"] \in Seq(OperationState)
    BY DEF OperationSequence, OperationState
  <2>2. OperationSequence["return"] \in Seq(OperationState)
    BY DEF OperationSequence, OperationState
  <2>3. OperationSequence["refill_item"] \in Seq(OperationState)
    BY DEF OperationSequence, OperationState
  <2> QED BY <2>1, <2>2, <2>3, LenProperties DEF IsStretch, OrchestratedTypes
<1>1. j \in 1 .. Len(OperationSequence[type]) - 1
  BY <1>0 DEF IsStretch
<1>2. path[i] = OperationSequence[type][j]
  BY <1>0 DEF IsStretch
<1>3. path[i + 1] = OperationSequence[type][j + 1]
  <2>1. i + 1 \in 1 .. Len(path) /\ first + (i + 1) - 1 = j + 1
    BY <1>0 DEF IsStretch
  <2> QED BY <2>1 DEF IsStretch
<1> QED BY <1>1, <1>2, <1>3, NextIsAllowed

(* A path goes on with another one where its last state allows it.         *)
LEMMA Join ==
  ASSUME NEW type, NEW p, NEW s, LeadsTo(type, p, s),
         NEW q \in Seq(OperationState), Len(q) > 0,
         IsTransitionPath(type, q),
         CanTransition(type, s, q[1])
  PROVE  LeadsTo(type, p \o q, q[Len(q)])
<1>1. p \in Seq(OperationState) /\ Len(p) > 1 /\ p[Len(p)] = s
  BY DEF LeadsTo
<1>2. /\ p \o q \in Seq(OperationState)
      /\ Len(p \o q) = Len(p) + Len(q)
      /\ Len(p) \in Nat /\ Len(q) \in Nat
      /\ \A i \in 1 .. Len(p) + Len(q) :
           (p \o q)[i] = IF i <= Len(p) THEN p[i] ELSE q[i - Len(p)]
  BY <1>1, ConcatProperties, LenProperties
<1>3. (p \o q)[1] = "created" /\ (p \o q)[Len(p \o q)] = q[Len(q)]
  BY <1>1, <1>2 DEF LeadsTo
<1>4. ASSUME NEW i \in 1 .. Len(p \o q) - 1
      PROVE  CanTransition(type, (p \o q)[i], (p \o q)[i + 1])
  <2>0. i \in 1 .. Len(p) + Len(q) /\ i + 1 \in 1 .. Len(p) + Len(q)
    BY <1>2
  <2>1. CASE i < Len(p)
    <3>1. i \in 1 .. Len(p) - 1 /\ i + 1 <= Len(p) /\ i <= Len(p)
      BY <1>2, <2>1
    <3>2. (p \o q)[i] = p[i] /\ (p \o q)[i + 1] = p[i + 1]
      BY <1>2, <2>0, <3>1
    <3> QED BY <3>1, <3>2 DEF LeadsTo, IsTransitionPath
  <2>2. CASE i = Len(p)
    <3>1. (p \o q)[i] = s /\ (p \o q)[i + 1] = q[1]
      BY <1>1, <1>2, <2>0, <2>2
    <3> QED BY <3>1
  <2>3. CASE i > Len(p)
    <3>1. i - Len(p) \in 1 .. Len(q) - 1 /\ (i + 1) - Len(p) = (i - Len(p)) + 1
      BY <1>2, <2>0, <2>3
    <3>2. (p \o q)[i] = q[i - Len(p)] /\ (p \o q)[i + 1] = q[(i - Len(p)) + 1]
      BY <1>2, <2>0, <2>3, <3>1
    <3> QED BY <3>1, <3>2 DEF IsTransitionPath
  <2> QED BY <1>2, <2>1, <2>2, <2>3
<1> QED BY <1>1, <1>2, <1>3, <1>4 DEF LeadsTo, IsTransitionPath

-----------------------------------------------------------------------------
(* The lengths of the three sequences.                                     *)
LEMMA SequenceLengths ==
  /\ Len(OperationSequence["dispense"]) = 17
  /\ Len(OperationSequence["return"]) = 19
  /\ Len(OperationSequence["refill_item"]) = 18
BY DEF OperationSequence

(* The stretches of execute(): the first starts at created, each other one *)
(* with the successor of the state its predecessor stopped in.             *)
LEMMA BeforeMoveLeads ==
  ASSUME NEW type \in OrchestratedTypes
  PROVE  LeadsTo(type, BeforeMove[type], "positioning_requested")
<1>1. IsStretch("dispense", BeforeMove["dispense"], 1)
  <2>1. BeforeMove["dispense"] \in Seq(OperationState)
    BY PathTypes DEF OrchestratedTypes
  <2>2. Len(BeforeMove["dispense"]) = 6
    BY DEF BeforeMove, DispenseBeforeMove, OrchestratedTypes
  <2>3. \A i \in 1 .. 6 : BeforeMove["dispense"][i] = OperationSequence["dispense"][1 + i - 1]
    BY DEF BeforeMove, DispenseBeforeMove, OperationSequence, OrchestratedTypes
  <2> QED BY <2>1, <2>2, <2>3, SequenceLengths DEF IsStretch
<1>2. IsStretch("return", BeforeMove["return"], 1)
  <2>1. BeforeMove["return"] \in Seq(OperationState)
    BY PathTypes DEF OrchestratedTypes
  <2>2. Len(BeforeMove["return"]) = 8
    BY DEF BeforeMove, ReturnBeforeMove, OrchestratedTypes
  <2>3. \A i \in 1 .. 8 : BeforeMove["return"][i] = OperationSequence["return"][1 + i - 1]
    BY DEF BeforeMove, ReturnBeforeMove, OperationSequence, OrchestratedTypes
  <2> QED BY <2>1, <2>2, <2>3, SequenceLengths DEF IsStretch
<1>3. IsStretch("refill_item", BeforeMove["refill_item"], 1)
  <2>1. BeforeMove["refill_item"] \in Seq(OperationState)
    BY PathTypes DEF OrchestratedTypes
  <2>2. Len(BeforeMove["refill_item"]) = 7
    BY DEF BeforeMove, RefillBeforeMove, OrchestratedTypes
  <2>3. \A i \in 1 .. 7 : BeforeMove["refill_item"][i] = OperationSequence["refill_item"][1 + i - 1]
    BY DEF BeforeMove, RefillBeforeMove, OperationSequence, OrchestratedTypes
  <2> QED BY <2>1, <2>2, <2>3, SequenceLengths DEF IsStretch
<1>4. IsTransitionPath(type, BeforeMove[type])
  BY <1>1, <1>2, <1>3, StretchIsPath DEF OrchestratedTypes
<1>5. /\ Len(BeforeMove["dispense"]) > 1 /\ BeforeMove["dispense"][1] = "created"
      /\ Len(BeforeMove["return"]) > 1 /\ BeforeMove["return"][1] = "created"
      /\ Len(BeforeMove["refill_item"]) > 1 /\ BeforeMove["refill_item"][1] = "created"
  BY DEF BeforeMove, DispenseBeforeMove, ReturnBeforeMove, RefillBeforeMove
<1> QED BY <1>4, <1>5, PathEnds, PathTypes DEF LeadsTo, OrchestratedTypes

(* A stretch that starts at the successor of a state goes on from it.      *)
LEMMA StretchContinues ==
  ASSUME NEW type \in OrchestratedTypes, NEW path, NEW first \in Nat, first > 1,
         IsStretch(type, path, first)
  PROVE  /\ path \in Seq(OperationState) /\ Len(path) > 0
         /\ IsTransitionPath(type, path)
         /\ CanTransition(type, OperationSequence[type][first - 1], path[1])
<1>1. Len(path) \in Nat /\ Len(OperationSequence[type]) \in Nat
  BY SequenceLengths, LenProperties DEF IsStretch, OrchestratedTypes
<1>2. first - 1 \in 1 .. Len(OperationSequence[type]) - 1
  BY <1>1 DEF IsStretch
<1>3. path[1] = OperationSequence[type][(first - 1) + 1]
  BY <1>1 DEF IsStretch
<1> QED BY <1>2, <1>3, StretchIsPath, NextIsAllowed DEF IsStretch

LEMMA AfterMoveContinues ==
  ASSUME NEW type \in OrchestratedTypes
  PROVE  /\ AfterMove[type] \in Seq(OperationState) /\ Len(AfterMove[type]) > 0
         /\ IsTransitionPath(type, AfterMove[type])
         /\ CanTransition(type, "positioning_requested", AfterMove[type][1])
<1>1. IsStretch("dispense", AfterMove["dispense"], 7)
  <2>1. AfterMove["dispense"] \in Seq(OperationState)
    BY PathTypes DEF OrchestratedTypes
  <2>2. Len(AfterMove["dispense"]) = 4
    BY DEF AfterMove, PositioningSuccess, OrchestratedTypes
  <2>3. \A i \in 1 .. 4 : AfterMove["dispense"][i] = OperationSequence["dispense"][7 + i - 1]
    BY DEF AfterMove, PositioningSuccess, OperationSequence, OrchestratedTypes
  <2> QED BY <2>1, <2>2, <2>3, SequenceLengths DEF IsStretch
<1>2. IsStretch("return", AfterMove["return"], 9)
  <2>1. AfterMove["return"] \in Seq(OperationState)
    BY PathTypes DEF OrchestratedTypes
  <2>2. Len(AfterMove["return"]) = 4
    BY DEF AfterMove, PositioningSuccess, OrchestratedTypes
  <2>3. \A i \in 1 .. 4 : AfterMove["return"][i] = OperationSequence["return"][9 + i - 1]
    BY DEF AfterMove, PositioningSuccess, OperationSequence, OrchestratedTypes
  <2> QED BY <2>1, <2>2, <2>3, SequenceLengths DEF IsStretch
<1>3. IsStretch("refill_item", AfterMove["refill_item"], 8)
  <2>1. AfterMove["refill_item"] \in Seq(OperationState)
    BY PathTypes DEF OrchestratedTypes
  <2>2. Len(AfterMove["refill_item"]) = 6
    BY DEF AfterMove, PositioningSuccess, OrchestratedTypes
  <2>3. \A i \in 1 .. 6 : AfterMove["refill_item"][i] = OperationSequence["refill_item"][8 + i - 1]
    BY DEF AfterMove, PositioningSuccess, OperationSequence, OrchestratedTypes
  <2> QED BY <2>1, <2>2, <2>3, SequenceLengths DEF IsStretch
<1>4. /\ OperationSequence["dispense"][7 - 1] = "positioning_requested"
      /\ OperationSequence["return"][9 - 1] = "positioning_requested"
      /\ OperationSequence["refill_item"][8 - 1] = "positioning_requested"
  BY DEF OperationSequence
<1>5. CASE type = "dispense"
  BY <1>1, <1>4, <1>5, StretchContinues
<1>6. CASE type = "return"
  BY <1>2, <1>4, <1>6, StretchContinues
<1>7. CASE type = "refill_item"
  BY <1>3, <1>4, <1>7, StretchContinues
<1> QED BY <1>5, <1>6, <1>7 DEF OrchestratedTypes

LEMMA AfterUnlockContinues ==
  ASSUME NEW type \in {"dispense", "return"}
  PROVE  /\ AfterUnlock \in Seq(OperationState) /\ Len(AfterUnlock) > 0
         /\ IsTransitionPath(type, AfterUnlock)
         /\ CanTransition(type, "unlock_requested", AfterUnlock[1])
<1>0. type \in OrchestratedTypes
  BY DEF OrchestratedTypes
<1>1. IsStretch("dispense", AfterUnlock, 11)
  <2>1. AfterUnlock \in Seq(OperationState)
    BY PathTypes DEF OrchestratedTypes
  <2>2. Len(AfterUnlock) = 5
    BY DEF AfterUnlock, UnlockSuccess, OrchestratedTypes
  <2>3. \A i \in 1 .. 5 : AfterUnlock[i] = OperationSequence["dispense"][11 + i - 1]
    BY DEF AfterUnlock, UnlockSuccess, OperationSequence, OrchestratedTypes
  <2> QED BY <2>1, <2>2, <2>3, SequenceLengths DEF IsStretch
<1>2. IsStretch("return", AfterUnlock, 13)
  <2>1. AfterUnlock \in Seq(OperationState)
    BY PathTypes DEF OrchestratedTypes
  <2>2. Len(AfterUnlock) = 5
    BY DEF AfterUnlock, UnlockSuccess, OrchestratedTypes
  <2>3. \A i \in 1 .. 5 : AfterUnlock[i] = OperationSequence["return"][13 + i - 1]
    BY DEF AfterUnlock, UnlockSuccess, OperationSequence, OrchestratedTypes
  <2> QED BY <2>1, <2>2, <2>3, SequenceLengths DEF IsStretch
<1>3. /\ OperationSequence["dispense"][11 - 1] = "unlock_requested"
      /\ OperationSequence["return"][13 - 1] = "unlock_requested"
  BY DEF OperationSequence
<1>4. CASE type = "dispense"
  BY <1>0, <1>1, <1>3, <1>4, StretchContinues
<1>5. CASE type = "return"
  BY <1>0, <1>2, <1>3, <1>5, StretchContinues
<1> QED BY <1>4, <1>5

LEMMA AfterWriteContinues ==
  ASSUME NEW type \in OrchestratedTypes
  PROVE  /\ AfterWrite[type] \in Seq(OperationState) /\ Len(AfterWrite[type]) > 0
         /\ IsTransitionPath(type, AfterWrite[type])
         /\ CanTransition(type, IF type = "refill_item" THEN "balance_update_pending"
                                ELSE "inventory_write_pending", AfterWrite[type][1])
<1>1. IsStretch("dispense", AfterWrite["dispense"], 16)
  <2>1. AfterWrite["dispense"] \in Seq(OperationState)
    BY PathTypes DEF OrchestratedTypes
  <2>2. Len(AfterWrite["dispense"]) = 2
    BY DEF AfterWrite, OrchestratedTypes
  <2>3. \A i \in 1 .. 2 : AfterWrite["dispense"][i] = OperationSequence["dispense"][16 + i - 1]
    BY DEF AfterWrite, OperationSequence, OrchestratedTypes
  <2> QED BY <2>1, <2>2, <2>3, SequenceLengths DEF IsStretch
<1>2. IsStretch("return", AfterWrite["return"], 18)
  <2>1. AfterWrite["return"] \in Seq(OperationState)
    BY PathTypes DEF OrchestratedTypes
  <2>2. Len(AfterWrite["return"]) = 2
    BY DEF AfterWrite, OrchestratedTypes
  <2>3. \A i \in 1 .. 2 : AfterWrite["return"][i] = OperationSequence["return"][18 + i - 1]
    BY DEF AfterWrite, OperationSequence, OrchestratedTypes
  <2> QED BY <2>1, <2>2, <2>3, SequenceLengths DEF IsStretch
<1>3. IsStretch("refill_item", AfterWrite["refill_item"], 14)
  <2>1. AfterWrite["refill_item"] \in Seq(OperationState)
    BY PathTypes DEF OrchestratedTypes
  <2>2. Len(AfterWrite["refill_item"]) = 5
    BY DEF AfterWrite, OrchestratedTypes
  <2>3. \A i \in 1 .. 5 : AfterWrite["refill_item"][i] = OperationSequence["refill_item"][14 + i - 1]
    BY DEF AfterWrite, OperationSequence, OrchestratedTypes
  <2> QED BY <2>1, <2>2, <2>3, SequenceLengths DEF IsStretch
<1>4. /\ OperationSequence["dispense"][16 - 1] = "inventory_write_pending"
      /\ OperationSequence["return"][18 - 1] = "inventory_write_pending"
      /\ OperationSequence["refill_item"][14 - 1] = "balance_update_pending"
  BY DEF OperationSequence
<1>5. CASE type = "dispense"
  BY <1>1, <1>4, <1>5, StretchContinues
<1>6. CASE type = "return"
  BY <1>2, <1>4, <1>6, StretchContinues
<1>7. CASE type = "refill_item"
  BY <1>3, <1>4, <1>7, StretchContinues
<1> QED BY <1>5, <1>6, <1>7 DEF OrchestratedTypes

(* An error may end the path wherever a hardware call is under way.        *)
LEMMA ErrorContinues ==
  ASSUME NEW type \in OrchestratedTypes, NEW s \in {"positioning_requested", "unlock_requested"},
         NEW end \in CommonFallbacks
  PROVE  /\ <<end>> \in Seq(OperationState) /\ Len(<<end>>) > 0
         /\ IsTransitionPath(type, <<end>>)
         /\ CanTransition(type, s, <<end>>[1])
<1>1. s \notin TerminalStates[type]
  BY DEF TerminalStates, OrchestratedTypes
<1>2. CanTransition(type, s, end)
  BY <1>1 DEF CanTransition, AllowedTargets
<1>3. <<end>> \in Seq(OperationState)
  BY DEF CommonFallbacks, OperationState
<1>4. IsTransitionPath(type, <<end>>)
  BY DEF IsTransitionPath
<1> QED BY <1>2, <1>3, <1>4

-----------------------------------------------------------------------------
(* The steps of a request.                                                 *)

(* A walk of one request leaves it at the end of its path, and every other *)
(* trail and table alone.                                                  *)
LEMMA WalkContinues ==
  ASSUME IndInv, TrailInv, HistoryExplainsState,
         NEW r \in Requests, phase[r] = "executing",
         NEW path \in Seq(OperationState), Len(path) > 0,
         IsTransitionPath(request[r].type, path),
         CanTransition(request[r].type, state[r], path[1]),
         Walk(r, path),
         UNCHANGED <<request, phase, operation, history>>
  PROVE  TrailInv' /\ HistoryExplainsState'
<1>1. LeadsTo(request[r].type, trail[r] \o path, path[Len(path)])
  BY Join DEF TrailInv
<1>2. /\ trail'[r] = trail[r] \o path /\ state'[r] = path[Len(path)]
      /\ \A x \in Requests \ {r} : trail'[x] = trail[x] /\ state'[x] = state[x]
  BY DEF Walk, IndInv, TypeOK
<1>3. TrailInv'
  BY <1>1, <1>2 DEF TrailInv
<1>4. HistoryExplainsState'
  BY DEF HistoryExplainsState
<1> QED BY <1>3, <1>4

(* What leaves executing rows alone, or empties the trails it drops.       *)
LEMMA TrailFrame ==
  ASSUME IndInv, TrailInv, HistoryExplainsState,
         UNCHANGED <<request, operation, history>>,
         \A x \in Requests :
           \/ phase'[x] \notin {"arrived", "validated", "executing"}
           \/ phase'[x] = "validated" /\ phase[x] = "arrived" /\ trail'[x] = trail[x]
           \/ phase'[x] = phase[x] /\ trail'[x] = trail[x] /\ state'[x] = state[x]
  PROVE  TrailInv' /\ HistoryExplainsState'
BY DEF TrailInv, HistoryExplainsState

LEMMA WaitingTrail ==
  ASSUME IndInv, TrailInv, HistoryExplainsState, NEW r \in Requests,
         ValidateRequest(r) \/ RejectRequest(r) \/ LockWaitExpires(r)
  PROVE  TrailInv' /\ HistoryExplainsState'
<1>1. UNCHANGED <<request, operation, history, trail, state>>
  BY DEF ValidateRequest, RejectRequest, LockWaitExpires, tableVars
<1>2. \A x \in Requests :
        \/ phase'[x] \notin {"arrived", "validated", "executing"}
        \/ phase'[x] = "validated" /\ phase[x] = "arrived"
        \/ phase'[x] = phase[x]
  BY DEF ValidateRequest, RejectRequest, LockWaitExpires, IndInv, TypeOK
<1> QED BY <1>1, <1>2, TrailFrame

LEMMA CreateOperationTrail ==
  ASSUME IndInv, TrailInv, HistoryExplainsState, NEW r \in Requests, CreateOperation(r)
  PROVE  TrailInv' /\ HistoryExplainsState'
<1> DEFINE path == BeforeMove[request[r].type]
<1>1. request[r].type \in OrchestratedTypes
  BY DEF IndInv, TypeOK, Request
<1>2. LeadsTo(request[r].type, path, "positioning_requested")
  BY <1>1, BeforeMoveLeads
<1>3. path \in Seq(OperationState) /\ path[Len(path)] = "positioning_requested"
  BY <1>2 DEF LeadsTo
<1>4. trail[r] = <<>> /\ phase[r] = "validated"
  BY DEF CreateOperation, TrailInv
<1>5. Walk(r, path) /\ UNCHANGED <<request, operation, history>>
  BY DEF CreateOperation, tableVars
<1>6. /\ phase'[r] = "executing"
      /\ \A x \in Requests \ {r} : phase'[x] = phase[x]
  BY DEF CreateOperation, IndInv, TypeOK
<1> HIDE DEF path
<1>7. trail[r] \o path = path
  BY <1>3, <1>4
<1>8. /\ trail'[r] = path /\ state'[r] = "positioning_requested"
      /\ \A x \in Requests \ {r} : trail'[x] = trail[x] /\ state'[x] = state[x]
  BY <1>3, <1>5, <1>7 DEF Walk, IndInv, TypeOK
<1>9. TrailInv'
  BY <1>2, <1>5, <1>6, <1>8 DEF TrailInv
<1>10. HistoryExplainsState'
  BY <1>5 DEF HistoryExplainsState
<1> QED BY <1>9, <1>10

LEMMA HardwareTrail ==
  ASSUME IndInv, TrailInv, HistoryExplainsState, NEW r \in Requests,
         MoveDrum(r) \/ UnlockSlot(r)
  PROVE  TrailInv' /\ HistoryExplainsState'
<1>1. phase[r] = "executing" /\ UNCHANGED <<request, phase, operation, history>>
  BY DEF MoveDrum, UnlockSlot, At, tableVars
<1>2. request[r].type \in OrchestratedTypes
  BY DEF IndInv, TypeOK, Request
<1>3. CASE MoveDrum(r)
  <2>1. state[r] = "positioning_requested" /\ Walk(r, AfterMove[request[r].type])
    BY <1>3 DEF MoveDrum, At
  <2> QED BY <1>1, <1>2, <2>1, AfterMoveContinues, WalkContinues
<1>4. CASE UnlockSlot(r)
  <2>1. state[r] = "unlock_requested" /\ Walk(r, AfterUnlock)
    BY <1>4 DEF UnlockSlot, At
  <2>2. request[r].type \in {"dispense", "return"}
    BY <1>1, <1>2, <2>1 DEF IndInv, StateFitsType, OrchestratedTypes
  <2> QED BY <1>1, <2>1, <2>2, AfterUnlockContinues, WalkContinues
<1> QED BY <1>3, <1>4

LEMMA HardwareFailureTrail ==
  ASSUME IndInv, TrailInv, HistoryExplainsState, NEW r \in Requests,
         MoveFails(r) \/ UnlockFails(r)
  PROVE  TrailInv' /\ HistoryExplainsState'
<1>1. /\ phase[r] = "executing" /\ HandleHardwareError(r)
      /\ state[r] \in {"positioning_requested", "unlock_requested"}
  BY DEF MoveFails, UnlockFails, At
<1>2. request[r].type \in OrchestratedTypes
  BY DEF IndInv, TypeOK, Request
<1>3. CASE request[r].type = "refill_item"
  <2>1. Discard(r, "failed")
    BY <1>1, <1>3 DEF HandleHardwareError, LoseHardwareError
  <2>2. /\ phase'[r] = "failed" /\ UNCHANGED <<request, operation, history>>
        /\ \A x \in Requests \ {r} :
             phase'[x] = phase[x] /\ trail'[x] = trail[x] /\ state'[x] = state[x]
    BY <2>1 DEF Discard, tableVars, IndInv, TypeOK
  <2> QED BY <2>2, TrailFrame
<1>4. CASE request[r].type # "refill_item"
  <2>1. PICK end \in CommonFallbacks : Walk(r, <<end>>)
    BY <1>1, <1>4 DEF HandleHardwareError, FileHardwareError, CommonFallbacks
  <2>2. UNCHANGED <<request, phase, operation, history>>
    BY <1>1, <1>4 DEF HandleHardwareError, FileHardwareError, tableVars
  <2>3. /\ <<end>> \in Seq(OperationState) /\ Len(<<end>>) > 0
        /\ IsTransitionPath(request[r].type, <<end>>)
        /\ CanTransition(request[r].type, state[r], <<end>>[1])
    BY <1>1, <1>2, ErrorContinues
  <2> QED BY <1>1, <2>1, <2>2, <2>3, WalkContinues
<1> QED BY <1>3, <1>4

LEMMA ApplyInventoryTrail ==
  ASSUME IndInv, TrailInv, HistoryExplainsState, NEW r \in Requests, ApplyInventory(r)
  PROVE  TrailInv' /\ HistoryExplainsState'
<1>1. /\ phase[r] = "executing" /\ Walk(r, AfterWrite[request[r].type])
      /\ state[r] \in {"inventory_write_pending", "balance_update_pending"}
      /\ UNCHANGED <<request, phase, operation, history>>
  BY DEF ApplyInventory, AtInventory, At, tableVars
<1>2. request[r].type \in OrchestratedTypes
  BY DEF IndInv, TypeOK, Request
<1>3. state[r] = IF request[r].type = "refill_item" THEN "balance_update_pending"
                 ELSE "inventory_write_pending"
  BY <1>1 DEF IndInv, StateFitsType
<1> QED BY <1>1, <1>2, <1>3, AfterWriteContinues, WalkContinues

LEMMA RollbackTrail ==
  ASSUME IndInv, TrailInv, HistoryExplainsState, NEW r \in Requests,
         RefuseInventory(r) \/ CommitFails(r)
  PROVE  TrailInv' /\ HistoryExplainsState'
<1>1. PICK answer \in {"refused", "failed"} : Discard(r, answer)
  BY DEF RefuseInventory, CommitFails
<1>2. /\ phase'[r] = answer /\ UNCHANGED <<request, operation, history>>
      /\ \A x \in Requests \ {r} :
           phase'[x] = phase[x] /\ trail'[x] = trail[x] /\ state'[x] = state[x]
  BY <1>1 DEF Discard, tableVars, IndInv, TypeOK
<1> QED BY <1>2, TrailFrame

(* The commit puts the trail in the history.                               *)
LEMMA CommitTrail ==
  ASSUME IndInv, TrailInv, HistoryExplainsState, NEW r \in Requests, Commit(r)
  PROVE  TrailInv' /\ HistoryExplainsState'
<1>1. /\ phase[r] = "executing" /\ state[r] \in Final
      /\ UNCHANGED <<request, trail, state>>
      /\ phase'[r] = "ok" /\ operation'[r] = state[r] /\ history'[r] = trail[r]
      /\ \A x \in Requests \ {r} :
           phase'[x] = phase[x] /\ operation'[x] = operation[x] /\ history'[x] = history[x]
  BY DEF Commit, IndInv, TypeOK
<1>2. TrailInv'
  BY <1>1 DEF TrailInv
<1>3. LeadsTo(request[r].type, trail[r], state[r])
  BY <1>1 DEF TrailInv
<1>4. HistoryExplainsState'
  <2>1. ASSUME NEW x \in Requests, x # r
        PROVE  IF operation'[x] = NoRow
               THEN history'[x] = <<>>
               ELSE /\ Len(history'[x]) > 1
                    /\ history'[x][1] = "created"
                    /\ history'[x][Len(history'[x])] = operation'[x]
                    /\ IsTransitionPath(request'[x].type, history'[x])
    BY <1>1, <2>1 DEF HistoryExplainsState
  <2>2. /\ operation'[r] # NoRow
        /\ Len(history'[r]) > 1
        /\ history'[r][1] = "created"
        /\ history'[r][Len(history'[r])] = operation'[r]
        /\ IsTransitionPath(request'[r].type, history'[r])
    BY <1>1, <1>3 DEF LeadsTo, Final, Successful, NoRow
  <2> QED BY <2>1, <2>2 DEF HistoryExplainsState
<1> QED BY <1>2, <1>4

(* Sessions of others, the late movement, a crash and a stutter.           *)
LEMMA OtherTrail ==
  ASSUME IndInv, TrailInv, HistoryExplainsState,
         OutsideBegins \/ OutsideEnds \/ DrumMovesLate \/ Crash \/ UNCHANGED vars
  PROVE  TrailInv' /\ HistoryExplainsState'
<1>1. CASE OutsideBegins \/ OutsideEnds \/ DrumMovesLate \/ UNCHANGED vars
  <2>1. UNCHANGED <<request, phase, trail, state, operation, history>>
    BY <1>1 DEF OutsideBegins, OutsideEnds, DrumMovesLate, vars, requestVars, tableVars
  <2> QED BY <2>1, TrailFrame
<1>2. CASE Crash
  <2>1. /\ UNCHANGED <<request, operation, history>>
        /\ \A x \in Requests :
             \/ phase'[x] = "killed"
             \/ phase'[x] = phase[x] /\ trail'[x] = trail[x] /\ state'[x] = state[x]
    BY <1>2 DEF Crash, tableVars
  <2> QED BY <2>1, TrailFrame
<1> QED BY <1>1, <1>2

(* Every step keeps trails and histories.                                  *)
LEMMA NextTrail ==
  ASSUME IndInv, TrailInv, HistoryExplainsState, [Next]_vars
  PROVE  TrailInv' /\ HistoryExplainsState'
<1>1. CASE \E r \in Requests : Serve(r)
  <2> SUFFICES ASSUME NEW r \in Requests, Serve(r)
               PROVE  TrailInv' /\ HistoryExplainsState'
    BY <1>1
  <2> QED
    BY WaitingTrail, CreateOperationTrail, HardwareTrail, HardwareFailureTrail,
       ApplyInventoryTrail, RollbackTrail, CommitTrail DEF Serve
<1> QED BY <1>1, OtherTrail DEF Next

(* Each committed history is a path of the state machine from created to   *)
(* the state the operation is in, for any requests and faults; a rollback  *)
(* leaves none.                                                            *)
THEOREM HistoryExplained == Spec => []HistoryExplainsState
<1> DEFINE Inv == TrailInv /\ HistoryExplainsState
<1>1. Init => Inv
  BY DEF Init, TrailInv, HistoryExplainsState
<1>2. IndInv /\ Inv /\ [Next]_vars => Inv'
  BY NextTrail
<1>3. Inv => HistoryExplainsState
  OBVIOUS
<1> QED BY <1>1, <1>2, <1>3, Inductive, PTL DEF Spec
=============================================================================
