------------------------------ MODULE ServiceMode ------------------------------
(***************************************************************************)
(* ServiceModeService (src/app/application/service_mode_service.py) next   *)
(* to the operations: its sessions live in the table refills write to, its *)
(* diagnostics command the drum and the locks the operations use.          *)
(*                                                                         *)
(* POST /service-mode/{start,finish} enter and exit.  The diagnostics are  *)
(* called on the application's service container.  They command the device *)
(* first and write one event afterwards, so nothing makes them wait for an *)
(* operation in progress.  The container has one database session for all  *)
(* of them; after a write that failed it refuses work until a rollback,    *)
(* and no diagnostic issues one.  Where it was the COMMIT that failed,     *)
(* SQLite's transaction may be open still, and with it the write lock      *)
(* taken, until the process ends.                                          *)
(***************************************************************************)
EXTENDS Operations, FiniteSets

CONSTANTS
  ServiceCalls,
  ServiceCommand   \* call |-> what it asks for

ServiceRequest ==
  [kind : {"enter", "exit", "drum_test", "device_test"},
   session : Sessions \cup {NoSession},
   position : Int]   \* where a drum test would move to

ASSUME ServiceOK ==
  /\ ServiceCommand \in [ServiceCalls -> ServiceRequest]
  /\ \A c \in ServiceCalls :
       ServiceCommand[c].kind = "exit" => ServiceCommand[c].session \in Sessions

VARIABLES
  stage,      \* where each call is, then how it ended
  outcome,    \* what the device answered a diagnostic
  events,     \* committed event_logs rows: <<call, session>> or <<call, result>>
  container   \* the container's session, which a failed write leaves behind

serviceVars == <<stage, outcome, events, container>>
systemVars == <<vars, serviceVars>>

Pending == {"idle", "loaded", "acted"}

(* A call ends well, with an answer of its own (403, 404, ValueError), or  *)
(* with one of the exceptions of SQLAlchemy.                               *)
RootErrors == {"operational_error", "integrity_error"}
Over == {"done", "refused", "pending_rollback_error", "killed"} \cup RootErrors

(* "holding": invalid, too, and in a transaction that keeps the write lock. *)
ContainerStates == {"usable", "invalid", "holding"}

Asks(c, kind) == ServiceCommand[c].kind = kind
IsDiagnostic(c) == Asks(c, "drum_test") \/ Asks(c, "device_test")
Ends(c, answer) == stage' = [stage EXCEPT ![c] = answer]

NeedsServiceUser(c) == Asks(c, "enter") \/ Asks(c, "exit")

(* _require_service_user: the caller, who may be anybody, is neither an    *)
(* administrator nor an operator.                                          *)
RejectCaller(c) ==
  /\ stage[c] = "idle"
  /\ NeedsServiceUser(c)
  /\ Ends(c, "refused")
  /\ UNCHANGED <<vars, outcome, events, container>>

(* Wrong variant: a finished session is taken up again.                    *)
EnterFinishedSession(c) ==
  /\ stage[c] = "idle"
  /\ Asks(c, "enter")
  /\ writer = NoWriter
  /\ \E s \in Sessions :
       /\ session[s].status # "active"
       /\ session' = [session EXCEPT ![s] = [kind |-> "service", status |-> "active"]]
       /\ events' = events \cup {<<c, s>>}
  /\ Ends(c, "done")
  /\ UNCHANGED <<requestVars, writer, physicalVars, operation, history, balance, ledger,
                 outcome, container>>

(* Session row, event and audit row in one transaction.                    *)
EnterServiceMode(c) ==
  /\ stage[c] = "idle"
  /\ Asks(c, "enter")
  /\ writer = NoWriter
  /\ \E s \in Sessions :
       /\ session[s] = NoSessionRow
       /\ session' = [session EXCEPT ![s] = [kind |-> "service", status |-> "active"]]
       /\ events' = events \cup {<<c, s>>}
  /\ Ends(c, "done")
  /\ UNCHANGED <<requestVars, writer, physicalVars, operation, history, balance, ledger,
                 outcome, container>>

Target(c) == ServiceCommand[c].session

(* Wrong variant: a row that is not there is not noticed.                  *)
LoadSessionUnchecked(c) ==
  /\ stage[c] = "idle"
  /\ Asks(c, "exit")
  /\ Ends(c, "loaded")
  /\ UNCHANGED <<vars, outcome, events, container>>

(* get_by_id, without a lock.                                              *)
LoadSession(c) ==
  /\ stage[c] = "idle"
  /\ Asks(c, "exit")
  /\ Ends(c, IF session[Target(c)] = NoSessionRow THEN "refused" ELSE "loaded")
  /\ UNCHANGED <<vars, outcome, events, container>>

(* Whatever the session's type and status: it is completed (once more).    *)
ExitServiceMode(c) ==
  /\ stage[c] = "loaded"
  /\ writer = NoWriter
  /\ session' = [session EXCEPT ![Target(c)].status = "completed"]
  /\ events' = events \cup {<<c, Target(c)>>}
  /\ Ends(c, "done")
  /\ UNCHANGED <<requestVars, writer, physicalVars, operation, history, balance, ledger,
                 outcome, container>>

-----------------------------------------------------------------------------
(* _execute_diagnostic: the action, then the event.                        *)

(* The container serves one thread, as its session must.                   *)
ContainerIsFree == \A d \in ServiceCalls : stage[d] # "acted"

(* A ValueError of the adapter, which _execute_diagnostic does not catch:  *)
(* a negative position, or an unlock time of 0 or less.                    *)
RejectArgument(c) ==
  /\ stage[c] = "idle"
  /\ IsDiagnostic(c)
  /\ ContainerIsFree
  /\ Asks(c, "drum_test") => ServiceCommand[c].position < 0
  /\ Ends(c, "refused")
  /\ UNCHANGED <<vars, outcome, events, container>>

Command(c, result) ==
  /\ stage[c] = "idle"
  /\ IsDiagnostic(c)
  /\ ContainerIsFree
  /\ outcome' = [outcome EXCEPT ![c] = result]
  /\ Ends(c, "acted")
  /\ UNCHANGED <<requestVars, writer, tableVars, opened, errored, events, container>>

(* test_drum_positioning, with the ways a move can fail.                   *)
TestDrum(c) ==
  /\ Asks(c, "drum_test")
  /\ ServiceCommand[c].position >= 0
  /\ \/ /\ Command(c, "success")
        /\ drum' = ServiceCommand[c].position
        /\ UNCHANGED lateMove
     \/ /\ "move" \in Faults
        /\ Command(c, "failure")
        /\ MoveIsLost(ServiceCommand[c].position)

(* test_lock_open (the door of a slot, wherever the drum stands),          *)
(* get_lock_status, get_unlock_time, set_unlock_time, read_rfid,           *)
(* clear_rfid_buffer.                                                      *)
TestDevice(c) ==
  /\ Asks(c, "device_test")
  /\ \E result \in {"success", "failure"} : Command(c, result)
  /\ UNCHANGED <<drum, lateMove>>

(* event_logs.session_id is a foreign key, and the session of a diagnostic *)
(* is not looked up before.                                                *)
NamesRow(c) == Target(c) # NoSession => session[Target(c)] # NoSessionRow

RecordDiagnostic(c) ==
  /\ stage[c] = "acted"
  /\ writer = NoWriter
  /\ container = "usable"
  /\ NamesRow(c)
  /\ events' = events \cup {<<c, outcome[c]>>}
  /\ Ends(c, "done")
  /\ UNCHANGED <<vars, outcome, container>>

-----------------------------------------------------------------------------
(* Writes that fail.  The session of a request is closed with it, the      *)
(* container's stays as the failure leaves it.                             *)
RequestWrites(c) ==
  \/ stage[c] = "loaded"
  \/ stage[c] = "idle" /\ Asks(c, "enter")

ContainerWrites(c) == stage[c] = "acted" /\ container = "usable"

(* Wrong variant: only a wait for an operation ever ends.                  *)
ServiceWaitNeverExpires(c) ==
  /\ writer \in Requests
  /\ \/ RequestWrites(c) /\ UNCHANGED container
     \/ ContainerWrites(c) /\ container' = "invalid"
  /\ Ends(c, "operational_error")
  /\ UNCHANGED <<vars, outcome, events>>

(* Wrong variant: a lost event does not matter.                            *)
LostEventIgnored(c) ==
  /\ writer # NoWriter
  /\ \/ RequestWrites(c) /\ UNCHANGED container /\ Ends(c, "operational_error")
     \/ ContainerWrites(c) /\ container' = "invalid" /\ Ends(c, "done")
  /\ UNCHANGED <<vars, outcome, events>>

(* busy_timeout runs out at the first flush.                               *)
ServiceWaitExpires(c) ==
  /\ writer # NoWriter
  /\ \/ RequestWrites(c) /\ UNCHANGED container
     \/ ContainerWrites(c) /\ container' = "invalid"
  /\ Ends(c, "operational_error")
  /\ UNCHANGED <<vars, outcome, events>>

EventNamesNoRow(c) ==
  /\ ContainerWrites(c)
  /\ writer = NoWriter
  /\ ~ NamesRow(c)
  /\ container' = "invalid"
  /\ Ends(c, "integrity_error")
  /\ UNCHANGED <<vars, outcome, events>>

(* The COMMIT of a request's session is undone with it.  Nobody undoes the *)
(* container's: SQLite may (disk full), or go on holding the lock (busy),  *)
(* like any writer the operations do not know.                             *)
ServiceCommitFails(c) ==
  /\ "commit" \in Faults
  /\ writer = NoWriter
  /\ \/ RequestWrites(c) /\ UNCHANGED <<vars, container>>
     \/ /\ ContainerWrites(c) /\ NamesRow(c)
        /\ \/ container' = "invalid" /\ UNCHANGED vars
           \/ container' = "holding" /\ OutsideBegins
  /\ Ends(c, "operational_error")
  /\ UNCHANGED <<outcome, events>>

(* A session that was not rolled back after an error does nothing.         *)
ContainerRefuses(c) ==
  /\ stage[c] = "acted"
  /\ container # "usable"
  /\ Ends(c, "pending_rollback_error")
  /\ UNCHANGED <<vars, outcome, events, container>>

ServiceStep(c) ==
  \/ RejectCaller(c) \/ EnterServiceMode(c) \/ LoadSession(c) \/ ExitServiceMode(c)
  \/ RejectArgument(c) \/ TestDrum(c) \/ TestDevice(c)
  \/ RecordDiagnostic(c)
  \/ ServiceWaitExpires(c) \/ EventNamesNoRow(c) \/ ServiceCommitFails(c)
  \/ ContainerRefuses(c)

(* Calls in progress die with the process.                                 *)
CrashService ==
  /\ Crash
  /\ stage' = [c \in ServiceCalls |->
                 IF stage[c] \in {"loaded", "acted"} THEN "killed" ELSE stage[c]]
  /\ container = "holding" => writer' = NoWriter
  /\ container' = "usable"
  /\ UNCHANGED <<outcome, events>>

ServeOperations ==
  /\ \/ \E r \in Requests : Serve(r)
     \/ OutsideBegins \/ DrumMovesLate
     \/ container # "holding" /\ OutsideEnds
  /\ UNCHANGED serviceVars

ServiceInit ==
  /\ Init
  /\ stage = [c \in ServiceCalls |-> "idle"]
  /\ outcome = [c \in ServiceCalls |-> "none"]
  /\ events = {}
  /\ container = "usable"

ServiceNext ==
  \/ \E c \in ServiceCalls : ServiceStep(c)
  \/ ServeOperations
  \/ CrashService

ServiceSpec == ServiceInit /\ [][ServiceNext]_systemVars

(* A call's thread is scheduled, its device command ends by the endpoint's *)
(* timeout and its wait for the lock by busy_timeout.  Nothing is assumed  *)
(* of the operations: one may hold the lock for ever.                      *)
FairServiceSpec ==
  ServiceSpec /\ \A c \in ServiceCalls : WF_systemVars(ServiceStep(c))

-----------------------------------------------------------------------------
Entered(s) == {c \in ServiceCalls : Asks(c, "enter") /\ <<c, s>> \in events}
Exited(s)  == {c \in ServiceCalls : Asks(c, "exit") /\ <<c, s>> \in events}
RefilledIn(s) == {r \in Requests : operation[r] = "session_completed" /\ sid[r] = s}

(* Every call keeps to its path: only commands that went out have an       *)
(* answer, only calls that ended well have an event, and the lock that the *)
(* container keeps is taken.                                               *)
ServiceTypeOK ==
  /\ stage \in [ServiceCalls -> Pending \cup Over]
  /\ outcome \in [ServiceCalls -> {"none", "success", "failure"}]
  /\ container \in ContainerStates
  /\ container = "holding" => writer = Outside
  /\ \A e \in events : e[1] \in ServiceCalls /\ stage[e[1]] = "done"
  /\ \A c \in ServiceCalls : stage[c] = "acted" => outcome[c] # "none"
  /\ \A c \in ServiceCalls : stage[c] = "loaded" => session[Target(c)] # NoSessionRow

(* event_logs and operations explain operation_sessions: every service     *)
(* session was entered, once; whatever is completed was exited or refilled *)
(* in, and nothing that was is still active, although exits and refills    *)
(* work from rows they read before they waited for the lock.               *)
EventsExplainSessions ==
  \A s \in Sessions :
    /\ Cardinality(Entered(s)) <= 1
    /\ InitialSession[s] = NoSessionRow =>
         (session[s].kind = "service" <=> Entered(s) # {})
    /\ session[s].status = "completed" =>
         InitialSession[s].status = "completed" \/ Exited(s) # {} \/ RefilledIn(s) # {}
    /\ session[s].status = "active" => Exited(s) = {} /\ RefilledIn(s) = {}

(* What became of the trace of each command that went out: a diagnostic    *)
(* that ends well has left the device's own answer, in an event whose      *)
(* session is there; one that could not be recorded says so to its caller; *)
(* and where the container's session was to blame, another diagnostic has  *)
(* failed in it before, never a request, nor the operation it waited for.  *)
TracesAreAccountedFor ==
  \A c \in ServiceCalls : IsDiagnostic(c) =>
    /\ stage[c] = "done" => <<c, outcome[c]>> \in events /\ NamesRow(c)
    /\ stage[c] = "pending_rollback_error" =>
         \E d \in ServiceCalls : IsDiagnostic(d) /\ stage[d] \in RootErrors

(* Where drum tests have sent the drum, or may have.                       *)
TestPositions ==
  {ServiceCommand[c].position : c \in {d \in ServiceCalls : Asks(d, "drum_test") /\ outcome[d] # "none"}}

(* Diagnostics move the drum without the lock, so between the move and the *)
(* unlock of an operation, too.  They are, with lost moves, all that can   *)
(* make a pulse miss its slot.                                             *)
PulsesAreExplained ==
  "off_target" \notin Faults =>
    \A r \in Requests : opened[r] # NoPosition =>
      opened[r] \in {Position[slot[r]]} \cup StrayPositions \cup TestPositions

(* No row, no trace: what is not in operation_sessions was not there at    *)
(* the start, and no call and no refill ever used its id.                  *)
NoTraceWithoutRow ==
  \A s \in Sessions : session[s] = NoSessionRow =>
    InitialSession[s] = NoSessionRow /\ Entered(s) = {} /\ Exited(s) = {} /\ RefilledIn(s) = {}

(* A call waits for the lock with what its kind of work has left to write. *)
StageFitsKind ==
  \A c \in ServiceCalls :
    /\ stage[c] = "loaded" => Asks(c, "exit")
    /\ stage[c] = "acted" => IsDiagnostic(c)
    /\ outcome[c] # "none" => IsDiagnostic(c)

(* The container's session was left by a diagnostic.                       *)
ContainerWasLeft ==
  container # "usable" =>
    \E d \in ServiceCalls : IsDiagnostic(d) /\ stage[d] \in RootErrors

(* The invariant the theorems of ServiceModeProofs rest on.                *)
ServiceIndInv ==
  /\ ServiceTypeOK
  /\ StageFitsKind
  /\ NoTraceWithoutRow
  /\ EventsExplainSessions
  /\ ContainerWasLeft
  /\ TracesAreAccountedFor

(* A session that has ended never becomes active again, also when a refill *)
(* that activates it in its own transaction fails or is killed.            *)
EndedSessionsStayEnded ==
  [][\A s \in Sessions : session[s].status = "completed" => session'[s].status = "completed"]_systemVars

(* Every call comes to an end, however long an operation holds the lock,   *)
(* and whatever failed in the container's session before.                  *)
ServiceCallsEnd ==
  \A c \in ServiceCalls : (stage[c] \in Pending) ~> (stage[c] \notin Pending)

(* The steps a call has left, and that nobody adds to them.                *)
CallStepsLeft(c) ==
  IF stage[c] = "idle" THEN 2
  ELSE IF stage[c] \in {"loaded", "acted"} THEN 1
  ELSE 0

CallsComeNearer ==
  [][\A c \in ServiceCalls : /\ CallStepsLeft(c)' <= CallStepsLeft(c)
                             /\ ServiceStep(c) => CallStepsLeft(c)' < CallStepsLeft(c)]_systemVars

(* The guard of some step of ServiceStep(c) holds.                         *)
CallCanGoOn(c) ==
  \/ stage[c] = "idle" /\ Asks(c, "exit")
  \/ /\ stage[c] = "idle" /\ Asks(c, "enter")
     /\ writer = NoWriter /\ "commit" \notin Faults =>
          \E s \in Sessions : session[s] = NoSessionRow
  \/ stage[c] = "idle" /\ IsDiagnostic(c) /\ ContainerIsFree
  \/ stage[c] = "loaded" /\ Asks(c, "exit")
  \/ stage[c] = "acted" /\ IsDiagnostic(c)

(* Whoever holds the write lock, and however the container's session was   *)
(* left: a call that has not ended can take a step, or waits for the       *)
(* container, for one other call, which can.                               *)
NoCallIsStuck ==
  (\E s \in Sessions : session[s] = NoSessionRow) =>
    \A c \in ServiceCalls : stage[c] \in Pending =>
      \/ CallCanGoOn(c)
      \/ \E d \in ServiceCalls : stage[d] = "acted" /\ CallCanGoOn(d)

(* Service mode leaves the stock to the operations.                        *)
ServiceKeepsInventory == ImplementsInventoryLedger
=============================================================================
