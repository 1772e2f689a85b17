# A verification of the dispensing machine's control software

The repository drives a vending-like machine for parts: a drum with slots, a
lock per slot, an RFID reader, an SQLite database and a small HTTP API. This
directory holds TLA+ models of it, the TLC configurations that check them on
small instances, and TLAPS proofs for every instance. Everything is translated
from `src/app`; `PROJECT.json` maps each definition to its lines.

* [1. The system](#1-the-system): components, state, interactions, hazards
* [2. The modules](#2-the-modules): what each one models, and how it corresponds to the code
* [3. The runs](#3-the-runs): what TLC checks, bounds, fairness
* [4. The proofs](#4-the-proofs): theorems, assumptions, invariants
* [5. Where code and documents disagree](#5-where-code-and-documents-disagree)
* [6. What is not modelled](#6-what-is-not-modelled)
* [7. Plan](#7-plan)

## 1. The system

### Components

| Component (under `src/app/`) | State it keeps | Operations |
|---|---|---|
| Operation services (`application/{dispense,return,refill}_service.py`) | none of their own; one SQLAlchemy session and one hardware bundle per request | `execute()`: validate, create the operation, move the drum, unlock (dispense, return), change the stock, commit; error handlers |
| State machine (`application/state_machine.py`) | constant tables | allowed targets, terminal states, transition paths |
| Operation recorder (`application/operation_recorder.py`) | `operations`, `operation_state_history` | `create_operation`, `transition`, `record_hardware_failure` |
| Inventory (`application/inventory_mutation.py`) | `inventory_balances`, `inventory_transactions` | `apply_dispense`, `apply_return`, `apply_refill` |
| Recovery scan (`application/recovery_service.py`) | `recovery_cases`, `recovery_case_entities`; marks operations | `scan_recovery_targets` |
| Reconciliation (`application/{reconciliation,manual_resolution}_service.py`) | none | what a scan concludes of an operation; what an operator is told |
| Readiness (`application/startup_service.py`) | none | `run_startup_checks`: database, hardware, recovery scan |
| Service mode (`application/service_mode_service.py`) | `operation_sessions`, `event_logs`, `audit_logs` | enter, exit, diagnostics of drum, lock, reader |
| Hardware (`hardware/`) | none between calls but the last UID a reader saw | adapters for drum, lock, RFID over serial or TCP; mocks and stubs; health check |
| Database sessions (`persistence/session.py`, `api/dependencies.py`) | SQLite's one write lock | flush, commit, rollback on close, `busy_timeout` |
| API and command line (`api/`, `cli.py`) | none | one thread, session and hardware bundle per call |
| Lookup, export, authorization, settings, migration | see section 6 | |

### How they interact

Endpoints are synchronous functions that FastAPI runs on a pool of threads, so
calls really overlap. They share two things: the database and the machine.

* Database. A session's reads take no lock. Its first `INSERT` takes SQLite's
  single write lock, which it holds to its commit or rollback. `execute()`
  flushes the operation right after validation and commits once, at its end:
  the write lock is held **over the drum movement and the unlock**. Nothing
  else keeps two operations apart; it is mutual exclusion as a side effect.
  Whoever waits longer than `busy_timeout` gets an `OperationalError`.
* Machine. Operations command it while they hold the lock. Readiness checks
  ping it and diagnostics move it without holding anything.

A crash or an exception nobody handles undoes the whole transaction. Of an
operation, only four states can ever be committed through the API:
`completed`, `session_completed`, `failed` and `recovery_required`.

### What is hard

Values read before the lock and used after it (the balance, the open case, the
session row, the candidates of a scan); a request that dies or fails between a physical act and its
record; timeouts after which a device may still act or answer; replies that do
not say what they answer; scans that run next to what they scan; one failing
candidate in a scan of many. `PROJECT.json` lists these hazards, each at its
line and with the properties that cover it.

### What makes each component correct

* Operations: one at a time at the machine; a lock pulse faces the slot of its
  request, or there is a lost move or a drum test to blame; stock is moved exactly once by a success and never by a failure;
  what a client is told of doors and errors is what the tables say, or there is
  a named reason why they say nothing.
* Inventory: the ledger chains from the initial stock to the balance; nothing
  becomes negative; settled rows never change.
* Recovery: every candidate of a successful scan has an open case, one only as
  long as scans do not overlap; only uncertain operations have one; verdicts need
  evidence and belong together; a failing scan leaves nothing behind.
* Readiness: "ready" and "degraded" are only said with reason.
* Service mode: session rows and events explain each other; a diagnostic leaves
  its event or says that it could not; every call ends.
* Hardware: a call that returned success was carried out, and reports the
  position it asked for; no reply acknowledges two calls.

## 2. The modules

```
OperationStates   InventoryLedger        CaseBook            DeviceCalls
        │        (abstract ledger)  (abstract recovery)  (abstract device call)
        ├── Operations  ⟹ InventoryLedger           DeviceLink ⟹ DeviceCalls
        │     ├── RecoveryScan ⟹ Operations, CaseBook
        │     │       └── Readiness ⟹ RecoveryScan
        │     └── ServiceMode ⟹ InventoryLedger
        └── Reconciliation ⟹ CaseBook
```

`⟹` is a refinement, proved for all values of the constants. `MC…` modules
give the constants small values; `…Proofs` modules hold the theorems of the
module they extend (`HistoryProofs` those about the histories of Operations).
`ServiceModeProofs` also has the theorems about operations next to diagnostics.
Definitions headed "Wrong variant" are plausible bugs; no specification uses
them. `PROJECT.json` pairs each checked property with one that, put in place of
the definition it varies, makes that property fail.

### OperationStates

The tables of `state_machine.py` as operators: the sequence of each operation
type, its terminal states, the detours to `failed` and `recovery_required`,
allowed targets, transition paths.

### InventoryLedger

What the stock tables promise, without requests or locks: a balance per cell
(slot and item), an append-only list of movements, an outcome per operation.
`Debit`, `Credit` and `Recount` change one balance and append one movement in
the same step; `Fail` settles an operation without either.

### CaseBook

What `POST /recovery/scan` promises its callers, without locks, candidates or
sessions: a scan looks at the operations that want recovery at one moment
(`Begin`), and either reports success with an open case for each of them
(`Succeed`), or leaves the book as it was (`Fail`, of one scan or, when the
process dies, of all). It allows what the code does allow: two overlapping scans
may open a case each. `RecoveryScan` and `Reconciliation` both implement it, so
what they model separately (requests in progress; operations left anywhere)
keeps one promise.

### Operations

All three `execute()` methods, run by any number of concurrent requests.

| Model | Code |
|---|---|
| `phase` | how far a request's thread is, then the answer its client got |
| `state`, `trail`, `txn`, `sid` | what the session has flushed and not committed: `operation.operation_state`, history rows, the inventory transaction, the session row |
| `operation`, `history`, `balance`, `ledger`, `session` | the committed tables |
| `writer` | holder of the write lock; `Outside` is any session that serves no request of this module |
| `drum`, `lateMove`, `opened` | where the drum stands, a movement still owed after a timeout, where a request's pulse fired |
| `ValidateRequest`, `RejectRequest` | validation reads, without the lock; `ResolvesTo` is the slot resolution of a return |
| `CreateOperation`, `LockWaitExpires` | the first flush, or `busy_timeout` |
| `MoveDrum`, `MoveFails`, `UnlockSlot`, `UnlockFails` | the hardware calls, with `HandleHardwareError` for what the handlers record and commit |
| `ApplyInventory`, `RefuseInventory` | `InventoryMutationService`; the refusal when the balance has become too small |
| `Commit`, `CommitFails`, `Crash` | the one commit; its failure; the death of the process |

Code between two calls out of the process is one action: only a crash could
come between its statements, and a crash undoes them all. The states `execute()`
walks through are the sequences `BeforeMove`, `PositioningSuccess` and so on,
cut where it calls the hardware; `Walk` is `OperationRecorder.transition` along
one of them. Its guard, `assert_transition_allowed`, is left out, which makes
the model wider than the code until one knows that it never fires; that every
committed history is one the guard lets through is `HistoryExplainsState`,
proved of the wider model. A move that fails (`MoveIsLost`), or is on its way
when the process dies (`MoveOutlivesCrash`), may be carried out late. The refill handler for hardware errors raises `NameError` (section
5) and is modelled as what it does: `LoseHardwareError`.

### RecoveryScan

`scan_recovery_targets` next to the requests: read the candidates, look for an
open case of each (`ReuseCase`, `MissCase`), insert one (`OpenCase`, which takes
the lock as an `Outside` session), wait in vain (`CaseLockExpires`), commit or
fail to. Candidates are always in `recovery_required` here, since nothing
unfinished is ever committed, so they need no mark.

### Reconciliation

What scans conclude, for operations left in **any** state of their sequence.
`execute()` itself never leaves one, but the scan is written for it, the tests
build it, and other callers of `OperationRecorder` or other versions of the
program may.

| Model | Code |
|---|---|
| `Left`, `stoppedIn`, `writes` | how an operation was left: how far, with or without its transaction, filed by an error handler or not |
| `table`, `draft`, `writer` | the committed rows; the same with what the holder of the write lock has flushed |
| `StartScan`, `ListCandidates` | the two lists of `scan_recovery_targets`, two reads; `seen` is the state of each candidate **as the session has loaded it** |
| `LookUpCase` | `find_open_case_by_operation_id`, before the lock |
| `WriteCase`, `KeepCase` | case, entities and mark of one candidate; a session whose rows are all as they should be sends nothing |
| `Overwrite` | an update of the columns the session believes changed, over whatever is in the row by now |
| `CommitScan`, `ScanLost` | one commit for all candidates; anything that fails, which undoes all |
| `ReadCase`, `ReadEntities` | manual resolution: two reads, between which a scan may commit |

Any number of scans overlap. `Reconcile`, `Classify`, `NeedsMark`, `Mark`,
`Verdict`, `Wanted` and `Recommend` are the functions of the services one by one.

### Readiness

`run_startup_checks` as a scan with two stages before it and an answer after it.
Any number of checks and other scans overlap. `awaiting` remembers what wanted
recovery when the check began, to say what "ready" ought to mean. An
`OperationalError` of the scan is answered with an internal error, since
`_check_recovery_readiness` catches `ApplicationError` and `RecoveryError` only.
Its branch for those two (NOT_READY, `startup_service.py:71`) is left out:
nothing in a scan can raise one but `assert_transition_allowed`, and
`CandidatesCanBeMarked` of Reconciliation says that this never happens. The
branch for hardware that is neither ok nor degraded (`:54`) is dead as well.

### ServiceMode

Enter and exit write the session table that refills write, from rows read before
the lock was taken. The caller may be anybody, so each of the two may be refused
at its start. A diagnostic acts on the machine first, in Operations' own `drum`,
and records afterwards. `TestDrum` is the drum test; `TestDevice` stands for the
lock test and the queries of lock and reader, which change nothing the model
has. An argument an adapter refuses (`RejectArgument`: a negative position, an
unlock time of 0) raises a `ValueError` that `_execute_diagnostic` lets through,
and the call leaves no event.

Diagnostics share the database session of the application container, which one
thread uses at a time (`ContainerIsFree`). A write that fails leaves it behind
(`container`), and only a restart brings a rollback:

| `container` | after | then |
|---|---|---|
| `"usable"` | the start | events are written |
| `"invalid"` | a wait for the lock that expired (`ServiceWaitExpires`), a session id without a row (`EventNamesNoRow`, the foreign key), a `COMMIT` that failed and was undone (`ServiceCommitFails`) | every later diagnostic acts and is refused its event (`ContainerRefuses`) |
| `"holding"` | a `COMMIT` that failed and was not undone | the same, and the write lock stays taken, which to everybody else is an `Outside` writer |

The session of a request is closed with it, so its failed writes leave nothing.

### DeviceCalls and DeviceLink

`DeviceCalls` is what `Operations` takes a hardware call to be: carried out at
most once, before it succeeds; of a failed call nothing is known, not even that
it is not carried out later. `DeviceLink` is the adapters over their transports.
One instance is a machine whose devices are connected either way: a call over
TCP has a connection of its own (`Own`), the calls in `Serial` share a line.
`Send` opens the port and empties its input, replies carry no sender, a reply
may come late, never, or (fault `cut`) with its last digits missing. Commands
are a kind and a target; formats are abstracted. `call` in a reply and in
`reported` says whose command it answers: the models know, the code does not.
A call is `Lone` if no other can be taken for it: its connection is its own, or
it is the only one of its kind on the port. Lone calls implement `DeviceCalls`;
the others do not (`device_late`).

## 3. The runs

| Run | Module | Question | Result |
|---|---|---|---|
| `operations` | MCOperations | Do concurrent requests keep machine, stock, history and ledger consistent under faults and crashes? | holds |
| `recovery_scan` | MCRecoveryScan | Does a scan find, report and open cases correctly next to requests? Does a pulse miss its slot only with a cause? Is every request answered, the lock always given back? | holds |
| `readiness` | MCReadiness | Are "ready" and "degraded" true next to other scans, requests and crashes? Does every check end? | holds |
| `service_mode` | MCServiceMode | Do session rows and events agree when exits, diagnostics and operations race? What becomes of a diagnostic's event, and of the pulse of an operation beside it? Does every call end? | holds |
| `reconciliation` | MCReconciliation | Do verdicts, marks, entities and advice stay right when scans overlap, fail and repeat? | holds |
| `device` | MCDeviceLink | Are calls no other can be taken for what `Operations` assumes, on a busy port too? Is a reported position the one asked for? Does any reply acknowledge two calls? | they are; it is; none does |
| `rival` | MCOperations | Does an opened door always leave a record? | violated |
| `late_move` | MCOperations | Does a new movement wait for a previous one? | violated |
| `refill_error` | MCOperations | Is every hardware error recorded? | violated |
| `recovery_scan_two` | MCRecoveryScan | Is there one open case per operation when scans overlap? | violated |
| `verdict_overwritten` | MCReconciliation | Does a case keep saying where its operation stopped? | violated |
| `device_late` | MCDeviceLink | Was a successful call over serial carried out? | violated |

### Bounds, and why they are enough

* `operations` (980,354 states up to symmetry): three requests, so that a third can
  come between any two; two slots and one item, so that a return has a slot to
  choose and a dispense and a refill can meet in one cell; one unit in stock, so
  that the last one can be fought over; dispenses of none and one, refills that
  set and add, in a given session and in a new one; every fault, at every call,
  and crashes at any moment. Requests and free session ids are symmetric.
* `recovery_scan` (63,234): two requests of any type and one scan that may be
  repeated without end. Lost moves may be carried out late, after a crash, too;
  the drum stops where it is told (`MissedSlotsHaveACause` says nothing of the
  fault `off_target`). `cases` counts without a bound, but grows only when a
  case is missed. Two overlapping scans are the run that fails.
* `readiness` (256,640): two returns, as a check sees of a request only how it
  ended; one check that may be repeated and one other scan, which are enough for
  either to overtake the other; failing database, devices, unlocks; crashes.
* `service_mode` (317,792): one request, which is a refill in a new session or in
  one that may not be there yet, or a dispense from one slot; one entry; one
  exit and one device test that name that same session; one drum test to the
  other slot, so that each diagnostic can follow the failure of the other, and
  the drum test can come between any two steps of the request. One session
  exists, two ids are free. Moves and commits may fail, the process may die;
  late moves and failing unlocks are in `recovery_scan`.
* `reconciliation` (581,491): two operations, one with an item and one with a
  session, and two scans, which may overlap anywhere and be repeated without
  end. One operation is left at the start, on either side of the inventory
  write, near and at the end, in each of the ways an error is filed; the other
  just before the write, so that the two differ within one scan: 74 initial
  states. Scans are symmetric. All other places in the sequences are treated
  alike by the code; the proofs cover them.
* `device` (365,750): on the port two moves, which can be taken for each other,
  and one ping, which cannot; beside them two moves with connections of their
  own; all faults. 12 reads as 1 when cut, and one of the moves is to 1.

Deadlock is checked wherever the system is meant to go on. `device` turns it off
(`CHECK_DEADLOCK FALSE`): each of its calls is made once, and when all are over
nothing happens any more.

### Fairness

* `FairScanSpec`: weak fairness of each request's thread. The operating system
  schedules it, and every call it makes is bounded: a lock wait by
  `busy_timeout`, a hardware call by the endpoint timeouts. Nothing is asked of
  scans or of outside holders of the lock: waiting for one that never gives it
  back ends too.
* `FairReadinessSpec`: weak fairness of a check's steps, for the same reason.
* `FairServiceSpec`: weak fairness of a service call's steps, again for the same
  reason. An operation may keep the lock for ever: the call still ends.
* Nothing is assumed of devices, clients, or of crashes not happening.

## 4. The proofs

`tlapm` checks every leaf, for any sets of requests, slots, items, bindings,
sessions, scans, checks and calls, and any faults. Every safety property of a
passing run is proved; its theorem is in `PROJECT.json`.

**The state machine** (`OperationStatesProofs`). The tables are constants, so
each type is a case and the provers compute. `NoDeadEnd`: from wherever a
dispense, return or refill stopped, `assert_transition_path` lets the rest of
its sequence through, to a success. `StepsLeadOn`: only a refill ever goes back,
to its next slot. `NeverEntered`: see section 5.

**Operations** (`OperationsProofs`). `IndInv` says more than the properties do:
a request that executes holds the lock (`OneOperationAtTheMachine`); what it has
flushed fits its state and request; the balance it will write is still the one
its transaction was computed from (`FlushedWriteIsCurrent`), which is where the
lock earns its keep; a settled operation has a committed row and vice versa;
its pulse and its errors fit its state. `NextIndInv` goes action by action:
steps that only walk (`WalkStep`) and steps that end without a row
(`DiscardStep`) are lemmas of their own, and the commit of a success is the long
one, as it extends a chain in the ledger. From it follow `TypeCorrect`,
`OneAtTheMachine`, `LedgerIsComplete`, `StockSuffices`, `MovedOnce`,
`DoorsAccounted`, `ErrorsFiled`, the action property `SettledStays`, and
`ImplementsLedger`: a commit of a success is a `Debit`, `Credit` or `Recount`, a
commit of a failure is a `Fail`, everything else stutters.

Where a pulse fires is a matter of who moves the drum. `DrumTraced` follows it:
between a request's move and its unlock the drum is at the request's slot, or
where a command that was cut short (`StrayPositions`) or something outside the
operations has sent it, and whatever is still to be carried out late goes to
such a place. `TracedStep` shows it of one step, with the outside as a
parameter. With none, `MissesAreExplained`: a pulse misses its slot only where
the lost move of a request that failed or died has taken the drum. `PulseAtSlot`
is the case without late moves, an assumption about `Faults`: every pulse is at
its slot. All of it is about a drum that stops where it is told; with the fault
`off_target` nothing of the kind holds, as nobody compares (section 5).

`DoorsAccounted` and `ErrorsFiled` bound the losses of section 5 from the other
side: an opened door has no row only after a crash, after a commit that failed,
or for a dispense in whose cell somebody else has moved stock since; a hardware
error has none only after a crash, after a commit that failed, or in a refill.
For the third cause (`LostDoorsHaveACause`) the invariant says that a dispense
that got past validation had enough stock in what it read (`DispensesHadStock`),
so that too little of it later means a movement in between.

`AnswersNear` and `NobodyStuck` are the safety half of `EveryRequestAnswered`. A
request has at most six steps to its answer (`StepsLeft`), each of its steps,
failing ones included, leaves fewer, and no step of anybody else more; and
until it is answered the guard of one of its steps holds (`CanGoOn`), whoever
holds the lock. So no two requests wait for each other, none is tried again, and
with weak fairness every request ends. Only that last inference, from guard to
`ENABLED` and from fairness to `~>`, is left to TLC. `NobodyStuck` assumes a
free session id for a refill that brings none: the model has finitely many, the
database does not.

**Histories** (`HistoryProofs`). Each stretch `execute()` walks between two calls
out of the process is a run of consecutive states of its `OperationSequence`
(`IsStretch`), so a path (`StretchIsPath`), and starts where the state machine
lets the previous one go on; `Join` puts two paths together. `TrailInv` says
that the trail of an executing request leads from `created` to its state, one
lemma per action keeps it, and the commit copies the trail: hence
`HistoryExplained`.

**RecoveryScan**. `ScansImplementOperations`: a scan is an outside holder of the
lock, so all of the above carries over. `ScanInv` adds that each candidate of a
scan has its case, is still to do, or is inserted and will be committed with the
rest. `OneCaseWithoutOverlap` needs one scan at a time, as an assumption about
the constant `Scans`; `ScanTypeCorrect`, `ScanIsComplete`, `CasesAreJustified`
and `CandidatesPersist` (a scan never finds less than an earlier one) hold for
any number of scans. `ScansImplementCaseBook` maps a scan to the abstract one by
what it has reported (`Report`) and how it ended (`Outcome`): inserting a case
is not a step of the book, committing all of them is one.

**Reconciliation** (`ReconciliationProofs`). Nothing but a scan writes these
tables, and a scan only adds marks and cases (`Extends`). So a session that has
loaded an operation in any earlier state saw it as it was left or as a scan has
marked it (`Sights`), and whatever it writes from that is one of two cases
(`GoodCases`): the one that belongs to the state the operation stopped in, or
the one that belongs to `recovery_required`. `Overwrite` mixes columns of two
cases, but the two never differ in half of a verdict only
(`OverwrittenIsWhole`). `TableOK` says this of the committed tables and of the
draft alike, with a legal history that shows what the verdicts rest on
(`HistoryTells`, from the shape of the sequences: `PathTells`); `ScanOK` that
what a scan has seen is not older than it may be, and that what it is done with
is settled in its view. `AdviceIsSound` needs that all entities of a case are
there from its first write on (`GoodCases`): a scan that rewrites the case
between the two reads of manual resolution then changes nothing the second one
shows. The theorems are the run's eight invariants, for any operations, left in any way of `Leftover`, and any number of scans. Cases that
were there before the first scan are not considered. For
`ReconImplementsCaseBook` the draft of the lock's holder is compared with the
tables: it is one case ahead for each operation it wrote one for, and never
behind (`DraftIsAhead`).

**Readiness**. `ReadinessImplementsScans`; then `AwaitingIsFound`, that what
wanted recovery when a check began is among what its scan read, gives
`ReadyMeansReady` and `DegradedMeansCases`.

**ServiceMode**. `OperationsNextToService`: `IndInv` survives calls that change
the session table and the drum; so do what the histories say
(`HistoryNextToService`) and that what is settled stays
(`SettledNextToService`). `ServiceIndInv` adds that only rows that exist
are completed (`NoTraceWithoutRow`), which with the fact that rows stay
(`RowsStay`) gives `SessionsAreExplained`, `EndedStaysEnded`,
`ServiceImplementsLedger`. That the container's session was left by a diagnostic
that ended with an error (`ContainerWasLeft`) gives `TracesAreTold`; that the
lock it may go on holding is not lost (`OutsideKeepsLock`) keeps it an outside
writer to the operations. `PulsesAreTraced` is `DrumTraced` once more, with the
positions of the drum tests as what comes from outside. `CallsAreNear` and `NobodyStuckNextToService` are the
safety half of `ServiceCallsEnd`: a call has at most two steps left, and the only
thing one waits for without a timeout, the container, is held by a call that can
go on whatever state its session is in.

**DeviceLink**. An answer on its way is on the link of the command it answers
(`RepliesKeepToLinks`), has been earned and not been read before
(`AnswersAreEarned`), and is on one link only (`AnswersAreSingle`): hence
`NoAnswerIsShared`, for all calls. A lone call can only read an answer to
itself, since on its link no other command has its kind; hence
`LoneSuccessWasPerformed`, `PositionWasAsked` and the refinement
`LoneImplementDeviceCalls`, whatever else the port is doing.

Only model-checked: liveness (`EveryRequestAnswered`, `WriterReleases`,
`ChecksEnd`, `ServiceCallsEnd`), which is out of the prover's reach.
Conversely, a few theorems have no run, as they are about constants
(`OperationStatesProofs`), need an assumption no instance makes (`PulseAtSlot`),
say that a composed module does not disturb its component
(`ReadinessImplementsScans`), or repeat for it what a run says of the component
(`SettledNextToService`); TLC agreed on
small instances with `AnswersComeNearer`, `NobodyIsStuck`, `CallsComeNearer` and
`NoCallIsStuck` before they were proved, and that `CanGoOn` and `CallCanGoOn` are
`ENABLED` of the steps they speak of.

## 5. Where code and documents disagree

With a run that shows it:

* `rival`. Two requests validate against the same last unit. The second waits for
  the lock, moves the drum, opens the door, and only then finds the balance too
  small: rollback, and the opened door leaves no operation, history or case.
  `docs/software-spec.md:575` has recovery analyse unfinished operations. The
  same property falls to a **crash** between unlock and commit: the transaction
  that is rolled back holds the operation itself, so that after a restart there
  is nothing unfinished to find. This follows from the single commit, and makes
  the recovery of interrupted operations unreachable from the API.
* `late_move`. A move that times out is filed as failed and the lock given back;
  the next request commands its own move while the first may still happen
  (`docs/software-spec.md:765` forbids it).
* `refill_error`. `refill_service.py:132` uses `datetime`, which the module does
  not import: the handler fails and the error is recorded nowhere
  (`docs/software-spec.md:913`).
* `recovery_scan_two`. The open case is looked for before the lock is taken: two
  overlapping scans open two (`tests/test_recovery_orchestration.py:110`).
* `verdict_overwritten`. The second scan of an operation finds it in
  `recovery_required`, and writes the state and the verdict that go with that
  over what its case says of where it stopped (`recovery_service.py:157`;
  `docs/codex-implementation-brief.md:393`, do not change history after the
  fact).
* `device_late`. The late reply to a timed-out serial command is read as the
  success of the next one of its kind (`real_adapter_base.py:18`, "fail-closed").

Seen while modelling, and in the models, without a run of their own:

* A drum that reports another position than asked for is believed:
  `drum_real.py:72` returns what the controller says and no service compares it
  with the slot (the fault `off_target`; `docs/software-spec.md:205`). No property
  about the place of a pulse covers it, as none holds. A reply whose numeral was
  cut short misreports the position without moving anything.
* A drum test moves the drum between the move and the unlock of a dispense,
  since diagnostics command first and write later (`service_mode_service.py:176`);
  `PulsesAreExplained` allows for it and for nothing else but lost moves.
  Diagnostics are reachable from the service container, not from an endpoint.
* A diagnostic whose write fails, for the lock or because it names a session that
  does not exist, has acted and leaves no event (`docs/software-spec.md:913`).
  Nobody rolls the container's session back, so every later diagnostic acts and
  leaves none either, until a restart. If it was the `COMMIT` that failed
  (`service_mode_service.py:195`), SQLite may still be in the transaction, and
  the container then keeps the write lock: no operation can begin any more
  (`ServiceCommitFails`, `container = "holding"`).
* A diagnostic with an argument the adapter refuses ends with a `ValueError` and
  leaves no event (`RejectArgument`; `drum_real.py:61`, `lock_real.py:136`).
* A scan that overlaps with the one that marked an operation adds a second
  `recovery_required` to its history, a step the state machine does not have
  (`HistoryStaysLegal` allows for it).
* No step of the state machine enters `rejected`, `cancelled`, `timed_out` or
  `system_ready` (`NeverEntered`): `state_machine.py:91` lists them as terminal,
  `docs/software-spec.md:441` to `:445` and `:603` as states of an operation and
  of the recovery, but `CommonFallbacks` has no way to the first three, and
  `degraded_ready`, which comes before `system_ready`, is terminal itself.
* A refill completes the session it is given after one slot
  (`refill_service.py:119`), where `docs/software-spec.md:217` has one session
  over several.
* `user_action_pending` and `completion_verification` are passed in the same
  transaction without waiting for anyone (`AfterUnlock`), where
  `docs/software-spec.md:455` and `:611` speak of a confirmation.

## 6. What is not modelled

* Timestamps, comments, JSON contexts, DTOs, messages, audit rows (written and
  committed with the events, and saying the same).
* Foreign keys, but for the session a diagnostic names: a request for an unknown
  user, item or session fails at its first flush, like one whose wait for the
  lock expires.
* `create_operation` and `create_session` outside `execute()`, which only tests
  call; `inventory_adjustment` operations, which have no sequence and which
  nothing creates.
* Inventory lookup (reads only), export (two counts and one insert of a row that
  nothing reads or updates), `authorize` (a stateless lookup the operations do not call),
  configuration and composition (wiring), the migration (generated schema).
* `RecoveryAction` and `ManualResolutionAction` rows and the closing of a case:
  no code does either.
* The last UID a reader remembers: it lives as long as the request.
* A lock pulse carried out late, after its unlock timed out: `UnlockFails` has it
  fire at once or not at all. `DeviceLink` has late commands of every kind.
* On the serial line: half-written commands, and the order of replies from one
  device, which the model lets be any. It is wider than the code there.
* Validation of endpoint settings; mock and stub adapters beyond the ways to
  fail, which are among those of `Operations`.

## 7. Plan

Done, in this order: OperationStates, InventoryLedger, Operations and its
proofs; RecoveryScan and its proofs; DeviceCalls, DeviceLink; ServiceMode;
Reconciliation; Readiness. Then the overlapping scans of Reconciliation with
their proofs, the proof of the histories, one instance of DeviceLink for both
transports with `NoAnswerIsShared`, and the container's session and liveness of
ServiceMode. Then the causes of lost doors and errors, lone calls on a shared
port, CaseBook with both refinements, the walk of the state machine, and the
safety half of liveness of Operations and ServiceMode.

Left, the most useful first:

1. The safety half of liveness for scans and checks.
2. RecoveryScan over Reconciliation's tables: one scan whose candidates come both
   from requests in progress and from what was left before, with the open case
   of either found by the other.
3. Cases that were there before the first scan and are incomplete, as an older
   version may have written them.
4. Export and its manifest, if it grows beyond one insert.
