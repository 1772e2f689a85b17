------------------------------- MODULE CaseBook -------------------------------
(***************************************************************************)
(* What POST /recovery/scan promises its callers, whatever happens inside  *)
(* a scan and beside it: it looks at all the operations that want          *)
(* recovery at one moment, and either reports success and leaves an open   *)
(* case for every one of them, or leaves the book as it was.  A case is    *)
(* opened by a successful scan only, for an operation it has looked at,    *)
(* one per scan; scans that overlap may each open one.  Nothing closes a   *)
(* case, and no operation stops wanting recovery.                          *)
(***************************************************************************)
EXTENDS Naturals

CONSTANTS
  Subjects,  \* operations
  Scans

VARIABLES
  wanting,  \* the operations that want recovery
  cases,    \* open cases, per operation
  scan,     \* where each scan is
  scope     \* the operations a scan works on, or has reported

bookVars == <<wanting, cases, scan, scope>>

Running == {s \in Scans : scan[s] = "running"}

Init ==
  /\ wanting \subseteq Subjects
  /\ cases = [o \in Subjects |-> 0]
  /\ scan = [s \in Scans |-> "idle"]
  /\ scope = [s \in Scans |-> {}]

(* Operations are abandoned or fail.                                       *)
WantRecovery ==
  /\ wanting \subseteq wanting' /\ wanting' \subseteq Subjects
  /\ UNCHANGED <<cases, scan, scope>>

Begin(s) ==
  /\ s \notin Running
  /\ scan' = [scan EXCEPT ![s] = "running"]
  /\ scope' = [scope EXCEPT ![s] = wanting]
  /\ UNCHANGED <<wanting, cases>>

Succeed(s) ==
  /\ s \in Running
  /\ \E opened \in SUBSET scope[s] :
       cases' = [o \in Subjects |-> cases[o] + IF o \in opened THEN 1 ELSE 0]
  /\ \A o \in scope[s] : cases'[o] > 0
  /\ scan' = [scan EXCEPT ![s] = "done"]
  /\ UNCHANGED <<wanting, scope>>

(* One scan, or all that run when the process dies.                        *)
Fail(stopped) ==
  /\ scan' = [s \in Scans |-> IF s \in stopped THEN "failed" ELSE scan[s]]
  /\ scope' = [s \in Scans |-> IF s \in stopped THEN {} ELSE scope[s]]
  /\ UNCHANGED <<wanting, cases>>

Next ==
  \/ WantRecovery
  \/ \E s \in Scans : Begin(s) \/ Succeed(s)
  \/ \E stopped \in SUBSET Running : Fail(stopped)

Spec == Init /\ [][Next]_bookVars
=============================================================================
