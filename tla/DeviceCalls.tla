----------------------------- MODULE DeviceCalls -----------------------------
(***************************************************************************)
(* What a service may expect of a call to a device: the device does what a *)
(* call asks at most once, a call that succeeds has been done, and of a    *)
(* call that fails nothing is known, not even that it is not done later.   *)
(* It is how Operations sees move_drum_to_position and unlock_lock.        *)
(***************************************************************************)
CONSTANT Calls

VARIABLES
  status,    \* what the caller knows
  performed  \* the calls the device has carried out

callVars == <<status, performed>>

Init ==
  /\ status = [c \in Calls |-> "idle"]
  /\ performed = {}

Enter(c, from, to) ==
  /\ status[c] = from
  /\ status' = [status EXCEPT ![c] = to]
  /\ UNCHANGED performed

Begin(c) == Enter(c, "idle", "waiting")

Succeed(c) == c \in performed /\ Enter(c, "waiting", "ok")

Fail(c) == Enter(c, "waiting", "failed") \/ Enter(c, "idle", "failed")

(* At any time after the call was made, its failure included.              *)
Carry(c) ==
  /\ status[c] # "idle"
  /\ c \notin performed
  /\ performed' = performed \cup {c}
  /\ UNCHANGED status

Next == \E c \in Calls : Begin(c) \/ Succeed(c) \/ Fail(c) \/ Carry(c)

Spec == Init /\ [][Next]_callVars
=============================================================================
