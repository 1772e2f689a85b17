----------------------------- MODULE MCDeviceLink -----------------------------
(* Small instances of DeviceLink for TLC: a drum that is moved by          *)
(* operations and diagnostics and pinged by readiness checks.              *)
EXTENDS DeviceLink, TLC

CONSTANTS move1, move12, ping1, net12, net2

MCTargets == {0, 1, 2, 12}
MCKinds == {"ping", "move"}

MCCommand ==
  [c \in Calls |->
     CASE c = move1  -> [kind |-> "move", target |-> 1]
       [] c = net2   -> [kind |-> "move", target |-> 2]
       [] c \in {move12, net12} -> [kind |-> "move", target |-> 12]
       [] OTHER      -> [kind |-> "ping", target |-> 0]]

(* MOVED:12 without its last digit is MOVED:1.                             *)
MCCuts == [t \in MCTargets |-> IF t = 12 THEN {1} ELSE {}]
=============================================================================
