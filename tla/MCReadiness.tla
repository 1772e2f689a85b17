---------------------------- MODULE MCReadiness ----------------------------
(* Small instances of Readiness for TLC.                                   *)
EXTENDS Readiness, TLC

CONSTANTS r1, r2, s1, s2, bolt, scan1, scan2

MCSlots == {s1, s2}
MCItems == {bolt}
MCPosition == s1 :> 1 @@ s2 :> 2
MCBindings ==
  {[id |-> 1, slot |-> s1, item |-> bolt, kind |-> "primary"],
   [id |-> 2, slot |-> s2, item |-> bolt, kind |-> "return"]}
MCInitialBalance == <<s1, bolt>> :> 1 @@ <<s2, bolt>> :> Absent
MCInitialSession == <<>>

Ask(type, slt) ==
  [type |-> type, slot |-> slt, item |-> bolt, qty |-> 1, mode |-> "set",
   session |-> NoSession]

(* What a check sees of a request is how it ends: a return may succeed, be *)
(* refused, fail, or end in recovery_required.                             *)
MCWorkload == {Ask("return", NoSlot)}
=============================================================================
