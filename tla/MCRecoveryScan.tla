---------------------------- MODULE MCRecoveryScan ----------------------------
(* Small instances of RecoveryScan for TLC.                                *)
EXTENDS RecoveryScan, TLC

CONSTANTS r1, r2, s1, s2, bolt, k1, k2, scan1, scan2

MCSlots == {s1, s2}
MCItems == {bolt}
MCPosition == s1 :> 1 @@ s2 :> 2
MCBindings ==
  {[id |-> 1, slot |-> s1, item |-> bolt, kind |-> "primary"],
   [id |-> 2, slot |-> s2, item |-> bolt, kind |-> "return"]}
MCInitialBalance == <<s1, bolt>> :> 1 @@ <<s2, bolt>> :> Absent
MCInitialSession == [s \in Sessions |-> NoSessionRow]

Ask(type, slt) ==
  [type |-> type, slot |-> slt, item |-> bolt, qty |-> 1, mode |-> "set",
   session |-> NoSession]

MCWorkload == {Ask("dispense", s1), Ask("return", NoSlot), Ask("refill_item", s1)}

Symmetry == Permutations(Requests) \cup Permutations(Scans)
=============================================================================
