---------------------------- MODULE MCOperations ----------------------------
(* Small instances of Operations for TLC.                                  *)
EXTENDS Operations, TLC

CONSTANTS r1, r2, r3, s1, s2, bolt, k1, k2, k3, k4

MCSlots == {s1, s2}
MCItems == {bolt}
MCPosition == s1 :> 1 @@ s2 :> 2
MCBindings ==
  {[id |-> 1, slot |-> s1, item |-> bolt, kind |-> "primary"],
   [id |-> 2, slot |-> s2, item |-> bolt, kind |-> "return"]}

(* One unit in s1, no row yet for s2.                                      *)
MCInitialBalance == <<s1, bolt>> :> 1 @@ <<s2, bolt>> :> Absent

(* k1 is an open service session, the other ids are free: one per request. *)
FreeIds == Sessions \ {k1}
MCInitialSession ==
  [s \in Sessions |-> IF s = k1 THEN [kind |-> "service", status |-> "active"]
                                ELSE NoSessionRow]

Ask(type, slt, qty, mode, sess) ==
  [type |-> type, slot |-> slt, item |-> bolt, qty |-> qty, mode |-> mode,
   session |-> sess]

Dispenses == {Ask("dispense", s1, q, "set", NoSession) : q \in {0, 1}}
Returns   == {Ask("return", slt, 1, "set", NoSession) : slt \in {s2, NoSlot}}
Refills   == {Ask("refill_item", s1, 0, "set", NoSession),
              Ask("refill_item", s1, 2, "add", k1),
              Ask("refill_item", s2, 1, "add", NoSession)}

MCWorkload == Dispenses \cup Returns \cup Refills

(* Two takers of the same last unit.                                       *)
RivalWorkload == {Ask("dispense", s1, 1, "set", NoSession)}

RefillWorkload == {Ask("refill_item", s1, 2, "add", k1)}

Symmetry == Permutations(Requests) \cup Permutations(FreeIds)
=============================================================================
