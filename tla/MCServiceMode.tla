----------------------------- MODULE MCServiceMode -----------------------------
(* Small instances of ServiceMode for TLC.                                 *)
EXTENDS ServiceMode, TLC

CONSTANTS r1, s1, s2, bolt, k1, k2, k3, enter1, exit1, test1, lock1

MCSlots == {s1, s2}
MCItems == {bolt}
MCPosition == s1 :> 1 @@ s2 :> 2
MCBindings == {[id |-> 1, slot |-> s2, item |-> bolt, kind |-> "return"]}
MCInitialBalance == <<s1, bolt>> :> 1 @@ <<s2, bolt>> :> Absent

(* k1 is an open service session, two ids are free.                        *)
MCInitialSession ==
  [s \in Sessions |-> IF s = k1 THEN [kind |-> "service", status |-> "active"]
                                ELSE NoSessionRow]

Ask(type, sess) ==
  [type |-> type, slot |-> s1, item |-> bolt, qty |-> 1, mode |-> "add", session |-> sess]

MCWorkload ==
  {Ask("refill_item", NoSession), Ask("refill_item", k2), Ask("dispense", NoSession)}

Service(kind, sess) == [kind |-> kind, session |-> sess, position |-> Position[s2]]

(* exit1 ends, and lock1 names, a session that enter1 or the refill may be *)
(* about to create, and the refill may work in.  The operations are at s1, *)
(* the drum test goes to s2.                                               *)
MCServiceCommand ==
  [c \in ServiceCalls |->
     CASE c = enter1 -> Service("enter", NoSession)
       [] c = exit1  -> Service("exit", k2)
       [] c = test1  -> Service("drum_test", NoSession)
       [] c = lock1  -> Service("device_test", k2)]
=============================================================================
