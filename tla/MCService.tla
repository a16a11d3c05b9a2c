----------------------------- MODULE MCService -----------------------------
(***************************************************************************)
(* Service in scenes of a few events each: together, all of them.          *)
(***************************************************************************)
EXTENDS Service

CONSTANTS a, b

\* Two plans that come due together, and one of them again.
TwoPlans == [f \in Plans |-> IF f = a THEN {2} ELSE {2, 3}]
OneSlot  == [f \in Plans |-> IF f = a THEN {2} ELSE {}]
NoSlots  == [f \in Plans |-> {}]

Scene(slots, until, events) ==
  [slots |-> slots, malformed |-> {}, until |-> until,
   budget |-> [e \in Events |-> IF e \in events THEN 1 ELSE 0]]

\* The other plan's definition raises.
NextToMalformed(events) == [Scene(OneSlot, 2, events) EXCEPT !.malformed = {b}]

\* A second exception: the first in the course of a run, the second in its record.
Twice(scenario, event) == [scenario EXCEPT !.budget[event] = 2]

\* The scheduler alone with each kind of trouble, then requests with each kind.
MCScenes ==
  { Scene(TwoPlans, 3, {"crash"}), Scene(TwoPlans, 3, {"statement"}),
    Scene(OneSlot, 2, {"crash", "statement"}), Scene(OneSlot, 2, {"rollout"}),
    Scene(OneSlot, 2, {"push", "direct"}),
    Scene(NoSlots, 0, {"push", "alert", "statement", "crash"}),
    Scene(NoSlots, 0, {"push", "direct", "crash", "raise"}),
    Scene(NoSlots, 0, {"direct", "gated", "abort", "rollout"}),
    Scene(OneSlot, 2, {"push", "abort"}),
    Scene(NoSlots, 0, {"push", "gated", "raise", "statement", "crash"}),
    Twice(Scene(NoSlots, 0, {"alert", "direct", "statement"}), "statement"),
    NextToMalformed({"crash"}) }
=============================================================================
