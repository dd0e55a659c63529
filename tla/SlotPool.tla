------------------------------ MODULE SlotPool ------------------------------
(***************************************************************************)
(* What the run queue promises of an agent's concurrency slots, and what   *)
(* the evaluation queue promises with one slot: members take a slot one at *)
(* a time, only while one is free, and give it back in any order.          *)
(***************************************************************************)
EXTENDS Naturals, FiniteSets

CONSTANTS Members, Size

VARIABLE held

Init == held = {}

Take(m) ==
    /\ m \in Members \ held
    /\ Cardinality(held) < Size
    /\ held' = held \cup {m}

Return(m) ==
    /\ m \in held
    /\ held' = held \ {m}

Next == \E m \in Members : Take(m) \/ Return(m)

Spec == Init /\ [][Next]_held
=============================================================================
