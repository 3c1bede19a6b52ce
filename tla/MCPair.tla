------------------------------- MODULE MCPair -------------------------------
(***************************************************************************)
(* Instances of SinbohaPair for TLC.                                       *)
(***************************************************************************)
EXTENDS SinbohaPair, TLC

SameClocks == [n \in Node |-> 0]
EveryTick == {1}

Only(kinds) == [d \in Disturbance |-> IF d \in kinds THEN 1 ELSE 0]

Nothing == {Only({})}
OneSwitch == {Only({"switch"})}
AnyOne == {Only({d}) : d \in Disturbance}
SwitchOrCrash == {Only({"switch", "silence"}), Only({"crash"})}

Symmetry == Permutations(Link) \cup Permutations(Node)
=============================================================================
