------------------------------ MODULE MCBudget ------------------------------
EXTENDS MersiBudget, TLC
CONSTANTS c1, c2, c3, k1, k2, v1, v2

OneCluster == [c \in Core |-> k1]
OneEach == (c1 :> k1) @@ (c2 :> k2)
PairAndOne == (c1 :> k1) @@ (c2 :> k1) @@ (c3 :> k2)
AllV1 == [w \in Word |-> v1]
Symmetry == Permutations(Core) \cup Permutations(Value)
\* The cores are exchanged together with their clusters.
SwapSides == (c1 :> c2) @@ (c2 :> c1) @@ (k1 :> k2) @@ (k2 :> k1)
SymmetryOneEach == {p @@ q : p \in {[x \in {c1, c2, k1, k2} |-> x], SwapSides}, q \in Permutations(Value)}
=============================================================================
