------------------------------ MODULE MCSessions ------------------------------
(* Two tabs of one browser and one tab of another.                         *)
EXTENDS Sessions, TLC

CONSTANTS t1, t2, t3, here, there

MCBrowserOf == [t \in Tabs |-> IF t = t3 THEN there ELSE here]
TabSymmetry == Permutations({t1, t2})
=============================================================================
