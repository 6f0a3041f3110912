---------------------------- MODULE MCAgentLoop ----------------------------
(* Small instances of AgentLoop. *)
EXTENDS AgentLoopProps, TLC

CONSTANTS p1, p2, w1, w2, s1, s2, r1, r2, r3, i1, i2

OneProcess  == [w \in Workers |-> p1]
TwoProcesses == (w1 :> p1) @@ (w2 :> p2)
ItemsOfS1   == [i \in Items |-> s1]
Interchangeable == Permutations(RunIds)
=============================================================================
