-------------------------- MODULE MCPolicyController --------------------------
(***************************************************************************)
(* PolicyController with a serving process that has two workers, and an    *)
(* administrator that publishes from a process of its own.                 *)
(***************************************************************************)
EXTENDS PolicyController

CONSTANTS p1, w1, w2

MCHomeOf == [w \in {w1, w2} |-> p1]
=============================================================================
