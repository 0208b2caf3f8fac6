----------------------------- MODULE MCAstCrdt -----------------------------
(***************************************************************************)
(* TLC instances of AstCrdt.                                               *)
(***************************************************************************)
EXTENDS AstCrdt, TLC

AnyAgent == Permutations(Agent)
=============================================================================
