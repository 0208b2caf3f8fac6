--------------------------- MODULE MCRepomapCache ---------------------------
(***************************************************************************)
(* TLC instances of RepomapCache.                                          *)
(***************************************************************************)
EXTENDS RepomapCache, TLC

AnyProcess == Permutations(Process)
=============================================================================
