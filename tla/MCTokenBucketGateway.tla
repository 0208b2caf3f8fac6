------------------------ MODULE MCTokenBucketGateway ------------------------
(***************************************************************************)
(* TLC instances of TokenBucketGateway.  The requests are interchangeable. *)
(***************************************************************************)
EXTENDS TokenBucketGateway, TLC

AnyRequest == Permutations(Request)
=============================================================================
