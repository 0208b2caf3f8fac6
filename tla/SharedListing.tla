--------------------------- MODULE SharedListing ---------------------------
(***************************************************************************)
(* What PathOracle.listing promises its callers, whatever the threads do:  *)
(* a directory has one snapshot, taken while somebody is asking for it,    *)
(* never replaced, and every answer about the directory is that snapshot.  *)
(* How the threads agree on who takes it is left to PathOracle.            *)
(***************************************************************************)
CONSTANTS Thread, Dir, Listing, Unscanned, NoDir

VARIABLES
  snapshot,   \* the one listing of each directory, Unscanned until taken
  asking,     \* the directory each thread is waiting to hear about
  answer      \* the listing each thread was given last

vars == <<snapshot, asking, answer>>

Init ==
  /\ snapshot = [d \in Dir |-> Unscanned]
  /\ asking = [t \in Thread |-> NoDir]
  /\ answer = [t \in Thread |-> Unscanned]

Ask(t, d) ==
  /\ asking[t] = NoDir
  /\ asking' = [asking EXCEPT ![t] = d]
  /\ UNCHANGED <<snapshot, answer>>

TakeSnapshot(d, l) ==
  /\ snapshot[d] = Unscanned
  /\ \E t \in Thread : asking[t] = d
  /\ snapshot' = [snapshot EXCEPT ![d] = l]
  /\ UNCHANGED <<asking, answer>>

Reply(t) ==
  /\ asking[t] # NoDir
  /\ snapshot[asking[t]] # Unscanned
  /\ answer' = [answer EXCEPT ![t] = snapshot[asking[t]]]
  /\ asking' = [asking EXCEPT ![t] = NoDir]
  /\ UNCHANGED snapshot

Next ==
  \/ \E t \in Thread, d \in Dir : Ask(t, d)
  \/ \E d \in Dir, l \in Listing : TakeSnapshot(d, l)
  \/ \E t \in Thread : Reply(t)

Spec == Init /\ [][Next]_vars
=============================================================================
