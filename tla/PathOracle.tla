---------------------------- MODULE PathOracle ----------------------------
(***************************************************************************)
(* tools/doc_core.py, class PathOracle: the directory-listing cache that   *)
(* every worker thread of a documentation sweep shares.  One action per    *)
(* step between two points where another thread can run.  The critical     *)
(* sections under the object's own _lock hold it for a single dictionary   *)
(* operation, so each is one step; the per-directory locks are held across *)
(* steps and are modelled as objects with a holder.                        *)
(***************************************************************************)
EXTENDS Naturals

CONSTANTS
  Thread,         \* worker threads of the pool
  Dir,            \* directories the documents refer to
  Listing,        \* what a scan of a directory may return
  EmptyListing,   \* the listing of an empty or unreadable directory
  Unscanned,      \* Python's None in _listings.get: no scan stored yet
  NoDir, NoLock, NoThread

ASSUME EmptyListingAssumption == EmptyListing \in Listing
ASSUME AbsenceAssumption ==
  /\ Unscanned \notin Listing
  /\ NoDir \notin Dir
  /\ NoLock \notin Dir \X Thread
  /\ NoThread \notin Thread

VARIABLES
  listings,   \* _listings
  locks,      \* _locks: which lock object _locks maps a directory to
  holder,     \* the thread inside each lock object, NoThread if it is free
  pc,         \* the statement of listing() each thread is about to run
  parent,     \* the argument of the call in progress
  scanLock,   \* the lock object _scan_lock returned to the thread
  scanned,    \* the thread's local variable of that name
  answer,     \* what the thread's last call returned
  scans       \* history: how often each directory was scanned

vars == <<listings, locks, holder, pc, parent, scanLock, scanned, answer, scans>>

\* A lock object is named by its directory and the thread that created it.
LockObject == Dir \X Thread

Control == {"idle", "cached", "scan_lock", "enter", "settled", "scan", "store", "exit"}

\* What _scan_directory returns: the names on disk at that moment, which
\* other programs may change at any time, or the empty listing on OSError.
ScanDirectory == Listing \cup {EmptyListing}

Init ==
  /\ listings = [d \in Dir |-> Unscanned]
  /\ locks = [d \in Dir |-> NoLock]
  /\ holder = [k \in LockObject |-> NoThread]
  /\ pc = [t \in Thread |-> "idle"]
  /\ parent = [t \in Thread |-> NoDir]
  /\ scanLock = [t \in Thread |-> NoLock]
  /\ scanned = [t \in Thread |-> Unscanned]
  /\ answer = [t \in Thread |-> Unscanned]
  /\ scans = [d \in Dir |-> 0]

Goto(t, label) == pc' = [pc EXCEPT ![t] = label]

\* The call returns l: the frame's locals are gone.
Return(t, l) ==
  /\ answer' = [answer EXCEPT ![t] = l]
  /\ parent' = [parent EXCEPT ![t] = NoDir]
  /\ scanLock' = [scanLock EXCEPT ![t] = NoLock]
  /\ scanned' = [scanned EXCEPT ![t] = Unscanned]
  /\ Goto(t, "idle")

Call(t, d) ==
  /\ pc[t] = "idle"
  /\ parent' = [parent EXCEPT ![t] = d]
  /\ Goto(t, "cached")
  /\ UNCHANGED <<listings, locks, holder, scanLock, scanned, answer, scans>>

\* The unlocked fast path: a listing that is stored, empty or not, is the answer.
CachedHit(t) ==
  /\ pc[t] = "cached"
  /\ listings[parent[t]] # Unscanned
  /\ Return(t, listings[parent[t]])
  /\ UNCHANGED <<listings, locks, holder, scans>>

CachedMiss(t) ==
  /\ pc[t] = "cached"
  /\ listings[parent[t]] = Unscanned
  /\ Goto(t, "scan_lock")
  /\ UNCHANGED <<listings, locks, holder, parent, scanLock, scanned, answer, scans>>

\* dict.setdefault: the first thread's lock object stays, later ones share it.
ScanLock(t) ==
  LET d == parent[t]
      lock == IF locks[d] = NoLock THEN <<d, t>> ELSE locks[d]
  IN /\ pc[t] = "scan_lock"
     /\ locks' = [locks EXCEPT ![d] = lock]
     /\ scanLock' = [scanLock EXCEPT ![t] = lock]
     /\ Goto(t, "enter")
     /\ UNCHANGED <<listings, holder, parent, scanned, answer, scans>>

Enter(t) ==
  /\ pc[t] = "enter"
  /\ holder[scanLock[t]] = NoThread
  /\ holder' = [holder EXCEPT ![scanLock[t]] = t]
  /\ Goto(t, "settled")
  /\ UNCHANGED <<listings, locks, parent, scanLock, scanned, answer, scans>>

\* The second look, inside the lock: another thread finished the scan meanwhile.
\* The return leaves the with block, which frees the lock.
SettledHit(t) ==
  /\ pc[t] = "settled"
  /\ listings[parent[t]] # Unscanned
  /\ holder' = [holder EXCEPT ![scanLock[t]] = NoThread]
  /\ Return(t, listings[parent[t]])
  /\ UNCHANGED <<listings, locks, scans>>

\* Mutant of SettledMiss: "if settled:" takes an empty listing for no listing.
SettledMissTruthy(t) ==
  /\ pc[t] = "settled"
  /\ listings[parent[t]] \in {Unscanned, EmptyListing}
  /\ Goto(t, "scan")
  /\ UNCHANGED <<listings, locks, holder, parent, scanLock, scanned, answer, scans>>

\* Mutant of SettledMiss: the second look inside the lock is missing.
SettledMissUnchecked(t) ==
  /\ pc[t] = "settled"
  /\ Goto(t, "scan")
  /\ UNCHANGED <<listings, locks, holder, parent, scanLock, scanned, answer, scans>>

SettledMiss(t) ==
  /\ pc[t] = "settled"
  /\ listings[parent[t]] = Unscanned
  /\ Goto(t, "scan")
  /\ UNCHANGED <<listings, locks, holder, parent, scanLock, scanned, answer, scans>>

Scan(t) ==
  /\ pc[t] = "scan"
  /\ \E l \in ScanDirectory : scanned' = [scanned EXCEPT ![t] = l]
  /\ scans' = [scans EXCEPT ![parent[t]] = @ + 1]
  /\ Goto(t, "store")
  /\ UNCHANGED <<listings, locks, holder, parent, scanLock, answer>>

Store(t) ==
  /\ pc[t] = "store"
  /\ listings' = [listings EXCEPT ![parent[t]] = scanned[t]]
  /\ Goto(t, "exit")
  /\ UNCHANGED <<locks, holder, parent, scanLock, scanned, answer, scans>>

\* Mutant of Unlock: the lock is acquired but not released on this path.
UnlockHolding(t) ==
  /\ pc[t] = "exit"
  /\ Return(t, scanned[t])
  /\ UNCHANGED <<listings, locks, holder, scans>>

\* return scanned: leaves the with block and frees the directory's lock.
Unlock(t) ==
  /\ pc[t] = "exit"
  /\ holder' = [holder EXCEPT ![scanLock[t]] = NoThread]
  /\ Return(t, scanned[t])
  /\ UNCHANGED <<listings, locks, scans>>

\* A thread's next step inside a call of listing().
ListingStep(t) ==
  \/ CachedHit(t) \/ CachedMiss(t) \/ ScanLock(t) \/ Enter(t)
  \/ SettledHit(t) \/ SettledMiss(t) \/ Scan(t) \/ Store(t) \/ Unlock(t)

Next == \E t \in Thread : (\E d \in Dir : Call(t, d)) \/ ListingStep(t)

Spec == Init /\ [][Next]_vars

\* The operating system keeps running every thread, and a free lock that a
\* thread waits for is eventually granted: only the first callers of a
\* directory ever contend for its lock, so weak fairness is enough.
FairSpec == Spec /\ \A t \in Thread : WF_vars(ListingStep(t))
-----------------------------------------------------------------------------
\* Every variable keeps its type; what listing() is about to store or return
\* after a scan is a listing, never Python's None.
TypeOK ==
  /\ listings \in [Dir -> Listing \cup {Unscanned}]
  /\ locks \in [Dir -> LockObject \cup {NoLock}]
  /\ holder \in [LockObject -> Thread \cup {NoThread}]
  /\ pc \in [Thread -> Control]
  /\ parent \in [Thread -> Dir \cup {NoDir}]
  /\ scanLock \in [Thread -> LockObject \cup {NoLock}]
  /\ scanned \in [Thread -> Listing \cup {Unscanned}]
  /\ answer \in [Thread -> Listing \cup {Unscanned}]
  /\ scans \in [Dir -> Nat]
  /\ \A t \in Thread : pc[t] \in {"store", "exit"} => scanned[t] \in Listing

\* listing()'s docstring: "scanning it at most once per oracle", for any
\* number of threads that start before the first scan finishes, and also when
\* the listing found is empty.
ScannedAtMostOnce == \A d \in Dir : scans[d] <= 1

\* What is true of an oracle at every moment, in every schedule of its threads.
ScansAreShared == TypeOK /\ ScannedAtMostOnce

\* A published listing is never replaced: two documents that name the same
\* path are judged on the same directory contents, in every schedule.
ListingIsStable ==
  [][\A d \in Dir : listings[d] # Unscanned => listings'[d] = listings[d]]_vars

\* Every call is answered: the directory locks never leave a thread waiting
\* for one that is not released.
EveryCallReturns == \A t \in Thread : pc[t] # "idle" ~> pc[t] = "idle"

\* What makes the double-checked scan correct, strong enough to be inductive:
\* a call's directory is known exactly while it runs; the lock object a thread
\* holds is the one _locks keeps for its directory, and objects of different
\* directories differ; past the with statement the thread is the holder; and
\* a directory without a published listing has been scanned only by a thread
\* that is about to publish it.
Inside == {"settled", "scan", "store", "exit"}

CallsHaveDirs == \A t \in Thread : pc[t] = "idle" <=> parent[t] = NoDir

LocksAreShared ==
  /\ \A d \in Dir : locks[d] # NoLock => locks[d] \in {d} \X Thread
  /\ \A t \in Thread : pc[t] \in {"enter"} \cup Inside =>
       scanLock[t] = locks[parent[t]] /\ locks[parent[t]] # NoLock

InsideHoldsLock == \A t \in Thread : pc[t] \in Inside => holder[scanLock[t]] = t

ScansAreAccounted ==
  /\ \A t \in Thread :
       /\ pc[t] = "scan" => listings[parent[t]] = Unscanned /\ scans[parent[t]] = 0
       /\ pc[t] = "store" => listings[parent[t]] = Unscanned
       /\ pc[t] = "exit" => listings[parent[t]] = scanned[t]
  /\ \A d \in Dir : listings[d] = Unscanned =>
       scans[d] = 0 \/ \E t \in Thread : parent[t] = d /\ pc[t] = "store"

IInv ==
  /\ TypeOK
  /\ CallsHaveDirs
  /\ LocksAreShared
  /\ InsideHoldsLock
  /\ ScansAreAccounted
  /\ ScannedAtMostOnce

\* The promise the sweep relies on, as a specification of its own.
Abstract == INSTANCE SharedListing WITH snapshot <- listings, asking <- parent
ImplementsSharedListing == Abstract!Spec
=============================================================================
