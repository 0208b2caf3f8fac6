----------------------- MODULE WorktreeArbiterProofs -----------------------
(***************************************************************************)
(* Leases and what git has on disk, for any agents, any spelling of their  *)
(* names, any number of faults, polls and ticks.  The property a run       *)
(* checks is not inductive: that a heartbeat may bring an expired lease    *)
(* back, that a removal touches one worktree only, and that a lease may be *)
(* forgotten, rest on which git commands of a release are already done and *)
(* on branches that serve as locks on lease ids.                           *)
(***************************************************************************)
EXTENDS WorktreeArbiter, TLAPS

LeaseIds == {Sanitized[a] : a \in Agent} \X (0..MaxTime)
TreeType == [id : LeaseIds, agent : Agent, whole : BOOLEAN]

Holding(a) == pc[a] = "holding"
TreeOf(l) == [id |-> l.id, agent |-> l.agent, whole |-> TRUE]
BeingReleased(l) == release # None /\ release.lease = l

\* An agent on its way to a lease has built one for itself, and has none in the
\* fleet; it looks at the index lock fewer than MaxPolls times.
AgentsFollow ==
  \A a \in Agent :
    /\ pc[a] # "idle" => lease[a] \in LeaseType /\ lease[a].agent = a
    /\ pc[a] = "polling" => polls[a] < MaxPolls
    /\ pc[a] \notin {"working", "dead"} => \A l \in fleet : l.agent # a

\* A branch is the lock on its id: whoever holds an id, or is listed with it,
\* is the only one, and the branch exists.
OneLeasePerId ==
  /\ \A l \in fleet : l.id \in branches
  /\ \A l, m \in fleet : l.id = m.id => l = m
  /\ \A a \in Agent : Holding(a) => lease[a].id \in branches
  /\ \A a \in Agent, l \in fleet : Holding(a) => lease[a].id # l.id
  /\ \A a, b \in Agent : Holding(a) /\ Holding(b) /\ lease[a].id = lease[b].id => a = b

\* Expired or not, a lease that is not being released has its worktree.
TreesStand ==
  /\ \A l \in fleet : BeingReleased(l) \/ TreeOf(l) \in trees
  /\ \A a \in Agent : Holding(a) => Tree(a) \in trees

\* What the git commands of a release have achieved before the next one runs.
ReleaseInOrder ==
  /\ release # None => release \in ReleaseType /\ release.lease \in fleet \ todo
  /\ At("prune") => Id \in excused \/ \A t \in trees : t.id = Id => ~t.whole
  /\ At("branch") => Id \in excused \/ \A t \in trees : t.id # Id

ArbiterInv ==
  /\ TypeOK /\ trees \subseteq TreeType
  /\ AgentsFollow /\ OneLeasePerId /\ TreesStand /\ ReleaseInOrder /\ NothingIsOrphaned

\* A lease built now fits its type: its second is no later than now.
LEMMA BuiltLeaseIsTyped ==
  ASSUME TypeOK, NEW a \in Agent, now + TTL <= MaxTime
  PROVE  Lease(a) \in LeaseType /\ Lease(a).agent = a
<1>1. now \div TicksPerSecond \in 0..MaxTime
  BY ArbiterAssumption DEF TypeOK
<1>2. now + TTL \in 0..MaxTime
  BY ArbiterAssumption DEF TypeOK
<1> QED BY <1>1, <1>2 DEF Lease, LeaseType

\* A new lease on paper changes nothing that is held or listed.
LEMMA BuildWorktreeLeaseKeeps ==
  ASSUME ArbiterInv, NEW a \in Agent, build_worktree_lease(a)
  PROVE  ArbiterInv'
<1> USE ArbiterAssumption DEF ArbiterInv, Holding, agents, git, arbiter, history
<1>1. TypeOK'
  BY DEF build_worktree_lease, GoTo, Lease, LeaseType, TypeOK, ReleaseType
<1>2. (trees \subseteq TreeType)'
  BY DEF build_worktree_lease
<1>3. AgentsFollow'
  <2>1. Lease(a) \in LeaseType /\ Lease(a).agent = a
    BY BuiltLeaseIsTyped DEF build_worktree_lease
  <2> QED BY <2>1 DEF build_worktree_lease, GoTo, AgentsFollow, TypeOK
<1>4. OneLeasePerId'
  BY DEF build_worktree_lease, GoTo, OneLeasePerId, TypeOK
<1>5. TreesStand'
  BY DEF build_worktree_lease, GoTo, TreesStand, BeingReleased, TreeOf, Tree, TypeOK
<1>6. ReleaseInOrder'
  BY DEF build_worktree_lease, GoTo, ReleaseInOrder, At, Id
<1>7. NothingIsOrphaned'
  BY DEF build_worktree_lease, GoTo, NothingIsOrphaned, IdsOf, TypeOK
<1> QED BY <1>1, <1>2, <1>3, <1>4, <1>5, <1>6, <1>7

\* A look at the index lock keeps the count below MaxPolls or gives up.
LEMMA WaitForIndexLockKeeps ==
  ASSUME ArbiterInv, NEW a \in Agent, wait_for_index_lock(a)
  PROVE  ArbiterInv'
<1> USE ArbiterAssumption DEF ArbiterInv, Holding, agents, git, arbiter, history
<1>1. TypeOK'
  <2>1. locked => polls[a] + 1 \in 0..MaxPolls
    BY DEF wait_for_index_lock, AgentsFollow, TypeOK
  <2> QED BY <2>1 DEF wait_for_index_lock, GoTo, TypeOK
<1>2. (trees \subseteq TreeType)'
  BY DEF wait_for_index_lock
<1>3. AgentsFollow'
  BY DEF wait_for_index_lock, GoTo, AgentsFollow, TypeOK
<1>4. OneLeasePerId'
  BY DEF wait_for_index_lock, GoTo, OneLeasePerId, TypeOK
<1>5. TreesStand'
  BY DEF wait_for_index_lock, GoTo, TreesStand, BeingReleased, TreeOf, Tree, TypeOK
<1>6. ReleaseInOrder'
  BY DEF wait_for_index_lock, GoTo, ReleaseInOrder, At, Id
<1>7. NothingIsOrphaned'
  BY DEF wait_for_index_lock, GoTo, NothingIsOrphaned, IdsOf, TypeOK
<1> QED BY <1>1, <1>2, <1>3, <1>4, <1>5, <1>6, <1>7

\* The id of a branch that git makes is nobody else's; an allocation that git
\* was killed in is excused.
LEMMA AllocateWorktreeKeeps ==
  ASSUME ArbiterInv, NEW a \in Agent, allocate_worktree(a)
  PROVE  ArbiterInv'
<1> USE ArbiterAssumption DEF ArbiterInv, Holding, agents, git, arbiter, history
<1>1. TypeOK'
  BY DEF allocate_worktree, GoTo, Fault, TypeOK, ReleaseType
<1>2. (trees \subseteq TreeType)'
  <2>1. Tree(a) \in TreeType
    BY DEF allocate_worktree, AgentsFollow, LeaseType, LeaseIds, TreeType, Tree
  <2> QED BY <2>1 DEF allocate_worktree
<1>3. AgentsFollow'
  BY DEF allocate_worktree, GoTo, Fault, AgentsFollow, TypeOK
<1>4. OneLeasePerId'
  BY DEF allocate_worktree, GoTo, Fault, OneLeasePerId, TypeOK
<1>5. TreesStand'
  BY DEF allocate_worktree, GoTo, Fault, TreesStand, BeingReleased, TreeOf, Tree, TypeOK
<1>6. ReleaseInOrder'
  BY DEF allocate_worktree, GoTo, Fault, Tree, ReleaseInOrder, OneLeasePerId, TypeOK, At, Id
<1>7. NothingIsOrphaned'
  BY DEF allocate_worktree, GoTo, Fault, Tree, NothingIsOrphaned, IdsOf, TypeOK
<1> QED BY <1>1, <1>2, <1>3, <1>4, <1>5, <1>6, <1>7

\* What is held becomes listed, with its id and its worktree.
LEMMA RegisterKeeps ==
  ASSUME ArbiterInv, NEW a \in Agent, Register(a)
  PROVE  ArbiterInv'
<1> USE ArbiterAssumption DEF ArbiterInv, Holding, agents, git, arbiter, history
<1>1. TypeOK'
  <2>1. lease[a] \in LeaseType /\ lease[a].agent = a /\ \A l \in fleet : l.agent # a
    BY DEF Register, AgentsFollow
  <2> QED BY <2>1 DEF Register, Serving, GoTo, TypeOK
<1>2. (trees \subseteq TreeType)'
  BY DEF Register
<1>3. AgentsFollow'
  BY DEF Register, GoTo, Serving, AgentsFollow, TypeOK
<1>4. OneLeasePerId'
  BY DEF Register, GoTo, Serving, OneLeasePerId, TypeOK
<1>5. TreesStand'
  BY DEF Register, GoTo, Serving, TreesStand, BeingReleased, TreeOf, Tree, AgentsFollow, TypeOK
<1>6. ReleaseInOrder'
  BY DEF Register, GoTo, Serving, ReleaseInOrder, At, Id
<1>7. NothingIsOrphaned'
  BY DEF Register, GoTo, Serving, NothingIsOrphaned, IdsOf, TypeOK
<1> QED BY <1>1, <1>2, <1>3, <1>4, <1>5, <1>6, <1>7

\* A heartbeat moves the expiry and neither the id nor the agent of a lease, even
\* of one that had expired: the prune that saw it expired is over by then.
LEMMA RefreshLeaseHeartbeatKeeps ==
  ASSUME ArbiterInv, NEW a \in Agent, refresh_lease_heartbeat(a)
  PROVE  ArbiterInv'
<1> USE ArbiterAssumption DEF ArbiterInv, Holding, agents, git, arbiter, history
<1> DEFINE Fresh(l) == IF l.agent = a THEN [l EXCEPT !.expires = now + TTL] ELSE l
<1>a. CASE ~\E l \in fleet : l.agent = a
  BY <1>a DEF refresh_lease_heartbeat, GoTo, Serving, TypeOK, AgentsFollow, OneLeasePerId,
     TreesStand, BeingReleased, TreeOf, Tree, ReleaseInOrder, At, Id, NothingIsOrphaned
<1>b. CASE \E l \in fleet : l.agent = a
  <2>1. /\ fleet' = {Fresh(l) : l \in fleet}
        /\ release = None /\ todo = {} /\ pc[a] = "working" /\ now + TTL \in 0..MaxTime
        /\ UNCHANGED <<now, locked, agents, git, release, todo, history>>
    BY <1>b DEF refresh_lease_heartbeat, Serving, TypeOK
  <2>2. ASSUME NEW l \in fleet
        PROVE  /\ Fresh(l) \in LeaseType /\ Fresh(l).id = l.id /\ Fresh(l).agent = l.agent
               /\ TreeOf(Fresh(l)) = TreeOf(l)
    BY <2>1 DEF TypeOK, LeaseType, TreeOf
  <2> HIDE DEF Fresh
  <2>3. TypeOK'
    BY <2>1, <2>2 DEF TypeOK
  <2>4. AgentsFollow'
    BY <2>1, <2>2 DEF AgentsFollow
  <2>5. OneLeasePerId'
    BY <2>1, <2>2 DEF OneLeasePerId
  <2>6. TreesStand'
    BY <2>1, <2>2 DEF TreesStand, BeingReleased, Tree
  <2>7. ReleaseInOrder'
    BY <2>1 DEF ReleaseInOrder, At
  <2>8. IdsOf(fleet)' = IdsOf(fleet)
    BY <2>1, <2>2 DEF IdsOf
  <2>9. NothingIsOrphaned'
    BY <2>1, <2>8 DEF NothingIsOrphaned, IdsOf
  <2> QED BY <2>1, <2>3, <2>4, <2>5, <2>6, <2>7, <2>9
<1> QED BY <1>a, <1>b

\* Only a listed lease is released, and nothing waits to be pruned then.
LEMMA RequestReleaseKeeps ==
  ASSUME ArbiterInv, NEW a \in Agent, RequestRelease(a)
  PROVE  ArbiterInv'
<1> USE ArbiterAssumption DEF ArbiterInv, Holding, agents, git, arbiter, history
<1>1. TypeOK'
  BY DEF RequestRelease, Serving, Release, TypeOK, ReleaseType
<1>2. (trees \subseteq TreeType)'
  BY DEF RequestRelease
<1>3. AgentsFollow'
  BY DEF RequestRelease, AgentsFollow
<1>4. OneLeasePerId'
  BY DEF RequestRelease, OneLeasePerId
<1>5. TreesStand'
  BY DEF RequestRelease, Serving, Release, TreesStand, BeingReleased, TreeOf, Tree
<1>6. ReleaseInOrder'
  BY DEF RequestRelease, Serving, Release, ReleaseInOrder, At, Id, ReleaseType, TypeOK
<1>7. NothingIsOrphaned'
  BY DEF RequestRelease, Serving, Release, NothingIsOrphaned, IdsOf
<1> QED BY <1>1, <1>2, <1>3, <1>4, <1>5, <1>6, <1>7

\* An agent that dies before it registers leaves an excused id behind.
LEMMA DieKeeps ==
  ASSUME ArbiterInv, NEW a \in Agent, Die(a)
  PROVE  ArbiterInv'
<1> USE ArbiterAssumption DEF ArbiterInv, Holding, agents, git, arbiter, history
<1>1. TypeOK'
  BY DEF Die, GoTo, TypeOK
<1>2. (trees \subseteq TreeType)'
  BY DEF Die
<1>3. AgentsFollow'
  BY DEF Die, GoTo, AgentsFollow, TypeOK
<1>4. OneLeasePerId'
  BY DEF Die, GoTo, OneLeasePerId, TypeOK
<1>5. TreesStand'
  BY DEF Die, GoTo, TreesStand, BeingReleased, TreeOf, Tree, TypeOK
<1>6. ReleaseInOrder'
  BY DEF Die, GoTo, ReleaseInOrder, At, Id
<1>7. NothingIsOrphaned'
  BY DEF Die, GoTo, NothingIsOrphaned, IdsOf, TypeOK
<1> QED BY <1>1, <1>2, <1>3, <1>4, <1>5, <1>6, <1>7

\* The expired leases are listed ones.
LEMMA PruneStaleLeasesKeeps ==
  ASSUME ArbiterInv, prune_stale_leases
  PROVE  ArbiterInv'
<1> USE ArbiterAssumption DEF ArbiterInv, Holding, agents, git, arbiter, history
<1>1. TypeOK'
  BY DEF prune_stale_leases, TypeOK
<1>2. (trees \subseteq TreeType)'
  BY DEF prune_stale_leases
<1>3. AgentsFollow'
  BY DEF prune_stale_leases, AgentsFollow
<1>4. OneLeasePerId'
  BY DEF prune_stale_leases, OneLeasePerId
<1>5. TreesStand'
  BY DEF prune_stale_leases, Serving, TreesStand, BeingReleased, TreeOf, Tree
<1>6. ReleaseInOrder'
  BY DEF prune_stale_leases, Serving, ReleaseInOrder, At, Id
<1>7. NothingIsOrphaned'
  BY DEF prune_stale_leases, Serving, NothingIsOrphaned, IdsOf
<1> QED BY <1>1, <1>2, <1>3, <1>4, <1>5, <1>6, <1>7

\* A lease being released no longer waits to be.
LEMMA PruneNextKeeps ==
  ASSUME ArbiterInv, PruneNext
  PROVE  ArbiterInv'
<1> USE ArbiterAssumption DEF ArbiterInv, Holding, agents, git, arbiter, history
<1>1. TypeOK'
  BY DEF PruneNext, Release, TypeOK
<1>2. (trees \subseteq TreeType)'
  BY DEF PruneNext
<1>3. AgentsFollow'
  BY DEF PruneNext, AgentsFollow
<1>4. OneLeasePerId'
  BY DEF PruneNext, OneLeasePerId
<1>5. TreesStand'
  BY DEF PruneNext, Release, TreesStand, BeingReleased, TreeOf, Tree
<1>6. ReleaseInOrder'
  BY DEF PruneNext, Release, ReleaseInOrder, At, Id, ReleaseType, TypeOK
<1>7. NothingIsOrphaned'
  BY DEF PruneNext, Release, NothingIsOrphaned, IdsOf
<1> QED BY <1>1, <1>2, <1>3, <1>4, <1>5, <1>6, <1>7

\* A removal touches no other lease's worktree, and leaves its own whole only if
\* the id is excused.
LEMMA GitRemoveKeeps ==
  ASSUME ArbiterInv, GitRemove
  PROVE  ArbiterInv'
<1> USE ArbiterAssumption DEF ArbiterInv, Holding, agents, git, arbiter, history
<1> DEFINE rest == {t \in trees : t.id # Id}
           torn == {[t EXCEPT !.whole = FALSE] : t \in trees \ rest}
<1>a. /\ release \in ReleaseType /\ release.lease \in fleet \ todo /\ release # None
      /\ release' = [release EXCEPT !.step = "prune"]
      /\ UNCHANGED <<now, locked, agents, branches, fleet, todo>>
      /\ \/ trees' = rest /\ UNCHANGED history
         \/ Fault /\ trees' = rest \cup torn /\ UNCHANGED excused
         \/ Fault /\ excused' = excused \cup {Id} /\ UNCHANGED trees
  BY DEF GitRemove, At, Proceed, ReleaseInOrder
<1>b. /\ release' \in ReleaseType /\ release'.lease = release.lease /\ release'.step = "prune"
      /\ Id' = Id
  BY <1>a DEF ReleaseType, Id
<1>c. \A t \in torn : t \in TreeType /\ t.id = Id /\ ~t.whole
  BY DEF TreeType
<1>d. /\ rest \subseteq trees' /\ excused \subseteq excused'
      /\ \A t \in trees' : (t \in trees \/ t \in torn) /\ t \in TreeType /\ t.id \in IdsOf(trees)
      /\ Id \in excused' \/ \A t \in trees' : t.id = Id => ~t.whole
  <2>1. CASE trees' = rest /\ UNCHANGED history
    BY <2>1 DEF IdsOf
  <2>2. CASE Fault /\ trees' = rest \cup torn /\ UNCHANGED excused
    <3>1. \A t \in torn : t.id \in IdsOf(trees)
      BY <1>c DEF IdsOf
    <3> QED BY <2>2, <1>c DEF IdsOf
  <2>3. CASE Fault /\ excused' = excused \cup {Id} /\ UNCHANGED trees
    BY <2>3 DEF IdsOf
  <2> QED BY <1>a, <2>1, <2>2, <2>3
<1>1. TypeOK'
  <2>1. faults' \in 0..MaxFaults
    BY <1>a DEF TypeOK, Fault
  <2> QED BY <1>a, <1>b, <2>1 DEF TypeOK
<1>2. (trees \subseteq TreeType)'
  BY <1>d
<1>3. AgentsFollow'
  BY <1>a DEF AgentsFollow
<1>4. OneLeasePerId'
  BY <1>a DEF OneLeasePerId
<1>5. TreesStand'
  <2>1. ASSUME NEW l \in fleet, l # release.lease
        PROVE  TreeOf(l) \in trees'
    <3>1. l.id # Id /\ TreeOf(l) \in trees
      BY <2>1, <1>a DEF Id, OneLeasePerId, TreesStand, BeingReleased
    <3> QED BY <3>1, <1>d DEF TreeOf
  <2>2. ASSUME NEW a \in Agent, Holding(a)
        PROVE  Tree(a) \in trees'
    <3>1. lease[a].id # Id /\ Tree(a) \in trees
      BY <2>2, <1>a DEF Id, OneLeasePerId, TreesStand
    <3> QED BY <3>1, <1>d DEF Tree
  <2>3. release' # None
    BY <1>b, NoneAssumption
  <2> QED BY <1>a, <1>b, <2>1, <2>2, <2>3 DEF TreesStand, BeingReleased, Tree
<1>6. ReleaseInOrder'
  BY <1>a, <1>b, <1>d DEF ReleaseInOrder, At
<1>7. NothingIsOrphaned'
  <2>1. IdsOf(trees)' \subseteq IdsOf(trees)
    BY <1>d DEF IdsOf
  <2> QED BY <2>1, <1>a, <1>d DEF NothingIsOrphaned, IdsOf
<1> QED BY <1>1, <1>2, <1>3, <1>4, <1>5, <1>6, <1>7

\* What git prunes belonged to the lease being released, or was nobody's.
LEMMA GitPruneKeeps ==
  ASSUME ArbiterInv, GitPrune
  PROVE  ArbiterInv'
<1> USE ArbiterAssumption DEF ArbiterInv, Holding, agents, git, arbiter, history
<1>a. /\ release \in ReleaseType /\ release.lease \in fleet \ todo /\ release # None
      /\ Id \in excused \/ \A t \in trees : t.id = Id => ~t.whole
      /\ release' = [release EXCEPT !.step = "branch"]
      /\ UNCHANGED <<now, locked, agents, branches, fleet, todo>>
      /\ \/ trees' = {t \in trees : t.whole} /\ UNCHANGED history
         \/ Fault /\ excused' = excused \cup IdsOf({t \in trees : ~t.whole}) /\ UNCHANGED trees
  BY DEF GitPrune, At, Proceed, ReleaseInOrder
<1>b. /\ release' \in ReleaseType /\ release'.lease = release.lease /\ release'.step = "branch"
      /\ Id' = Id /\ release' # None
  BY <1>a, NoneAssumption DEF ReleaseType, Id
<1>c. /\ trees' \subseteq trees /\ excused \subseteq excused'
      /\ \A t \in trees : t.whole => t \in trees'
      /\ Id \in excused' \/ \A t \in trees' : t.id # Id
  BY <1>a DEF IdsOf
<1>1. TypeOK'
  <2>1. faults' \in 0..MaxFaults
    BY <1>a DEF TypeOK, Fault
  <2> QED BY <1>a, <1>b, <2>1 DEF TypeOK
<1>2. (trees \subseteq TreeType)'
  BY <1>c
<1>3. AgentsFollow'
  BY <1>a DEF AgentsFollow
<1>4. OneLeasePerId'
  BY <1>a DEF OneLeasePerId
<1>5. TreesStand'
  BY <1>a, <1>b, <1>c DEF TreesStand, BeingReleased, TreeOf, Tree
<1>6. ReleaseInOrder'
  BY <1>a, <1>b, <1>c DEF ReleaseInOrder, At
<1>7. NothingIsOrphaned'
  BY <1>a DEF NothingIsOrphaned, IdsOf
<1> QED BY <1>1, <1>2, <1>3, <1>4, <1>5, <1>6, <1>7

\* The lease may be forgotten: its branch and worktree are gone or excused.
LEMMA GitBranchDeleteKeeps ==
  ASSUME ArbiterInv, GitBranchDelete
  PROVE  ArbiterInv'
<1> USE ArbiterAssumption DEF ArbiterInv, Holding, agents, git, arbiter, history
<1>a. /\ release \in ReleaseType /\ release.lease \in fleet \ todo
      /\ Id \in excused \/ \A t \in trees : t.id # Id
      /\ release' = None /\ fleet' = fleet \ {release.lease}
      /\ UNCHANGED <<now, locked, agents, trees, todo>>
      /\ \/ branches' = (IF Id \in IdsOf(trees) THEN branches ELSE branches \ {Id}) /\ UNCHANGED history
         \/ Fault /\ excused' = excused \cup {Id} /\ UNCHANGED branches
  BY DEF GitBranchDelete, At, ReleaseInOrder
<1>b. /\ branches' \subseteq branches /\ branches \ {Id} \subseteq branches'
      /\ excused \subseteq excused'
      /\ Id \in excused' \/ Id \notin branches' \cup IdsOf(trees)
  BY <1>a DEF IdsOf
<1>c. /\ \A l \in fleet' : l.id # Id
      /\ \A a \in Agent : Holding(a) => lease[a].id # Id
  BY <1>a DEF OneLeasePerId, Id
<1>1. TypeOK'
  <2>1. faults' \in 0..MaxFaults
    BY <1>a DEF TypeOK, Fault
  <2> QED BY <1>a, <2>1 DEF TypeOK
<1>2. (trees \subseteq TreeType)'
  BY <1>a
<1>3. AgentsFollow'
  BY <1>a DEF AgentsFollow
<1>4. OneLeasePerId'
  BY <1>a, <1>b, <1>c DEF OneLeasePerId
<1>5. TreesStand'
  BY <1>a DEF TreesStand, BeingReleased, Tree
<1>6. ReleaseInOrder'
  BY <1>a DEF ReleaseInOrder, At
<1>7. NothingIsOrphaned'
  <2>1. IdsOf(fleet) \subseteq IdsOf(fleet)' \cup {Id}
    BY <1>a DEF IdsOf, Id
  <2> QED BY <1>a, <2>1 DEF NothingIsOrphaned, IdsOf
<1> QED BY <1>1, <1>2, <1>3, <1>4, <1>5, <1>6, <1>7

\* The index lock guards nothing the invariant speaks of.
LEMMA ToggleLockKeeps ==
  ASSUME ArbiterInv, ToggleLock
  PROVE  ArbiterInv'
<1> USE ArbiterAssumption DEF ArbiterInv, Holding, agents, git, arbiter, history
<1>1. TypeOK'
  BY DEF ToggleLock, TypeOK
<1>2. (trees \subseteq TreeType)'
  BY DEF ToggleLock
<1>3. AgentsFollow'
  BY DEF ToggleLock, AgentsFollow
<1>4. OneLeasePerId'
  BY DEF ToggleLock, OneLeasePerId
<1>5. TreesStand'
  BY DEF ToggleLock, TreesStand, BeingReleased, TreeOf, Tree
<1>6. ReleaseInOrder'
  BY DEF ToggleLock, ReleaseInOrder, At, Id
<1>7. NothingIsOrphaned'
  BY DEF ToggleLock, NothingIsOrphaned, IdsOf
<1> QED BY <1>1, <1>2, <1>3, <1>4, <1>5, <1>6, <1>7

\* Leases expire by themselves; the invariant does not ask whether they have.
LEMMA TickKeeps ==
  ASSUME ArbiterInv, Tick
  PROVE  ArbiterInv'
<1> USE ArbiterAssumption DEF ArbiterInv, Holding, agents, git, arbiter, history
<1>1. TypeOK'
  BY DEF Tick, TypeOK
<1>2. (trees \subseteq TreeType)'
  BY DEF Tick
<1>3. AgentsFollow'
  BY DEF Tick, AgentsFollow
<1>4. OneLeasePerId'
  BY DEF Tick, OneLeasePerId
<1>5. TreesStand'
  BY DEF Tick, TreesStand, BeingReleased, TreeOf, Tree
<1>6. ReleaseInOrder'
  BY DEF Tick, ReleaseInOrder, At, Id
<1>7. NothingIsOrphaned'
  BY DEF Tick, NothingIsOrphaned, IdsOf
<1> QED BY <1>1, <1>2, <1>3, <1>4, <1>5, <1>6, <1>7

\* Nothing is leased at first.
LEMMA InitSound == Init => ArbiterInv
<1> SUFFICES ASSUME Init PROVE ArbiterInv
  OBVIOUS
<1>1. release = None /\ fleet = {} /\ todo = {} /\ branches = {} /\ trees = {}
      /\ \A a \in Agent : pc[a] = "idle"
  BY DEF Init
<1>2. TypeOK
  <2>1. now \in 0..MaxTime /\ faults \in 0..MaxFaults /\ polls \in [Agent -> 0..MaxPolls]
    BY ArbiterAssumption DEF Init
  <2>2. locked \in BOOLEAN /\ lease \in [Agent -> LeaseType \cup {None}]
        /\ pc \in [Agent -> {"idle", "polling", "adding", "holding", "working", "dead"}]
    BY DEF Init
  <2> QED BY <1>1, <2>1, <2>2 DEF TypeOK
<1>3. trees \subseteq TreeType /\ AgentsFollow /\ OneLeasePerId /\ TreesStand
  BY <1>1 DEF AgentsFollow, OneLeasePerId, TreesStand, Holding
<1>4. ReleaseInOrder /\ NothingIsOrphaned
  BY <1>1 DEF ReleaseInOrder, NothingIsOrphaned, At, IdsOf
<1> QED BY <1>2, <1>3, <1>4 DEF ArbiterInv

\* A step that changes nothing keeps it.
LEMMA StutterKeeps ==
  ASSUME ArbiterInv, UNCHANGED vars
  PROVE  ArbiterInv'
<1> USE DEF ArbiterInv, vars, agents, git, arbiter, history
<1>1. TypeOK' /\ (trees \subseteq TreeType)'
  BY DEF TypeOK
<1>2. AgentsFollow'
  BY DEF AgentsFollow
<1>3. OneLeasePerId'
  BY DEF OneLeasePerId, Holding
<1>4. TreesStand'
  BY DEF TreesStand, BeingReleased, TreeOf, Tree, Holding
<1>5. ReleaseInOrder'
  BY DEF ReleaseInOrder, At, Id
<1>6. NothingIsOrphaned'
  BY DEF NothingIsOrphaned, IdsOf
<1> QED BY <1>1, <1>2, <1>3, <1>4, <1>5, <1>6

\* ArbiterInv is inductive: every action, of the agents, of the arbiter and of
\* git's other users, and the passing of time, keep it.
THEOREM StepKeepsTheArbiter == ArbiterInv /\ [Next]_vars => ArbiterInv'
<1> SUFFICES ASSUME ArbiterInv, [Next]_vars
             PROVE  ArbiterInv'
  OBVIOUS
<1>1. CASE UNCHANGED vars
  BY <1>1, StutterKeeps
<1>2. ASSUME NEW a \in Agent,
             \/ build_worktree_lease(a) \/ AgentStep(a) \/ refresh_lease_heartbeat(a)
             \/ RequestRelease(a) \/ Die(a)
      PROVE  ArbiterInv'
  BY <1>2, BuildWorktreeLeaseKeeps, WaitForIndexLockKeeps, AllocateWorktreeKeeps, RegisterKeeps,
     RefreshLeaseHeartbeatKeeps, RequestReleaseKeeps, DieKeeps DEF AgentStep
<1>3. CASE ArbiterStep
  BY <1>3, PruneStaleLeasesKeeps, PruneNextKeeps, GitRemoveKeeps, GitPruneKeeps, GitBranchDeleteKeeps
     DEF ArbiterStep
<1> QED BY <1>1, <1>2, <1>3, ToggleLockKeeps, TickKeeps DEF Next

\* The invariant holds in every reachable state.
LEMMA ArbiterInvHolds == Spec => []ArbiterInv
  BY InitSound, StepKeepsTheArbiter, PTL DEF Spec

\* What a lease promises, whoever dies and whatever git command fails or is
\* killed half way: a listed lease that is not being released has its worktree,
\* whole and its agent's, and nothing on disk is without a lease unless a
\* command that failed without having done anything let it slip.
THEOREM LeasesMatch == Spec => []LeasesMatchTheDisk
<1>1. ArbiterInv => LeasesMatchTheDisk
  BY DEF ArbiterInv, TreesStand, LeasesMatchTheDisk, LeasesAreHonoured, BeingReleased, TreeOf
<1> QED BY <1>1, ArbiterInvHolds, PTL

\* No two agents ever hold, or are listed with, the same lease id, though ids
\* of one second collide: git's refusal to make a branch twice is the only lock.
IdsAreExclusive ==
  /\ \A l, m \in fleet : l.id = m.id => l = m
  /\ \A a \in Agent, l \in fleet : Holding(a) => lease[a].id # l.id
  /\ \A a, b \in Agent : Holding(a) /\ Holding(b) /\ lease[a].id = lease[b].id => a = b

\* allocate_worktree (git worktree add -b) hands an id to one agent at a time.
THEOREM IdsExclusive == Spec => []IdsAreExclusive
<1>1. ArbiterInv => IdsAreExclusive
  BY DEF ArbiterInv, OneLeasePerId, IdsAreExclusive
<1> QED BY <1>1, ArbiterInvHolds, PTL
=============================================================================
