--------------------------- MODULE WorktreeArbiter ---------------------------
(***************************************************************************)
(* Leases on git worktrees (worktree_arbiter.py).  Agents allocate, each   *)
(* in a process of its own; one arbiter keeps the list of leases, refreshes*)
(* and releases them on request, and prunes the expired.  Git is outside:  *)
(* its commands may fail, or be killed by their time limit half way        *)
(* (MaxFaults bounds how often).  A lease's branch and path are functions  *)
(* of its id.  No code records a process group in a lease, so that         *)
(* terminate_lease_process_group has nothing to do.                        *)
(***************************************************************************)
EXTENDS Integers, FiniteSets

CONSTANTS
  Agent,
  Sanitized,      \* an agent's name as generate_lease_id spells it
  TicksPerSecond, \* lease ids have a resolution of one second
  TTL,            \* the term of a lease, in ticks
  AllocateLimit,  \* the longest an allocation takes: polls and git's time limit
  MaxPolls,       \* wait_for_index_lock's max_attempts
  MaxTime,        \* bound: the last tick; leases that outlive it are not made
  MaxFaults,      \* bound: git commands that go wrong by themselves
  None

ASSUME ArbiterAssumption ==
  /\ {TicksPerSecond, TTL, AllocateLimit, MaxPolls} \subseteq Nat \ {0}
  /\ {MaxTime, MaxFaults} \subseteq Nat
  /\ AllocateLimit < TTL

VARIABLES
  now,
  locked,    \* somebody's .git/index.lock exists
  pc,        \* what each agent does
  polls,     \* how often it has found the lock
  lease,     \* the lease it has built or holds
  branches,  \* git's branches, by lease id
  trees,     \* git's worktrees; a whole one still has its directory
  fleet,     \* the leases the arbiter knows
  release,   \* the release_worktree in progress
  todo,      \* the expired leases prune_stale_leases has still to release
  faults,
  excused    \* ids that git, or an agent's death before it registered, let slip

agents == <<pc, polls, lease>>
git == <<branches, trees>>
arbiter == <<fleet, release, todo>>
history == <<faults, excused>>
vars == <<now, locked, agents, git, arbiter, history>>

Lease(a) ==
  [id |-> <<Sanitized[a], now \div TicksPerSecond>>, agent |-> a, expires |-> now + TTL]

Init ==
  /\ now = 0 /\ locked = FALSE
  /\ pc = [a \in Agent |-> "idle"]
  /\ polls = [a \in Agent |-> 0] /\ lease = [a \in Agent |-> None]
  /\ branches = {} /\ trees = {}
  /\ fleet = {} /\ release = None /\ todo = {}
  /\ faults = 0 /\ excused = {}

GoTo(a, where) == pc' = [pc EXCEPT ![a] = where]
Fault == faults < MaxFaults /\ faults' = faults + 1

build_worktree_lease(a) ==
  /\ pc[a] = "idle" /\ now + TTL <= MaxTime
  /\ GoTo(a, "polling")
  /\ polls' = [polls EXCEPT ![a] = 0] /\ lease' = [lease EXCEPT ![a] = Lease(a)]
  /\ UNCHANGED <<now, locked, git, arbiter, history>>

\* Mutant of wait_for_index_lock: no bound on the attempts.
wait_for_index_lock_forever(a) ==
  /\ pc[a] = "polling"
  /\ GoTo(a, IF locked THEN "polling" ELSE "adding")
  /\ UNCHANGED <<now, locked, polls, lease, git, arbiter, history>>

\* One look at the lock.  It may be taken again before git runs.
wait_for_index_lock(a) ==
  /\ pc[a] = "polling"
  /\ polls' = [polls EXCEPT ![a] = IF locked THEN @ + 1 ELSE @]
  /\ GoTo(a, CASE ~locked -> "adding"
               [] polls[a] + 1 < MaxPolls -> "polling"
               [] OTHER -> "idle")
  /\ UNCHANGED <<now, locked, lease, git, arbiter, history>>

Tree(a) == [id |-> lease[a].id, agent |-> a, whole |-> TRUE]
IdsOf(S) == {s.id : s \in S}

\* Mutant of allocate_worktree: --force -B takes over a branch that exists.
allocate_worktree_forced(a) ==
  /\ pc[a] = "adding"
  /\ branches' = branches \cup {lease[a].id}
  /\ trees' = {t \in trees : t.id # lease[a].id} \cup {Tree(a)}
  /\ GoTo(a, "holding")
  /\ UNCHANGED <<now, locked, polls, lease, arbiter, history>>

\* git worktree add -b refuses a branch that exists, may fail while the index
\* is locked, and may be killed when it has made the branch, or all of it.
allocate_worktree(a) ==
  /\ pc[a] = "adding"
  /\ \/ /\ lease[a].id \notin branches
        /\ branches' = branches \cup {lease[a].id}
        /\ \/ GoTo(a, "holding") /\ trees' = trees \cup {Tree(a)} /\ UNCHANGED history
           \/ /\ Fault
              /\ trees' \in {trees, trees \cup {Tree(a)}}
              /\ excused' = excused \cup {lease[a].id}
              /\ GoTo(a, "idle")
     \/ /\ lease[a].id \in branches \/ locked
        /\ GoTo(a, "idle") /\ UNCHANGED <<git, history>>
  /\ UNCHANGED <<now, locked, polls, lease, arbiter>>

\* The arbiter serves one request at a time.
Serving == release = None /\ todo = {}

Register(a) ==
  /\ Serving /\ pc[a] = "holding"
  /\ fleet' = fleet \cup {lease[a]}
  /\ GoTo(a, "working")
  /\ UNCHANGED <<now, locked, polls, lease, git, release, todo, history>>

\* A heartbeat replaces the lease; an agent whose lease is gone gives up.
refresh_lease_heartbeat(a) ==
  /\ Serving /\ pc[a] = "working"
  /\ IF \E l \in fleet : l.agent = a
       THEN /\ now + TTL <= MaxTime
            /\ fleet' = {IF l.agent = a THEN [l EXCEPT !.expires = now + TTL] ELSE l
                           : l \in fleet}
            /\ UNCHANGED pc
       ELSE GoTo(a, "idle") /\ UNCHANGED fleet
  /\ UNCHANGED <<now, locked, polls, lease, git, release, todo, history>>

is_lease_expired(l) == now >= l.expires

Release(l) == [lease |-> l, step |-> "remove"]

\* An agent that has finished asks for the release of its lease.
RequestRelease(a) ==
  /\ Serving /\ pc[a] = "working"
  /\ \E l \in fleet : l.agent = a /\ release' = Release(l)
  /\ UNCHANGED <<now, locked, agents, git, fleet, todo, history>>

\* The time is read once, before the first lease is released.
prune_stale_leases ==
  /\ Serving
  /\ todo' = {l \in fleet : is_lease_expired(l)} /\ todo' # {}
  /\ UNCHANGED <<now, locked, agents, git, fleet, release, history>>

PruneNext ==
  /\ release = None
  /\ \E l \in todo : release' = Release(l) /\ todo' = todo \ {l}
  /\ UNCHANGED <<now, locked, agents, git, fleet, history>>

At(step) == release # None /\ release.step = step
Id == release.lease.id
Proceed(step) == release' = [release EXCEPT !.step = step]

\* Mutant of GitRemove: without --force git refuses a worktree that is in use.
GitRemoveUnforced ==
  /\ At("remove") /\ Proceed("prune")
  /\ UNCHANGED <<now, locked, agents, git, fleet, todo, history>>

\* git worktree remove --force: done; or failed; or killed when the directory
\* is gone and git's record of it is not.
GitRemove ==
  /\ At("remove") /\ Proceed("prune")
  /\ LET rest == {t \in trees : t.id # Id}
         torn == {[t EXCEPT !.whole = FALSE] : t \in trees \ rest}
     IN \/ trees' = rest /\ UNCHANGED history
        \/ Fault /\ trees' = rest \cup torn /\ UNCHANGED excused
        \/ Fault /\ excused' = excused \cup {Id} /\ UNCHANGED trees
  /\ UNCHANGED <<now, locked, agents, branches, fleet, todo>>

\* git worktree prune forgets every worktree whose directory is gone.
GitPrune ==
  /\ At("prune") /\ Proceed("branch")
  /\ \/ trees' = {t \in trees : t.whole} /\ UNCHANGED history
     \/ Fault /\ excused' = excused \cup IdsOf({t \in trees : ~t.whole}) /\ UNCHANGED trees
  /\ UNCHANGED <<now, locked, agents, branches, fleet, todo>>

\* git branch -D refuses a branch that a worktree has checked out.  The lease
\* is forgotten whether the release has succeeded or not.
GitBranchDelete ==
  /\ At("branch")
  /\ \/ branches' = (IF Id \in IdsOf(trees) THEN branches ELSE branches \ {Id}) /\ UNCHANGED history
     \/ Fault /\ excused' = excused \cup {Id} /\ UNCHANGED branches
  /\ release' = None
  /\ fleet' = fleet \ {release.lease}
  /\ UNCHANGED <<now, locked, agents, trees, todo>>

Die(a) ==
  /\ pc[a] \in {"holding", "working"}
  /\ GoTo(a, "dead")
  /\ excused' = IF pc[a] = "holding" THEN excused \cup {lease[a].id} ELSE excused
  /\ UNCHANGED <<now, locked, polls, lease, git, arbiter, faults>>

\* Other git commands take and release the index lock as they like.
ToggleLock ==
  /\ locked' = ~locked
  /\ UNCHANGED <<now, agents, git, arbiter, history>>

Allocating(a) == pc[a] \in {"polling", "adding"}

Tick ==
  /\ now < MaxTime /\ now' = now + 1
  /\ \A a \in Agent : Allocating(a) => now < lease[a].expires - TTL + AllocateLimit
  /\ UNCHANGED <<locked, agents, git, arbiter, history>>

AgentStep(a) == wait_for_index_lock(a) \/ allocate_worktree(a) \/ Register(a)
ArbiterStep == prune_stale_leases \/ PruneNext \/ GitRemove \/ GitPrune \/ GitBranchDelete

Next ==
  \/ \E a \in Agent :
       \/ build_worktree_lease(a) \/ AgentStep(a) \/ refresh_lease_heartbeat(a)
       \/ RequestRelease(a) \/ Die(a)
  \/ ArbiterStep \/ ToggleLock \/ Tick

Spec == Init /\ [][Next]_vars

\* Allocations proceed, time passes, and the arbiter prunes again and again.
FairSpec ==
  Spec /\ WF_vars(Tick) /\ WF_vars(ArbiterStep) /\ \A a \in Agent : WF_vars(AgentStep(a))
-----------------------------------------------------------------------------
LeaseType == [id : {Sanitized[a] : a \in Agent} \X (0..MaxTime), agent : Agent, expires : 0..MaxTime]
ReleaseType == [lease : LeaseType, step : {"remove", "prune", "branch"}]

ASSUME NoneAssumption == None \notin ReleaseType

\* Every variable keeps its type, and the arbiter lists no agent twice.
TypeOK ==
  /\ now \in 0..MaxTime /\ locked \in BOOLEAN
  /\ pc \in [Agent -> {"idle", "polling", "adding", "holding", "working", "dead"}]
  /\ polls \in [Agent -> 0..MaxPolls] /\ lease \in [Agent -> LeaseType \cup {None}]
  /\ fleet \subseteq LeaseType /\ todo \subseteq fleet
  /\ \A l, m \in fleet : l.agent = m.agent => l = m
  /\ release = None \/ release.lease \in fleet
  /\ faults \in 0..MaxFaults

\* An agent that heartbeats keeps its worktree: as long as a listed lease has
\* not expired and is not being released, the worktree is there, whole and made
\* by the agent the lease is for, though lease ids of a second collide and the
\* path of an id may be freed and taken again.
LeasesAreHonoured ==
  \A l \in fleet :
    \/ is_lease_expired(l) \/ (release # None /\ release.lease = l)
    \/ [id |-> l.id, agent |-> l.agent, whole |-> TRUE] \in trees

\* Pruning forgets a lease also when its release failed; even so no worktree
\* and no branch is left that no lease names, unless git refused without having
\* done anything: a removal killed half way is made good by git worktree prune.
NothingIsOrphaned ==
  branches \cup IdsOf(trees) \subseteq
    IdsOf(fleet) \cup {lease[a].id : a \in {b \in Agent : pc[b] = "holding"}} \cup excused

\* What holds of the leases and what git has on disk, whoever dies and whatever fails.
LeasesMatchTheDisk == TypeOK /\ LeasesAreHonoured /\ NothingIsOrphaned

\* wait_for_index_lock is bounded: every allocation ends, though others keep
\* the index locked.
EveryAllocationEnds == \A a \in Agent : Allocating(a) ~> ~Allocating(a)

\* The worktree of an agent that died is reclaimed when its lease expires, with
\* its branch, unless git refused.
TheDeadAreReclaimed ==
  \A a \in Agent : pc[a] = "dead" ~>
    lease[a] # None /\ lease[a].id \notin (branches \cup IdsOf(trees)) \ excused
=============================================================================
