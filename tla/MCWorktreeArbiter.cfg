\* Two agents with names that collide; each second has two ticks.
SPECIFICATION FairSpec
CONSTANTS
  Agent = {a1, a2}
  None = None
  Name = worker
  Sanitized <- OneSpelling
  TicksPerSecond = 2
  TTL = 2
  AllocateLimit = 1
  MaxPolls = 2
  MaxTime = 4
  MaxFaults = 1
INVARIANTS LeasesMatchTheDisk
PROPERTIES EveryAllocationEnds TheDeadAreReclaimed
