SPECIFICATION FairSpec
CONSTANTS
  Thread = {t1, t2, t3}
  Dir = {d1, d2}
  Listing = {Empty, Docs}
  EmptyListing = Empty
  Unscanned = Unscanned
  NoDir = NoDir
  NoLock = NoLock
  NoThread = NoThread
INVARIANTS ScansAreShared
PROPERTIES EveryCallReturns ImplementsSharedListing
