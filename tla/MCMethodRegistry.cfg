\* Two threads in the registry at once, with two names and two handlers:
\* every pair of operations overlaps in every way.
CONSTANTS
  Threads = {t1, t2}
  Names = {n1, n2}
  Handlers = {h1, h2}
  EmptyName = EmptyName
  EmptyHandler = EmptyHandler
  Absent = Absent
  NoThread = NoThread
SPECIFICATION FairSpec
INVARIANTS TypeOK MutualExclusion IteratorsValid ListIsSnapshot
PROPERTIES Linearizable LockIsReleased
