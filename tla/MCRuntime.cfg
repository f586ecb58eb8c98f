\* Two threads, each of which dispatches or uses the registry, on one name with
\* two handlers, so that a handler can be replaced.
CONSTANTS
  Threads = {t1, t2}
  Names = {n1}
  Handlers = {h1, h2}
  EmptyName = EmptyName
  EmptyHandler = EmptyHandler
  Absent = Absent
  NoThread = NoThread
  Ids = {i1}
  NoId = NoId
  Codes <- MCCodes
  Uses <- MCUses
SPECIFICATION RuntimeSpec
PROPERTIES DispatchesAtomically DispatchEnds
