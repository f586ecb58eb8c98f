\* Three clients and a restart, on a platform on which closing a socket ends an
\* accept() that is blocked on it; the server program or any controlling thread.
\* The run may end: the server is destroyed and every client is done.
CONSTANTS
  Clients = {c1, c2, c3}
  MaxLaunches = 2
  CloseWakesAccept = TRUE
  Faults <- NoFaults
  Controllers = {"other", "start"}
SPECIFICATION ProgramSpec
INVARIANTS TypeOK NoTerminate FirstRunListens
PROPERTIES StopReturns QueuedIsResolved SignalEndsProgram
CHECK_DEADLOCK FALSE
