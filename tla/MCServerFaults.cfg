\* The same lifecycle when accept() and the creation of threads may fail, on a
\* platform on which closing a socket does not end a blocked accept() (Linux).
\* The run may end: the server is destroyed and every client is done.
CONSTANTS
  Clients = {c1, c2, c3}
  MaxLaunches = 2
  CloseWakesAccept = FALSE
  Faults <- AllFaults
  Controllers = {"other"}
SPECIFICATION ProgramSpec
INVARIANTS StopLeavesNothing NobodyLeftQueued
PROPERTIES NoAcceptAfterStop StopWaitsOnlyForClient
CHECK_DEADLOCK FALSE
