\* A connection is open when the server program returns.
\* The run may end: the server is destroyed and every client is done.
CONSTANTS
  Clients = {c1}
  MaxLaunches = 1
  CloseWakesAccept = TRUE
  Faults <- NoFaults
  Controllers = {"start"}
SPECIFICATION ProgramSpec
INVARIANT CleanShutdown
CHECK_DEADLOCK FALSE
