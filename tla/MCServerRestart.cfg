\* A server that is stopped and started again.
\* The run may end: the server is destroyed and every client is done.
CONSTANTS
  Clients = {c1}
  MaxLaunches = 2
  CloseWakesAccept = FALSE
  Faults <- NoFaults
  Controllers = {"other"}
SPECIFICATION ProgramSpec
INVARIANT RunningMeansListening
CHECK_DEADLOCK FALSE
