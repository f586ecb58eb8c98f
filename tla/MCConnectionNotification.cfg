\* One line is enough.
CONSTANTS
  MaxLines = 1
  Window = 2
SPECIFICATION SessionSpec
INVARIANT NotificationsGetNoReply
CHECK_DEADLOCK FALSE
