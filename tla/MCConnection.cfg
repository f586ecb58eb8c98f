\* Three lines: one being answered, one waiting in the streambuf and one on its
\* way.
\* The run ends when the connection is closed.
CONSTANTS
  MaxLines = 3
  Window = 2
SPECIFICATION SessionSpec
INVARIANTS SessionTypeOK RepliesInOrder IdsMatch ExecutedOnceAndWhole ClosedForCause AnswersAreOwn
CHECK_DEADLOCK FALSE
PROPERTIES LinesAreAnswered SignalEndsSession
