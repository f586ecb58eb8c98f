\* Two workers dispatching on a registry of two names and two handlers, which
\* changes at any time.
CONSTANTS
  Workers = {w1, w2}
  Names = {n1, n2}
  Handlers = {h1, h2}
  EmptyName = EmptyName
  Absent = Absent
  Ids = {i1}
  NoId = NoId
  Codes <- MCCodes
SPECIFICATION Spec
INVARIANTS TypeOK AnswerIsValid HandlerWasRegistered NotFoundWasMissing OwnErrorMeansChange
