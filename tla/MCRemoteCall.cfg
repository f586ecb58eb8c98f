\* Numbers of three bits: every pair of them, and one more bit than fits.
\* An int has 16 bits, the fewest that hold the codes.
\* The run ends when the client has its answer.
CONSTANTS
  SignBit = 4
  IntSignBit = 32768
  Strings <- MCStrings
  Requests <- MCRequests
  Lines <- MCLines
  Answers <- MCAnswers
  Codes <- MCCodes
SPECIFICATION Spec
INVARIANTS NothingIsLost ForwardingIsTransparent IdComesBack AddIsExact
CHECK_DEADLOCK FALSE
