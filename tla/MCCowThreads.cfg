\* Three threads, and all the blocks they can use at once: two for each thread but
\* one, which shares with nobody.
CONSTANTS
  Threads = {t1, t2, t3}
  Blocks = {b1, b2, b3, b4, b5}
  MaxSlots = 2
  Numbers = {1}
  Initial = 0
  Freed = Freed
  None = None
SPECIFICATION Spec
INVARIANTS HeapOK WriterIsAlone
PROPERTY WritesArePrivate
SYMMETRY Symmetry
