\* Two Values that copies, moves and nested writes make share, arrays and objects;
\* enough blocks to clone a shared object and then the shared object in it.
CONSTANTS
  Vars = {x, y}
  Numbers = {1}
  Kinds = {"Array", "Object"}
  NoVar = NoVar
  Temp = Temp
  MaxSlots = 1
  MaxBlocks = 4
  SelfNesting = FALSE
SPECIFICATION Spec
INVARIANT HeapOK
PROPERTY CopyOnWrite
SYMMETRY Symmetry
