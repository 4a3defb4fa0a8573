CONSTANTS
  Blocks = {b1, b2, b3}
  Idle = Idle
  Null = Null
  Junk = Junk
SYMMETRY Sym
SPECIFICATION Spec
INVARIANT
  NoneLeaked
