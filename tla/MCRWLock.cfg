CONSTANTS
  a = a
  b = b
  c1 = c1
  c2 = c2
  Contexts = {a, b, c1, c2}
  Pri <- McPri
  FirstWriters = {0}
SPECIFICATION Spec
INVARIANT ReadersImmediate
