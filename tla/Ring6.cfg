SPECIFICATION Spec
CONSTANTS
  a = a  b = b  c = c  d = d
  Peer4 = {a, b, c}
  Peer6 = {d}
  MaxNumwant = 3
  DefaultNumwant = 1
  Numwants <- Asked
PROPERTIES
  SomeoneForEveryone
SYMMETRY RingSymmetry
CHECK_DEADLOCK FALSE
