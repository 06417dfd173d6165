SPECIFICATION Spec
CONSTANTS
  Pods = {p1}
  Updates = {w1, w2, w3, w4}
  Sessions = {s1, s2, s3}
  Colors = {red, blue}
  Diffusers = {d1, d2}
  Dark = Dark
  Off = Off
  Full = 2
SYMMETRY Sym
INVARIANTS HardwareFollows SessionTimed
CONSTRAINT Claimed
