SPECIFICATION Spec
CONSTANTS
  Installations = {i1, i2, i3, i4}
  Codes = {c1, c2}
  Keys = {k1, k2, k3}
  Requests = {r1}
  MaxGeneration = 3
  Events = {"re_pair", "deauthorize", "crash", "corrupt"}
  None = None
SYMMETRY Symmetry
INVARIANT StartNeverRefused
