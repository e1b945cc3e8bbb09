SPECIFICATION Spec
CONSTANTS
  Installations = {i1, i2, i3}
  Codes = {c1, c2}
  Keys = {k1, k2}
  Requests = {r1}
  MaxGeneration = 2
  Events = {"re_pair", "crash", "cli"}
  None = None
SYMMETRY Symmetry
INVARIANT CommandDeauthorizes
