SPECIFICATION Spec
CONSTANTS
  Installations = {i1, i2, i3}
  Codes = {c1}
  Keys = {k1, k2}
  Requests = {r1}
  MaxGeneration = 2
  Events = {"re_pair", "deauthorize", "local_reset", "revoked", "replaced", "heartbeat", "pause", "retryable", "permanent", "expire", "crash", "corrupt", "cli"}
  None = None
SYMMETRY Symmetry
INVARIANTS RefusedOnlyIfMarred PauseSupersedable SamplesOfBinding
