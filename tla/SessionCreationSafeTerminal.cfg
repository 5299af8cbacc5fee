SPECIFICATION Spec
CONSTANTS
  Key = {k1, k2}
  Device = {d1}
  Workspace = {w1}
  Login = {l1}
  NONE = NONE
  TerminalFaults = {"undecryptable", "wrong_operation"}
  MaxGeneration = 2
INVARIANT ReleasedNeverCreated
