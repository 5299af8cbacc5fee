SPECIFICATION PersistentSpec
CONSTANTS
  Key = {k1}
  Device = {d1, d2}
  Workspace = {w1}
  Login = {l1}
  NONE = NONE
  TerminalFaults = {"undecryptable", "wrong_operation"}
  MaxGeneration = 2
PROPERTIES CommittedAttemptKept CallsEnd CreatedAttemptResolves
