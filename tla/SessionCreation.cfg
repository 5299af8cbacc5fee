SPECIFICATION Spec
CONSTANTS
  Key = {k1, k2}
  Device = {d1, d2}
  Workspace = {w1}
  Login = {l1, l2}
  NONE = NONE
  TerminalFaults = {}
  MaxGeneration = 3
INVARIANTS TypeOK InProgressIsRunning OwnCompletion ReleasedNeverCreated
PROPERTIES SucceededIsListed FencedNeverCompletes ImplementsContract
