\* One writer whose write into the temp file fails and whose close of the
\* temp descriptor reports an error; no process is killed.
CONSTANTS
  w1 = w1
  w2 = w2
  r1 = r1
  r2 = r2
  Writers = {w1}
  Readers = {}
  IsVMK = FALSE
  Faults = {"write", "close"}
  MaxOps = 1
  MaxCrashes = 0
  MaxInodes <- MCMaxInodes
SPECIFICATION Spec
INVARIANT SiblingCleanedUp
