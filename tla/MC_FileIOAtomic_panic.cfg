\* Hosted branch with no failure injected: a reader takes the lock in the
\* window between the bail's FileIO_Close(currFD) and the reopen.
CONSTANTS
  w1 = w1
  w2 = w2
  r1 = r1
  r2 = r2
  Writers = {w1}
  Readers = {r1}
  IsVMK = FALSE
  Faults = {}
  MaxOps = 1
  MaxCrashes = 0
  MaxInodes <- MCMaxInodes
SPECIFICATION Spec
INVARIANT NoPanic
