\* Hosted branch, two writers, no failure injected: a second writer takes
\* the lock in the reopen window and commits before the first one reopens.
CONSTANTS
  w1 = w1
  w2 = w2
  r1 = r1
  r2 = r2
  Writers = {w1, w2}
  Readers = {}
  IsVMK = FALSE
  Faults = {}
  MaxOps = 1
  MaxCrashes = 0
  MaxInodes <- MCMaxInodes
SPECIFICATION Spec
INVARIANT RoundTrip
