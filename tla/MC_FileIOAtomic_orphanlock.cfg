\* Hosted branch, one writer and one reader, under weak fairness; the only
\* failure injected is a FileLock_Unlock that reports an error.
CONSTANTS
  w1 = w1
  w2 = w2
  r1 = r1
  r2 = r2
  Writers = {w1}
  Readers = {r1}
  IsVMK = FALSE
  Faults = {"unlock"}
  MaxOps = 1
  MaxCrashes = 0
  MaxInodes <- MCMaxInodes
SPECIFICATION FairSpec
PROPERTY LockEventuallyReleased
