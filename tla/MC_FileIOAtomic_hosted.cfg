\* Hosted (rename) branch: one writer, two readers, every fault point of the
\* protocol that runs on this branch but a failed release, and one process
\* kill, under weak fairness per process.  No symmetry: the run checks a
\* liveness property.
CONSTANTS
  w1 = w1
  w2 = w2
  r1 = r1
  r2 = r2
  Writers = {w1}
  Readers = {r1, r2}
  IsVMK = FALSE
  Faults = {"fullpath", "create", "fchmod", "write", "rename", "lockerr", "open"}
  MaxOps = 2
  MaxCrashes = 1
  MaxInodes <- MCMaxInodes
SPECIFICATION FairSpec
INVARIANT OrigIntact RoundTrip
PROPERTY AtomicFileSpec LockEventuallyReleased CommitReported
