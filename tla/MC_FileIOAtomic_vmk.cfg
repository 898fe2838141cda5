\* VMFS swap branch: two writers and a reader contend for Orig, the swap and
\* the temp-file steps and a release may fail, and one process may be killed.
CONSTANTS
  w1 = w1
  w2 = w2
  r1 = r1
  r2 = r2
  Writers = {w1, w2}
  Readers = {r1}
  IsVMK = TRUE
  Faults = {"fstat", "create", "fchown", "write", "close", "swap", "lockerr",
            "unlock"}
  MaxOps = 2
  MaxCrashes = 1
  MaxInodes <- MCMaxInodes
SYMMETRY ProcSymmetry
SPECIFICATION Spec
INVARIANT OrigIntact RoundTrip ReaderStable
PROPERTY AtomicFileSpec CommitReported
