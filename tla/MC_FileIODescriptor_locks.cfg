\* Three descriptors, two names, every access, lock errnos of both kinds
\* (one reported as LOCK_FAILED, one as FILE_NOT_FOUND) and failing
\* releases, four calls per descriptor.
CONSTANTS
  d1 = d1
  d2 = d2
  d3 = d3
  n1 = n1
  n2 = n2
  Descs = {d1, d2, d3}
  Names = {n1, n2}
  LockErrs = {"EROFS", "ENOENT"}
  UnlockFails = TRUE
  MaxCalls = 4
SYMMETRY DescNameSymmetry
SPECIFICATION Spec
INVARIANT ExclusiveAcrossDescriptors
PROPERTY AdvisoryLockSpec
