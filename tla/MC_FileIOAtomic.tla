--------------------------- MODULE MC_FileIOAtomic ---------------------------
(* Model-checking instance of FileIOAtomic: writers and readers are model  *)
(* values, and the inode bound covers one fresh temp file per writer run.  *)
EXTENDS FileIOAtomic, FileIOResult, TLC

CONSTANTS w1, w2, r1, r2

MCMaxInodes == 1 + Cardinality(Writers) * MaxOps

ProcSymmetry == Permutations(Writers) \cup Permutations(Readers)
=============================================================================
