------------------------- MODULE MC_FileIODescriptor -------------------------
(* Model-checking instance of FileIODescriptor: descriptors and names are  *)
(* model values; both sets are symmetric in the model and the properties.  *)
EXTENDS FileIODescriptor, TLC

CONSTANTS d1, d2, d3, n1, n2

DescNameSymmetry == Permutations(Descs) \cup Permutations(Names)
=============================================================================
