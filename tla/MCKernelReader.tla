--------------------------- MODULE MCKernelReader ---------------------------
EXTENDS KernelReaderImplements, TLC

Symmetry == Permutations(Requests) \cup Permutations(Objects)
=============================================================================
