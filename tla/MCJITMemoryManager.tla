------------------------ MODULE MCJITMemoryManager ------------------------
EXTENDS JITMemoryManager, TLC

CONSTANTS f1, f2

MCFunctions == {f1, f2}
FunctionSymmetry == Permutations(MCFunctions)
=============================================================================
