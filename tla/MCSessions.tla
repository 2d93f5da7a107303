------------------------------ MODULE MCSessions ------------------------------
EXTENDS Sessions, TLC
ChangerSymmetry == Permutations(Changers)
=============================================================================
