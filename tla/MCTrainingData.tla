--------------------------- MODULE MCTrainingData ---------------------------
EXTENDS TrainingData, TLC
CONSTANTS r1, r2
MCRequests == {r1, r2}
MCSymmetry == Permutations(MCRequests)
=============================================================================
