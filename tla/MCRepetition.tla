---------------------------- MODULE MCRepetition ----------------------------
EXTENDS Repetition, TLC

MCSymmetry == Permutations(Cases)
=============================================================================
