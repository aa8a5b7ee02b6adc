-------------------------- MODULE MCAggregateCommit --------------------------
EXTENDS AggregateCommit, TLC

\* Repetitions differ in nothing but their names.
MCSymmetry == Permutations(Repetitions)
=============================================================================
