-------------------------- MODULE MCUsageRecording --------------------------
EXTENDS UsageRecording, TLC

CONSTANTS a, b, k1, deleted

Symmetry == Permutations(Workers)
=============================================================================
