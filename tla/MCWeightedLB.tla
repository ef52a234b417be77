---------------------------- MODULE MCWeightedLB ----------------------------
\* WeightedLB with up to three endpoints of weights 1 to 4: all 84 weight
\* vectors, every position of their rounds.
EXTENDS WeightedLB

MCWeights == 1 .. 4
=============================================================================
