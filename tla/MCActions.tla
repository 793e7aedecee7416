----------------------------- MODULE MCActions -----------------------------
(* Instances of Actions for TLC.                                           *)
EXTENDS Actions, TLC
CONSTANTS c1, c2, r1, r2

OneRun  == [c \in Calls |-> r1]
TwoRuns == [c \in Calls |-> IF c = c1 THEN r1 ELSE r2]
WorkerSymmetry == Permutations(Workers)
=============================================================================
