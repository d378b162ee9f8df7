------------------------------ MODULE MCMapReduce ------------------------------
(* Properties of MapReduce, and small instances for TLC.                      *)
EXTENDS MapReduceProperties, TLC

(* Workers are interchangeable.                                               *)
Symmetry == Permutations(Worker)

=============================================================================
