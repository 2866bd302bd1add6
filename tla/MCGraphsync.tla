----------------------------- MODULE MCGraphsync -----------------------------
(* Graphsync with interchangeable calls and CIDs.                          *)
EXTENDS Graphsync, TLC

Symmetry == Permutations(Calls) \cup Permutations(Cids)

=============================================================================
