---------------------------- MODULE MCGeneration ----------------------------
(* Two sends and a dry run.                                                *)
EXTENDS Generation, TLC
SendSymmetry == Permutations(Sends)
=============================================================================
