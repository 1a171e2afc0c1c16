--------------------------- MODULE MCSourceRemoval ---------------------------
(* Two runs, two states of the sources and two prompt parts of one unit     *)
(* each; the second state of the sources is owned only in part.             *)
EXTENDS SourceRemoval, TLC
CONSTANTS la, lb
MCUnitsOf == 1 :> {1} @@ 2 :> {2}
MCOwned == {<<la, 1>>, <<la, 2>>, <<lb, 2>>}
RunSymmetry == Permutations(Runs)
=============================================================================
