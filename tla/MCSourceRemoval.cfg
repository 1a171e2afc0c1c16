SPECIFICATION Spec
CONSTANTS
  la = la lb = lb
  NoLore = nolore
  Lores = {la, lb} Units = {1, 2} Idents = {1, 2} Runs = {r1, r2}
  UnitsOf <- MCUnitsOf Owned <- MCOwned
  MaxTurn = 1 MaxPublications = 2 MaxPatches = 1
INVARIANTS RemovedWasReadable OnlyDisturbedAsksAreRefused
CHECK_DEADLOCK FALSE
SYMMETRY RunSymmetry
