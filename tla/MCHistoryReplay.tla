--------------------------- MODULE MCHistoryReplay ---------------------------
(***************************************************************************)
(* Instance of the two replays.  Each behaviour keeps to one of them,      *)
(* chosen when it starts.                                                  *)
(*                                                                         *)
(* "history": three replies on two turns, two epochs.                      *)
(* "baseline": two intakes of the source, the second of other lore, that   *)
(* publish different Concepts, and one of the target's own, of the same    *)
(* lore as the package; one Concept links to another.                      *)
(***************************************************************************)
EXTENDS HistoryReplay, BaselineReplay

MCIds == 1 .. 3

MCConcept    == {"bram", "ada", "inn"}
MCSnapshotOf == <<0, 1, 0>>
MCConceptsOf == <<{"bram", "ada"}, {"ada", "inn"}, {"inn"}>>
MCLinksOf    == <<{<<"bram", "ada">>}, {}, {}>>

VARIABLE shape

historyVars == <<vars, history, replay, replays, died, target, tLog>>
MCVars == <<historyVars, baselineVars, shape>>

MCInit == ReplayInit /\ BaselineInit /\ shape \in {"history", "baseline"}

MCNext ==
  \/ shape = "history" /\ ReplayNext /\ UNCHANGED <<baselineVars, shape>>
  \/ shape = "baseline" /\ BaselineNext /\ UNCHANGED <<historyVars, shape>>

MCSpec == MCInit /\ [][MCNext]_MCVars
=============================================================================
