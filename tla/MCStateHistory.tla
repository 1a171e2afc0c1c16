--------------------------- MODULE MCStateHistory ---------------------------
(* Model-checking instance of StateHistory.  Candidates, commands and      *)
(* messages are only compared for equality: candidates and commands are    *)
(* symmetric, and messages are numbered in the order of their first use.   *)
(* All bounds together are out of reach, so each behaviour keeps to one of *)
(* two shapes, chosen when it starts: "swipes", one coordinate with two    *)
(* user messages, three swipes and two epochs, or "branches", three epochs *)
(* of two turns with one user message and no swipes.                       *)
EXTENDS StateHistory, FiniteSets, TLC

VARIABLE shape

Messages == {turns[t] : t \in DOMAIN turns}

InShape ==
  \/ /\ shape = "swipes"
     /\ DOMAIN branchEpochs \subseteq 0 .. 1
     /\ \A t \in DOMAIN turns : t[2] = 0
     /\ Messages = 1 .. Cardinality(Messages)
  \/ /\ shape = "branches"
     /\ \A c \in DOMAIN turnCandidates : turnCandidates[c].swipe = 0
     /\ Messages \subseteq {1}

MCInit == Init /\ shape \in {"swipes", "branches"}
MCNext == Next /\ UNCHANGED shape /\ InShape'
MCSpec == MCInit /\ [][MCNext]_<<vars, shape>>

Symmetry == Permutations(Candidate) \cup Permutations(Command)

=============================================================================
