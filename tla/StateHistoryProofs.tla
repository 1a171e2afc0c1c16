------------------------- MODULE StateHistoryProofs -------------------------
(***************************************************************************)
(* Safety of the history ledger for every set of candidates, commands and  *)
(* user messages and every bound on epochs, indices and swipes.            *)
(*                                                                         *)
(* The inductive invariant is the conjunction of the invariants that the   *)
(* runs check.  None of them is inductive alone: that a turn keeps an      *)
(* active reply needs the tables to agree, that the next epoch is free     *)
(* needs the active epoch to be the latest, and all of them need the type  *)
(* invariant.                                                              *)
(***************************************************************************)
EXTENDS StateHistory, WellFoundedInduction, TLAPS

IInv ==
  /\ TypeOK
  /\ OneActiveReply
  /\ TablesAgree
  /\ OneActiveEpoch
  /\ AncestryWellFounded
  /\ HeadCoversTurns
  /\ DeletionsAccounted

-----------------------------------------------------------------------------
(* Facts about the operators the actions are built from.                   *)

(* Inserting a row adds its key and disturbs no other row.                 *)
LEMMA InsertRow ==
  ASSUME NEW table, NEW key, NEW row
  PROVE  /\ DOMAIN Insert(table, key, row) = DOMAIN table \cup {key}
         /\ Insert(table, key, row)[key] = row
         /\ \A k \in DOMAIN table : k # key => Insert(table, key, row)[k] = table[k]
BY DEF Insert

(* Inserting a well-typed row keeps a table well typed.                    *)
LEMMA InsertType ==
  ASSUME NEW table, NEW key, NEW row, NEW Row,
         table \in [DOMAIN table -> Row], row \in Row
  PROVE  Insert(table, key, row) \in [DOMAIN Insert(table, key, row) -> Row]
BY DEF Insert

-----------------------------------------------------------------------------
(* The empty ledger of a new chat satisfies the invariant.                 *)
LEMMA InitInvariant == Init => IInv
<1> SUFFICES ASSUME Init PROVE IInv
  OBVIOUS
<1>1. TypeOK
  BY DEF Init, TypeOK
<1>2. OneActiveReply /\ TablesAgree /\ OneActiveEpoch /\ AncestryWellFounded
  BY DEF Init, OneActiveReply, TablesAgree, OneActiveEpoch, AncestryWellFounded
<1>3. HeadCoversTurns /\ DeletionsAccounted
  BY DEF Init, HeadCoversTurns, DeletionsAccounted
<1> QED
  BY <1>1, <1>2, <1>3 DEF IInv

(* Committing a reply: the new epoch row, if any, is the root.             *)
LEMMA CommitTurnStep ==
  ASSUME IInv,
         NEW c \in Candidate, NEW e \in Epoch, NEW i \in Index, NEW s \in Swipe,
         NEW user \in UserMessage, NEW thread \in Thread,
         CommitTurn(c, e, i, s, user, thread)
  PROVE  IInv'
<1> USE BoundsAssumption, NoneAssumption
<1> DEFINE t == <<e, i>>
           existing == t \in DOMAIN turns
           row == [turn |-> t, swipe |-> s,
                   status |-> IF existing THEN "inactive" ELSE "active"]
<1>t. t \in Turn
  BY DEF Turn
<1>1. /\ c \notin DOMAIN turnCandidates
      /\ turnCandidates' = Insert(turnCandidates, c, row)
      /\ patches' = Insert(patches, c, IF existing THEN "prepared" ELSE "applied")
      /\ turnMemoryRecords' =
           Insert(turnMemoryRecords, c, [status |-> "active", thread |-> thread])
      /\ historyEvents' = historyEvents
      /\ turns' = IF existing THEN turns ELSE Insert(turns, t, user)
  BY DEF CommitTurn
<1>2. /\ DOMAIN branchEpochs = {} \/ ActiveEpoch(e)
      /\ branchEpochs' = IF existing THEN branchEpochs
                         ELSE [WithRoot(e) EXCEPT ![e] = AdvanceHead(@, i)]
  BY DEF CommitTurn
<1>3. TypeOK
  BY DEF IInv
<1>4. row \in CandidateRow
  BY <1>t DEF CandidateRow
<1>5. TypeOK'
  <2>1. /\ DOMAIN turnCandidates' \subseteq Candidate
        /\ turnCandidates' \in [DOMAIN turnCandidates' -> CandidateRow]
    BY <1>1, <1>3, <1>4 DEF TypeOK, Insert
  <2>2. patches' \in [DOMAIN turnCandidates' -> PatchStatus]
    BY <1>1, <1>3, InsertRow DEF TypeOK, Insert, PatchStatus
  <2>3. turnMemoryRecords' \in [DOMAIN turnCandidates' -> RecordRow]
    BY <1>1, <1>3, InsertRow DEF TypeOK, Insert, RecordRow
  <2>4. /\ DOMAIN turns' \subseteq Turn
        /\ turns' \in [DOMAIN turns' -> UserMessage]
    BY <1>1, <1>3, <1>t DEF TypeOK, Insert
  <2>5. /\ DOMAIN branchEpochs' \subseteq Epoch
        /\ branchEpochs' \in [DOMAIN branchEpochs' -> BranchRow]
    BY <1>2, <1>3 DEF TypeOK, WithRoot, AdvanceHead, RootBranch, BranchRow,
       Index, ActiveEpoch
  <2> QED
    BY <1>1, <1>3, <2>1, <2>2, <2>3, <2>4, <2>5 DEF TypeOK
<1>6. OneActiveReply'
  <2>1. ASSUME NEW x
        PROVE  ActiveOf(x)' = IF x = t /\ ~ existing
                              THEN ActiveOf(x) \cup {c} ELSE ActiveOf(x)
    BY <1>1, <1>3 DEF TypeOK, ActiveOf, CandidatesOf, Insert
  <2>2. ~ existing => ActiveOf(t) = {}
    BY DEF IInv, HeadCoversTurns, ActiveOf, CandidatesOf
  <2>3. DOMAIN turns' = DOMAIN turns \cup {t}
    BY <1>1 DEF Insert
  <2>4. \A x \in DOMAIN turns : ActiveOf(x) # {} /\ AtMostOne(ActiveOf(x))
    BY DEF IInv, OneActiveReply
  <2>5. ASSUME NEW x \in DOMAIN turns'
        PROVE  ActiveOf(x)' # {} /\ AtMostOne(ActiveOf(x)')
    <3>1. CASE x = t /\ ~ existing
      BY <2>1, <2>2, <3>1 DEF AtMostOne
    <3>2. CASE ~ (x = t /\ ~ existing)
      BY <2>1, <2>3, <2>4, <3>2
    <3> QED
      BY <3>1, <3>2
  <2> QED
    BY <2>5 DEF OneActiveReply, AtMostOne
<1>7. TablesAgree'
  BY <1>1, <1>3, IInv DEF IInv, TypeOK, TablesAgree, Insert, Swipe
<1>8. OneActiveEpoch' /\ AncestryWellFounded'
  BY <1>2, <1>3, IInv DEF IInv, TypeOK, OneActiveEpoch, AncestryWellFounded,
     ActiveEpoch, WithRoot, AdvanceHead, RootBranch, BranchRow
<1>9. HeadCoversTurns'
  BY <1>1, <1>2, <1>3, <1>t, IInv DEF IInv, TypeOK, HeadCoversTurns, Insert, ActiveEpoch,
     WithRoot, AdvanceHead, RootBranch, BranchRow, Index, Turn
<1>10. DeletionsAccounted'
  BY <1>1, <1>3, IInv DEF IInv, TypeOK, DeletionsAccounted, Insert
<1> QED
  BY <1>5, <1>6, <1>7, <1>8, <1>9, <1>10 DEF IInv

-----------------------------------------------------------------------------
(* Swapping the active reply of one turn.                                  *)
LEMMA ActivateStep ==
  ASSUME IInv, NEW t, NEW target \in CandidatesOf(t), Activate(t, target),
         turnCandidates[target].status = "inactive",
         UNCHANGED <<branchEpochs, turns, turnMemoryRecords>>
  PROVE  /\ turnCandidates' \in [DOMAIN turnCandidates -> CandidateRow]
         /\ patches' \in [DOMAIN turnCandidates -> PatchStatus]
         /\ OneActiveReply'
         /\ TablesAgree'
         /\ HeadCoversTurns'
         /\ \A c \in DOMAIN turnCandidates :
              turnCandidates'[c].status = "deleted"
                <=> turnCandidates[c].status = "deleted"
<1>1. TypeOK /\ target \in DOMAIN turnCandidates
  BY DEF IInv, CandidatesOf
<1>2. turnCandidates' \in [DOMAIN turnCandidates -> CandidateRow]
  BY <1>1 DEF TypeOK, Activate, CandidateRow
<1>3. patches' \in [DOMAIN turnCandidates -> PatchStatus]
  BY <1>1 DEF TypeOK, Activate, PatchStatus
<1>4. \A c \in DOMAIN turnCandidates :
        /\ turnCandidates'[c].turn = turnCandidates[c].turn
        /\ turnCandidates'[c].swipe = turnCandidates[c].swipe
        /\ turnCandidates'[c].status =
             IF c = target THEN "active"
             ELSE IF c \in ActiveOf(t) THEN "inactive"
             ELSE turnCandidates[c].status
        /\ patches'[c] = IF c = target THEN "applied"
                         ELSE IF c \in ActiveOf(t) THEN "rolled_back"
                         ELSE patches[c]
  BY <1>1 DEF TypeOK, Activate, CandidateRow
<1>5. DOMAIN turnCandidates' = DOMAIN turnCandidates
  BY <1>2
<1>6. ActiveOf(t)' = {target}
  BY <1>4, <1>5 DEF ActiveOf, CandidatesOf
<1>7. \A x : x # t => ActiveOf(x)' = ActiveOf(x)
  BY <1>4, <1>5 DEF ActiveOf, CandidatesOf
<1>8. OneActiveReply'
  <2>1. ASSUME NEW x \in DOMAIN turns
        PROVE  ActiveOf(x)' # {} /\ AtMostOne(ActiveOf(x)')
    <3>1. CASE x = t
      BY <1>6, <3>1 DEF AtMostOne
    <3>2. CASE x # t
      BY <1>7, <3>2 DEF IInv, OneActiveReply
    <3> QED
      BY <3>1, <3>2
  <2> QED
    BY <2>1 DEF OneActiveReply, AtMostOne
<1>9. TablesAgree'
  BY <1>4, <1>5 DEF IInv, TablesAgree, ActiveOf, CandidatesOf
<1>10. HeadCoversTurns'
  BY <1>4, <1>5 DEF IInv, HeadCoversTurns
<1>11. \A c \in DOMAIN turnCandidates :
         turnCandidates'[c].status = "deleted"
           <=> turnCandidates[c].status = "deleted"
  BY <1>4 DEF ActiveOf
<1> QED
  BY <1>2, <1>3, <1>8, <1>9, <1>10, <1>11

(* activateCandidate preserves the invariant.                              *)
LEMMA ActivateCandidateStep ==
  ASSUME IInv, NEW c \in Candidate, ActivateCandidate(c)
  PROVE  IInv'
<1>1. /\ c \in CandidatesOf(turnCandidates[c].turn)
      /\ turnCandidates[c].status = "inactive"
      /\ Activate(turnCandidates[c].turn, c)
      /\ UNCHANGED <<branchEpochs, turns, turnMemoryRecords, historyEvents>>
  BY DEF ActivateCandidate, CandidatesOf
<1>2. /\ turnCandidates' \in [DOMAIN turnCandidates -> CandidateRow]
      /\ patches' \in [DOMAIN turnCandidates -> PatchStatus]
      /\ OneActiveReply' /\ TablesAgree' /\ HeadCoversTurns'
      /\ \A x \in DOMAIN turnCandidates :
           turnCandidates'[x].status = "deleted"
             <=> turnCandidates[x].status = "deleted"
  BY <1>1, ActivateStep
<1>3. DOMAIN turnCandidates' = DOMAIN turnCandidates
  BY <1>2
<1>4. TypeOK'
  BY <1>1, <1>2, <1>3 DEF IInv, TypeOK
<1>5. OneActiveEpoch' /\ AncestryWellFounded'
  BY <1>1 DEF IInv, OneActiveEpoch, AncestryWellFounded, ActiveEpoch
<1>6. DeletionsAccounted'
  BY <1>1, <1>2, <1>3 DEF IInv, DeletionsAccounted
<1> QED
  BY <1>2, <1>4, <1>5, <1>6 DEF IInv

(* Recording an event that deletes nothing.                                *)
LEMMA RecordSelection ==
  ASSUME IInv, NEW cmd \in Command, NEW row \in EventRow,
         FreshCommand(cmd), historyEvents' = Insert(historyEvents, cmd, row),
         row.type \notin {"delete_swipe", "delete_candidate"},
         DOMAIN turnCandidates' = DOMAIN turnCandidates,
         \A c \in DOMAIN turnCandidates :
           turnCandidates'[c].status = "deleted"
             <=> turnCandidates[c].status = "deleted"
  PROVE  /\ DOMAIN historyEvents' \subseteq Command
         /\ historyEvents' \in [DOMAIN historyEvents' -> EventRow]
         /\ DeletionsAccounted'
<1>1. /\ DOMAIN historyEvents' \subseteq Command
      /\ historyEvents' \in [DOMAIN historyEvents' -> EventRow]
  BY DEF IInv, TypeOK, Insert
<1>2. DeletionsAccounted'
  <2>1. \A k \in DOMAIN historyEvents :
          k # cmd /\ historyEvents'[k] = historyEvents[k]
    BY DEF FreshCommand, Insert
  <2>2. DOMAIN historyEvents' = DOMAIN historyEvents \cup {cmd}
        /\ historyEvents'[cmd] = row
    BY DEF Insert
  <2> QED
    BY <2>1, <2>2 DEF IInv, DeletionsAccounted
<1> QED
  BY <1>1, <1>2

(* activateCandidateByHostCoordinate preserves the invariant.              *)
LEMMA ActivateByHostCoordinateStep ==
  ASSUME IInv, NEW cmd \in Command, NEW e \in Epoch, NEW i \in Index,
         NEW s \in Swipe, ActivateCandidateByHostCoordinate(cmd, e, i, s)
  PROVE  IInv'
<1> DEFINE t == <<e, i>>
<1>1. PICK target \in LiveAt(t, s) :
        /\ IF turnCandidates[target].status = "active"
           THEN UNCHANGED <<turnCandidates, patches>>
           ELSE Activate(t, target)
        /\ historyEvents' =
             Insert(historyEvents, cmd,
                    [type |-> "activate_swipe", epoch |-> e, index |-> i,
                     swipe |-> s, result |-> target])
  BY DEF ActivateCandidateByHostCoordinate
<1>2. /\ FreshCommand(cmd)
      /\ UNCHANGED <<branchEpochs, turns, turnMemoryRecords>>
  BY DEF ActivateCandidateByHostCoordinate
<1>3. /\ target \in CandidatesOf(t)
      /\ target \in DOMAIN turnCandidates
      /\ target \in Candidate
      /\ turnCandidates[target].status \in {"active", "inactive"}
  BY DEF LiveAt, LiveOf, CandidatesOf, IInv, TypeOK, CandidateRow
<1>4. /\ turnCandidates' \in [DOMAIN turnCandidates -> CandidateRow]
      /\ patches' \in [DOMAIN turnCandidates -> PatchStatus]
      /\ OneActiveReply' /\ TablesAgree' /\ HeadCoversTurns'
      /\ \A x \in DOMAIN turnCandidates :
           turnCandidates'[x].status = "deleted"
             <=> turnCandidates[x].status = "deleted"
  <2>1. CASE turnCandidates[target].status = "active"
    BY <1>1, <1>2, <2>1 DEF IInv, TypeOK, OneActiveReply, TablesAgree,
       HeadCoversTurns, ActiveOf, CandidatesOf, AtMostOne
  <2>2. CASE turnCandidates[target].status = "inactive"
    BY <1>1, <1>2, <1>3, <2>2, ActivateStep
  <2> QED
    BY <1>3, <2>1, <2>2
<1>5. DOMAIN turnCandidates' = DOMAIN turnCandidates
  BY <1>4
<1>6. [type |-> "activate_swipe", epoch |-> e, index |-> i, swipe |-> s,
       result |-> target] \in EventRow
  BY <1>3 DEF EventRow
<1>7. /\ DOMAIN historyEvents' \subseteq Command
      /\ historyEvents' \in [DOMAIN historyEvents' -> EventRow]
      /\ DeletionsAccounted'
  BY <1>1, <1>2, <1>4, <1>5, <1>6, RecordSelection
<1>8. TypeOK'
  BY <1>2, <1>4, <1>5, <1>7 DEF IInv, TypeOK
<1>9. OneActiveEpoch' /\ AncestryWellFounded'
  BY <1>2 DEF IInv, OneActiveEpoch, AncestryWellFounded, ActiveEpoch
<1> QED
  BY <1>4, <1>7, <1>8, <1>9 DEF IInv

-----------------------------------------------------------------------------
(* Deleting a reply, with the fallback taking over when it was active.     *)
LEMMA DeleteStep ==
  ASSUME IInv, NEW t, NEW target \in LiveOf(t), NEW fallback, NEW reindexed,
         fallback \subseteq LiveOf(t) \ {target}, AtMostOne(fallback),
         DeletionAllowed(t, target, fallback),
         reindexed \in [DOMAIN turnCandidates -> Swipe \cup {None}],
         \A c \in DOMAIN turnCandidates :
           c # target /\ turnCandidates[c].status # "deleted"
             => reindexed[c] # None,
         Delete(target, fallback, reindexed),
         UNCHANGED <<branchEpochs, turns>>
  PROVE  /\ turnCandidates' \in [DOMAIN turnCandidates -> CandidateRow]
         /\ patches' \in [DOMAIN turnCandidates -> PatchStatus]
         /\ turnMemoryRecords' \in [DOMAIN turnCandidates -> RecordRow]
         /\ OneActiveReply'
         /\ TablesAgree'
         /\ HeadCoversTurns'
         /\ \A c \in DOMAIN turnCandidates :
              turnCandidates'[c].status = "deleted"
                <=> c = target \/ turnCandidates[c].status = "deleted"
<1> DEFINE promoted == IF turnCandidates[target].status = "active"
                       THEN fallback ELSE {}
<1>1. /\ TypeOK
      /\ target \in DOMAIN turnCandidates
      /\ turnCandidates[target].turn = t
      /\ turnCandidates[target].status # "deleted"
      /\ promoted \subseteq LiveOf(t) \ {target}
  BY DEF IInv, LiveOf, CandidatesOf
<1>2. turnCandidates' \in [DOMAIN turnCandidates -> CandidateRow]
  BY <1>1 DEF TypeOK, Delete, CandidateRow
<1>3. patches' \in [DOMAIN turnCandidates -> PatchStatus]
  BY <1>1 DEF TypeOK, Delete, PatchStatus
<1>4. turnMemoryRecords' \in [DOMAIN turnCandidates -> RecordRow]
  BY <1>1 DEF TypeOK, Delete, RecordRow
<1>5. \A c \in DOMAIN turnCandidates :
        /\ turnCandidates'[c].turn = turnCandidates[c].turn
        /\ turnCandidates'[c].swipe = reindexed[c]
        /\ turnCandidates'[c].status =
             IF c = target THEN "deleted"
             ELSE IF c \in promoted THEN "active" ELSE turnCandidates[c].status
        /\ patches'[c] = IF c = target THEN "rolled_back"
                         ELSE IF c \in promoted THEN "applied" ELSE patches[c]
        /\ turnMemoryRecords'[c].status =
             IF c = target THEN "inactive" ELSE turnMemoryRecords[c].status
  BY <1>1 DEF TypeOK, Delete, RecordRow
<1>6. DOMAIN turnCandidates' = DOMAIN turnCandidates
  BY <1>2
<1>7. \A c \in promoted : /\ c \in DOMAIN turnCandidates
                          /\ turnCandidates[c].turn = t
                          /\ turnCandidates[c].status # "deleted"
  BY <1>1 DEF LiveOf, CandidatesOf
<1>8. OneActiveReply'
  <2>1. \A x : x # t => ActiveOf(x)' = ActiveOf(x)
    BY <1>1, <1>5, <1>6, <1>7 DEF ActiveOf, CandidatesOf
  <2>2. ActiveOf(t)' = (ActiveOf(t) \ {target}) \cup promoted
    BY <1>1, <1>5, <1>6, <1>7 DEF ActiveOf, CandidatesOf
  <2>3. t \in DOMAIN turns
    BY <1>1 DEF IInv, HeadCoversTurns
  <2>4. ActiveOf(t) # {} /\ AtMostOne(ActiveOf(t))
    BY <2>3 DEF IInv, OneActiveReply
  <2>5. ActiveOf(t)' # {} /\ AtMostOne(ActiveOf(t)')
    <3>1. CASE turnCandidates[target].status = "active"
      <4>1. ActiveOf(t) \ {target} = {}
        BY <1>1, <2>4, <3>1 DEF ActiveOf, CandidatesOf, AtMostOne
      <4>2. promoted # {} /\ AtMostOne(promoted)
        BY <3>1 DEF DeletionAllowed
      <4> QED
        BY <2>2, <4>1, <4>2
    <3>2. CASE turnCandidates[target].status # "active"
      <4>1. ActiveOf(t)' = ActiveOf(t)
        BY <2>2, <3>2 DEF ActiveOf
      <4> QED
        BY <2>4, <4>1
    <3> QED
      BY <3>1, <3>2
  <2>6. ASSUME NEW x \in DOMAIN turns
        PROVE  ActiveOf(x)' # {} /\ AtMostOne(ActiveOf(x)')
    <3>1. CASE x = t
      BY <2>5, <3>1
    <3>2. CASE x # t
      BY <2>1, <3>2 DEF IInv, OneActiveReply
    <3> QED
      BY <3>1, <3>2
  <2> QED
    BY <2>6 DEF OneActiveReply, AtMostOne
<1>9. TablesAgree'
  BY <1>1, <1>5, <1>6, <1>7 DEF IInv, TablesAgree
<1>10. HeadCoversTurns'
  BY <1>5, <1>6 DEF IInv, HeadCoversTurns
<1>11. \A c \in DOMAIN turnCandidates :
         turnCandidates'[c].status = "deleted"
           <=> c = target \/ turnCandidates[c].status = "deleted"
  BY <1>5, <1>7
<1> QED
  BY <1>2, <1>3, <1>4, <1>8, <1>9, <1>10, <1>11

(* Recording the event of a deletion.                                      *)
LEMMA RecordDeletion ==
  ASSUME IInv, NEW cmd \in Command, NEW row \in EventRow,
         NEW target \in DOMAIN turnCandidates,
         FreshCommand(cmd), historyEvents' = Insert(historyEvents, cmd, row),
         row.type \in {"delete_swipe", "delete_candidate"},
         row.result = target,
         turnCandidates[target].status # "deleted",
         DOMAIN turnCandidates' = DOMAIN turnCandidates,
         \A c \in DOMAIN turnCandidates :
           turnCandidates'[c].status = "deleted"
             <=> c = target \/ turnCandidates[c].status = "deleted"
  PROVE  /\ DOMAIN historyEvents' \subseteq Command
         /\ historyEvents' \in [DOMAIN historyEvents' -> EventRow]
         /\ DeletionsAccounted'
<1>1. /\ DOMAIN historyEvents' \subseteq Command
      /\ historyEvents' \in [DOMAIN historyEvents' -> EventRow]
  BY DEF IInv, TypeOK, Insert
<1>2. DeletionsAccounted'
  <2>1. \A k \in DOMAIN historyEvents :
          k # cmd /\ historyEvents'[k] = historyEvents[k]
    BY DEF FreshCommand, Insert
  <2>2. DOMAIN historyEvents' = DOMAIN historyEvents \cup {cmd}
        /\ historyEvents'[cmd] = row
    BY DEF Insert
  <2> QED
    BY <2>1, <2>2 DEF IInv, DeletionsAccounted
<1> QED
  BY <1>1, <1>2

-----------------------------------------------------------------------------
(* deleteCandidate preserves the invariant: no coordinate changes.         *)
LEMMA DeleteCandidateStep ==
  ASSUME IInv, NEW cmd \in Command, NEW target \in DOMAIN turnCandidates,
         NEW fb \in DOMAIN turnCandidates \cup {None},
         DeleteCandidate(cmd, target, fb)
  PROVE  IInv'
<1> DEFINE t == turnCandidates[target].turn
           fallback == IF fb = None THEN {} ELSE {fb}
           reindexed == [c \in DOMAIN turnCandidates |-> turnCandidates[c].swipe]
           row == [type |-> "delete_candidate", candidate |-> target,
                   fallback |-> fb, result |-> target]
<1>1. /\ FreshCommand(cmd)
      /\ turnCandidates[target].status # "deleted"
      /\ fallback \subseteq LiveOf(t) \ {target}
      /\ DeletionAllowed(t, target, fallback)
      /\ Delete(target, fallback, reindexed)
      /\ historyEvents' = Insert(historyEvents, cmd, row)
      /\ UNCHANGED <<branchEpochs, turns>>
  BY DEF DeleteCandidate
<1>2. target \in LiveOf(t) /\ AtMostOne(fallback) /\ target \in Candidate
  BY <1>1 DEF LiveOf, CandidatesOf, AtMostOne, IInv, TypeOK
<1>3. /\ reindexed \in [DOMAIN turnCandidates -> Swipe \cup {None}]
      /\ \A c \in DOMAIN turnCandidates :
           c # target /\ turnCandidates[c].status # "deleted"
             => reindexed[c] # None
  BY DEF IInv, TypeOK, TablesAgree, CandidateRow
<1>4. /\ turnCandidates' \in [DOMAIN turnCandidates -> CandidateRow]
      /\ patches' \in [DOMAIN turnCandidates -> PatchStatus]
      /\ turnMemoryRecords' \in [DOMAIN turnCandidates -> RecordRow]
      /\ OneActiveReply' /\ TablesAgree' /\ HeadCoversTurns'
      /\ \A c \in DOMAIN turnCandidates :
           turnCandidates'[c].status = "deleted"
             <=> c = target \/ turnCandidates[c].status = "deleted"
  <2> HIDE DEF t, fallback, reindexed
  <2> QED
    BY <1>1, <1>2, <1>3, DeleteStep
<1>5. DOMAIN turnCandidates' = DOMAIN turnCandidates
  BY <1>4
<1>6. row \in EventRow
  <2>1. fb \in Candidate \cup {None}
    BY DEF IInv, TypeOK
  <2> QED
    BY <1>2, <2>1 DEF EventRow
<1>7. /\ DOMAIN historyEvents' \subseteq Command
      /\ historyEvents' \in [DOMAIN historyEvents' -> EventRow]
      /\ DeletionsAccounted'
  BY <1>1, <1>4, <1>5, <1>6, RecordDeletion
<1>8. TypeOK'
  BY <1>1, <1>4, <1>5, <1>7 DEF IInv, TypeOK
<1>9. OneActiveEpoch' /\ AncestryWellFounded'
  BY <1>1 DEF IInv, OneActiveEpoch, AncestryWellFounded, ActiveEpoch
<1> QED
  BY <1>4, <1>7, <1>8, <1>9 DEF IInv

(* deleteCandidateByHostCoordinate preserves the invariant: the rows that  *)
(* close ranks keep a coordinate, and the slot that the host falls back to *)
(* is never the deleted one once it is counted before the removal.         *)
LEMMA DeleteByHostCoordinateStep ==
  ASSUME IInv, NEW cmd \in Command, NEW e \in Epoch, NEW i \in Index,
         NEW s \in Swipe, NEW fb \in Swipe \cup {None},
         DeleteCandidateByHostCoordinate(cmd, e, i, s, fb)
  PROVE  IInv'
<1> USE BoundsAssumption, NoneAssumption
<1> DEFINE t == <<e, i>>
           fallback == IF fb = None THEN {}
                       ELSE LiveAt(t, CoordinateBeforeSplice(fb, s))
           reindexed == Reindexed(t, s)
           row(target) ==
             [type |-> "delete_swipe", epoch |-> e, index |-> i,
              swipe |-> s, fallback |-> fb, result |-> target]
<1>1. PICK target \in LiveAt(t, s) :
        /\ DeletionAllowed(t, target, fallback)
        /\ Delete(target, fallback, reindexed)
        /\ historyEvents' = Insert(historyEvents, cmd, row(target))
  BY DEF DeleteCandidateByHostCoordinate
<1>2. /\ FreshCommand(cmd)
      /\ ~ Ambiguous(t)
      /\ UNCHANGED <<branchEpochs, turns>>
  BY DEF DeleteCandidateByHostCoordinate
<1>3. /\ TypeOK /\ TablesAgree
      /\ target \in LiveOf(t)
      /\ target \in DOMAIN turnCandidates
      /\ target \in Candidate
      /\ turnCandidates[target].status # "deleted"
      /\ turnCandidates[target].swipe = s
  BY DEF LiveAt, LiveOf, CandidatesOf, IInv, TypeOK
<1>4. fallback \subseteq LiveOf(t) \ {target} /\ AtMostOne(fallback)
  <2>1. CASE fb = None
    BY <2>1 DEF AtMostOne
  <2>2. CASE fb \in Swipe
    <3>1. fallback = LiveAt(t, CoordinateBeforeSplice(fb, s))
      BY <2>2 DEF Swipe
    <3>2. CoordinateBeforeSplice(fb, s) # s
      BY <2>2 DEF CoordinateBeforeSplice, Swipe
    <3>3. fallback \subseteq LiveOf(t) \ {target}
      BY <1>3, <3>1, <3>2 DEF LiveAt
    <3>4. AtMostOne(fallback)
      <4>1. CASE CoordinateBeforeSplice(fb, s) \in Swipe
        BY <1>2, <3>1, <4>1 DEF Ambiguous
      <4>2. CASE CoordinateBeforeSplice(fb, s) \notin Swipe
        <5>1. CoordinateBeforeSplice(fb, s) # None
          BY <2>2 DEF CoordinateBeforeSplice, Swipe
        <5>2. \A c \in LiveOf(t) : turnCandidates[c].swipe \in Swipe \cup {None}
          BY <1>3 DEF TypeOK, CandidateRow, LiveOf, CandidatesOf
        <5>3. fallback = {}
          BY <3>1, <4>2, <5>1, <5>2 DEF LiveAt
        <5> QED
          BY <5>3 DEF AtMostOne
      <4> QED
        BY <4>1, <4>2
    <3> QED
      BY <3>3, <3>4
  <2> QED
    BY <2>1, <2>2
<1>5. LiveAt(t, s) = {target}
  BY <1>2 DEF Ambiguous, AtMostOne
<1>6. /\ reindexed \in [DOMAIN turnCandidates -> Swipe \cup {None}]
      /\ \A c \in DOMAIN turnCandidates :
           c # target /\ turnCandidates[c].status # "deleted"
             => reindexed[c] # None
  <2>1. ASSUME NEW c \in DOMAIN turnCandidates
        PROVE  /\ reindexed[c] \in Swipe \cup {None}
               /\ c # target /\ turnCandidates[c].status # "deleted"
                    => reindexed[c] # None
    <3>1. turnCandidates[c].swipe \in Swipe \cup {None}
      BY <1>3 DEF TypeOK, CandidateRow
    <3>2. turnCandidates[c].status # "deleted" => turnCandidates[c].swipe \in Swipe
      BY <1>3, <3>1 DEF TablesAgree
    <3>3. CASE c \in LiveAt(t, s)
      <4>1. ~ (turnCandidates[c].swipe > s)
        BY <3>3 DEF LiveAt, Swipe
      <4>2. reindexed[c] = None
        BY <3>3, <4>1 DEF Reindexed
      <4> QED
        BY <1>5, <3>3, <4>2
    <3>4. CASE c \notin LiveAt(t, s) /\ c \in LiveOf(t) /\ turnCandidates[c].swipe > s
      <4>1. turnCandidates[c].swipe \in Swipe
        BY <3>2, <3>4 DEF LiveOf
      <4>2. reindexed[c] = turnCandidates[c].swipe - 1
        BY <3>4 DEF Reindexed
      <4> QED
        BY <3>4, <4>1, <4>2 DEF Swipe
    <3>5. CASE c \notin LiveAt(t, s)
               /\ ~ (c \in LiveOf(t) /\ turnCandidates[c].swipe > s)
      <4>1. reindexed[c] = turnCandidates[c].swipe
        BY <3>5 DEF Reindexed
      <4> QED
        BY <3>1, <3>2, <4>1 DEF Swipe
    <3> QED
      BY <3>3, <3>4, <3>5
  <2>2. reindexed = [c \in DOMAIN turnCandidates |-> reindexed[c]]
    BY DEF Reindexed
  <2> QED
    BY <2>1, <2>2
<1>7. /\ turnCandidates' \in [DOMAIN turnCandidates -> CandidateRow]
      /\ patches' \in [DOMAIN turnCandidates -> PatchStatus]
      /\ turnMemoryRecords' \in [DOMAIN turnCandidates -> RecordRow]
      /\ OneActiveReply' /\ TablesAgree' /\ HeadCoversTurns'
      /\ \A c \in DOMAIN turnCandidates :
           turnCandidates'[c].status = "deleted"
             <=> c = target \/ turnCandidates[c].status = "deleted"
  <2> HIDE DEF t, fallback, reindexed
  <2> QED
    BY <1>1, <1>2, <1>3, <1>4, <1>6, DeleteStep
<1>8. DOMAIN turnCandidates' = DOMAIN turnCandidates
  BY <1>7
<1>9. row(target) \in EventRow
  BY <1>3 DEF EventRow
<1>10. /\ DOMAIN historyEvents' \subseteq Command
       /\ historyEvents' \in [DOMAIN historyEvents' -> EventRow]
       /\ DeletionsAccounted'
  BY <1>1, <1>2, <1>3, <1>7, <1>8, <1>9, RecordDeletion
<1>11. TypeOK'
  BY <1>2, <1>7, <1>8, <1>10 DEF IInv, TypeOK
<1>12. OneActiveEpoch' /\ AncestryWellFounded'
  BY <1>2 DEF IInv, OneActiveEpoch, AncestryWellFounded, ActiveEpoch
<1> QED
  BY <1>7, <1>10, <1>11, <1>12 DEF IInv

-----------------------------------------------------------------------------
(* Operations on the epochs.                                               *)

(* ensureReplayRootBranch preserves the invariant.                         *)
LEMMA EnsureReplayRootBranchStep ==
  ASSUME IInv, NEW e \in Epoch, EnsureReplayRootBranch(e)
  PROVE  IInv'
<1>1. /\ DOMAIN branchEpochs = {}
      /\ branchEpochs' = [x \in {e} |-> RootBranch]
      /\ turns' = turns
      /\ UNCHANGED candidateTables
      /\ historyEvents' = historyEvents
  BY DEF EnsureReplayRootBranch
<1>2. /\ turnCandidates' = turnCandidates
      /\ patches' = patches
      /\ turnMemoryRecords' = turnMemoryRecords
  BY <1>1 DEF candidateTables
<1>3. RootBranch \in BranchRow
  BY DEF RootBranch, BranchRow
<1>4. TypeOK'
  BY <1>1, <1>2, <1>3 DEF IInv, TypeOK
<1>5. OneActiveReply' /\ TablesAgree' /\ DeletionsAccounted'
  BY <1>1, <1>2 DEF IInv, OneActiveReply, TablesAgree, DeletionsAccounted,
     ActiveOf, CandidatesOf, AtMostOne
<1>6. OneActiveEpoch' /\ AncestryWellFounded' /\ HeadCoversTurns'
  BY <1>1, <1>2 DEF IInv, OneActiveEpoch, AncestryWellFounded, HeadCoversTurns,
     ActiveEpoch, RootBranch
<1> QED
  BY <1>4, <1>5, <1>6 DEF IInv

(* Closing the active epoch e of a ledger and opening epoch e + 1: the new *)
(* number is free because the active epoch is the latest.                  *)
LEMMA OpenEpochStep ==
  ASSUME NEW rows, NEW e \in Epoch, NEW parent \in DOMAIN rows,
         NEW cutoff \in 0 .. MaxIndex + 1,
         e < MaxEpoch,
         DOMAIN rows \subseteq Epoch,
         rows \in [DOMAIN rows -> BranchRow],
         e \in DOMAIN rows,
         \A x \in DOMAIN rows : x # e => x < e /\ rows[x].status # "active",
         branchEpochs' = OpenEpoch(rows, e, parent, cutoff)
  PROVE  /\ DOMAIN branchEpochs' = DOMAIN rows \cup {e + 1}
         /\ DOMAIN branchEpochs' \subseteq Epoch
         /\ branchEpochs' \in [DOMAIN branchEpochs' -> BranchRow]
         /\ OneActiveEpoch'
         /\ \A x \in DOMAIN rows :
              /\ branchEpochs'[x].parent = rows[x].parent
              /\ branchEpochs'[x].cutoff = rows[x].cutoff
              /\ branchEpochs'[x].head = rows[x].head
         /\ branchEpochs'[e + 1].parent = parent
         /\ branchEpochs'[e + 1].cutoff = cutoff
<1> USE BoundsAssumption, NoneAssumption
<1> DEFINE row == [status |-> "active", parent |-> parent, cutoff |-> cutoff,
                   head |-> IF cutoff = 0 THEN None ELSE cutoff - 1]
           closed == [rows EXCEPT ![e].status = "historical"]
<1>1. e + 1 \in Epoch /\ e + 1 \notin DOMAIN rows
  BY DEF Epoch
<1>2. row \in BranchRow
  BY DEF BranchRow, Index
<1>3. /\ DOMAIN closed = DOMAIN rows
      /\ closed \in [DOMAIN rows -> BranchRow]
      /\ \A x \in DOMAIN rows :
           /\ closed[x].parent = rows[x].parent
           /\ closed[x].cutoff = rows[x].cutoff
           /\ closed[x].head = rows[x].head
           /\ closed[x].status # "active"
  BY DEF BranchRow
<1>4. branchEpochs' = Insert(closed, e + 1, row)
  BY DEF OpenEpoch
<1> HIDE DEF row, closed
<1>5. /\ DOMAIN branchEpochs' = DOMAIN rows \cup {e + 1}
      /\ branchEpochs'[e + 1] = row
      /\ \A x \in DOMAIN rows : branchEpochs'[x] = closed[x]
      /\ branchEpochs' \in [DOMAIN branchEpochs' -> BranchRow]
  BY <1>1, <1>2, <1>3, <1>4 DEF Insert
<1>6. OneActiveEpoch'
  <2>1. branchEpochs'[e + 1].status = "active"
    BY <1>5 DEF row
  <2>2. \A x \in DOMAIN branchEpochs' :
          x # e + 1 => x < e + 1 /\ branchEpochs'[x].status # "active"
    BY <1>3, <1>5 DEF Epoch
  <2> QED
    BY <1>5, <2>1, <2>2 DEF OneActiveEpoch, ActiveEpoch
<1> QED
  BY <1>1, <1>3, <1>5, <1>6 DEF row

(* What opening an epoch leaves true of the other tables.                  *)
LEMMA NewEpochStep ==
  ASSUME IInv, NEW cmd \in Command, NEW row \in EventRow,
         NEW rows, NEW e \in Epoch, NEW parent \in DOMAIN rows,
         NEW cutoff \in 0 .. MaxIndex + 1,
         e < MaxEpoch, e \in DOMAIN rows,
         rows = branchEpochs \/ (DOMAIN branchEpochs = {} /\ rows = [x \in {e} |-> RootBranch]),
         rows = branchEpochs => ActiveEpoch(e),
         branchEpochs' = OpenEpoch(rows, e, parent, cutoff),
         FreshCommand(cmd),
         historyEvents' = Insert(historyEvents, cmd, row),
         row.type \notin {"delete_swipe", "delete_candidate"},
         UNCHANGED <<turns, candidateTables>>
  PROVE  IInv'
<1> USE BoundsAssumption, NoneAssumption
<1>1. /\ turnCandidates' = turnCandidates
      /\ patches' = patches
      /\ turnMemoryRecords' = turnMemoryRecords
      /\ turns' = turns
  BY DEF candidateTables
<1>2. /\ DOMAIN rows \subseteq Epoch
      /\ rows \in [DOMAIN rows -> BranchRow]
      /\ \A x \in DOMAIN rows : x # e => x < e /\ rows[x].status # "active"
      /\ \A x \in DOMAIN rows :
           /\ rows[x].parent = None <=> rows[x].cutoff = None
           /\ rows[x].parent # None =>
                rows[x].parent \in DOMAIN rows /\ rows[x].parent < x
      /\ DOMAIN branchEpochs \subseteq DOMAIN rows
      /\ \A x \in DOMAIN branchEpochs : rows[x] = branchEpochs[x]
  <2>1. CASE rows = branchEpochs
    <3>1. \A x \in DOMAIN rows : x # e => x < e /\ ~ ActiveEpoch(x)
      BY <2>1 DEF IInv, OneActiveEpoch, ActiveEpoch, TypeOK, Epoch
    <3> QED
      BY <2>1, <3>1 DEF IInv, TypeOK, AncestryWellFounded, ActiveEpoch
  <2>2. CASE DOMAIN branchEpochs = {} /\ rows = [x \in {e} |-> RootBranch]
    BY <2>2 DEF RootBranch, BranchRow
  <2> QED
    BY <2>1, <2>2
<1>3. /\ DOMAIN branchEpochs' = DOMAIN rows \cup {e + 1}
      /\ DOMAIN branchEpochs' \subseteq Epoch
      /\ branchEpochs' \in [DOMAIN branchEpochs' -> BranchRow]
      /\ OneActiveEpoch'
      /\ \A x \in DOMAIN rows :
           /\ branchEpochs'[x].parent = rows[x].parent
           /\ branchEpochs'[x].cutoff = rows[x].cutoff
           /\ branchEpochs'[x].head = rows[x].head
      /\ branchEpochs'[e + 1].parent = parent
      /\ branchEpochs'[e + 1].cutoff = cutoff
  <2>1. \A x \in DOMAIN rows : x # e => x < e /\ rows[x].status # "active"
    BY <1>2
  <2>2. DOMAIN rows \subseteq Epoch /\ rows \in [DOMAIN rows -> BranchRow]
    BY <1>2
  <2> QED
    BY ONLY <2>1, <2>2, OpenEpochStep, e < MaxEpoch, e \in DOMAIN rows,
       branchEpochs' = OpenEpoch(rows, e, parent, cutoff)
<1>4. AncestryWellFounded'
  <2>1. parent \in Epoch /\ parent # None /\ cutoff # None /\ parent < e + 1
    <3>1. parent = e \/ parent < e
      BY <1>2
    <3> QED
      BY <1>2, <3>1 DEF Epoch
  <2> QED
    BY <1>2, <1>3, <2>1 DEF AncestryWellFounded
<1>5. HeadCoversTurns'
  BY <1>1, <1>2, <1>3 DEF IInv, HeadCoversTurns
<1>6. OneActiveReply' /\ TablesAgree'
  BY <1>1 DEF IInv, OneActiveReply, TablesAgree, ActiveOf, CandidatesOf,
     AtMostOne
<1>7. /\ DOMAIN historyEvents' \subseteq Command
      /\ historyEvents' \in [DOMAIN historyEvents' -> EventRow]
      /\ DeletionsAccounted'
  BY <1>1, RecordSelection
<1>8. TypeOK'
  BY <1>1, <1>3, <1>7 DEF IInv, TypeOK
<1> QED
  BY <1>3, <1>4, <1>5, <1>6, <1>7, <1>8 DEF IInv

(* truncateBranch preserves the invariant.                                 *)
LEMMA TruncateBranchStep ==
  ASSUME IInv, NEW cmd \in Command, NEW e \in Epoch,
         NEW cutoff \in 0 .. MaxIndex + 1, TruncateBranch(cmd, e, cutoff)
  PROVE  IInv'
<1> USE BoundsAssumption
<1> DEFINE row == [type |-> "truncate_branch", epoch |-> e, cutoff |-> cutoff,
                   result |-> e + 1]
<1>1. /\ e < MaxEpoch
      /\ FreshCommand(cmd)
      /\ ActiveEpoch(e) \/ (DOMAIN branchEpochs = {} /\ e = 0)
      /\ branchEpochs' = OpenEpoch(WithRoot(e), e, e, cutoff)
      /\ historyEvents' = Insert(historyEvents, cmd, row)
      /\ UNCHANGED <<turns, candidateTables>>
  BY DEF TruncateBranch
<1>2. row \in EventRow
  <2>1. e + 1 \in Epoch
    BY <1>1 DEF Epoch
  <2> QED
    BY <2>1 DEF EventRow
<1>3. \/ WithRoot(e) = branchEpochs /\ ActiveEpoch(e)
      \/ DOMAIN branchEpochs = {} /\ WithRoot(e) = [x \in {e} |-> RootBranch]
  BY <1>1 DEF WithRoot, ActiveEpoch
<1>4. e \in DOMAIN WithRoot(e)
  BY <1>3 DEF ActiveEpoch
<1>5. WithRoot(e) = branchEpochs => ActiveEpoch(e)
  BY <1>3, <1>4
<1> QED
  BY <1>1, <1>2, <1>3, <1>4, <1>5, NewEpochStep

(* restoreBranch preserves the invariant.                                  *)
LEMMA RestoreBranchStep ==
  ASSUME IInv, NEW cmd \in Command, NEW e \in Epoch, NEW source \in Epoch,
         NEW through \in Index, RestoreBranch(cmd, e, source, through)
  PROVE  IInv'
<1> USE BoundsAssumption
<1> DEFINE row == [type |-> "restore_branch", epoch |-> e, source |-> source,
                   through |-> through, result |-> e + 1]
<1>1. /\ e < MaxEpoch
      /\ FreshCommand(cmd)
      /\ ActiveEpoch(e)
      /\ source \in DOMAIN branchEpochs
      /\ branchEpochs' = OpenEpoch(branchEpochs, e, source, through + 1)
      /\ historyEvents' = Insert(historyEvents, cmd, row)
      /\ UNCHANGED <<turns, candidateTables>>
  BY DEF RestoreBranch
<1>2. row \in EventRow
  <2>1. e + 1 \in Epoch
    BY <1>1 DEF Epoch
  <2> QED
    BY <2>1 DEF EventRow
<1>3. through + 1 \in 0 .. MaxIndex + 1 /\ e \in DOMAIN branchEpochs
  BY <1>1 DEF Index, ActiveEpoch
<1> QED
  BY <1>1, <1>2, <1>3, NewEpochStep

-----------------------------------------------------------------------------
(* Every step preserves the invariant.                                     *)
LEMMA StepInvariant == IInv /\ [Next]_vars => IInv'
<1> SUFFICES ASSUME IInv, [Next]_vars PROVE IInv'
  OBVIOUS
<1>1. ASSUME NEW c \in Candidate, NEW e \in Epoch, NEW i \in Index,
             NEW s \in Swipe, NEW user \in UserMessage, NEW thread \in Thread,
             CommitTurn(c, e, i, s, user, thread)
      PROVE  IInv'
  BY <1>1, CommitTurnStep
<1>2. ASSUME NEW e \in Epoch, EnsureReplayRootBranch(e) PROVE IInv'
  BY <1>2, EnsureReplayRootBranchStep
<1>3. ASSUME NEW c \in Candidate, ActivateCandidate(c) PROVE IInv'
  BY <1>3, ActivateCandidateStep
<1>4. ASSUME NEW cmd \in Command, NEW e \in Epoch, NEW i \in Index,
             NEW s \in Swipe, ActivateCandidateByHostCoordinate(cmd, e, i, s)
      PROVE  IInv'
  BY <1>4, ActivateByHostCoordinateStep
<1>5. ASSUME NEW cmd \in Command, NEW c \in DOMAIN turnCandidates,
             NEW fb \in DOMAIN turnCandidates \cup {None},
             DeleteCandidate(cmd, c, fb)
      PROVE  IInv'
  BY <1>5, DeleteCandidateStep
<1>6. ASSUME NEW cmd \in Command, NEW e \in Epoch, NEW i \in Index,
             NEW s \in Swipe, NEW fb \in Swipe \cup {None},
             DeleteCandidateByHostCoordinate(cmd, e, i, s, fb)
      PROVE  IInv'
  BY <1>6, DeleteByHostCoordinateStep
<1>7. ASSUME NEW cmd \in Command, NEW e \in Epoch,
             NEW cutoff \in 0 .. MaxIndex + 1, TruncateBranch(cmd, e, cutoff)
      PROVE  IInv'
  BY <1>7, TruncateBranchStep
<1>8. ASSUME NEW cmd \in Command, NEW e \in Epoch, NEW source \in Epoch,
             NEW through \in Index, RestoreBranch(cmd, e, source, through)
      PROVE  IInv'
  BY <1>8, RestoreBranchStep
<1>9. CASE UNCHANGED vars
  BY <1>9 DEF vars, candidateTables, IInv, TypeOK, OneActiveReply, TablesAgree,
     OneActiveEpoch, AncestryWellFounded, HeadCoversTurns, DeletionsAccounted,
     ActiveOf, CandidatesOf, AtMostOne, ActiveEpoch
<1> QED
  BY <1>1, <1>2, <1>3, <1>4, <1>5, <1>6, <1>7, <1>8, <1>9 DEF Next

(* Every reachable ledger satisfies the invariant.                         *)
THEOREM Invariance == Spec => []IInv
<1>1. Init => IInv
  BY InitInvariant
<1>2. IInv /\ [Next]_vars => IInv'
  BY StepInvariant
<1> QED
  BY <1>1, <1>2, PTL DEF Spec

(* The tables of a chat's ledger always hold rows of their types.          *)
THEOREM TypeCorrect == Spec => []TypeOK
<1>1. IInv => TypeOK
  BY DEF IInv
<1> QED
  BY <1>1, Invariance, PTL

(* Every committed turn always has exactly one active reply, and           *)
(* candidates, patches and memory records agree about it: no sequence of   *)
(* commits, swipes and deletions leaves a turn with none or with two.      *)
THEOREM OneReply == Spec => []RepliesAgree
<1>1. IInv => RepliesAgree
  BY DEF IInv, RepliesAgree
<1> QED
  BY <1>1, Invariance, PTL

(* The latest epoch is always the one active epoch, the parents of all     *)
(* epochs are older, so reading a history always ends, and what            *)
(* restoreBranch is allowed to restore covers every turn of the epoch.     *)
THEOREM EpochsOrdered == Spec => []EpochsInOrder
<1>1. IInv => EpochsInOrder
  BY DEF IInv, EpochsInOrder
<1> QED
  BY <1>1, Invariance, PTL

(* Deletion commands and deleted replies always correspond one to one.     *)
THEOREM DeletedOnce == Spec => []DeletionsAccounted
<1>1. IInv => DeletionsAccounted
  BY DEF IInv
<1> QED
  BY <1>1, Invariance, PTL

-----------------------------------------------------------------------------
(* A step whose candidates change only within one active epoch, and that   *)
(* keeps turns and epochs, touches no other epoch.                         *)
LEMMA CandidatesOnly ==
  ASSUME TypeOK, NEW t, ActiveEpoch(t[1]),
         UNCHANGED <<branchEpochs, turns>>,
         DOMAIN turnCandidates' = DOMAIN turnCandidates,
         \A c \in DOMAIN turnCandidates :
           turnCandidates'[c].turn = turnCandidates[c].turn,
         \A c \in DOMAIN turnCandidates : turnCandidates[c].turn # t =>
           /\ turnCandidates'[c] = turnCandidates[c]
           /\ patches'[c] = patches[c]
           /\ turnMemoryRecords'[c] = turnMemoryRecords[c],
         NEW e \in DOMAIN branchEpochs, ~ ActiveEpoch(e)
  PROVE  EpochUntouched(e)
BY DEF EpochUntouched

(* Opening an epoch closes the active one and leaves all others alone.     *)
LEMMA EpochsOnly ==
  ASSUME TypeOK, NEW e \in Epoch, NEW parent, NEW cutoff,
         ActiveEpoch(e),
         \A y \in DOMAIN branchEpochs : y # e => y < e,
         branchEpochs' = OpenEpoch(branchEpochs, e, parent, cutoff),
         UNCHANGED <<turns, candidateTables>>,
         NEW x \in DOMAIN branchEpochs, ~ ActiveEpoch(x)
  PROVE  EpochUntouched(x)
<1>1. x # e /\ x # e + 1
  BY DEF Epoch
<1>2. x \in DOMAIN branchEpochs' /\ branchEpochs'[x] = branchEpochs[x]
  BY <1>1 DEF OpenEpoch, Insert
<1> QED
  BY <1>2 DEF EpochUntouched, candidateTables

(* No step touches a historical epoch.                                     *)
LEMMA StepFrozen ==
  ASSUME IInv, [Next]_vars, NEW e \in DOMAIN branchEpochs, ~ ActiveEpoch(e)
  PROVE  EpochUntouched(e)
<1>t. TypeOK
  BY DEF IInv
<1>1. ASSUME NEW c \in Candidate, NEW f \in Epoch, NEW i \in Index,
             NEW s \in Swipe, NEW user \in UserMessage, NEW thread \in Thread,
             CommitTurn(c, f, i, s, user, thread)
      PROVE  EpochUntouched(e)
  <2>1. ActiveEpoch(f) /\ f # e
    BY <1>1 DEF CommitTurn
  <2>2. e \in DOMAIN branchEpochs' /\ branchEpochs'[e] = branchEpochs[e]
    BY <1>1, <2>1, <1>t DEF CommitTurn, WithRoot, TypeOK
  <2>3. \A t \in DOMAIN turns' : t[1] = e =>
          t \in DOMAIN turns /\ turns'[t] = turns[t]
    BY <1>1, <2>1 DEF CommitTurn, Insert
  <2>4. \A d \in DOMAIN turnCandidates' : turnCandidates'[d].turn[1] = e =>
          /\ d \in DOMAIN turnCandidates
          /\ turnCandidates'[d] = turnCandidates[d]
          /\ patches'[d] = patches[d]
          /\ turnMemoryRecords'[d] = turnMemoryRecords[d]
    BY <1>1, <2>1, <1>t DEF CommitTurn, Insert, TypeOK
  <2> QED
    BY <2>2, <2>3, <2>4 DEF EpochUntouched
<1>2. ASSUME NEW f \in Epoch, EnsureReplayRootBranch(f)
      PROVE  EpochUntouched(e)
  BY <1>2 DEF EnsureReplayRootBranch
<1>3. ASSUME NEW c \in Candidate, ActivateCandidate(c)
      PROVE  EpochUntouched(e)
  <2> DEFINE t == turnCandidates[c].turn
  <2>1. /\ ActiveEpoch(t[1])
        /\ UNCHANGED <<branchEpochs, turns, turnMemoryRecords>>
        /\ Activate(t, c)
        /\ c \in CandidatesOf(t)
    BY <1>3 DEF ActivateCandidate, CandidatesOf
  <2>2. /\ DOMAIN turnCandidates' = DOMAIN turnCandidates
        /\ \A d \in DOMAIN turnCandidates :
             turnCandidates'[d].turn = turnCandidates[d].turn
        /\ \A d \in DOMAIN turnCandidates : turnCandidates[d].turn # t =>
             turnCandidates'[d] = turnCandidates[d] /\ patches'[d] = patches[d]
    BY <2>1, <1>t DEF Activate, ActiveOf, CandidatesOf, TypeOK, CandidateRow
  <2> QED
    BY <1>t, <2>1, <2>2, CandidatesOnly
<1>4. ASSUME NEW cmd \in Command, NEW f \in Epoch, NEW i \in Index,
             NEW s \in Swipe, ActivateCandidateByHostCoordinate(cmd, f, i, s)
      PROVE  EpochUntouched(e)
  <2> DEFINE t == <<f, i>>
  <2>1. PICK target \in LiveAt(t, s) :
          IF turnCandidates[target].status = "active"
          THEN UNCHANGED <<turnCandidates, patches>>
          ELSE Activate(t, target)
    BY <1>4 DEF ActivateCandidateByHostCoordinate
  <2>2. /\ ActiveEpoch(t[1])
        /\ UNCHANGED <<branchEpochs, turns, turnMemoryRecords>>
        /\ target \in CandidatesOf(t)
    BY <1>4 DEF ActivateCandidateByHostCoordinate, LiveAt, LiveOf
  <2>3. /\ DOMAIN turnCandidates' = DOMAIN turnCandidates
        /\ \A d \in DOMAIN turnCandidates :
             turnCandidates'[d].turn = turnCandidates[d].turn
        /\ \A d \in DOMAIN turnCandidates : turnCandidates[d].turn # t =>
             turnCandidates'[d] = turnCandidates[d] /\ patches'[d] = patches[d]
    BY <2>1, <2>2, <1>t DEF Activate, ActiveOf, CandidatesOf, TypeOK, CandidateRow
  <2> QED
    BY <1>t, <2>2, <2>3, CandidatesOnly
<1>5. ASSUME NEW t, NEW target \in LiveOf(t), NEW fallback, NEW reindexed,
             fallback \subseteq LiveOf(t), ActiveEpoch(t[1]),
             \A d \in DOMAIN turnCandidates :
               turnCandidates[d].turn # t => reindexed[d] = turnCandidates[d].swipe,
             Delete(target, fallback, reindexed),
             UNCHANGED <<branchEpochs, turns>>
      PROVE  EpochUntouched(e)
  <2>1. /\ DOMAIN turnCandidates' = DOMAIN turnCandidates
        /\ \A d \in DOMAIN turnCandidates :
             turnCandidates'[d].turn = turnCandidates[d].turn
    BY <1>5 DEF Delete
  <2>2. ASSUME NEW d \in DOMAIN turnCandidates, turnCandidates[d].turn # t
        PROVE  /\ turnCandidates'[d] = turnCandidates[d]
               /\ patches'[d] = patches[d]
               /\ turnMemoryRecords'[d] = turnMemoryRecords[d]
    <3>1. d # target /\ d \notin fallback
      BY <1>5, <2>2 DEF LiveOf, CandidatesOf
    <3>2. turnCandidates'[d] = [turn   |-> turnCandidates[d].turn,
                                swipe  |-> turnCandidates[d].swipe,
                                status |-> turnCandidates[d].status]
      BY <1>5, <2>2, <3>1 DEF Delete
    <3>3. turnCandidates'[d] = turnCandidates[d]
      BY <3>2, <1>t DEF TypeOK, CandidateRow
    <3>4. patches'[d] = patches[d] /\ turnMemoryRecords'[d] = turnMemoryRecords[d]
      BY <1>5, <3>1, <1>t DEF Delete, TypeOK
    <3> QED
      BY <3>3, <3>4
  <2> QED
    BY <1>t, <1>5, <2>1, <2>2, CandidatesOnly
<1>6. ASSUME NEW cmd \in Command, NEW c \in DOMAIN turnCandidates,
             NEW fb \in DOMAIN turnCandidates \cup {None},
             DeleteCandidate(cmd, c, fb)
      PROVE  EpochUntouched(e)
  <2> DEFINE t == turnCandidates[c].turn
             fallback == IF fb = None THEN {} ELSE {fb}
             reindexed == [d \in DOMAIN turnCandidates |-> turnCandidates[d].swipe]
  <2>1. /\ c \in LiveOf(t)
        /\ fallback \subseteq LiveOf(t)
        /\ ActiveEpoch(t[1])
        /\ Delete(c, fallback, reindexed)
        /\ UNCHANGED <<branchEpochs, turns>>
    BY <1>6 DEF DeleteCandidate, LiveOf, CandidatesOf
  <2>2. \A d \in DOMAIN turnCandidates : reindexed[d] = turnCandidates[d].swipe
    OBVIOUS
  <2> HIDE DEF t, fallback, reindexed
  <2> QED
    BY <1>5, <2>1, <2>2
<1>7. ASSUME NEW cmd \in Command, NEW f \in Epoch, NEW i \in Index,
             NEW s \in Swipe, NEW fb \in Swipe \cup {None},
             DeleteCandidateByHostCoordinate(cmd, f, i, s, fb)
      PROVE  EpochUntouched(e)
  <2> DEFINE t == <<f, i>>
             fallback == IF fb = None THEN {}
                         ELSE LiveAt(t, CoordinateBeforeSplice(fb, s))
             reindexed == Reindexed(t, s)
  <2>1. PICK target \in LiveAt(t, s) : Delete(target, fallback, reindexed)
    BY <1>7 DEF DeleteCandidateByHostCoordinate
  <2>2. /\ target \in LiveOf(t)
        /\ fallback \subseteq LiveOf(t)
        /\ ActiveEpoch(t[1])
        /\ UNCHANGED <<branchEpochs, turns>>
    BY <1>7 DEF DeleteCandidateByHostCoordinate, LiveAt
  <2>3. \A d \in DOMAIN turnCandidates :
          turnCandidates[d].turn # t => reindexed[d] = turnCandidates[d].swipe
    BY DEF Reindexed, LiveAt, LiveOf, CandidatesOf
  <2> HIDE DEF t, fallback, reindexed
  <2> QED
    BY <1>5, <2>1, <2>2, <2>3
<1>8. ASSUME NEW cmd \in Command, NEW f \in Epoch,
             NEW cutoff \in 0 .. MaxIndex + 1, TruncateBranch(cmd, f, cutoff)
      PROVE  EpochUntouched(e)
  <2>1. /\ ActiveEpoch(f)
        /\ WithRoot(f) = branchEpochs
        /\ branchEpochs' = OpenEpoch(WithRoot(f), f, f, cutoff)
        /\ UNCHANGED <<turns, candidateTables>>
    BY <1>8 DEF TruncateBranch, WithRoot
  <2>2. \A x \in DOMAIN branchEpochs : x # f => x < f
    BY <2>1 DEF IInv, OneActiveEpoch, ActiveEpoch
  <2>3. branchEpochs' = OpenEpoch(branchEpochs, f, f, cutoff)
    BY <2>1
  <2> QED
    BY <1>t, <1>8, <2>1, <2>2, <2>3, EpochsOnly
<1>9. ASSUME NEW cmd \in Command, NEW f \in Epoch, NEW source \in Epoch,
             NEW through \in Index, RestoreBranch(cmd, f, source, through)
      PROVE  EpochUntouched(e)
  <2>1. /\ ActiveEpoch(f)
        /\ branchEpochs' = OpenEpoch(branchEpochs, f, source, through + 1)
        /\ UNCHANGED <<turns, candidateTables>>
    BY <1>9 DEF RestoreBranch
  <2>2. \A x \in DOMAIN branchEpochs : x # f => x < f
    BY <2>1 DEF IInv, OneActiveEpoch, ActiveEpoch
  <2>3. branchEpochs' = OpenEpoch(branchEpochs, f, source, through + 1)
    BY <2>1
  <2> QED
    BY <1>t, <1>9, <2>1, <2>2, <2>3, EpochsOnly
<1>10. CASE UNCHANGED vars
  BY <1>10 DEF vars, candidateTables, EpochUntouched
<1> QED
  BY <1>1, <1>2, <1>3, <1>4, <1>6, <1>7, <1>8, <1>9, <1>10 DEF Next

(* Nothing that belongs to a historical epoch ever changes again, so a     *)
(* branch that is restored later shows what it showed when it was left.    *)
THEOREM Frozen == Spec => HistoricalFrozen
<1>1. IInv /\ [Next]_vars =>
        [\A e \in DOMAIN branchEpochs : ~ ActiveEpoch(e) => EpochUntouched(e)]_vars
  BY StepFrozen
<1> QED
  BY <1>1, Invariance, PTL DEF Spec, HistoricalFrozen

-----------------------------------------------------------------------------
(* What an epoch shows.  Segments is recursive over the epochs; a fact     *)
(* about every epoch is proved from its least counterexample, for the      *)
(* parent of an epoch is older.                                            *)

(* A relation, for the library's theorem takes one.                        *)
Smaller == OpToRel(<, Nat)

LEMMA SmallerIsWellFounded ==
  /\ IsWellFoundedOn(Smaller, Nat)
  /\ \A m, n \in Nat : m < n => <<m, n>> \in Smaller
<1>1. IsWellFoundedOn(Smaller, Nat)
  BY NatLessThanWellFounded, Zenon DEF Smaller
<1>2. \A m, n \in Nat : m < n => <<m, n>> \in Smaller
  BY SMT DEF Smaller, OpToRel
<1> QED
  BY <1>1, <1>2

(* Induction over the epochs is done with their least counterexample.      *)
LEMMA LeastNatural ==
  ASSUME NEW T, T \subseteq Nat, T # {}
  PROVE  \E m \in T : \A n \in T : m <= n
<1>1. IsWellFoundedOn(Smaller, Nat)
  BY SmallerIsWellFounded
<1>2. \E x \in T : \A y \in T : ~ (<<y, x>> \in Smaller)
  BY <1>1, WFMin, Zenon
<1>3. PICK m \in T : \A n \in T : <<n, m>> \notin Smaller
  BY <1>2, Zenon
<1>4. ASSUME NEW n \in T PROVE m <= n
  <2>1. ~ (n < m)
    BY <1>3, SmallerIsWellFounded
  <2> QED
    BY <2>1
<1> QED
  BY <1>4

(* What the ledger's invariants say of its epoch rows.                     *)
EpochRows(rows) ==
  /\ DOMAIN rows \subseteq Epoch
  /\ rows \in [DOMAIN rows -> BranchRow]
  /\ \A e \in DOMAIN rows :
       rows[e].parent # None =>
         /\ rows[e].cutoff # None
         /\ rows[e].parent \in DOMAIN rows
         /\ rows[e].parent < e

Visits(rows, f) ==
  f = [p \in Segment(rows) |-> {p} \cup UNION {f[q] : q \in Inherited(rows, p)}]

LEMMA InheritedIsOlder ==
  ASSUME NEW rows, EpochRows(rows),
         NEW p \in Segment(rows), NEW q \in Inherited(rows, p)
  PROVE  q \in Segment(rows) /\ q[1] < p[1] /\ p[1] \in Nat /\ q[1] \in Nat
<1> DEFINE row == rows[p[1]]
<1>1. row \in BranchRow /\ p[1] \in Epoch /\ row.parent # None
      /\ p[2] \in -1 .. MaxIndex
  BY DEF EpochRows, Segment, Inherited
<1>2. row.parent \in DOMAIN rows /\ row.parent < p[1]
      /\ row.parent \in Epoch /\ row.cutoff \in 0 .. MaxIndex + 1
  BY <1>1 DEF EpochRows, BranchRow, Segment
<1>3. q = <<row.parent, IF p[2] < row.cutoff - 1 THEN p[2] ELSE row.cutoff - 1>>
  BY <1>1 DEF Inherited
<1>4. q[2] \in -1 .. MaxIndex
  BY <1>1, <1>2, <1>3, BoundsAssumption
<1> QED
  BY <1>1, <1>2, <1>3, <1>4, BoundsAssumption DEF Segment, Epoch

LEMMA VisitExists ==
  ASSUME NEW rows, EpochRows(rows)
  PROVE  \E f : Visits(rows, f)
<1> USE BoundsAssumption
<1> DEFINE Below(n) == {p \in Segment(rows) : p[1] < n}
           Partial(f, n) ==
             f = [p \in Below(n) |-> {p} \cup UNION {f[q] : q \in Inherited(rows, p)}]
           Bad == {n \in Nat : ~ \E f : Partial(f, n)}
<1>1. \E f : Partial(f, 0)
  <2>1. Below(0) = {}
    BY DEF Segment, EpochRows, Epoch
  <2> DEFINE g == [p \in {} |-> {}]
  <2>2. g = [p \in Below(0) |-> {p} \cup UNION {g[q] : q \in Inherited(rows, p)}]
    BY <2>1
  <2> QED
    BY <2>2
<1>2. ASSUME NEW n \in Nat, NEW f, Partial(f, n)
      PROVE  \E g : Partial(g, n + 1)
  <2> DEFINE g == [p \in Below(n + 1) |-> {p} \cup UNION {f[q] : q \in Inherited(rows, p)}]
  <2>1. ASSUME NEW p \in Below(n + 1), NEW q \in Inherited(rows, p)
        PROVE  g[q] = f[q]
    <3>1. q \in Segment(rows) /\ q[1] < p[1] /\ p[1] < n + 1 /\ q[1] \in Nat /\ p[1] \in Nat
      BY InheritedIsOlder
    <3>2. q \in Below(n) /\ q \in Below(n + 1)
      BY <3>1
    <3>3. f[q] = {q} \cup UNION {f[x] : x \in Inherited(rows, q)}
      BY <1>2, <3>2
    <3>4. g[q] = {q} \cup UNION {f[x] : x \in Inherited(rows, q)}
      BY <3>2
    <3> QED
      BY <3>3, <3>4
  <2>2. ASSUME NEW p \in Below(n + 1)
        PROVE  {f[q] : q \in Inherited(rows, p)} = {g[q] : q \in Inherited(rows, p)}
    BY <2>1
  <2> HIDE DEF Below
  <2>3. g = [p \in Below(n + 1) |-> {p} \cup UNION {g[q] : q \in Inherited(rows, p)}]
    BY <2>2, Zenon
  <2> QED
    BY <2>3
<1> HIDE DEF Partial, Below
<1>3. Bad = {}
  <2> SUFFICES ASSUME Bad # {} PROVE FALSE
    OBVIOUS
  <2>1. PICK m \in Bad : \A n \in Bad : m <= n
    BY LeastNatural
  <2>2. m \in Nat /\ m # 0
    BY <1>1
  <2>3. m - 1 \in Nat /\ m - 1 \notin Bad
    BY <2>1, <2>2
  <2>4. PICK f : Partial(f, m - 1)
    BY <2>3, Zenon
  <2>5. \E g : Partial(g, (m - 1) + 1)
    BY <1>2, <2>3, <2>4, Zenon
  <2>6. (m - 1) + 1 = m
    BY <2>2
  <2>7. \E g : Partial(g, m)
    BY <2>5, <2>6, Zenon
  <2> QED
    BY <2>1, <2>7, Zenon
<1>4. MaxEpoch + 1 \in Nat
  OBVIOUS
<1>5. PICK f : Partial(f, MaxEpoch + 1)
  BY <1>3, <1>4, Zenon
<1> HIDE DEF Bad
<1>6. \A p \in Segment(rows) : p[1] < MaxEpoch + 1
  BY DEF Segment, EpochRows, Epoch
<1>7. Below(MaxEpoch + 1) = Segment(rows)
  BY <1>6, Zenon DEF Below
<1>8. f = [p \in Segment(rows) |-> {p} \cup UNION {f[q] : q \in Inherited(rows, p)}]
  BY <1>5, <1>7, Zenon DEF Partial
<1> QED
  BY <1>8, Zenon DEF Visits

(* The recursion of Segments, unfolded once.                               *)
LEMMA SegmentsUnfold ==
  ASSUME NEW rows, EpochRows(rows),
         NEW e \in DOMAIN rows, NEW i \in -1 .. MaxIndex
  PROVE  SegmentsIn(rows, e, i) =
           {<<e, i>>} \cup
             UNION {SegmentsIn(rows, q[1], q[2]) : q \in Inherited(rows, <<e, i>>)}
<1>1. PICK V : Visits(rows, V) /\ \A d, j : SegmentsIn(rows, d, j) = V[<<d, j>>]
  BY VisitExists, Zenon DEF SegmentsIn, Visits
<1>2. <<e, i>> \in Segment(rows)
  BY DEF Segment
<1>3. ASSUME NEW q \in Inherited(rows, <<e, i>>) PROVE q = <<q[1], q[2]>>
  <2>1. q \in Segment(rows)
    BY <1>2, InheritedIsOlder
  <2> QED
    BY <2>1 DEF Segment
<1>4. V[<<e, i>>] = {<<e, i>>} \cup UNION {V[q] : q \in Inherited(rows, <<e, i>>)}
  BY <1>1, <1>2, Zenon DEF Visits
<1>5. {V[q] : q \in Inherited(rows, <<e, i>>)}
        = {SegmentsIn(rows, q[1], q[2]) : q \in Inherited(rows, <<e, i>>)}
  <2>1. ASSUME NEW q \in Inherited(rows, <<e, i>>)
        PROVE  V[q] = SegmentsIn(rows, q[1], q[2])
    BY <1>1, <1>3, Zenon
  <2> QED
    BY <2>1, Zenon
<1> QED
  BY <1>1, <1>4, <1>5, Zenon

LEMMA WithinAdds ==
  ASSUME NEW t, NEW s, NEW P
  PROVE  Within(t, {s} \cup P) <=>
           (t[1] = s[1] /\ t[2] <= s[2]) \/ Within(t, P)
BY Zenon DEF Within

Least(i, j) == IF i < j THEN i ELSE j

(* Which turns an epoch shows: its own, and those of the parent below the  *)
(* cutoff.                                                                 *)
LEMMA WithinUnfold ==
  ASSUME NEW rows, EpochRows(rows),
         NEW e \in DOMAIN rows, NEW i \in -1 .. MaxIndex, NEW t
  PROVE  Within(t, SegmentsIn(rows, e, i)) <=>
           \/ t[1] = e /\ t[2] <= i
           \/ /\ rows[e].parent # None
              /\ Within(t, SegmentsIn(rows, rows[e].parent,
                                      Least(i, rows[e].cutoff - 1)))
<1>1. CASE rows[e].parent = None
  <2>1. Inherited(rows, <<e, i>>) = {}
    BY <1>1 DEF Inherited
  <2>2. SegmentsIn(rows, e, i) = {<<e, i>>}
    BY <2>1, SegmentsUnfold
  <2> QED
    BY <1>1, <2>2 DEF Within
<1>2. CASE rows[e].parent # None
  <2> DEFINE P == SegmentsIn(rows, rows[e].parent, Least(i, rows[e].cutoff - 1))
  <2>1. Inherited(rows, <<e, i>>) =
          {<<rows[e].parent, Least(i, rows[e].cutoff - 1)>>}
    BY <1>2 DEF Inherited, Least
  <2>2. SegmentsIn(rows, e, i) = {<<e, i>>} \cup P
    <3> DEFINE I == Inherited(rows, <<e, i>>)
    <3>1. SegmentsIn(rows, e, i) =
            {<<e, i>>} \cup UNION {SegmentsIn(rows, q[1], q[2]) : q \in I}
      BY SegmentsUnfold, Zenon
    <3>2. {SegmentsIn(rows, q[1], q[2]) : q \in I} = {P}
      <4> DEFINE x == <<rows[e].parent, Least(i, rows[e].cutoff - 1)>>
      <4>1. {SegmentsIn(rows, q[1], q[2]) : q \in I} = {SegmentsIn(rows, x[1], x[2])}
        <5> HIDE DEF x
        <5> QED
          BY <2>1, Zenon DEF x
      <4> QED
        BY <4>1, Zenon
    <3> QED
      BY <3>1, <3>2, Zenon
  <2> HIDE DEF P
  <2>3. Within(t, {<<e, i>>} \cup P) <=> (t[1] = e /\ t[2] <= i) \/ Within(t, P)
    BY WithinAdds, <<e, i>>[1] = e, <<e, i>>[2] = i, Zenon
  <2> QED
    BY <1>2, <2>2, <2>3, Zenon DEF P
<1> QED
  BY <1>1, <1>2


LEMMA LeastType ==
  ASSUME NEW rows, EpochRows(rows), NEW e \in DOMAIN rows,
         rows[e].parent # None, NEW i \in -1 .. MaxIndex
  PROVE  /\ rows[e].parent \in DOMAIN rows
         /\ rows[e].parent < e
         /\ rows[e].cutoff \in 0 .. MaxIndex + 1
         /\ Least(i, rows[e].cutoff - 1) \in -1 .. MaxIndex
         /\ Least(MaxIndex, rows[e].cutoff - 1) = rows[e].cutoff - 1
         /\ e \in Nat /\ rows[e].parent \in Nat
<1>1. rows[e] \in BranchRow /\ e \in Epoch /\ rows[e].parent \in Epoch
  BY DEF EpochRows, BranchRow
<1>2. rows[e].parent \in DOMAIN rows /\ rows[e].parent < e /\ rows[e].cutoff # None
  BY DEF EpochRows
<1>3. rows[e].cutoff \in 0 .. MaxIndex + 1
  BY <1>1, <1>2 DEF BranchRow
<1> QED
  BY <1>1, <1>2, <1>3, BoundsAssumption DEF Least, Epoch

(* A part of an epoch shows what the whole shows, up to its last index.    *)
LEMMA PartIsPrefix ==
  ASSUME NEW rows, EpochRows(rows), NEW t \in Turn
  PROVE  \A e \in DOMAIN rows : \A i \in -1 .. MaxIndex :
           Within(t, SegmentsIn(rows, e, i)) <=>
             Within(t, SegmentsIn(rows, e, MaxIndex)) /\ t[2] <= i
<1> USE BoundsAssumption
<1> DEFINE Prefix(e) ==
             \A i \in -1 .. MaxIndex :
               Within(t, SegmentsIn(rows, e, i)) <=>
                 Within(t, SegmentsIn(rows, e, MaxIndex)) /\ t[2] <= i
           Bad == {e \in DOMAIN rows : ~ Prefix(e)}
<1>1. t[2] \in 0 .. MaxIndex
  BY DEF Turn, Index
<1>2. ASSUME NEW e \in DOMAIN rows,
             rows[e].parent # None => Prefix(rows[e].parent)
      PROVE  Prefix(e)
  <2> TAKE i \in -1 .. MaxIndex
  <2>1. MaxIndex \in -1 .. MaxIndex
    OBVIOUS
  <2>2. CASE rows[e].parent = None
    <3>1. Within(t, SegmentsIn(rows, e, i)) <=> t[1] = e /\ t[2] <= i
      BY <2>2, WithinUnfold
    <3>2. Within(t, SegmentsIn(rows, e, MaxIndex)) <=> t[1] = e /\ t[2] <= MaxIndex
      BY <2>2, <2>1, WithinUnfold
    <3> QED
      BY <3>1, <3>2, <1>1
  <2>3. CASE rows[e].parent # None
    <3> DEFINE p == rows[e].parent
               c == rows[e].cutoff
               P(j) == Within(t, SegmentsIn(rows, p, j))
    <3>1. Within(t, SegmentsIn(rows, e, i)) <=>
            (t[1] = e /\ t[2] <= i) \/ P(Least(i, c - 1))
      BY <2>3, WithinUnfold
    <3>2. Within(t, SegmentsIn(rows, e, MaxIndex)) <=>
            (t[1] = e /\ t[2] <= MaxIndex) \/ P(Least(MaxIndex, c - 1))
      BY <2>3, <2>1, WithinUnfold
    <3>3. /\ c \in 0 .. MaxIndex + 1
          /\ Least(i, c - 1) \in -1 .. MaxIndex
          /\ Least(MaxIndex, c - 1) = c - 1
      BY <2>3, LeastType
    <3>4. \A j \in -1 .. MaxIndex : P(j) <=> P(MaxIndex) /\ t[2] <= j
      BY <1>2, <2>3, Zenon
    <3> HIDE DEF P, p
    <3>5. P(Least(i, c - 1)) <=> P(MaxIndex) /\ t[2] <= Least(i, c - 1)
      BY <3>3, <3>4
    <3>6. P(c - 1) <=> P(MaxIndex) /\ t[2] <= c - 1
      BY <3>3, <3>4
    <3>7. t[2] <= Least(i, c - 1) <=> t[2] <= i /\ t[2] <= c - 1
      BY <1>1, <3>3 DEF Least
    <3> HIDE DEF c
    <3> QED
      BY <3>1, <3>2, <3>3, <3>5, <3>6, <3>7, <1>1
  <2> QED
    BY <2>2, <2>3
<1> HIDE DEF Prefix
<1>3. Bad = {}
  <2> SUFFICES ASSUME Bad # {} PROVE FALSE
    OBVIOUS
  <2>1. Bad \subseteq Nat
    BY DEF EpochRows, Epoch
  <2>2. PICK m \in Bad : \A n \in Bad : m <= n
    BY <2>1, LeastNatural
  <2>3. m \in DOMAIN rows /\ ~ Prefix(m)
    OBVIOUS
  <2>4. rows[m].parent # None => Prefix(rows[m].parent)
    <3> SUFFICES ASSUME rows[m].parent # None, ~ Prefix(rows[m].parent)
                 PROVE  FALSE
      OBVIOUS
    <3>1. /\ rows[m].parent \in DOMAIN rows
          /\ rows[m].parent < m
          /\ m \in Nat /\ rows[m].parent \in Nat
      BY <2>3, <2>1, LeastType
    <3>2. rows[m].parent \in Bad
      BY <3>1
    <3> QED
      BY <2>2, <3>1, <3>2
  <2> QED
    BY <1>2, <2>3, <2>4
<1>4. \A e \in DOMAIN rows : Prefix(e)
  BY <1>3
<1> QED
  BY <1>4 DEF Prefix

(* Rows that are kept show what they showed, whatever rows are added.      *)
LEMMA KeptRowsShowTheSame ==
  ASSUME NEW rows, NEW more, EpochRows(rows), EpochRows(more),
         DOMAIN rows \subseteq DOMAIN more,
         \A e \in DOMAIN rows : /\ more[e].parent = rows[e].parent
                                /\ more[e].cutoff = rows[e].cutoff,
         NEW t
  PROVE  \A e \in DOMAIN rows : \A i \in -1 .. MaxIndex :
           Within(t, SegmentsIn(more, e, i)) <=> Within(t, SegmentsIn(rows, e, i))
<1> USE BoundsAssumption
<1> DEFINE Same(e) ==
             \A i \in -1 .. MaxIndex :
               Within(t, SegmentsIn(more, e, i)) <=> Within(t, SegmentsIn(rows, e, i))
           Bad == {e \in DOMAIN rows : ~ Same(e)}
<1>1. ASSUME NEW e \in DOMAIN rows,
             rows[e].parent # None => Same(rows[e].parent)
      PROVE  Same(e)
  <2> TAKE i \in -1 .. MaxIndex
  <2> DEFINE p == rows[e].parent
             j == Least(i, rows[e].cutoff - 1)
  <2>1. Within(t, SegmentsIn(rows, e, i)) <=>
          \/ t[1] = e /\ t[2] <= i
          \/ p # None /\ Within(t, SegmentsIn(rows, p, j))
    BY WithinUnfold
  <2>2. Within(t, SegmentsIn(more, e, i)) <=>
          \/ t[1] = e /\ t[2] <= i
          \/ p # None /\ Within(t, SegmentsIn(more, p, j))
    <3>1. e \in DOMAIN more /\ more[e].parent = p /\ more[e].cutoff = rows[e].cutoff
      OBVIOUS
    <3>2. Within(t, SegmentsIn(more, e, i)) <=>
            \/ t[1] = e /\ t[2] <= i
            \/ /\ more[e].parent # None
               /\ Within(t, SegmentsIn(more, more[e].parent,
                                       Least(i, more[e].cutoff - 1)))
      BY <3>1, WithinUnfold
    <3> QED
      BY <3>1, <3>2, Zenon
  <2>3. p # None => j \in -1 .. MaxIndex
    BY LeastType
  <2> HIDE DEF p, j
  <2>4. p # None => (Within(t, SegmentsIn(more, p, j)) <=> Within(t, SegmentsIn(rows, p, j)))
    BY <1>1, <2>3, Zenon DEF p
  <2> QED
    BY <2>1, <2>2, <2>4, Zenon
<1> HIDE DEF Same
<1>2. Bad = {}
  <2> SUFFICES ASSUME Bad # {} PROVE FALSE
    OBVIOUS
  <2>1. Bad \subseteq Nat
    BY DEF EpochRows, Epoch
  <2>2. PICK m \in Bad : \A n \in Bad : m <= n
    BY <2>1, LeastNatural
  <2>3. m \in DOMAIN rows /\ ~ Same(m)
    OBVIOUS
  <2>4. rows[m].parent # None => Same(rows[m].parent)
    <3> SUFFICES ASSUME rows[m].parent # None, ~ Same(rows[m].parent)
                 PROVE  FALSE
      OBVIOUS
    <3>1. /\ rows[m].parent \in DOMAIN rows
          /\ rows[m].parent < m
          /\ m \in Nat /\ rows[m].parent \in Nat
      BY <2>3, <2>1, LeastType
    <3>2. rows[m].parent \in Bad
      BY <3>1
    <3> QED
      BY <2>2, <3>1, <3>2
  <2> QED
    BY <1>1, <2>3, <2>4
<1>3. \A e \in DOMAIN rows : Same(e)
  BY <1>2
<1> QED
  BY <1>3 DEF Same

LEMMA LedgerRows == IInv => EpochRows(branchEpochs)
BY DEF IInv, TypeOK, AncestryWellFounded, EpochRows

(* What rows a step may add to an epoch table that has some.               *)
LEMMA StepAddsRows ==
  ASSUME IInv, Next, DOMAIN branchEpochs # {}
  PROVE  /\ DOMAIN branchEpochs \subseteq DOMAIN branchEpochs'
         /\ \A e \in DOMAIN branchEpochs :
              /\ branchEpochs'[e].parent = branchEpochs[e].parent
              /\ branchEpochs'[e].cutoff = branchEpochs[e].cutoff
         /\ \/ DOMAIN branchEpochs' = DOMAIN branchEpochs
            \/ UNCHANGED <<turns, candidateTables>>
<1> DEFINE Kept ==
             /\ DOMAIN branchEpochs \subseteq DOMAIN branchEpochs'
             /\ \A e \in DOMAIN branchEpochs :
                  /\ branchEpochs'[e].parent = branchEpochs[e].parent
                  /\ branchEpochs'[e].cutoff = branchEpochs[e].cutoff
<1>t. /\ DOMAIN branchEpochs \subseteq Epoch
      /\ branchEpochs \in [DOMAIN branchEpochs -> BranchRow]
  BY DEF IInv, TypeOK
<1>o. ASSUME NEW e \in Epoch, ActiveEpoch(e), NEW parent, NEW cutoff,
             branchEpochs' = OpenEpoch(branchEpochs, e, parent, cutoff)
      PROVE  Kept
  <2>1. \A x \in DOMAIN branchEpochs : x # e => x < e
    BY <1>o DEF IInv, OneActiveEpoch, ActiveEpoch
  <2>2. e + 1 \notin DOMAIN branchEpochs
    BY <1>t, <2>1 DEF Epoch
  <2> QED
    BY <1>t, <1>o, <2>2 DEF OpenEpoch, Insert, BranchRow
<1>1. ASSUME NEW c \in Candidate, NEW e \in Epoch, NEW i \in Index,
             NEW s \in Swipe, NEW user \in UserMessage, NEW thread \in Thread,
             CommitTurn(c, e, i, s, user, thread)
      PROVE  Kept /\ DOMAIN branchEpochs' = DOMAIN branchEpochs
  BY <1>1, <1>t DEF CommitTurn, WithRoot, AdvanceHead, BranchRow
<1>2. ASSUME NEW cmd \in Command, NEW e \in Epoch,
             NEW cutoff \in 0 .. MaxIndex + 1, TruncateBranch(cmd, e, cutoff)
      PROVE  Kept /\ UNCHANGED <<turns, candidateTables>>
  <2>1. ActiveEpoch(e) /\ branchEpochs' = OpenEpoch(branchEpochs, e, e, cutoff)
    BY <1>2 DEF TruncateBranch, WithRoot
  <2> QED
    BY <1>2, <2>1, <1>o DEF TruncateBranch
<1>3. ASSUME NEW cmd \in Command, NEW e \in Epoch, NEW source \in Epoch,
             NEW through \in Index, RestoreBranch(cmd, e, source, through)
      PROVE  Kept /\ UNCHANGED <<turns, candidateTables>>
  <2>1. ActiveEpoch(e) /\ branchEpochs' = OpenEpoch(branchEpochs, e, source, through + 1)
    BY <1>3 DEF RestoreBranch
  <2> QED
    BY <1>3, <2>1, <1>o DEF RestoreBranch
<1>4. ASSUME NEW e \in Epoch, EnsureReplayRootBranch(e) PROVE FALSE
  BY <1>4 DEF EnsureReplayRootBranch
<1>5. ASSUME NEW c \in Candidate, ActivateCandidate(c)
      PROVE  UNCHANGED branchEpochs
  BY <1>5 DEF ActivateCandidate
<1>6. ASSUME NEW cmd \in Command, NEW e \in Epoch, NEW i \in Index,
             NEW s \in Swipe, ActivateCandidateByHostCoordinate(cmd, e, i, s)
      PROVE  UNCHANGED branchEpochs
  BY <1>6 DEF ActivateCandidateByHostCoordinate
<1>7. ASSUME NEW cmd \in Command, NEW c \in DOMAIN turnCandidates,
             NEW fb \in DOMAIN turnCandidates \cup {None},
             DeleteCandidate(cmd, c, fb)
      PROVE  UNCHANGED branchEpochs
  BY <1>7 DEF DeleteCandidate
<1>8. ASSUME NEW cmd \in Command, NEW e \in Epoch, NEW i \in Index,
             NEW s \in Swipe, NEW fb \in Swipe \cup {None},
             DeleteCandidateByHostCoordinate(cmd, e, i, s, fb)
      PROVE  UNCHANGED branchEpochs
  BY <1>8 DEF DeleteCandidateByHostCoordinate
<1>9. CASE UNCHANGED branchEpochs
  BY <1>9
<1> HIDE DEF Kept
<1>10. \/ Kept /\ DOMAIN branchEpochs' = DOMAIN branchEpochs
       \/ Kept /\ UNCHANGED <<turns, candidateTables>>
       \/ UNCHANGED branchEpochs
  BY <1>1, <1>2, <1>3, <1>4, <1>5, <1>6, <1>7, <1>8 DEF Next
<1> QED
  BY <1>9, <1>10 DEF Kept

(* A new epoch shows what its parent showed before the cutoff.             *)
LEMMA StepInherits ==
  ASSUME IInv, IInv', Next, NEW e \in Epoch, NEW p \in DOMAIN branchEpochs,
         e \notin DOMAIN branchEpochs, e \in DOMAIN branchEpochs',
         branchEpochs'[e].parent = p
  PROVE  HostCoordinates(e)' =
           {c \in HostCoordinates(p) :
              turnCandidates[c].turn[2] < branchEpochs'[e].cutoff}
<1> USE BoundsAssumption
<1> DEFINE rows == branchEpochs
           more == branchEpochs'
           cutoff == branchEpochs'[e].cutoff
<1>1. EpochRows(rows) /\ EpochRows(more)
  <2>1. EpochRows(rows)
    BY LedgerRows
  <2>2. (IInv => EpochRows(branchEpochs))'
    BY LedgerRows, PTL
  <2> QED
    BY <2>1, <2>2
<1>2. /\ DOMAIN rows \subseteq DOMAIN more
      /\ \A x \in DOMAIN rows : /\ more[x].parent = rows[x].parent
                                /\ more[x].cutoff = rows[x].cutoff
      /\ UNCHANGED candidateTables
  BY StepAddsRows
<1>3. p # None /\ p \in Epoch
  BY NoneAssumption DEF IInv, TypeOK, Epoch
<1> HIDE DEF rows, more
<1>4. /\ cutoff \in 0 .. MaxIndex + 1
      /\ cutoff - 1 \in -1 .. MaxIndex
      /\ Least(MaxIndex, cutoff - 1) = cutoff - 1
  <2>1. MaxIndex \in -1 .. MaxIndex
    OBVIOUS
  <2>2. more[e].parent # None /\ e \in DOMAIN more
    BY <1>3 DEF more
  <2>3. /\ more[e].cutoff \in 0 .. MaxIndex + 1
        /\ Least(MaxIndex, more[e].cutoff - 1) = more[e].cutoff - 1
    BY <1>1, <2>1, <2>2, LeastType
  <2> QED
    BY <2>3 DEF more
<1>5. ASSUME NEW t \in Turn, t[1] # e
      PROVE  Within(t, SegmentsIn(more, e, MaxIndex)) <=>
               Within(t, SegmentsIn(rows, p, MaxIndex)) /\ t[2] < cutoff
  <2>1. e \in DOMAIN more /\ more[e].parent = p /\ more[e].cutoff = cutoff
        /\ p \in DOMAIN rows /\ p \in DOMAIN more
        /\ MaxIndex \in -1 .. MaxIndex
    BY <1>2 DEF more, rows
  <2>2. Within(t, SegmentsIn(more, e, MaxIndex)) <=>
          Within(t, SegmentsIn(more, p, cutoff - 1))
    BY <1>1, <1>3, <1>4, <1>5, <2>1, WithinUnfold
  <2>3. Within(t, SegmentsIn(more, p, cutoff - 1)) <=>
          Within(t, SegmentsIn(more, p, MaxIndex)) /\ t[2] <= cutoff - 1
    BY <1>1, <1>4, <2>1, PartIsPrefix
  <2>4. Within(t, SegmentsIn(more, p, MaxIndex)) <=>
          Within(t, SegmentsIn(rows, p, MaxIndex))
    BY <1>1, <1>2, <2>1, KeptRowsShowTheSame
  <2>5. t[2] <= cutoff - 1 <=> t[2] < cutoff
    BY <1>4 DEF Turn, Index
  <2> QED
    BY <2>2, <2>3, <2>4, <2>5
<1>6. ASSUME NEW c \in DOMAIN turnCandidates
      PROVE  turnCandidates[c].turn \in Turn /\ turnCandidates[c].turn[1] # e
  BY DEF IInv, HeadCoversTurns, TypeOK
<1>7. HostCoordinates(p) =
        {c \in DOMAIN turnCandidates :
           /\ turnCandidates[c].status = "active"
           /\ patches[c] = "applied"
           /\ Within(turnCandidates[c].turn, SegmentsIn(rows, p, MaxIndex))}
  BY Zenon DEF HostCoordinates, Segments, rows
<1>8. HostCoordinates(e)' =
        {c \in DOMAIN turnCandidates :
           /\ turnCandidates[c].status = "active"
           /\ patches[c] = "applied"
           /\ Within(turnCandidates[c].turn, SegmentsIn(more, e, MaxIndex))}
  <2>1. turnCandidates' = turnCandidates /\ patches' = patches
    BY <1>2 DEF candidateTables
  <2>2. HostCoordinates(e)' =
        {c \in DOMAIN turnCandidates' :
           /\ turnCandidates'[c].status = "active"
           /\ patches'[c] = "applied"
           /\ Within(turnCandidates'[c].turn, SegmentsIn(more, e, MaxIndex))}
    BY Zenon DEF HostCoordinates, Segments, more
  <2> QED
    BY <2>1, <2>2, Zenon
<1> HIDE DEF cutoff
<1>9. HostCoordinates(e)' =
        {c \in HostCoordinates(p) : turnCandidates[c].turn[2] < cutoff}
  BY <1>5, <1>6, <1>7, <1>8
<1> QED
  BY <1>9 DEF cutoff

(* Every new epoch, of a truncation as of a restoration and however the    *)
(* cutoffs of its ancestors nest, shows exactly what its parent showed     *)
(* before the cutoff.                                                      *)
THEOREM InheritsPrefix == Spec => NewEpochInheritsPrefix
<1>1. IInv /\ IInv' /\ [Next]_vars =>
        [\A e \in Epoch, p \in DOMAIN branchEpochs :
           /\ e \notin DOMAIN branchEpochs
           /\ e \in DOMAIN branchEpochs'
           /\ branchEpochs'[e].parent = p
           => HostCoordinates(e)' =
                {c \in HostCoordinates(p) :
                   turnCandidates[c].turn[2] < branchEpochs'[e].cutoff}]_vars
  BY StepInherits
<1> QED
  BY <1>1, Invariance, PTL DEF Spec, NewEpochInheritsPrefix

-----------------------------------------------------------------------------
(* Swipe deletions and the host's splice.                                  *)

(* Coordinates of the replies in L that are 0, 1, 2, ... in some order.    *)
Packed(L, w) ==
  /\ \A c \in L : w[c] \in Swipe
  /\ \A c, d \in L : w[c] = w[d] => c = d
  /\ \A c \in L : \A x \in 0 .. w[c] : \E d \in L : w[d] = x

(* Those above slot s, which is left, move down.                           *)
MovedDown(L, w, moved, s) ==
  \A c \in L : moved[c] = IF w[c] > s THEN w[c] - 1 ELSE w[c]

(* The moved coordinates have no gap, and the order they had.              *)
RanksClosed(L, w, moved) ==
  /\ \A c, d \in L : moved[c] = moved[d] => c = d
  /\ \A c \in L : \A x \in 0 .. moved[c] : \E d \in L : moved[d] = x
  /\ \A c, d \in L : w[c] < w[d] <=> moved[c] < moved[d]

(* Removing slot s from coordinates that are 0, 1, 2, ... and moving those *)
(* above it down keeps them so, and keeps their order.                     *)
LEMMA CloseRanks ==
  ASSUME NEW L, NEW w, NEW moved, NEW target \in L, NEW s \in Swipe,
         w[target] = s, Packed(L, w), MovedDown(L \ {target}, w, moved, s)
  PROVE  RanksClosed(L \ {target}, w, moved)
<1> USE BoundsAssumption DEF Packed, MovedDown
<1>1. \A c \in L \ {target} : w[c] # s /\ w[c] \in Nat /\ s \in Nat
  BY DEF Swipe
<1>2. ASSUME NEW c \in L \ {target}, NEW d \in L \ {target}
      PROVE  /\ moved[c] = moved[d] => c = d
             /\ w[c] < w[d] <=> moved[c] < moved[d]
  <2>1. /\ moved[c] = IF w[c] > s THEN w[c] - 1 ELSE w[c]
        /\ moved[d] = IF w[d] > s THEN w[d] - 1 ELSE w[d]
    OBVIOUS
  <2>2. w[c] < w[d] <=> moved[c] < moved[d]
    BY <1>1, <2>1
  <2>3. moved[c] = moved[d] => w[c] = w[d]
    BY <1>1, <2>1
  <2> QED
    BY <2>2, <2>3
<1>3. ASSUME NEW c \in L \ {target}, NEW x \in 0 .. moved[c]
      PROVE  \E d \in L \ {target} : moved[d] = x
  <2>1. /\ moved[c] = IF w[c] > s THEN w[c] - 1 ELSE w[c]
        /\ w[c] \in Nat /\ w[c] # s /\ s \in Nat
    BY <1>1
  <2>2. CASE x < s
    <3>1. x \in 0 .. w[c]
      BY <2>1
    <3>2. PICK d \in L : w[d] = x
      BY <3>1
    <3>3. d # target /\ moved[d] = x
      BY <2>1, <2>2, <3>2
    <3> QED
      BY <3>3
  <2>3. CASE ~ (x < s)
    <3>1. x + 1 \in 0 .. w[c]
      BY <2>1, <2>3
    <3>2. PICK d \in L : w[d] = x + 1
      BY <3>1
    <3>3. d # target /\ moved[d] = x
      BY <2>1, <2>3, <3>2
    <3> QED
      BY <3>3
  <2> QED
    BY <2>2, <2>3
<1> QED
  BY <1>2, <1>3 DEF RanksClosed

(* A command that deletes a swipe is deleteCandidateByHostCoordinate.      *)
LEMMA DeletesSwipe ==
  ASSUME IInv, Next, NEW cmd \in Command,
         cmd \notin DOMAIN historyEvents, cmd \in DOMAIN historyEvents',
         historyEvents'[cmd].type = "delete_swipe"
  PROVE  \E e \in Epoch, i \in Index, s \in Swipe, fb \in Swipe \cup {None} :
           DeleteCandidateByHostCoordinate(cmd, e, i, s, fb)
<1>1. ASSUME NEW k, NEW row, row.type # "delete_swipe",
             historyEvents' = Insert(historyEvents, k, row)
      PROVE  FALSE
  BY <1>1 DEF Insert
<1>2. ASSUME UNCHANGED historyEvents PROVE FALSE
  BY <1>2
<1>3. ASSUME NEW k \in Command, NEW e \in Epoch, NEW i \in Index, NEW s \in Swipe,
             ActivateCandidateByHostCoordinate(k, e, i, s)
      PROVE  FALSE
  <2>1. PICK target : historyEvents' =
          Insert(historyEvents, k, [type |-> "activate_swipe", epoch |-> e, index |-> i,
                                    swipe |-> s, result |-> target])
    BY <1>3 DEF ActivateCandidateByHostCoordinate
  <2> QED
    BY <1>1, <2>1
<1>4. ASSUME NEW k \in Command, NEW c \in DOMAIN turnCandidates,
             NEW fb \in DOMAIN turnCandidates \cup {None},
             DeleteCandidate(k, c, fb)
      PROVE  FALSE
  <2>1. historyEvents' =
          Insert(historyEvents, k, [type |-> "delete_candidate", candidate |-> c,
                                    fallback |-> fb, result |-> c])
    BY <1>4 DEF DeleteCandidate
  <2> QED
    BY <1>1, <2>1
<1>5. ASSUME NEW k \in Command, NEW e \in Epoch,
             NEW cutoff \in 0 .. MaxIndex + 1, TruncateBranch(k, e, cutoff)
      PROVE  FALSE
  <2>1. historyEvents' =
          Insert(historyEvents, k, [type |-> "truncate_branch", epoch |-> e,
                                    cutoff |-> cutoff, result |-> e + 1])
    BY <1>5 DEF TruncateBranch
  <2> QED
    BY <1>1, <2>1
<1>6. ASSUME NEW k \in Command, NEW e \in Epoch, NEW source \in Epoch,
             NEW through \in Index, RestoreBranch(k, e, source, through)
      PROVE  FALSE
  <2>1. historyEvents' =
          Insert(historyEvents, k, [type |-> "restore_branch", epoch |-> e,
                                    source |-> source, through |-> through,
                                    result |-> e + 1])
    BY <1>6 DEF RestoreBranch
  <2> QED
    BY <1>1, <2>1
<1>7. ASSUME NEW c \in Candidate, NEW e \in Epoch, NEW i \in Index,
             NEW s \in Swipe, NEW user \in UserMessage, NEW thread \in Thread,
             CommitTurn(c, e, i, s, user, thread)
      PROVE  FALSE
  BY <1>7, <1>2 DEF CommitTurn
<1>8. ASSUME NEW c \in Candidate, ActivateCandidate(c) PROVE FALSE
  BY <1>8, <1>2 DEF ActivateCandidate
<1>9. ASSUME NEW e \in Epoch, EnsureReplayRootBranch(e) PROVE FALSE
  BY <1>9, <1>2 DEF EnsureReplayRootBranch
<1>10. ASSUME NEW k \in Command, NEW e \in Epoch, NEW i \in Index,
              NEW s \in Swipe, NEW fb \in Swipe \cup {None},
              DeleteCandidateByHostCoordinate(k, e, i, s, fb)
       PROVE  k = cmd
  <2>1. PICK row : historyEvents' = Insert(historyEvents, k, row)
    BY <1>10 DEF DeleteCandidateByHostCoordinate
  <2> QED
    BY <2>1 DEF Insert
<1> QED
  BY <1>3, <1>4, <1>5, <1>6, <1>7, <1>8, <1>9, <1>10 DEF Next

(* What a swipe deletion asks of its turn.                                 *)
Spliced(cmd, t) ==
  /\ Dense(t)'
  /\ LiveOf(t)' = LiveOf(t) \ {historyEvents'[cmd].result}
  /\ \A c, d \in LiveOf(t) \ {historyEvents'[cmd].result} :
       turnCandidates[c].swipe < turnCandidates[d].swipe
         <=> turnCandidates'[c].swipe < turnCandidates'[d].swipe
  /\ \A fb \in Swipe :
       historyEvents'[cmd].fallback = fb => ActiveOf(t)' = LiveAt(t, fb)'

LEMMA StepSplices ==
  ASSUME IInv, NEW cmd \in Command, NEW e \in Epoch, NEW i \in Index,
         NEW s \in Swipe, NEW fb \in Swipe \cup {None},
         DeleteCandidateByHostCoordinate(cmd, e, i, s, fb),
         Dense(<<e, i>>)
  PROVE  /\ historyEvents'[cmd].epoch = e /\ historyEvents'[cmd].index = i
         /\ Spliced(cmd, <<e, i>>)
<1> USE BoundsAssumption, NoneAssumption
<1> DEFINE t == <<e, i>>
           fallback == IF fb = None THEN {}
                       ELSE LiveAt(t, CoordinateBeforeSplice(fb, s))
           row(target) ==
             [type |-> "delete_swipe", epoch |-> e, index |-> i,
              swipe |-> s, fallback |-> fb, result |-> target]
<1>1. PICK target \in LiveAt(t, s) :
        /\ DeletionAllowed(t, target, fallback)
        /\ Delete(target, fallback, Reindexed(t, s))
        /\ historyEvents' = Insert(historyEvents, cmd, row(target))
  BY DEF DeleteCandidateByHostCoordinate
<1>2. fb # None => fallback # {}
  BY DEF DeleteCandidateByHostCoordinate
<1>3. /\ historyEvents'[cmd].epoch = e /\ historyEvents'[cmd].index = i
      /\ historyEvents'[cmd].result = target
      /\ historyEvents'[cmd].fallback = fb
  BY <1>1 DEF Insert
<1> HIDE DEF t, fallback, row
<1> DEFINE L == LiveOf(t)
           w == [c \in L |-> turnCandidates[c].swipe]
           moved == [c \in L |-> turnCandidates'[c].swipe]
<1>4. TypeOK /\ TablesAgree
  BY DEF IInv
<1>5. /\ target \in L /\ w[target] = s
      /\ L \subseteq DOMAIN turnCandidates
  BY <1>1 DEF LiveAt, LiveOf, CandidatesOf
<1>6. \A c \in L : w[c] \in Swipe
  BY <1>4 DEF LiveOf, CandidatesOf, TypeOK, CandidateRow, TablesAgree
<1>7. \A c \in L : c \in LiveAt(t, w[c])
  BY DEF LiveAt
<1>8. \A c, d \in L : w[c] = w[d] => c = d
  <2> SUFFICES ASSUME NEW c \in L, NEW d \in L, w[c] = w[d] PROVE c = d
    OBVIOUS
  <2>1. c \in LiveAt(t, w[c]) /\ d \in LiveAt(t, w[c]) /\ w[c] \in Swipe
    BY <1>6, <1>7
  <2> QED
    BY <2>1 DEF Dense, Ambiguous, AtMostOne, t
<1>9. \A c \in L : \A x \in 0 .. w[c] : \E d \in L : w[d] = x
  BY DEF Dense, LiveAt, t
<1>10. LiveAt(t, s) = {target}
  BY <1>5, <1>8 DEF LiveAt
<1>11. /\ DOMAIN turnCandidates' = DOMAIN turnCandidates
       /\ \A c \in DOMAIN turnCandidates :
            /\ turnCandidates'[c].turn = turnCandidates[c].turn
            /\ turnCandidates'[c].swipe = Reindexed(t, s)[c]
            /\ turnCandidates'[c].status =
                 IF c = target THEN "deleted"
                 ELSE IF c \in (IF turnCandidates[target].status = "active"
                                THEN fallback ELSE {}) THEN "active"
                 ELSE turnCandidates[c].status
  BY <1>1 DEF Delete
<1>12. \A c \in L \ {target} :
         moved[c] = IF w[c] > s THEN w[c] - 1 ELSE w[c]
  BY <1>5, <1>10, <1>11 DEF Reindexed
<1>13. fallback \subseteq L \ {target}
  <2>1. CASE fb = None
    BY <2>1 DEF fallback
  <2>2. CASE fb \in Swipe
    <3>1. fallback = LiveAt(t, CoordinateBeforeSplice(fb, s))
      BY <2>2 DEF fallback, Swipe
    <3>2. CoordinateBeforeSplice(fb, s) # s
      BY <2>2 DEF CoordinateBeforeSplice, Swipe
    <3> QED
      BY <1>5, <3>1, <3>2 DEF LiveAt
  <2> QED
    BY <2>1, <2>2
<1>14. LiveOf(t)' = L \ {target}
  <2>1. \A c \in DOMAIN turnCandidates :
          c \in LiveOf(t)' <=> turnCandidates[c].turn = t
                               /\ turnCandidates'[c].status # "deleted"
    BY <1>11 DEF LiveOf, CandidatesOf, t
  <2>2. \A c \in DOMAIN turnCandidates :
          c \in L <=> turnCandidates[c].turn = t /\ turnCandidates[c].status # "deleted"
    BY DEF LiveOf, CandidatesOf
  <2>3. LiveOf(t)' \subseteq DOMAIN turnCandidates
    BY <1>11 DEF LiveOf, CandidatesOf
  <2> QED
    BY <1>5, <1>11, <1>13, <2>1, <2>2, <2>3
<1>15. /\ \A c, d \in L \ {target} : moved[c] = moved[d] => c = d
       /\ \A c \in L \ {target} : \A x \in 0 .. moved[c] :
            \E d \in L \ {target} : moved[d] = x
       /\ \A c, d \in L \ {target} : w[c] < w[d] <=> moved[c] < moved[d]
  <2> HIDE DEF L, w, moved
  <2>1. Packed(L, w) /\ MovedDown(L \ {target}, w, moved, s)
    BY <1>6, <1>8, <1>9, <1>12, Zenon DEF Packed, MovedDown
  <2>2. target \in L /\ w[target] = s
    BY <1>5
  <2>3. RanksClosed(L \ {target}, w, moved)
    BY <2>1, <2>2, CloseRanks, Zenon
  <2> QED
    BY <2>3, Zenon DEF RanksClosed
<1>16. ASSUME NEW x
       PROVE  LiveAt(t, x)' = {c \in L \ {target} : moved[c] = x}
  BY <1>14 DEF LiveAt
<1>17. Dense(t)'
  <2>1. ASSUME NEW c \in LiveOf(t)', NEW x \in 0 .. turnCandidates'[c].swipe
        PROVE  LiveAt(t, x)' # {}
    <3>1. c \in L \ {target} /\ x \in 0 .. moved[c]
      BY <1>14, <2>1
    <3>2. PICK d \in L \ {target} : moved[d] = x
      BY <1>15, <3>1
    <3>3. d \in LiveAt(t, x)'
      BY <1>16, <3>2
    <3> QED
      BY <3>3
  <2>2. ASSUME NEW x PROVE AtMostOne(LiveAt(t, x)')
    <3>1. LiveAt(t, x)' = {c \in L \ {target} : moved[c] = x}
      BY <1>16
    <3> QED
      BY <1>15, <3>1 DEF AtMostOne
  <2> QED
    BY <2>1, <2>2 DEF Dense, Ambiguous, AtMostOne, t
<1>18. ASSUME fb \in Swipe PROVE ActiveOf(t)' = LiveAt(t, fb)'
  <2>1. fallback = {c \in L : w[c] = CoordinateBeforeSplice(fb, s)}
    BY <1>18 DEF fallback, LiveAt, Swipe
  <2>2. \A c \in L \ {target} : moved[c] = fb <=> w[c] = CoordinateBeforeSplice(fb, s)
    BY <1>5, <1>6, <1>8, <1>12, <1>18 DEF CoordinateBeforeSplice, Swipe
  <2>3. LiveAt(t, fb)' = fallback
    <3>1. LiveAt(t, fb)' = {c \in L \ {target} : moved[c] = fb}
      BY <1>16
    <3> HIDE DEF L, w, moved
    <3> QED
      BY <1>13, <2>1, <2>2, <3>1
  <2>4. ActiveOf(t)' = fallback
    <3>1. fallback # {} /\ AtMostOne(ActiveOf(t))
      BY <1>1, <1>2, <1>18 DEF DeletionAllowed, Swipe
    <3>2. \A c \in DOMAIN turnCandidates :
            c \in ActiveOf(t)' <=> turnCandidates[c].turn = t
                                   /\ turnCandidates'[c].status = "active"
      BY <1>11 DEF ActiveOf, CandidatesOf, t
    <3>3. ActiveOf(t)' \subseteq DOMAIN turnCandidates
      BY <1>11 DEF ActiveOf, CandidatesOf
    <3>4. \A c \in DOMAIN turnCandidates :
            c \in ActiveOf(t) <=> turnCandidates[c].turn = t
                                  /\ turnCandidates[c].status = "active"
      BY DEF ActiveOf, CandidatesOf
    <3>5. \A c \in fallback : turnCandidates[c].turn = t /\ c # target
                              /\ c \in DOMAIN turnCandidates
      BY <1>5, <1>13 DEF LiveOf, CandidatesOf
    <3>6. turnCandidates[target].turn = t /\ target \in DOMAIN turnCandidates
      BY <1>5 DEF LiveOf, CandidatesOf
    <3>7. CASE turnCandidates[target].status = "active"
      <4>1. target \in ActiveOf(t)
        BY <3>4, <3>6, <3>7
      <4>2. \A c \in DOMAIN turnCandidates :
              c \in ActiveOf(t)' <=> c \in fallback
        BY <1>11, <3>1, <3>2, <3>4, <3>5, <3>7, <4>1 DEF AtMostOne
      <4> QED
        BY <3>3, <3>5, <4>2
    <3>8. CASE turnCandidates[target].status # "active"
      <4>1. fallback \subseteq ActiveOf(t)
        BY <1>1, <3>8 DEF DeletionAllowed
      <4>2. fallback = ActiveOf(t)
        BY <3>1, <4>1 DEF AtMostOne
      <4>3. \A c \in DOMAIN turnCandidates :
              c \in ActiveOf(t)' <=> c \in ActiveOf(t)
        BY <1>11, <3>2, <3>4, <3>8
      <4>4. ActiveOf(t) \subseteq DOMAIN turnCandidates
        BY DEF ActiveOf, CandidatesOf
      <4> QED
        BY <3>3, <4>2, <4>3, <4>4
    <3> QED
      BY <3>7, <3>8
  <2> QED
    BY <2>3, <2>4
<1>19. \A c, d \in L \ {target} :
         turnCandidates[c].swipe < turnCandidates[d].swipe
           <=> turnCandidates'[c].swipe < turnCandidates'[d].swipe
  BY <1>15
<1> QED
  BY <1>3, <1>14, <1>17, <1>18, <1>19 DEF Spliced, t

(* Deleting a swipe does to the coordinates of a turn what the host's      *)
(* splice does to its array, and shows the fallback the host shows.        *)
THEOREM DeletionSplices == Spec => SwipeDeletionIsSplice
<1>1. ASSUME IInv, Next, NEW cmd \in Command, NEW t \in Turn,
             cmd \notin DOMAIN historyEvents, cmd \in DOMAIN historyEvents',
             historyEvents'[cmd].type = "delete_swipe",
             t = <<historyEvents'[cmd].epoch, historyEvents'[cmd].index>>,
             Dense(t)
      PROVE  Spliced(cmd, t)
  <2>1. PICK e \in Epoch, i \in Index, s \in Swipe, fb \in Swipe \cup {None} :
          DeleteCandidateByHostCoordinate(cmd, e, i, s, fb)
    BY <1>1, DeletesSwipe
  <2>2. historyEvents'[cmd].epoch = e /\ historyEvents'[cmd].index = i
    BY <2>1 DEF DeleteCandidateByHostCoordinate, Insert
  <2>3. t = <<e, i>>
    BY <1>1, <2>2
  <2>4. Spliced(cmd, <<e, i>>)
    BY <1>1, <2>1, <2>3, StepSplices
  <2> QED
    BY <2>3, <2>4
<1>2. IInv /\ [Next]_vars =>
        [\A cmd \in Command, t \in Turn :
           /\ cmd \notin DOMAIN historyEvents
           /\ cmd \in DOMAIN historyEvents'
           /\ historyEvents'[cmd].type = "delete_swipe"
           /\ t = <<historyEvents'[cmd].epoch, historyEvents'[cmd].index>>
           /\ Dense(t)
           => Spliced(cmd, t)]_vars
  BY <1>1
<1> QED
  BY <1>2, Invariance, PTL DEF Spec, SwipeDeletionIsSplice, Spliced

=============================================================================
