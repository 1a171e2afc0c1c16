---------------------------- MODULE StateHistory ----------------------------
(***************************************************************************)
(* The governed history ledger of one chat (src/history/state-history.js). *)
(*                                                                         *)
(* The ledger is a SQLite database.  Each table is a function from the     *)
(* primary keys of its rows to the rows; inserting a row extends the       *)
(* domain.  Every operation is one BEGIN IMMEDIATE ... COMMIT transaction  *)
(* and is one action here.  A request that the code refuses (it fails and  *)
(* rolls back) and a command that was applied before (its stored result is *)
(* returned) leave every table alone: both are stuttering steps, and the   *)
(* conjuncts at the head of an action are the conditions under which the   *)
(* code gets past its refusals and early returns.                          *)
(*                                                                         *)
(* One chat and one branch are modelled: every query of the code is        *)
(* qualified by chat_id and branch_id, and the only branch the host and    *)
(* the kernel use is 'main'.  turn_id is a hash of (chat, branch, epoch,   *)
(* turn index), so a turn is identified by the pair <<epoch, index>>.  A   *)
(* patch belongs to exactly one candidate and shares its key.              *)
(***************************************************************************)
EXTENDS Integers

CONSTANTS
  Candidate,     \* identities of reply candidates (one for each root run)
  Command,       \* command identities issued by the host
  UserMessage,   \* hashes of user messages
  None,          \* SQL NULL
  MaxEpoch,      \* bound: the largest branch epoch
  MaxIndex,      \* bound: the largest turn index (a position in the chat)
  MaxSwipe       \* bound: the largest swipe coordinate

ASSUME BoundsAssumption ==
  /\ MaxEpoch \in Nat
  /\ MaxIndex \in Nat
  /\ MaxSwipe \in Nat

ASSUME NoneAssumption == None \notin Int

Epoch == 0 .. MaxEpoch
Index == 0 .. MaxIndex
Swipe == 0 .. MaxSwipe
Turn  == Epoch \X Index

(* What the delta of a turn does to the one plot thread that is modelled.  *)
Thread == {"untouched", "opened", "closed"}

VARIABLES
  branchEpochs,       \* branch_epochs: epoch -> row
  turns,              \* turns: <<epoch, index>> -> hash of the user message
  turnCandidates,     \* turn_candidates: candidate -> row
  patches,            \* patches: candidate -> patch status
  turnMemoryRecords,  \* turn_memory_records: candidate -> row
  historyEvents       \* history_events of host commands: command -> row

vars == <<branchEpochs, turns, turnCandidates, patches, turnMemoryRecords,
          historyEvents>>

candidateTables == <<turnCandidates, patches, turnMemoryRecords>>

-----------------------------------------------------------------------------
(* Row types.                                                              *)

BranchRow ==
  [status : {"active", "historical"},
   parent : Epoch \cup {None},
   cutoff : 0 .. MaxIndex + 1 \cup {None},   \* parent_cutoff, exclusive
   head   : Index \cup {None}]

CandidateRow ==
  [turn   : Turn,
   swipe  : Swipe \cup {None},
   status : {"active", "inactive", "deleted"}]

PatchStatus == {"prepared", "applied", "rolled_back"}

RecordRow == [status : {"active", "inactive"}, thread : Thread]

(* What a command asked for; the result that matters later is the          *)
(* candidate that it selected or deleted, or the epoch that it created.    *)
EventRow ==
       [type : {"activate_swipe"}, epoch : Epoch, index : Index,
        swipe : Swipe, result : Candidate]
  \cup [type : {"delete_swipe"}, epoch : Epoch, index : Index,
        swipe : Swipe, fallback : Swipe \cup {None}, result : Candidate]
  \cup [type : {"delete_candidate"}, candidate : Candidate,
        fallback : Candidate \cup {None}, result : Candidate]
  \cup [type : {"truncate_branch"}, epoch : Epoch,
        cutoff : 0 .. MaxIndex + 1, result : Epoch]
  \cup [type : {"restore_branch"}, epoch : Epoch, source : Epoch,
        through : Index, result : Epoch]

TypeOK ==
  /\ DOMAIN branchEpochs \subseteq Epoch
  /\ branchEpochs \in [DOMAIN branchEpochs -> BranchRow]
  /\ DOMAIN turns \subseteq Turn
  /\ turns \in [DOMAIN turns -> UserMessage]
  /\ DOMAIN turnCandidates \subseteq Candidate
  /\ turnCandidates \in [DOMAIN turnCandidates -> CandidateRow]
  /\ patches \in [DOMAIN turnCandidates -> PatchStatus]
  /\ turnMemoryRecords \in [DOMAIN turnCandidates -> RecordRow]
  /\ DOMAIN historyEvents \subseteq Command
  /\ historyEvents \in [DOMAIN historyEvents -> EventRow]

-----------------------------------------------------------------------------
(* Reading the ledger.                                                     *)

Insert(table, key, row) ==
  [k \in DOMAIN table \cup {key} |-> IF k = key THEN row ELSE table[k]]

AtMostOne(S) == \A x, y \in S : x = y

ActiveEpoch(e) ==
  e \in DOMAIN branchEpochs /\ branchEpochs[e].status = "active"

(* A command whose identity is bound returns its stored result, or a       *)
(* conflict when it was bound to something else; only a fresh one applies. *)
FreshCommand(cmd) == cmd \notin DOMAIN historyEvents

CandidatesOf(t) == {c \in DOMAIN turnCandidates : turnCandidates[c].turn = t}

ActiveOf(t) == {c \in CandidatesOf(t) : turnCandidates[c].status = "active"}

LiveOf(t) == {c \in CandidatesOf(t) : turnCandidates[c].status # "deleted"}

LiveAt(t, s) == {c \in LiveOf(t) : turnCandidates[c].swipe = s}

(* turn_candidate_lookup_ambiguous: a live coordinate names two candidates. *)
Ambiguous(t) == \E s \in Swipe : ~ AtMostOne(LiveAt(t, s))

(* A segment <<e, i>> is the part of epoch e through turn index i.         *)
Segment(rows) == (DOMAIN rows) \X (-1 .. MaxIndex)

(* Mutation of Inherited: the cutoff is taken to be inclusive.             *)
InheritedThroughCutoff(rows, p) ==
  LET row == rows[p[1]] IN
  IF row.parent = None THEN {}
  ELSE {<<row.parent, IF p[2] < row.cutoff THEN p[2] ELSE row.cutoff>>}

(* Where an epoch has a parent, its segment through an index goes on in    *)
(* the segment of the parent below the cutoff.                             *)
Inherited(rows, p) ==
  LET row == rows[p[1]] IN
  IF row.parent = None THEN {}
  ELSE {<<row.parent, IF p[2] < row.cutoff - 1 THEN p[2] ELSE row.cutoff - 1>>}

SegmentsIn(rows, e, i) ==
  LET visit[p \in Segment(rows)] ==
        {p} \cup UNION {visit[q] : q \in Inherited(rows, p)}
  IN visit[<<e, i>>]

(* resolveBranchSegments: the segments that make up the history of epoch e *)
(* through turn index i.                                                   *)
Segments(e, i) == SegmentsIn(branchEpochs, e, i)

Within(t, segments) ==
  \E seg \in segments : t[1] = seg[1] /\ t[2] <= seg[2]

(* selectCommittedHostCoordinates: the replies that the host should show.  *)
HostCoordinates(e) ==
  {c \in DOMAIN turnCandidates :
     /\ turnCandidates[c].status = "active"
     /\ patches[c] = "applied"
     /\ Within(turnCandidates[c].turn, Segments(e, MaxIndex))}

(* selectActiveTurnMemoryRows: the candidates whose records are story      *)
(* memory at turn index i of epoch e.                                      *)
MemoryRows(e, i) ==
  {c \in DOMAIN turnCandidates :
     /\ turnCandidates[c].status = "active"
     /\ patches[c] = "applied"
     /\ turnMemoryRecords[c].status = "active"
     /\ Within(turnCandidates[c].turn, Segments(e, i))}

(* Rows are read segment by segment, oldest epoch first, then by index.    *)
Before(t1, t2) == t1[1] < t2[1] \/ (t1[1] = t2[1] /\ t1[2] < t2[2])

(* The latest record about the thread, strictly before turn i, opens it.   *)
PriorOpenThread(e, i) ==
  /\ e \in DOMAIN branchEpochs
  /\ \E c \in MemoryRows(e, i - 1) :
       /\ turnMemoryRecords[c].thread = "opened"
       /\ \A d \in MemoryRows(e, i - 1) :
            turnMemoryRecords[d].thread # "untouched" =>
              ~ Before(turnCandidates[c].turn, turnCandidates[d].turn)

-----------------------------------------------------------------------------
(* Writing the ledger.                                                     *)

Init ==
  /\ branchEpochs = [e \in {} |-> None]
  /\ turns = [t \in {} |-> None]
  /\ turnCandidates = [c \in {} |-> None]
  /\ patches = [c \in {} |-> None]
  /\ turnMemoryRecords = [c \in {} |-> None]
  /\ historyEvents = [cmd \in {} |-> None]

RootBranch ==
  [status |-> "active", parent |-> None, cutoff |-> None, head |-> None]

(* The epoch rows a commit into epoch e works on: the first commit of a    *)
(* chat creates the root, any other epoch must exist and be active.        *)
WithRoot(e) ==
  IF DOMAIN branchEpochs = {} THEN [x \in {e} |-> RootBranch] ELSE branchEpochs

AdvanceHead(row, i) ==
  [row EXCEPT !.head = IF row.head = None \/ row.head < i THEN i ELSE row.head]

(* commitTurn: seal one reply of the turn <<e, i>>.  The first reply of a  *)
(* turn becomes active at once; a later one waits to be activated.         *)
CommitTurn(c, e, i, s, user, thread) ==
  LET t == <<e, i>>
      existing == t \in DOMAIN turns
  IN
  /\ c \notin DOMAIN turnCandidates
  /\ existing => turns[t] = user
  /\ DOMAIN branchEpochs = {} \/ ActiveEpoch(e)
  /\ thread = "closed" => PriorOpenThread(e, i)
  /\ branchEpochs' =
       IF existing
       THEN branchEpochs
       ELSE [WithRoot(e) EXCEPT ![e] = AdvanceHead(@, i)]
  /\ turns' = IF existing THEN turns ELSE Insert(turns, t, user)
  /\ turnCandidates' =
       Insert(turnCandidates, c,
              [turn |-> t, swipe |-> s,
               status |-> IF existing THEN "inactive" ELSE "active"])
  /\ patches' = Insert(patches, c, IF existing THEN "prepared" ELSE "applied")
  /\ turnMemoryRecords' =
       Insert(turnMemoryRecords, c, [status |-> "active", thread |-> thread])
  /\ UNCHANGED historyEvents

(* ensureReplayRootBranch: create the root epoch of an empty ledger.       *)
EnsureReplayRootBranch(e) ==
  /\ DOMAIN branchEpochs = {}
  /\ branchEpochs' = [x \in {e} |-> RootBranch]
  /\ UNCHANGED <<turns, candidateTables, historyEvents>>

(* The statements that make target the one active reply of turn t.         *)
Activate(t, target) ==
  /\ patches' =
       [c \in DOMAIN patches |->
          IF c = target THEN "applied"
          ELSE IF c \in ActiveOf(t) THEN "rolled_back" ELSE patches[c]]
  /\ turnCandidates' =
       [c \in DOMAIN turnCandidates |->
          IF c = target THEN [turnCandidates[c] EXCEPT !.status = "active"]
          ELSE IF c \in ActiveOf(t)
          THEN [turnCandidates[c] EXCEPT !.status = "inactive"]
          ELSE turnCandidates[c]]

(* activateCandidate: select a reply by identity; no event is recorded.    *)
ActivateCandidate(c) ==
  /\ c \in DOMAIN turnCandidates
  /\ turnCandidates[c].status = "inactive"
  /\ ActiveEpoch(turnCandidates[c].turn[1])
  /\ Activate(turnCandidates[c].turn, c)
  /\ UNCHANGED <<branchEpochs, turns, turnMemoryRecords, historyEvents>>

(* activateCandidateByHostCoordinate: the host shows swipe s of a turn.    *)
(* Only turns of the active epoch itself are looked up.                    *)
ActivateCandidateByHostCoordinate(cmd, e, i, s) ==
  LET t == <<e, i>> IN
  /\ FreshCommand(cmd)
  /\ ActiveEpoch(e)
  /\ ~ Ambiguous(t)
  /\ AtMostOne(ActiveOf(t))
  /\ \E target \in LiveAt(t, s) :
       /\ IF turnCandidates[target].status = "active"
          THEN UNCHANGED <<turnCandidates, patches>>
          ELSE Activate(t, target)
       /\ historyEvents' =
            Insert(historyEvents, cmd,
                   [type |-> "activate_swipe", epoch |-> e, index |-> i,
                    swipe |-> s, result |-> target])
  /\ UNCHANGED <<branchEpochs, turns, turnMemoryRecords>>

(* May target be deleted when the host falls back to the replies in        *)
(* fallback?  Deleting the active reply needs a fallback, deleting another *)
(* one must not change which reply is active.                              *)
DeletionAllowed(t, target, fallback) ==
  /\ AtMostOne(ActiveOf(t))
  /\ IF turnCandidates[target].status = "active"
     THEN fallback # {}
     ELSE fallback \subseteq ActiveOf(t)

(* The statements that delete target and make the fallback active when     *)
(* target was.  reindexed holds the new coordinates of the candidates.     *)
Delete(target, fallback, reindexed) ==
  LET promoted == IF turnCandidates[target].status = "active"
                  THEN fallback ELSE {}
  IN
  /\ patches' =
       [c \in DOMAIN patches |->
          IF c = target THEN "rolled_back"
          ELSE IF c \in promoted THEN "applied" ELSE patches[c]]
  /\ turnMemoryRecords' =
       [turnMemoryRecords EXCEPT ![target].status = "inactive"]
  /\ turnCandidates' =
       [c \in DOMAIN turnCandidates |->
          [turn   |-> turnCandidates[c].turn,
           swipe  |-> reindexed[c],
           status |-> IF c = target THEN "deleted"
                      ELSE IF c \in promoted THEN "active"
                      ELSE turnCandidates[c].status]]

(* deleteCandidate: delete a reply by identity (history replay).  The      *)
(* deleted row keeps its coordinate and no other row is renumbered.        *)
DeleteCandidate(cmd, target, fb) ==
  LET t == turnCandidates[target].turn
      fallback == IF fb = None THEN {} ELSE {fb}
  IN
  /\ FreshCommand(cmd)
  /\ target \in DOMAIN turnCandidates
  /\ turnCandidates[target].status # "deleted"
  /\ ActiveEpoch(t[1])
  /\ fallback \subseteq LiveOf(t) \ {target}
  /\ DeletionAllowed(t, target, fallback)
  /\ Delete(target, fallback,
            [c \in DOMAIN turnCandidates |-> turnCandidates[c].swipe])
  /\ historyEvents' =
       Insert(historyEvents, cmd,
              [type |-> "delete_candidate", candidate |-> target,
               fallback |-> fb, result |-> target])
  /\ UNCHANGED <<branchEpochs, turns>>

(* Mutation of CoordinateBeforeSplice: the slot that took the place of the *)
(* deleted one is not translated.                                          *)
CoordinateBeforeSpliceStrict(fb, deleted) == IF fb > deleted THEN fb + 1 ELSE fb

(* The host reports the fallback after it has removed the deleted slot,    *)
(* the rows of the ledger still have the coordinates from before.          *)
CoordinateBeforeSplice(fb, deleted) == IF fb >= deleted THEN fb + 1 ELSE fb

(* Mutation of Reindexed: the other slots keep their coordinates.          *)
NotReindexed(t, s) ==
  [c \in DOMAIN turnCandidates |->
     IF c \in LiveAt(t, s) THEN None ELSE turnCandidates[c].swipe]

(* Coordinates after the slot s of turn t is removed.                      *)
Reindexed(t, s) ==
  [c \in DOMAIN turnCandidates |->
     CASE c \in LiveAt(t, s) -> None
       [] c \in LiveOf(t) /\ turnCandidates[c].swipe > s
            -> turnCandidates[c].swipe - 1
       [] OTHER -> turnCandidates[c].swipe]

(* deleteCandidateByHostCoordinate: the host removed swipe slot s and now  *)
(* shows the slot fb (a coordinate after the removal).                     *)
DeleteCandidateByHostCoordinate(cmd, e, i, s, fb) ==
  LET t == <<e, i>>
      fallback == IF fb = None THEN {}
                  ELSE LiveAt(t, CoordinateBeforeSplice(fb, s))
  IN
  /\ FreshCommand(cmd)
  /\ ActiveEpoch(e)
  /\ ~ Ambiguous(t)
  /\ fb # None => fallback # {}
  /\ \E target \in LiveAt(t, s) :
       /\ DeletionAllowed(t, target, fallback)
       /\ Delete(target, fallback, Reindexed(t, s))
       /\ historyEvents' =
            Insert(historyEvents, cmd,
                   [type |-> "delete_swipe", epoch |-> e, index |-> i,
                    swipe |-> s, fallback |-> fb, result |-> target])
  /\ UNCHANGED <<branchEpochs, turns>>

(* The active epoch e becomes historical and epoch e + 1 takes over, a     *)
(* child of parent that inherits the turns before cutoff.                  *)
OpenEpoch(rows, e, parent, cutoff) ==
  Insert([rows EXCEPT ![e].status = "historical"], e + 1,
         [status |-> "active", parent |-> parent, cutoff |-> cutoff,
          head   |-> IF cutoff = 0 THEN None ELSE cutoff - 1])

(* truncateBranch: the host dropped every message from cutoff on.          *)
TruncateBranch(cmd, e, cutoff) ==
  /\ e < MaxEpoch
  /\ FreshCommand(cmd)
  /\ ActiveEpoch(e) \/ (DOMAIN branchEpochs = {} /\ e = 0)
  /\ branchEpochs' = OpenEpoch(WithRoot(e), e, e, cutoff)
  /\ historyEvents' =
       Insert(historyEvents, cmd,
              [type |-> "truncate_branch", epoch |-> e, cutoff |-> cutoff,
               result |-> e + 1])
  /\ UNCHANGED <<turns, candidateTables>>

(* restoreBranch: go back to a historical epoch, through one of its turns. *)
RestoreBranch(cmd, e, source, through) ==
  /\ e < MaxEpoch
  /\ FreshCommand(cmd)
  /\ source # e
  /\ ActiveEpoch(e)
  /\ source \in DOMAIN branchEpochs
  /\ branchEpochs[source].status = "historical"
  /\ branchEpochs[source].head # None
  /\ through <= branchEpochs[source].head
  /\ branchEpochs' = OpenEpoch(branchEpochs, e, source, through + 1)
  /\ historyEvents' =
       Insert(historyEvents, cmd,
              [type |-> "restore_branch", epoch |-> e, source |-> source,
               through |-> through, result |-> e + 1])
  /\ UNCHANGED <<turns, candidateTables>>

Next ==
  \/ \E c \in Candidate, e \in Epoch, i \in Index, s \in Swipe,
        user \in UserMessage, thread \in Thread :
       CommitTurn(c, e, i, s, user, thread)
  \/ \E e \in Epoch : EnsureReplayRootBranch(e)
  \/ \E c \in Candidate : ActivateCandidate(c)
  \/ \E cmd \in Command, e \in Epoch, i \in Index, s \in Swipe :
       ActivateCandidateByHostCoordinate(cmd, e, i, s)
  \/ \E cmd \in Command, c \in DOMAIN turnCandidates,
        fb \in DOMAIN turnCandidates \cup {None} :
       DeleteCandidate(cmd, c, fb)
  \/ \E cmd \in Command, e \in Epoch, i \in Index, s \in Swipe,
        fb \in Swipe \cup {None} :
       DeleteCandidateByHostCoordinate(cmd, e, i, s, fb)
  \/ \E cmd \in Command, e \in Epoch, cutoff \in 0 .. MaxIndex + 1 :
       TruncateBranch(cmd, e, cutoff)
  \/ \E cmd \in Command, e \in Epoch, source \in Epoch, through \in Index :
       RestoreBranch(cmd, e, source, through)

Spec == Init /\ [][Next]_vars

-----------------------------------------------------------------------------
(* Properties.                                                             *)

(* Every committed turn has exactly one active reply, whatever swipes,     *)
(* deletions and commits were applied to it: the code re-checks "at most   *)
(* one" before each swap (turn_active_candidate_conflict) and never checks *)
(* "at least one".                                                         *)
OneActiveReply ==
  \A t \in DOMAIN turns : ActiveOf(t) # {} /\ AtMostOne(ActiveOf(t))

(* The three tables that decide what is story memory agree: a patch is     *)
(* applied exactly when its candidate is active, the records of a          *)
(* candidate are withdrawn exactly when it is deleted, and a candidate     *)
(* that is not deleted still has a host coordinate.                        *)
TablesAgree ==
  \A c \in DOMAIN turnCandidates :
    /\ patches[c] = "applied" <=> turnCandidates[c].status = "active"
    /\ turnMemoryRecords[c].status = "inactive"
         <=> turnCandidates[c].status = "deleted"
    /\ turnCandidates[c].status # "deleted" => turnCandidates[c].swipe # None

(* A ledger with epochs has exactly one active epoch and it is the latest, *)
(* so history_branch_active_ambiguous is never raised and the next epoch   *)
(* number is always free.                                                  *)
OneActiveEpoch ==
  DOMAIN branchEpochs # {} =>
    \E e \in DOMAIN branchEpochs :
      /\ ActiveEpoch(e)
      /\ \A x \in DOMAIN branchEpochs : x # e => x < e /\ ~ ActiveEpoch(x)

(* Ancestry is well founded: a parent is an older epoch of the ledger and  *)
(* comes with a cutoff, so resolveBranchSegments never raises              *)
(* branch_epoch_cycle or branch_epoch_not_found.                           *)
AncestryWellFounded ==
  \A e \in DOMAIN branchEpochs :
    /\ branchEpochs[e].parent = None <=> branchEpochs[e].cutoff = None
    /\ branchEpochs[e].parent # None =>
         /\ branchEpochs[e].parent \in DOMAIN branchEpochs
         /\ branchEpochs[e].parent < e

(* head_turn_index, which restoreBranch trusts to bound what can be        *)
(* restored, is never below a turn that was committed into the epoch, and  *)
(* every turn belongs to an epoch and every candidate to a turn.           *)
HeadCoversTurns ==
  /\ \A t \in DOMAIN turns :
       /\ t[1] \in DOMAIN branchEpochs
       /\ branchEpochs[t[1]].head # None
       /\ t[2] <= branchEpochs[t[1]].head
  /\ \A c \in DOMAIN turnCandidates : turnCandidates[c].turn \in DOMAIN turns

(* What every reading of a turn relies on: one active reply, and the three *)
(* tables agree about it.  No CHECK of the schema spans rows or tables, so *)
(* only the order of the statements of each operation keeps it.            *)
RepliesAgree == OneActiveReply /\ TablesAgree

(* What every reading of a branch relies on: one active epoch, an ancestry *)
(* that ends, and heads that cover what restoreBranch may restore.         *)
EpochsInOrder == OneActiveEpoch /\ AncestryWellFounded /\ HeadCoversTurns

(* Every deletion command deleted one reply, and every deleted reply was   *)
(* deleted by one command: a retried command whose coordinate now names    *)
(* another reply does not delete that one as well ("Command identity must  *)
(* win over the mutable host coordinate", state-history.js:2493).          *)
DeletionsAccounted ==
  LET deletions == {cmd \in DOMAIN historyEvents :
                      historyEvents[cmd].type \in
                        {"delete_swipe", "delete_candidate"}}
  IN
  /\ \A c \in DOMAIN turnCandidates :
       turnCandidates[c].status = "deleted" =>
         \E cmd \in deletions : historyEvents[cmd].result = c
  /\ \A cmd1, cmd2 \in deletions :
       /\ historyEvents[cmd1].result \in DOMAIN turnCandidates
       /\ turnCandidates[historyEvents[cmd1].result].status = "deleted"
       /\ historyEvents[cmd1].result = historyEvents[cmd2].result
            => cmd1 = cmd2

(* A step leaves the row of epoch e alone, its turns, and the candidates,  *)
(* patches and records of its turns, and adds none.                        *)
EpochUntouched(e) ==
  /\ e \in DOMAIN branchEpochs' /\ branchEpochs'[e] = branchEpochs[e]
  /\ \A t \in DOMAIN turns' : t[1] = e =>
       t \in DOMAIN turns /\ turns'[t] = turns[t]
  /\ \A c \in DOMAIN turnCandidates' : turnCandidates'[c].turn[1] = e =>
       /\ c \in DOMAIN turnCandidates
       /\ turnCandidates'[c] = turnCandidates[c]
       /\ patches'[c] = patches[c]
       /\ turnMemoryRecords'[c] = turnMemoryRecords[c]

(* What belongs to a historical epoch never changes again: its row, its    *)
(* turns, their replies, patches and records.  A restored branch therefore *)
(* shows what its source showed when it was left.                          *)
HistoricalFrozen ==
  [][\A e \in DOMAIN branchEpochs : ~ ActiveEpoch(e) => EpochUntouched(e)]_vars

(* A new epoch starts with exactly the replies that its parent showed      *)
(* before the cutoff: a truncation forgets the dropped messages and only   *)
(* those, a restoration brings back the chosen prefix of the old branch.   *)
NewEpochInheritsPrefix ==
  [][\A e \in Epoch, p \in DOMAIN branchEpochs :
       /\ e \notin DOMAIN branchEpochs
       /\ e \in DOMAIN branchEpochs'
       /\ branchEpochs'[e].parent = p
       => HostCoordinates(e)' =
            {c \in HostCoordinates(p) :
               turnCandidates[c].turn[2] < branchEpochs'[e].cutoff}]_vars

(* The replies of a turn in the order of the host's swipe array, when the  *)
(* coordinates of the live ones are 0, 1, 2, ...                           *)
Dense(t) ==
  /\ \A c \in LiveOf(t) :
       \A s \in 0 .. turnCandidates[c].swipe : LiveAt(t, s) # {}
  /\ ~ Ambiguous(t)

(* Deleting swipe s does to the coordinates of a turn what splice(s, 1)    *)
(* does to the host's swipe array: the others close ranks in their order,  *)
(* and the fallback that the host shows is the active reply.               *)
SwipeDeletionIsSplice ==
  [][\A cmd \in Command, t \in Turn :
       /\ cmd \notin DOMAIN historyEvents
       /\ cmd \in DOMAIN historyEvents'
       /\ historyEvents'[cmd].type = "delete_swipe"
       /\ t = <<historyEvents'[cmd].epoch, historyEvents'[cmd].index>>
       /\ Dense(t)
       => /\ Dense(t)'
          /\ LiveOf(t)' = LiveOf(t) \ {historyEvents'[cmd].result}
          /\ \A c, d \in LiveOf(t) \ {historyEvents'[cmd].result} :
               turnCandidates[c].swipe < turnCandidates[d].swipe
                 <=> turnCandidates'[c].swipe < turnCandidates'[d].swipe
          /\ \A fb \in Swipe :
               historyEvents'[cmd].fallback = fb
                 => ActiveOf(t)' = LiveAt(t, fb)']_vars

=============================================================================
