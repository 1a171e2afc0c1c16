---------------------------- MODULE HistoryReplay ----------------------------
(***************************************************************************)
(* Exact replay of a governed history (src/harness/branch-history-replay   *)
(* and src/harness/root-run-replay): a ledger is exported as a contract    *)
(* and the contract is applied to the ledger of another store.             *)
(*                                                                         *)
(* The source is the ledger of StateHistory with two things its other      *)
(* users do not need: the order of history_events (log) and the time that  *)
(* a reply was shown (activated; a time is the position of an operation in *)
(* the log).  A branch contract carries the whole log and the rows it led  *)
(* to, and is accepted only when a simulation of the log ends in these     *)
(* rows.  A root run contract carries the replies that were shown when the *)
(* run was exported, and the truncations that lead to its epoch.           *)
(*                                                                         *)
(* The target is a second instance of StateHistory that only replays       *)
(* change.  Each operation of a replay is a transaction of its own, and    *)
(* the process may die between two of them.  A target is made for one      *)
(* contract, which may be presented to it again; the stores are disjoint,  *)
(* so what happens to the source in the meantime does not matter.          *)
(***************************************************************************)
EXTENDS StateHistory, Sequences

Seqs == INSTANCE SequencesExt

CONSTANTS
  MaxLog,        \* bound: operations of the source
  MaxReplays     \* bound: replays, those that die half way included

ASSUME ReplayAssumption ==
  /\ Candidate \subseteq Nat
  /\ Command \subseteq Nat
  /\ MaxLog \in Nat
  /\ MaxReplays \in Nat

VARIABLES
  log,           \* history_events of the source, by rowid
  activated,     \* activated_at of the candidates of the source
  published,     \* candidate -> the story memory its run's journal sealed
  replay,        \* the contract that is being applied, and how far it is
  replays,       \* how many there were
  died,          \* one of them died half way
  tEpochs, tTurns, tCandidates, tPatches, tRecords, tEvents,   \* the target
  tLog

history == <<log, activated, published>>

target == <<tEpochs, tTurns, tCandidates, tPatches, tRecords, tEvents>>

T == INSTANCE StateHistory
       WITH branchEpochs <- tEpochs, turns <- tTurns,
            turnCandidates <- tCandidates, patches <- tPatches,
            turnMemoryRecords <- tRecords, historyEvents <- tEvents

-----------------------------------------------------------------------------
(* The source.                                                             *)

(* Run ids and command ids are fresh; they are given out in order.         *)
Fresh(ids, used) == CHOOSE x \in ids \ used : \A y \in ids \ used : x <= y

Operation(by, row) == [by |-> by, row |-> row]

Now == Len(log) + 1

NoReplay == [status |-> "idle"]

Record(by, row) ==
  /\ replay = NoReplay
  /\ Now <= MaxLog
  /\ log' = Append(log, Operation(by, row))
  /\ UNCHANGED <<replay, replays, died>>

(* The first slot of a turn that no live reply has.                        *)
FreeSlot(t) ==
  {s \in Swipe : LiveAt(t, s) = {} /\ \A r \in 0 .. s - 1 : LiveAt(t, r) # {}}

(* A chat starts in epoch 0, new turns follow the last one, and the host   *)
(* gives a new reply the first free slot.                                  *)
HostAppends(e, i, s) ==
  /\ e \in DOMAIN branchEpochs \cup {0}
  /\ s \in FreeSlot(<<e, i>>)
  /\ <<e, i>> \in DOMAIN turns \/ \A t \in DOMAIN turns : t[1] = e => t[2] < i

SourceCommit(e, i, s, user, thread) ==
  LET c == Fresh(Candidate, DOMAIN turnCandidates) IN
  /\ DOMAIN turnCandidates # Candidate
  /\ HostAppends(e, i, s)
  /\ CommitTurn(c, e, i, s, user, thread)
  /\ Record(c, [type |-> "commit_candidate", epoch |-> e, index |-> i,
                swipe |-> s, user |-> user, thread |-> thread, result |-> c])
  /\ activated' = Insert(activated, c, Now)
  /\ UNCHANGED published

(* A run ends when its reply was made the shown one and the projection was *)
(* rebuilt: its journal seals the hash of what the story was then.         *)
SourceActivate(cmd, e, i, s) ==
  /\ ActivateCandidateByHostCoordinate(cmd, e, i, s)
  /\ Record(cmd, historyEvents'[cmd])
  /\ LET c == historyEvents'[cmd].result IN
     /\ activated' = IF c \in ActiveOf(<<e, i>>) THEN activated
                     ELSE [activated EXCEPT ![c] = Now]
     /\ published' = IF c \in DOMAIN published THEN published
                     ELSE Insert(published, c, MemoryRows(e, i)')

(* A deletion restamps the reply it promotes, and no other.                *)
Restamped ==
  [c \in DOMAIN activated |->
     IF /\ turnCandidates[c].status # "active"
        /\ turnCandidates'[c].status = "active"
     THEN Now ELSE activated[c]]

SourceDelete(cmd) ==
  /\ \/ \E c, fb \in DOMAIN turnCandidates : DeleteCandidate(cmd, c, fb)
     \/ \E c \in DOMAIN turnCandidates : DeleteCandidate(cmd, c, None)
     \/ \E e \in Epoch, i \in Index, s \in Swipe, fb \in Swipe \cup {None} :
          DeleteCandidateByHostCoordinate(cmd, e, i, s, fb)
  /\ Record(cmd, historyEvents'[cmd])
  /\ activated' = Restamped
  /\ UNCHANGED published

SourceEpoch(cmd) ==
  /\ \/ \E e \in Epoch, cutoff \in 0 .. MaxIndex + 1 :
          TruncateBranch(cmd, e, cutoff)
     \/ \E e, from \in Epoch, through \in Index :
          RestoreBranch(cmd, e, from, through)
  /\ Record(cmd, historyEvents'[cmd])
  /\ UNCHANGED <<activated, published>>

Source ==
  \/ \E e \in Epoch, i \in Index, s \in Swipe, user \in UserMessage,
        thread \in Thread : SourceCommit(e, i, s, user, thread)
  \/ /\ DOMAIN historyEvents # Command
     /\ LET cmd == Fresh(Command, DOMAIN historyEvents) IN
        \/ \E e \in Epoch, i \in Index, s \in Swipe :
             SourceActivate(cmd, e, i, s)
        \/ SourceDelete(cmd)
        \/ SourceEpoch(cmd)

-----------------------------------------------------------------------------
(* assertOperationSemantics: what the operations of a contract lead to.    *)
(* A state of the simulation holds the epochs, which of them is active and *)
(* the replies; ok says that every result so far was the expected one.     *)

Empty == [x \in {} |-> None]

SimInit(root) ==
  [ok |-> TRUE, active |-> root, epochs |-> [e \in {root} |-> RootBranch],
   replies |-> Empty]

Siblings(sim, t) == {c \in DOMAIN sim.replies : sim.replies[c].turn = t}

SimLiveAt(sim, t, s) ==
  {c \in Siblings(sim, t) :
     sim.replies[c].status # "deleted" /\ sim.replies[c].swipe = s}

Shown(sim, t) == {c \in Siblings(sim, t) : sim.replies[c].status = "active"}

SimCommit(sim, r, time) ==
  LET t == <<r.epoch, r.index>>
      first == Siblings(sim, t) = {}
  IN
  IF r.result \in DOMAIN sim.replies \/ SimLiveAt(sim, t, r.swipe) # {}
  THEN [sim EXCEPT !.ok = FALSE]
  ELSE [sim EXCEPT
          !.epochs[r.epoch] = AdvanceHead(@, r.index),
          !.replies = Insert(@, r.result,
             [turn |-> t, swipe |-> r.swipe, record |-> "active",
              status |-> IF first THEN "active" ELSE "inactive",
              patch |-> IF first THEN "applied" ELSE "prepared",
              time |-> time])]

Show(reply, time) ==
  [reply EXCEPT !.status = "active", !.patch = "applied", !.time = time]

(* Mutation of SimActivate: the reply that was shown keeps its patch.      *)
SimActivateBoth(sim, r, time) ==
  LET t == <<r.epoch, r.index>> IN
  [sim EXCEPT
     !.ok = r.result \in SimLiveAt(sim, t, r.swipe),
     !.replies = [c \in DOMAIN @ |->
        IF r.result \in Shown(sim, t) THEN @[c]
        ELSE IF c = r.result THEN Show(@[c], time)
        ELSE IF c \in Shown(sim, t) THEN [@[c] EXCEPT !.status = "inactive"]
        ELSE @[c]]]

SimActivate(sim, r, time) ==
  LET t == <<r.epoch, r.index>> IN
  [sim EXCEPT
     !.ok = r.result \in SimLiveAt(sim, t, r.swipe),
     !.replies = [c \in DOMAIN @ |->
        IF r.result \in Shown(sim, t) THEN @[c]
        ELSE IF c = r.result THEN Show(@[c], time)
        ELSE IF c \in Shown(sim, t)
        THEN [@[c] EXCEPT !.status = "inactive", !.patch = "rolled_back"]
        ELSE @[c]]]

(* Both kinds of deletion.  The fallback is shown afterwards when it is    *)
(* the reply that is expected to be active, which it may have been before. *)
SimDelete(sim, gone, fallback, swipes, time) ==
  LET t == sim.replies[gone].turn
      wasShown == gone \in Shown(sim, t)
      expected == IF wasShown THEN fallback ELSE Shown(sim, t)
  IN
  IF \/ wasShown /\ fallback = {}
     \/ ~ wasShown /\ ~ fallback \subseteq Shown(sim, t)
  THEN [sim EXCEPT !.ok = FALSE]
  ELSE [sim EXCEPT !.replies = [c \in DOMAIN @ |->
          LET moved == [@[c] EXCEPT !.swipe = swipes[c]] IN
          IF c = gone
          THEN [moved EXCEPT !.status = "deleted", !.patch = "rolled_back",
                             !.record = "inactive"]
          ELSE IF c \in fallback \cap expected THEN Show(moved, time)
          ELSE moved]]

SimDeleteSwipe(sim, r, time) ==
  LET t == <<r.epoch, r.index>>
      slot(c) == sim.replies[c].swipe
      live == {c \in Siblings(sim, t) : sim.replies[c].status # "deleted"}
      fallback == IF r.fallback = None THEN {}
                  ELSE SimLiveAt(sim, t,
                                 CoordinateBeforeSplice(r.fallback, r.swipe))
  IN
  IF r.result \notin SimLiveAt(sim, t, r.swipe)
  THEN [sim EXCEPT !.ok = FALSE]
  ELSE SimDelete(sim, r.result, fallback,
         [c \in DOMAIN sim.replies |->
            IF c = r.result THEN None
            ELSE IF c \in live /\ slot(c) > r.swipe THEN slot(c) - 1
            ELSE slot(c)], time)

SimDeleteCandidate(sim, r, time) ==
  LET fallback == IF r.fallback = None THEN {} ELSE {r.fallback}
      live(c) == c \in DOMAIN sim.replies /\ sim.replies[c].status # "deleted"
  IN
  IF ~ live(r.candidate) \/ r.candidate \in fallback
     \/ \E c \in fallback :
          ~ live(c) \/ sim.replies[c].turn # sim.replies[r.candidate].turn
  THEN [sim EXCEPT !.ok = FALSE]
  ELSE SimDelete(sim, r.candidate, fallback,
         [c \in DOMAIN sim.replies |-> sim.replies[c].swipe], time)

SimTruncate(sim, r) ==
  [sim EXCEPT !.active = r.result,
              !.epochs = OpenEpoch(@, sim.active, sim.active, r.cutoff)]

(* verifyContract: no operation leaves the active epoch.  (The epoch of a  *)
(* deletion by identity is that of its turn.)                              *)
InActiveEpoch(sim, r) ==
  IF r.type = "delete_candidate"
  THEN r.candidate \in DOMAIN sim.replies
       /\ sim.replies[r.candidate].turn[1] = sim.active
  ELSE r.epoch = sim.active

SimStep(sim, r, time) ==
  IF ~ sim.ok \/ ~ InActiveEpoch(sim, r) THEN [sim EXCEPT !.ok = FALSE]
  ELSE CASE r.type = "commit_candidate" -> SimCommit(sim, r, time)
         [] r.type = "activate_swipe"   -> SimActivate(sim, r, time)
         [] r.type = "delete_swipe"     -> SimDeleteSwipe(sim, r, time)
         [] r.type = "delete_candidate" -> SimDeleteCandidate(sim, r, time)
         [] r.type = "truncate_branch"  -> SimTruncate(sim, r)

Simulated(root, ops) ==
  LET after[n \in 0 .. Len(ops)] ==
        IF n = 0 THEN SimInit(root) ELSE SimStep(after[n - 1], ops[n].row, n)
  IN after[Len(ops)]

-----------------------------------------------------------------------------
(* Contracts.                                                              *)

(* The epochs that lead to e, e included.                                  *)
Lineage(e) == {seg[1] : seg \in Segments(e, MaxIndex)}

RootOf(e) == CHOOSE x \in Lineage(e) : branchEpochs[x].parent = None

(* listBranchReplayEvents: the operations that opened the epochs of a      *)
(* lineage, oldest first.                                                  *)
Edges(e) ==
  Seqs!SetToSortSeq(
    {log[n] : n \in {n \in DOMAIN log :
                /\ log[n].row.type \in {"truncate_branch", "restore_branch"}
                /\ log[n].row.result \in Lineage(e)}},
    LAMBDA a, b : a.row.result < b.row.result)

Truncations(ops) == SelectSeq(ops, LAMBDA op : op.row.type = "truncate_branch")

Rows(epochs, candidates, patch, record) ==
  [epochs |-> epochs,
   replies |-> [c \in DOMAIN candidates |->
                  [turn |-> candidates[c].turn, swipe |-> candidates[c].swipe,
                   status |-> candidates[c].status, patch |-> patch[c],
                   record |-> record[c].status]]]

SourceRows == Rows(branchEpochs, turnCandidates, patches, turnMemoryRecords)

TargetRows == Rows(tEpochs, tCandidates, tPatches, tRecords)

SimRows(sim) ==
  [epochs |-> sim.epochs,
   replies |-> [c \in DOMAIN sim.replies |->
                  [turn |-> sim.replies[c].turn, swipe |-> sim.replies[c].swipe,
                   status |-> sim.replies[c].status,
                   patch |-> sim.replies[c].patch,
                   record |-> sim.replies[c].record]]]

(* What exportHistory demands before it looks at the operations: the       *)
(* active epoch at its head, no epoch beside its lineage, only operations  *)
(* that can be repeated, and one finished run to start from.               *)
AtHead(e) ==
  /\ ActiveEpoch(e)
  /\ branchEpochs[e].head # None
  /\ Lineage(e) = DOMAIN branchEpochs
  /\ \A n \in DOMAIN log : log[n].row.type # "restore_branch"
  /\ DOMAIN published # {}

DerivedFrom(e) == Simulated(RootOf(e), log)

(* The simulation ends in the rows of the ledger, ...                      *)
OperationsDerive(e) == DerivedFrom(e).ok /\ SimRows(DerivedFrom(e)) = SourceRows

(* ... the times in them included.                                         *)
TimesDerive(e) ==
  \A c \in DOMAIN activated : DerivedFrom(e).replies[c].time = activated[c]

RootStep(e) == Operation(None, [type |-> "root", epoch |-> e])

(* May the history of e be exported?                                       *)
Exportable(e) == AtHead(e) /\ OperationsDerive(e) /\ TimesDerive(e)

HistoryContract(e) ==
  [kind |-> "branch", plan |-> <<RootStep(RootOf(e))>> \o log,
   rows |-> SourceRows]

(* exportRun: the replies that are shown at the coordinate of the run.     *)
ShownAt(e, i) ==
  {c \in DOMAIN turnCandidates :
     /\ turnCandidates[c].status = "active"
     /\ patches[c] = "applied"
     /\ Within(turnCandidates[c].turn, Segments(e, i))}

CommitOf(c) ==
  LET n == CHOOSE n \in DOMAIN log :
             log[n].row.type = "commit_candidate" /\ log[n].row.result = c
  IN log[n]

Select(c) == Operation(None, [type |-> "select", result |-> c])

(* The artifacts of epoch x, each committed and then selected.             *)
EpochPlan(x, artifacts) ==
  LET ordered == Seqs!SetToSortSeq(
                   {CommitOf(c) : c \in {c \in artifacts :
                                           turnCandidates[c].turn[1] = x}},
                   LAMBDA a, b : a.row.index < b.row.index)
  IN Seqs!FlattenSeq([n \in DOMAIN ordered |->
                        <<ordered[n], Select(ordered[n].row.result)>>])

RootPlan(e, artifacts) ==
  LET edges == Edges(e) IN
  <<RootStep(RootOf(e))>>
    \o Seqs!FlattenSeq([n \in DOMAIN edges |->
                          EpochPlan(edges[n].row.epoch, artifacts)
                            \o <<edges[n]>>])
    \o EpochPlan(e, artifacts)

EpochOf(c) == turnCandidates[c].turn[1]

IndexOf(c) == turnCandidates[c].turn[2]

(* May the run of reply c be exported?  It is finished, still shown, and   *)
(* only truncations lead to its epoch.                                     *)
Finished(c) ==
  /\ c \in DOMAIN published
  /\ turnCandidates[c].status = "active"
  /\ Truncations(Edges(EpochOf(c))) = Edges(EpochOf(c))

RunContract(c) ==
  LET e == EpochOf(c) IN
  [kind |-> "root", plan |-> RootPlan(e, ShownAt(e, IndexOf(c))),
   edges |-> Edges(e), run |-> c, memory |-> MemoryRows(e, IndexOf(c))]

-----------------------------------------------------------------------------
(* Applying a contract.                                                    *)

Clean == /\ tEpochs = Empty /\ tTurns = Empty /\ tCandidates = Empty

Exact(contract) == Tail(contract.plan) = tLog /\ contract.rows = TargetRows

(* Mutation of Existing: a reply that was committed before is not known.   *)
ExistingButReplies(op) ==
  CASE op.row.type = "root" ->
         op.row.epoch \in DOMAIN tEpochs /\ tEpochs[op.row.epoch].parent = None
    [] op.row.type = "commit_candidate" -> FALSE
    [] op.row.type = "select" -> tCandidates[op.row.result].status = "active"
    [] OTHER -> op.by \in DOMAIN tEvents

(* The ledger answers existing: the step was taken by an earlier replay.   *)
Existing(op) ==
  CASE op.row.type = "root" ->
         op.row.epoch \in DOMAIN tEpochs /\ tEpochs[op.row.epoch].parent = None
    [] op.row.type = "commit_candidate" -> op.row.result \in DOMAIN tCandidates
    [] op.row.type = "select" -> tCandidates[op.row.result].status = "active"
    [] OTHER -> op.by \in DOMAIN tEvents

Perform(op) ==
  LET r == op.row IN
  \/ r.type = "root" /\ T!EnsureReplayRootBranch(r.epoch)
  \/ r.type = "commit_candidate"
     /\ T!CommitTurn(r.result, r.epoch, r.index, r.swipe, r.user, r.thread)
  \/ r.type = "select" /\ T!ActivateCandidate(r.result)
  \/ r.type = "activate_swipe"
     /\ T!ActivateCandidateByHostCoordinate(op.by, r.epoch, r.index, r.swipe)
  \/ r.type = "delete_swipe"
     /\ T!DeleteCandidateByHostCoordinate(op.by, r.epoch, r.index, r.swipe,
                                          r.fallback)
  \/ r.type = "delete_candidate"
     /\ T!DeleteCandidate(op.by, r.candidate, r.fallback)
  \/ r.type = "truncate_branch" /\ T!TruncateBranch(op.by, r.epoch, r.cutoff)

Logged(op) == op.row.type \notin {"root", "select"}

(* Before it writes anything a branch replay looks at the target, which    *)
(* must be clean or hold the exact result; a root replay just begins.      *)
Begin(contract) ==
  /\ replays < MaxReplays
  /\ replays' = replays + 1
  /\ LET written == contract.kind = "branch" /\ ~ Clean IN
     replay' =
       [contract |-> contract, at |-> IF written THEN Len(contract.plan) + 1 ELSE 1,
        status   |-> IF written /\ ~ Exact(contract) THEN "dirty" ELSE "running"]
  /\ UNCHANGED <<vars, history, died, target, tLog>>

Present ==
  /\ replay = NoReplay
  /\ \/ \E e \in DOMAIN branchEpochs :
          Exportable(e) /\ Begin(HistoryContract(e))
     \/ \E c \in DOMAIN turnCandidates : Finished(c) /\ Begin(RunContract(c))

PresentAgain ==
  /\ replay.status \notin {"idle", "running"}
  /\ Begin(replay.contract)

Running == replay.status = "running"

Steps == replay.contract.plan

Operate ==
  /\ Running /\ replay.at <= Len(Steps)
  /\ LET op == Steps[replay.at] IN
     \/ Existing(op) /\ UNCHANGED <<target, tLog>>
     \/ /\ ~ Existing(op)
        /\ Perform(op)
        /\ tLog' = IF Logged(op) THEN Append(tLog, op) ELSE tLog
  /\ replay' = [replay EXCEPT !.at = @ + 1]
  /\ UNCHANGED <<vars, history, replays, died>>

(* The ledger of the target refuses an operation.                          *)
Refuse ==
  /\ Running /\ replay.at <= Len(Steps)
  /\ ~ Existing(Steps[replay.at])
  /\ ~ ENABLED (Perform(Steps[replay.at]))
  /\ replay' = [replay EXCEPT !.status = "refused"]
  /\ UNCHANGED <<vars, history, replays, died, target, tLog>>

(* The checks after the last operation: a branch replay compares every row *)
(* and the whole log, a root replay the truncations and the story memory,  *)
(* with what the run sealed and with what was exported.                    *)
Reproduced(contract) ==
  IF contract.kind = "branch" THEN Exact(contract)
  ELSE /\ Truncations(tLog) = contract.edges
       /\ T!MemoryRows(EpochOf(contract.run), IndexOf(contract.run))
            = published[contract.run]
       /\ published[contract.run] = contract.memory

Conclude ==
  /\ Running /\ replay.at > Len(Steps)
  /\ replay' = [replay EXCEPT !.status =
                  IF Reproduced(replay.contract) THEN "applied" ELSE "differs"]
  /\ UNCHANGED <<vars, history, replays, died, target, tLog>>

(* The process dies between two operations.                                *)
Crash ==
  /\ Running
  /\ died' = TRUE
  /\ replay' = [replay EXCEPT !.status = "dead"]
  /\ UNCHANGED <<vars, history, replays, target, tLog>>

-----------------------------------------------------------------------------
ReplayInit ==
  /\ Init /\ T!Init
  /\ log = <<>> /\ tLog = <<>>
  /\ activated = Empty /\ published = Empty
  /\ replay = NoReplay
  /\ replays = 0
  /\ died = FALSE

ReplayNext ==
  \/ Source /\ UNCHANGED <<target, tLog>>
  \/ Present \/ PresentAgain \/ Operate \/ Refuse \/ Conclude \/ Crash

ReplaySpec ==
  ReplayInit
    /\ [][ReplayNext]_<<vars, history, replay, replays, died, target, tLog>>

-----------------------------------------------------------------------------
(* Properties.                                                             *)

(* The operations of every history that can be exported lead, in the       *)
(* simulation of assertOperationSemantics, to the rows that the ledger has:*)
(* verifyContract never answers "Operations do not derive the complete     *)
(* final governance snapshot" on account of an epoch, a coordinate or a    *)
(* status.  The replay of the contract is a matter of the target.          *)
OperationsDeriveRows ==
  replay = NoReplay => \A e \in DOMAIN branchEpochs : AtHead(e) => OperationsDerive(e)

(* ... and to the times in them.                                           *)
OperationsDeriveTimes ==
  replay = NoReplay => \A e \in DOMAIN branchEpochs : AtHead(e) => TimesDerive(e)

(* The story memory of the exported coordinate is no longer what the run   *)
(* sealed: an earlier reply was swapped or deleted in the meantime.        *)
Outdated(contract) ==
  contract.kind = "root" /\ published[contract.run] # contract.memory

(* An exported reply closes a thread that none before it opens: its opener *)
(* was swapped for another reply.                                          *)
ClosesNothing(contract) ==
  contract.kind = "root"
    /\ \E c \in contract.memory :
          /\ turnMemoryRecords[c].thread = "closed"
          /\ ~ PriorOpenThread(EpochOf(c), IndexOf(c))

(* A contract that was exported reproduces its source in the target that   *)
(* was made for it, unless earlier replies were changed since the run.     *)
(* A root replay that died half way can be repeated; after a branch replay *)
(* that died the target has to be thrown away.                             *)
ReplaysSucceed ==
  /\ replay.status = "refused" => ClosesNothing(replay.contract)
  /\ replay.status = "differs" => Outdated(replay.contract)
  /\ replay.status = "dirty" => died

=============================================================================
