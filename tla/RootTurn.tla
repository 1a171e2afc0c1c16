------------------------------ MODULE RootTurn ------------------------------
(***************************************************************************)
(* The root turn of a chat: the run kernel (src/harness/run-kernel.js),    *)
(* the run journal (src/harness/run-journal.js), the chat write            *)
(* coordinator (src/runtime/chat-write-coordinator.js), the commit of a    *)
(* turn with its files (commitTurn of src/history/state-history.js), the   *)
(* rebuild of the dynamic projection (src/history/dynamic-story-           *)
(* projector.js) and the truncation of the branch by the host              *)
(* (src/host/history-lifecycle-service.js), over the ledger of             *)
(* StateHistory.                                                           *)
(*                                                                         *)
(* A run asks the model for one tool call at a time, seals the prose of    *)
(* the reply (story_commit) and then writes back what the reply changed    *)
(* (memory_write_turn_delta).  The journal of the run is checkpointed at   *)
(* every step.  The writeback is three steps under the coordinator: commit *)
(* the turn, make its reply the active one, rebuild the projection.  The   *)
(* process may die between any two steps, steps may fail, and a client     *)
(* that sends the same request again resumes the run or recovers its       *)
(* writeback.  The messages, the records of a delta and the prompt are     *)
(* abstract; a delta is what matters for its fate (see Delta).             *)
(***************************************************************************)
EXTENDS Integers, Sequences

CONSTANTS
  Run,             \* root runs, each with the reply candidate it produces
  Host,            \* the command of the host that truncates the branch
  None,            \* null
  Body,            \* final prose
  Delta,           \* what a delta may be, a subset of DeltaKind
  IndexOf,         \* run -> turn index of its reply
  SwipeOf,         \* run -> swipe coordinate of its reply
  Overlapping,     \* may a run begin beside others and anywhere in the chat?
  MaxToolSteps,    \* tool calls of one run (maxToolSteps)
  MaxCorrections,  \* rejected calls that the model may correct, of each kind
  MaxFaults,       \* bound: crashes and failed steps
  MaxEpoch,        \* bound: the largest branch epoch
  MaxIndex,        \* bound: the largest turn index
  MaxSwipe         \* bound: the largest swipe coordinate

(* A delta with only projected records, one with a record that is a        *)
(* canonical concept file as well, and one that commitTurn refuses, before *)
(* it writes or in its transaction, for a reason that the model is told    *)
(* and may correct (CORRECTABLE_WRITEBACK_REASON_CODES).                   *)
DeltaKind == {"plain", "canonical", "invalid"}

Epoch == 0 .. MaxEpoch
Index == 0 .. MaxIndex

ASSUME RunAssumption ==
  /\ Host \notin Run
  /\ None \notin Run /\ None \notin Body /\ None \notin DeltaKind
  /\ None \notin Int /\ None \notin [body : Body, delta : DeltaKind]
  /\ Delta \subseteq DeltaKind
  /\ IndexOf \in [Run -> Index]
  /\ SwipeOf \in [Run -> 0 .. MaxSwipe]
  /\ Overlapping \in BOOLEAN

ASSUME BoundsAssumption ==
  /\ MaxToolSteps \in Nat /\ MaxCorrections \in Nat /\ MaxFaults \in Nat
  /\ MaxEpoch \in Nat /\ MaxIndex \in Nat /\ MaxSwipe \in Nat

VARIABLES
  branchEpochs, turns, turnCandidates, patches, turnMemoryRecords,
  historyEvents,  \* ledger: the tables of StateHistory
  turnRun,        \* ledger: turns.run_id, turn -> the run that opened it
  artifact,       \* disk: run -> its turn artifact, or None
  concept,        \* disk: run -> is the file of its canonical concept there?
  world,          \* disk: derived/dynamic-world.json
  journal,        \* disk: run -> its journal
  attempt,        \* memory: run -> what the process is doing for it
  queue,          \* memory: who holds, then who waits for the coordinator
  host,           \* the truncation that the host wants
  faults          \* how many faults there have been

Ledger == INSTANCE StateHistory
          WITH Candidate <- Run, Command <- Run \cup {Host},
               UserMessage <- {"user"}

tables == <<branchEpochs, turns, turnCandidates, patches, turnMemoryRecords,
            historyEvents>>

ledger == <<tables, turnRun>>

disk == <<artifact, concept, world>>

vars == <<ledger, disk, journal, attempt, queue, host, faults>>

-----------------------------------------------------------------------------
(* What is recorded.                                                       *)

Kind == {"protocol", "retrieval", "writeback"}

(* The journal of a run.  epoch is the branch epoch of its run scope,      *)
(* pending the delta of its pending_writeback, steps the tool calls of its *)
(* transcript, rejected how many rejections its events hold.               *)
Journal ==
  [state     : {"none", "torn", "running", "body_committed",
                "applying_writeback", "partial_success", "failed",
                "completed"},
   epoch     : Epoch,
   committed : Body \cup {None},
   pending   : Delta \cup {None},
   steps     : 0 .. MaxToolSteps,
   rejected  : [Kind -> Nat]]

NoJournal ==
  [state |-> "none", epoch |-> 0, committed |-> None, pending |-> None,
   steps |-> 0, rejected |-> [k \in Kind |-> 0]]

(* One call of executeRootTurn, with its local variables.  A recovery only *)
(* repeats the writeback that is pending in the journal.                   *)
Attempt ==
  [phase     : {"idle", "provider", "queued", "committing", "activating",
                "rebuilding", "settling", "rejecting"},
   recovery  : BOOLEAN,
   committed : Body \cup {None},
   steps     : 0 .. MaxToolSteps,
   rejected  : [Kind -> Nat],
   error     : {"none", "correctable", "other"}]

NoAttempt ==
  [phase |-> "idle", recovery |-> FALSE, committed |-> None, steps |-> 0,
   rejected |-> [k \in Kind |-> 0], error |-> "none"]

HostRequest ==
  [phase  : {"idle", "queued", "rebuilding", "failed", "done"},
   epoch  : Epoch,
   cutoff : Index]

World ==
  [epoch : Epoch \cup {None}, through : Index \cup {None},
   rows  : SUBSET Run]

Artifact == [body : Body, delta : Delta]

Writing == {"committing", "activating", "rebuilding"}

TypeOK ==
  /\ Ledger!TypeOK
  /\ turnRun \in [DOMAIN turns -> Run]
  /\ artifact \in [Run -> Artifact \cup {None}]
  /\ concept \in [Run -> BOOLEAN]
  /\ world \in World
  /\ journal \in [Run -> Journal]
  /\ attempt \in [Run -> Attempt]
  /\ queue \in Seq(Run \cup {Host})
  /\ host \in HostRequest
  /\ faults \in 0 .. MaxFaults

Init ==
  /\ Ledger!Init
  /\ turnRun = [t \in {} |-> None]
  /\ artifact = [r \in Run |-> None]
  /\ concept = [r \in Run |-> FALSE]
  /\ world = [epoch |-> None, through |-> None, rows |-> {}]
  /\ journal = [r \in Run |-> NoJournal]
  /\ attempt = [r \in Run |-> NoAttempt]
  /\ queue = <<>>
  /\ host = [phase |-> "idle", epoch |-> 0, cutoff |-> 0]
  /\ faults = 0

-----------------------------------------------------------------------------
(* Helpers.                                                                *)

(* The turn of a run's reply: its turn_id is a hash of the coordinate.     *)
TurnOf(r) == <<journal[r].epoch, IndexOf[r]>>

(* The epoch that the host takes for the current one.                      *)
Current(e) ==
  IF DOMAIN branchEpochs = {} THEN e = 0 ELSE Ledger!ActiveEpoch(e)

StaleEpoch(e) == DOMAIN branchEpochs # {} /\ ~ Ledger!ActiveEpoch(e)

Committed(r) == r \in DOMAIN turnCandidates

Pending(r) == journal[r].pending # None

Fault == faults < MaxFaults /\ faults' = faults + 1

Holds(x) == queue # <<>> /\ Head(queue) = x

Checkpoint(r, row) == journal' = [journal EXCEPT ![r] = row]

Goto(r, phase) == attempt' = [attempt EXCEPT ![r].phase = phase]

End(r) == attempt' = [attempt EXCEPT ![r] = NoAttempt]

Continue(r, committed, steps, rejected) ==
  attempt' = [attempt EXCEPT ![r] =
                [NoAttempt EXCEPT !.phase = "provider",
                                  !.committed = committed,
                                  !.steps = steps,
                                  !.rejected = rejected]]

(* The writeback of r ends with an error and leaves the coordinator.       *)
Throw(r, error) ==
  /\ attempt' = [attempt EXCEPT ![r].phase = "rejecting", ![r].error = error]
  /\ queue' = Tail(queue)

-----------------------------------------------------------------------------
(* Entering executeRootTurn.  activeRuns admits one call for a run.        *)

(* The extension generates one reply at a time, at the end of its chat.    *)
AtTheEnd(r) ==
  /\ \A x \in Run : attempt[x].phase = "idle"
  /\ \A e \in DOMAIN branchEpochs : Current(e) =>
       \A x \in Ledger!HostCoordinates(e) :
         turnCandidates[x].turn[2] <= IndexOf[r]

(* runJournal.begin of a new run: the scope of the run is fixed.           *)
Begin(r) ==
  /\ attempt[r].phase = "idle"
  /\ Overlapping \/ AtTheEnd(r)
  /\ journal[r].state = "none"
  /\ \E e \in Epoch :
       /\ Current(e)
       /\ Checkpoint(r, [NoJournal EXCEPT !.state = "running", !.epoch = e])
  /\ Continue(r, None, 0, [k \in Kind |-> 0])
  /\ UNCHANGED <<ledger, disk, queue, host, faults>>

(* A journal is resumed with the counts that its transcript and events     *)
(* hold.  Any other state refuses (root_turn_recovery_incomplete), and a   *)
(* completed run returns its result.                                       *)
Resume(r) ==
  /\ attempt[r].phase = "idle"
  /\ Overlapping \/ AtTheEnd(r)
  /\ journal[r].state \in {"running", "body_committed"}
  /\ Continue(r, journal[r].committed, journal[r].steps, journal[r].rejected)
  /\ UNCHANGED <<ledger, disk, journal, queue, host, faults>>

(* Mutation of Recoverable: a writeback that was interrupted is left.      *)
RecoverableAfterError(r) ==
  journal[r].state = "partial_success" /\ Pending(r)

Recoverable(r) ==
  journal[r].state \in {"applying_writeback", "partial_success"} /\ Pending(r)

(* A pending writeback is repeated before anything else.                   *)
Recover(r) ==
  /\ attempt[r].phase = "idle"
  /\ Recoverable(r)
  /\ attempt' = [attempt EXCEPT ![r] =
                   [NoAttempt EXCEPT !.phase = "queued", !.recovery = TRUE]]
  /\ queue' = Append(queue, r)
  /\ UNCHANGED <<ledger, disk, journal, host, faults>>

-----------------------------------------------------------------------------
(* One tool call of the model.                                             *)

Asking(r) ==
  /\ attempt[r].phase = "provider"
  /\ attempt[r].steps < MaxToolSteps

(* memory_search and memory_read, which are there until the prose is       *)
(* sealed.                                                                 *)
Retrieve(r) ==
  /\ Asking(r)
  /\ attempt[r].committed = None
  /\ Checkpoint(r, [journal[r] EXCEPT !.state = "running",
                                      !.steps = attempt[r].steps + 1])
  /\ Continue(r, None, attempt[r].steps + 1, attempt[r].rejected)
  /\ UNCHANGED <<ledger, disk, queue, host, faults>>

LastRejection(k, steps, rejected) ==
  rejected[k] > MaxCorrections \/ steps >= MaxToolSteps

(* A call that breaks the tool protocol, or a retrieval whose arguments    *)
(* are refused: the model is told, unless it was told too often.           *)
RejectCall(r, k) ==
  LET steps == attempt[r].steps + 1
      rejected == [attempt[r].rejected EXCEPT ![k] = @ + 1]
      last == LastRejection(k, steps, rejected)
  IN
  /\ Asking(r)
  /\ k \in {"protocol", "retrieval"}
  /\ k = "retrieval" => attempt[r].committed = None
  /\ Checkpoint(r, [journal[r] EXCEPT
                      !.state = IF last THEN "failed" ELSE "running",
                      !.steps = steps,
                      !.rejected[k] = @ + 1])
  /\ IF last THEN End(r)
     ELSE Continue(r, attempt[r].committed, steps, rejected)
  /\ UNCHANGED <<ledger, disk, queue, host, faults>>

(* A response that holds no complete tool call.                            *)
BreakProtocol(r) ==
  /\ Asking(r)
  /\ Checkpoint(r, [journal[r] EXCEPT !.state = "failed"])
  /\ End(r)
  /\ UNCHANGED <<ledger, disk, queue, host, faults>>

(* Mutation of MaySeal: the prose may be sealed again.                     *)
MaySealAgain(r, body) == attempt[r].phase = "provider" /\ body \in Body

(* story_commit_already_locked                                             *)
MaySeal(r, body) == attempt[r].committed \in {None, body}

(* story_commit                                                            *)
StoryCommit(r, body) ==
  /\ Asking(r)
  /\ MaySeal(r, body)
  /\ Checkpoint(r, [journal[r] EXCEPT !.state = "body_committed",
                                      !.committed = body,
                                      !.steps = attempt[r].steps + 1])
  /\ Continue(r, body, attempt[r].steps + 1, attempt[r].rejected)
  /\ UNCHANGED <<ledger, disk, queue, host, faults>>

(* Mutation of Announced: the journal does not say what will be written.   *)
Unannounced(row, delta, steps) ==
  [row EXCEPT !.state = "applying_writeback", !.steps = steps]

(* The checkpoint before the writeback.                                    *)
Announced(row, delta, steps) ==
  [row EXCEPT !.state = "applying_writeback", !.pending = delta,
              !.steps = steps]

(* memory_write_turn_delta: the journal says what will be written before   *)
(* the run waits for the coordinator.                                      *)
WriteTurnDelta(r, delta) ==
  /\ Asking(r)
  /\ attempt[r].committed # None
  /\ Checkpoint(r, Announced(journal[r], delta, attempt[r].steps + 1))
  /\ Goto(r, "queued")
  /\ queue' = Append(queue, r)
  /\ UNCHANGED <<ledger, disk, host, faults>>

(* The delta is refused before it is announced: its records or its reason  *)
(* cannot be normalised, or the checkpoint fails.                          *)
RefuseDelta(r, error) ==
  /\ Asking(r)
  /\ attempt[r].committed # None
  /\ attempt' = [attempt EXCEPT ![r].phase = "rejecting", ![r].error = error]
  /\ UNCHANGED <<ledger, disk, journal, queue, host, faults>>

(* The provider throws, the client cancels, a tool is called out of order, *)
(* a checkpoint fails, or the steps are used up: the call ends and leaves  *)
(* the journal as it is.                                                   *)
Abandon(r) ==
  /\ attempt[r].phase = "provider"
  /\ End(r)
  /\ UNCHANGED <<ledger, disk, journal, queue, host, faults>>
-----------------------------------------------------------------------------
(* The writeback, under the coordinator.  commitTurn first: the delta is   *)
(* normalised, then the ledger is asked whether the candidate exists, then *)
(* the files are written, then the ledger.                                 *)

MayCommit(r) == attempt[r].phase = "queued" /\ Holds(r)

RejectDelta(r) ==
  /\ MayCommit(r)
  /\ journal[r].pending = "invalid"
  /\ Throw(r, "correctable")
  /\ UNCHANGED <<ledger, disk, journal, host, faults>>

Known(r) == Committed(r)

(* The candidate was committed by an earlier attempt, with the same        *)
(* artifact (turn_identity_conflict otherwise).                            *)
CommitExisting(r) ==
  /\ MayCommit(r)
  /\ journal[r].pending # "invalid"
  /\ Known(r)
  /\ artifact[r] = [body |-> journal[r].committed, delta |-> journal[r].pending]
  /\ Goto(r, "activating")
  /\ UNCHANGED <<ledger, disk, journal, queue, host, faults>>

(* dynamic_okf_path_conflict: the concept file of an earlier attempt is    *)
(* there, and its text differs in the time of the commit.                  *)
ConceptConflict(r) ==
  /\ MayCommit(r)
  /\ journal[r].pending = "canonical"
  /\ ~ Known(r)
  /\ concept[r]
  /\ artifact' = [artifact EXCEPT ![r] = None]
  /\ Throw(r, "other")
  /\ UNCHANGED <<ledger, concept, world, journal, host, faults>>

WriteCommitFiles(r) ==
  /\ MayCommit(r)
  /\ ~ Known(r)
  /\ journal[r].pending = "canonical" => ~ concept[r]
  /\ artifact' = [artifact EXCEPT ![r] = [body  |-> journal[r].committed,
                                          delta |-> journal[r].pending]]
  /\ concept' = [concept EXCEPT ![r] = @ \/ journal[r].pending = "canonical"]
  /\ Goto(r, "committing")
  /\ UNCHANGED <<ledger, world, journal, queue, host, faults>>

CommitLedger(r) ==
  LET t == TurnOf(r) IN
  /\ attempt[r].phase = "committing"
  /\ journal[r].pending # "invalid"
  /\ Ledger!CommitTurn(r, t[1], t[2], SwipeOf[r], "user", "untouched")
  /\ turnRun' = IF t \in DOMAIN turns THEN turnRun
                ELSE Ledger!Insert(turnRun, t, r)
  /\ Goto(r, "activating")
  /\ UNCHANGED <<disk, journal, queue, host, faults>>

(* What commitTurn created is removed when the ledger refuses.             *)
UndoCommitFiles(r) ==
  /\ artifact' = [artifact EXCEPT ![r] = None]
  /\ concept' = [concept EXCEPT ![r] = @ /\ journal[r].pending # "canonical"]

(* The transaction fails, the epoch of the run is a historical one, or     *)
(* what the delta pays off was never promised (plot_thread_payoff_-        *)
(* ungrounded, which the model may correct).                               *)
CommitFails(r) ==
  /\ attempt[r].phase = "committing"
  /\ UndoCommitFiles(r)
  /\ \/ StaleEpoch(journal[r].epoch) /\ Throw(r, "other") /\ UNCHANGED faults
     \/ /\ journal[r].pending = "invalid"
        /\ Throw(r, "correctable")
        /\ UNCHANGED faults
     \/ Fault /\ Throw(r, "other")
  /\ UNCHANGED <<ledger, world, journal, host>>

(* Mutation of Activate: the committed reply is taken to be active.        *)
AssumeActive(r) ==
  /\ attempt[r].phase = "activating"
  /\ Goto(r, "rebuilding")
  /\ UNCHANGED <<ledger, disk, journal, queue, host, faults>>

(* activateCommittedCandidate, by the coordinate of the reply.  Its        *)
(* command identity is made from the candidate: once it was applied, the   *)
(* stored result is returned and nothing is checked.                       *)
Activate(r) ==
  /\ attempt[r].phase = "activating"
  /\ \/ r \in DOMAIN historyEvents /\ UNCHANGED tables
     \/ Ledger!ActivateCandidateByHostCoordinate(
          r, journal[r].epoch, IndexOf[r], SwipeOf[r])
  /\ Goto(r, "rebuilding")
  /\ UNCHANGED <<turnRun, disk, journal, queue, host, faults>>

ActivationFails(r) ==
  /\ attempt[r].phase = "activating"
  /\ \/ /\ r \notin DOMAIN historyEvents
        /\ \/ ~ Ledger!ActiveEpoch(journal[r].epoch)
           \/ Ledger!Ambiguous(TurnOf(r))
        /\ UNCHANGED faults
     \/ Fault
  /\ Throw(r, "other")
  /\ UNCHANGED <<ledger, disk, journal, host>>

(* Mutation of Rebuild: the turn itself is left out.                       *)
RebuildBefore(e, i) ==
  LET rows == Ledger!MemoryRows(e, i - 1) IN
  /\ world' = [epoch |-> e, through |-> i, rows |-> rows]
  /\ concept' = [r \in Run |-> r \in rows /\ artifact[r].delta = "canonical"]
  /\ UNCHANGED artifact

(* projector.rebuild: the files are made what the history through turn     *)
(* index i of epoch e says, concept files that it does not say are removed *)
(* (whoever left them).  The file transaction itself is atomic here.       *)
Rebuild(e, i) ==
  LET rows == Ledger!MemoryRows(e, i) IN
  /\ world' = [epoch |-> e, through |-> i, rows |-> rows]
  /\ concept' = [r \in Run |-> r \in rows /\ artifact[r].delta = "canonical"]
  /\ UNCHANGED artifact

(* rebuildDynamicProjection; the run leaves the coordinator.               *)
RebuildProjection(r) ==
  /\ attempt[r].phase = "rebuilding"
  /\ Rebuild(journal[r].epoch, IndexOf[r])
  /\ Goto(r, "settling")
  /\ queue' = Tail(queue)
  /\ UNCHANGED <<ledger, journal, host, faults>>

RebuildFails(r) ==
  /\ attempt[r].phase = "rebuilding"
  /\ Fault
  /\ Throw(r, "other")
  /\ UNCHANGED <<ledger, disk, journal, host>>

-----------------------------------------------------------------------------
(* The checkpoint after the writeback, when others may already be writing. *)

Complete(r) ==
  /\ attempt[r].phase = "settling"
  /\ Checkpoint(r, [journal[r] EXCEPT !.state = "completed", !.pending = None])
  /\ End(r)
  /\ UNCHANGED <<ledger, disk, queue, host, faults>>

Correctable(r) ==
  attempt[r].error = "correctable" /\ ~ attempt[r].recovery

(* The model is told what was wrong and may write back again.              *)
Correct(r) ==
  LET rejected == [attempt[r].rejected EXCEPT !["writeback"] = @ + 1] IN
  /\ attempt[r].phase = "rejecting"
  /\ Correctable(r)
  /\ attempt[r].rejected["writeback"] < MaxCorrections
  /\ Checkpoint(r, [journal[r] EXCEPT !.state = "body_committed",
                                      !.pending = None,
                                      !.steps = attempt[r].steps + 1,
                                      !.rejected["writeback"] = @ + 1])
  /\ Continue(r, attempt[r].committed, attempt[r].steps + 1, rejected)
  /\ UNCHANGED <<ledger, disk, queue, host, faults>>

(* The writeback is kept for a recovery.                                   *)
KeepWriteback(row) == [row EXCEPT !.state = "partial_success"]

(* root_turn_partial_success                                               *)
GiveUp(r) ==
  /\ attempt[r].phase = "rejecting"
  /\ \/ /\ Correctable(r)
        /\ attempt[r].rejected["writeback"] >= MaxCorrections
        /\ Checkpoint(r, [journal[r] EXCEPT !.state = "partial_success",
                                            !.pending = None,
                                            !.steps = attempt[r].steps + 1,
                                            !.rejected["writeback"] = @ + 1])
     \/ /\ ~ Correctable(r)
        /\ Checkpoint(r, KeepWriteback(journal[r]))
  /\ End(r)
  /\ UNCHANGED <<ledger, disk, queue, host, faults>>

(* The last checkpoint fails.                                              *)
CheckpointFails(r) ==
  /\ attempt[r].phase \in {"settling", "rejecting"}
  /\ Fault
  /\ End(r)
  /\ UNCHANGED <<ledger, disk, journal, queue, host>>

-----------------------------------------------------------------------------
(* The host drops its messages from a cutoff on, with a command that it    *)
(* repeats until it is answered.                                           *)

HostSend ==
  /\ \/ /\ host.phase = "idle"
        /\ \E e \in DOMAIN branchEpochs \cap 0 .. MaxEpoch - 1, cutoff \in Index :
             /\ Current(e)
             /\ host' = [phase |-> "queued", epoch |-> e, cutoff |-> cutoff]
     \/ /\ host.phase = "failed"
        /\ host' = [host EXCEPT !.phase = "queued"]
  /\ queue' = Append(queue, Host)
  /\ UNCHANGED <<ledger, disk, journal, attempt, faults>>

(* truncateBranch of the lifecycle service: the ledger ...                 *)
HostTruncate ==
  /\ host.phase = "queued"
  /\ Holds(Host)
  /\ \/ Host \in DOMAIN historyEvents /\ UNCHANGED tables
     \/ Ledger!TruncateBranch(Host, host.epoch, host.cutoff)
  /\ host' = [host EXCEPT !.phase = "rebuilding"]
  /\ UNCHANGED <<turnRun, disk, journal, attempt, queue, faults>>

(* ... and then the projection of the new epoch.                           *)
HostRebuild ==
  /\ host.phase = "rebuilding"
  /\ Rebuild(host.epoch + 1, IF host.cutoff = 0 THEN 0 ELSE host.cutoff - 1)
  /\ host' = [host EXCEPT !.phase = "done"]
  /\ queue' = Tail(queue)
  /\ UNCHANGED <<ledger, journal, attempt, faults>>

(* Either step fails, and finally releases the coordinator.                *)
HostFails ==
  /\ host.phase \in {"queued", "rebuilding"}
  /\ Holds(Host)
  /\ Fault
  /\ host' = [host EXCEPT !.phase = "failed"]
  /\ queue' = Tail(queue)
  /\ UNCHANGED <<ledger, disk, journal, attempt>>

-----------------------------------------------------------------------------
(* The process dies.  A first journal that is being written is not         *)
(* replaced atomically, it can be left torn (run_journal_invalid).         *)

Crash ==
  /\ Fault
  /\ attempt' = [r \in Run |-> NoAttempt]
  /\ queue' = <<>>
  /\ host' = [host EXCEPT !.phase =
                IF @ \in {"queued", "rebuilding"} THEN "failed" ELSE @]
  /\ \/ UNCHANGED journal
     \/ \E r \in Run :
          /\ attempt[r].phase = "idle"
          /\ journal[r].state = "none"
          /\ Checkpoint(r, [NoJournal EXCEPT !.state = "torn"])
  /\ UNCHANGED <<ledger, disk>>

-----------------------------------------------------------------------------

Step(r) ==
  \/ RejectDelta(r) \/ CommitExisting(r) \/ ConceptConflict(r)
  \/ WriteCommitFiles(r) \/ CommitLedger(r) \/ CommitFails(r)
  \/ Activate(r) \/ ActivationFails(r)
  \/ RebuildProjection(r) \/ RebuildFails(r)
  \/ Complete(r) \/ Correct(r) \/ GiveUp(r) \/ CheckpointFails(r)

Next ==
  \/ \E r \in Run :
       \/ Begin(r) \/ Resume(r) \/ Recover(r)
       \/ Retrieve(r) \/ BreakProtocol(r) \/ Abandon(r)
       \/ \E k \in Kind : RejectCall(r, k)
       \/ \E body \in Body : StoryCommit(r, body)
       \/ \E delta \in Delta : WriteTurnDelta(r, delta)
       \/ \E error \in {"correctable", "other"} : RefuseDelta(r, error)
       \/ Step(r)
  \/ HostSend \/ HostTruncate \/ HostRebuild \/ HostFails
  \/ Crash

Spec == Init /\ [][Next]_vars

(* The process goes on with what it started, and the clients repeat the    *)
(* requests that were not answered: the run whose writeback is pending     *)
(* (retry_same_run_id, proxy/server.js:3202), and the command of the host. *)
Fairness ==
  /\ \A r \in Run : WF_vars(Step(r)) /\ WF_vars(Recover(r))
  /\ WF_vars(HostSend /\ host.phase = "failed")
  /\ WF_vars(HostTruncate \/ HostRebuild)

FairSpec == Spec /\ Fairness

-----------------------------------------------------------------------------
(* Properties.                                                             *)

(* Nothing enters the history that the journal did not announce, and what  *)
(* was announced stays recoverable: a committed reply has the sealed prose *)
(* of its run and either is the result of the completed run or is pending  *)
(* in its journal, with the delta of the artifact.                         *)
WriteAhead ==
  \A r \in Run : Committed(r) =>
    /\ journal[r].committed # None
    /\ artifact[r] # None
    /\ artifact[r].body = journal[r].committed
    /\ \/ journal[r].state = "completed"
       \/ Pending(r) /\ artifact[r].delta = journal[r].pending

(* A run that was answered as completed is in the history, activated, at   *)
(* its own coordinate (result and patch_id of rootTurnResult).             *)
CompletedIsCommitted ==
  \A r \in Run : journal[r].state = "completed" =>
    /\ Committed(r)
    /\ r \in DOMAIN historyEvents
    /\ historyEvents[r].result = r
    /\ turnCandidates[r].turn = TurnOf(r)
    /\ ~ Pending(r)

(* The projection says what the ledger says of the same turns              *)
(* (dynamic_world_ledger_mismatch), or a writeback is pending whose        *)
(* recovery rebuilds it.                                                   *)
WorldMatchesLedger ==
  \/ world.epoch = None
  \/ world.rows = Ledger!MemoryRows(world.epoch, world.through)
  \/ \E r \in Run : Pending(r) /\ Committed(r)

(* A writeback that waits for its turn does not write: everything that the *)
(* three steps touch is touched by the holder of the coordinator.          *)
OneWriter ==
  /\ \A r \in Run : attempt[r].phase \in Writing => Holds(r)
  /\ host.phase = "rebuilding" => Holds(Host)

(* Sealed prose stays as it is: in the journal from story_commit on, and   *)
(* in the artifact from the commit of the turn on.                         *)
SealedProseKept ==
  [][\A r \in Run :
       /\ journal[r].committed # None =>
            journal'[r].committed = journal[r].committed
       /\ Committed(r) =>
            /\ artifact'[r] = artifact[r]
            /\ r \in DOMAIN turnCandidates'
            /\ turnCandidates'[r].turn = turnCandidates[r].turn]_vars

(* What keeps a pending writeback from ever being applied: a delta that    *)
(* commitTurn refuses, a concept file that a crash left, an epoch that was *)
(* truncated, or another run that took the coordinate.                     *)
Stuck(r) ==
  \/ journal[r].pending = "invalid"
  \/ concept[r] /\ ~ Committed(r)
  \/ StaleEpoch(journal[r].epoch)
  \/ Ledger!Ambiguous(TurnOf(r))

(* A pending writeback is applied in the end, whatever failed before,      *)
(* unless it is stuck.                                                     *)
RecoveryCompletes ==
  \A r \in Run : Pending(r) ~> (~ Pending(r) \/ Stuck(r))

(* The same without a way out: what root_turn_partial_success says ("The   *)
(* final prose is sealed but memory writeback still needs recovery.",      *)
(* run-kernel.js:1050) can be done as long as the branch is the same.      *)
RecoveryIsPossible ==
  \A r \in Run : Pending(r) ~> (~ Pending(r) \/ StaleEpoch(journal[r].epoch))

(* "More than one live reply candidate shares a host coordinate."          *)
(* (turn_candidate_lookup_ambiguous, state-history.js:2045) does not       *)
(* happen: two replies of a turn have different coordinates.               *)
CoordinatesUnique == \A t \in DOMAIN turns : ~ Ledger!Ambiguous(t)

(* The run that selectCommittedHostCoordinates returns with a shown reply  *)
(* is the run that sealed it: buildRecoveryAnchor looks for the body of    *)
(* the reply in the journal of that run.                                   *)
CoordinateNamesItsRun ==
  \A e \in DOMAIN branchEpochs : Current(e) =>
    \A r \in Ledger!HostCoordinates(e) : turnRun[turnCandidates[r].turn] = r

=============================================================================
