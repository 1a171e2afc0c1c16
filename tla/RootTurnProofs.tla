--------------------------- MODULE RootTurnProofs ---------------------------
(***************************************************************************)
(* Safety of the root turn for every set of runs, bodies and deltas and    *)
(* every bound, with any number of runs, recoveries and truncations beside *)
(* one another.                                                            *)
(*                                                                         *)
(* The root turn changes the tables of the ledger only by operations of    *)
(* StateHistory, so that what was proved of the ledger holds here too.     *)
(* The rest of the inductive invariant says for one run at a time what its *)
(* journal, its call, its artifact and its rows have to do with each       *)
(* other at each phase of the writeback.                                   *)
(***************************************************************************)
EXTENDS RootTurn, SequenceTheorems, TLAPS

LedgerProofs == INSTANCE StateHistoryProofs
                WITH Candidate <- Run, Command <- Run \cup {Host},
                     UserMessage <- {"user"}

(* The phases in which the delta of the journal is on its way.             *)
Busy == {"queued", "committing", "activating", "rebuilding", "settling"}

(* What the state of a journal says of its other fields.                   *)
JournalInv(r) ==
  /\ journal[r].state \in {"none", "torn"} => journal[r].committed = None
  /\ Pending(r) => journal[r].state \in {"applying_writeback", "partial_success"}
  /\ Pending(r) => journal[r].committed # None

(* A call knows what the journal knows.                                    *)
AttemptInv(r) ==
  LET a == attempt[r] IN
  /\ a.phase = "provider" =>
       /\ ~ Pending(r) /\ ~ a.recovery
       /\ journal[r].state \in {"running", "body_committed"}
       /\ a.committed = journal[r].committed
  /\ a.phase \in Busy => Pending(r)
  /\ a.phase = "rejecting" /\ ~ Pending(r) =>
       journal[r].state \in {"running", "body_committed"} /\ ~ a.recovery
  /\ a.phase \in Busy \cup {"rejecting"} /\ ~ a.recovery =>
       /\ a.steps < MaxToolSteps
       /\ a.committed # None
       /\ a.committed = journal[r].committed
  /\ a.phase = "rejecting" /\ Correctable(r) => ~ Committed(r)

(* How far the writeback has come.                                         *)
WritebackInv(r) ==
  LET phase == attempt[r].phase IN
  /\ phase = "committing" =>
       /\ ~ Committed(r)
       /\ artifact[r] = [body |-> journal[r].committed,
                         delta |-> journal[r].pending]
  /\ phase \in {"activating", "rebuilding", "settling"} => Committed(r)
  /\ phase \in {"rebuilding", "settling"} => r \in DOMAIN historyEvents
  /\ journal[r].state = "completed" =>
       Committed(r) /\ r \in DOMAIN historyEvents

(* A committed reply is at its own coordinate, its artifact is the one     *)
(* that its journal announced, and activating it selected it.              *)
CommittedInv(r) ==
  /\ Committed(r) =>
       /\ turnCandidates[r].turn = TurnOf(r)
       /\ turnCandidates[r].swipe = SwipeOf[r]
       /\ turnCandidates[r].status # "deleted"
       /\ artifact[r] # None
       /\ artifact[r].delta # "invalid"
       /\ artifact[r].body = journal[r].committed
       /\ journal[r].committed # None
       /\ journal[r].state = "completed" \/ artifact[r].delta = journal[r].pending
  /\ r \in DOMAIN historyEvents => historyEvents[r].result = r

RunInv(r) ==
  JournalInv(r) /\ AttemptInv(r) /\ WritebackInv(r) /\ CommittedInv(r)

(* Where a truncation leads to is within the bound.                        *)
HostInv == host.phase # "idle" => host.epoch < MaxEpoch

IInv ==
  /\ LedgerProofs!IInv
  /\ TypeOK
  /\ HostInv
  /\ OneWriter
  /\ \A r \in Run : RunInv(r)

-----------------------------------------------------------------------------
(* What the assumptions and the types say of the constants.                *)

LEMMA NoneIsNothing ==
  /\ None \notin Delta /\ None \notin Body /\ None \notin Run
  /\ None \notin Artifact /\ Host \notin Run
BY RunAssumption DEF Artifact, DeltaKind

(* The ledger's part of the type invariant was proved with the ledger.     *)
LEMMA LedgerTypes == LedgerProofs!IInv => Ledger!TypeOK
BY DEF LedgerProofs!IInv, LedgerProofs!TypeOK, Ledger!TypeOK,
       LedgerProofs!Epoch, Ledger!Epoch, LedgerProofs!Index, Ledger!Index,
       LedgerProofs!Swipe, Ledger!Swipe, LedgerProofs!Turn, Ledger!Turn,
       LedgerProofs!BranchRow, Ledger!BranchRow,
       LedgerProofs!CandidateRow, Ledger!CandidateRow,
       LedgerProofs!PatchStatus, Ledger!PatchStatus,
       LedgerProofs!RecordRow, Ledger!RecordRow,
       LedgerProofs!Thread, Ledger!Thread,
       LedgerProofs!EventRow, Ledger!EventRow

LEMMA LedgerUnchanged ==
  ASSUME LedgerProofs!IInv, UNCHANGED tables
  PROVE  LedgerProofs!IInv'
<1>1. UNCHANGED LedgerProofs!vars
  BY DEF tables, LedgerProofs!vars
<1> QED
  BY <1>1, LedgerProofs!StepInvariant, RunAssumption, BoundsAssumption

-----------------------------------------------------------------------------
(* The queue of the coordinator.                                           *)

LEMMA JoinQueue ==
  ASSUME queue \in Seq(Run \cup {Host}), NEW x \in Run \cup {Host},
         queue' = Append(queue, x)
  PROVE  /\ queue' \in Seq(Run \cup {Host})
         /\ \A y : Holds(y) => Holds(y)'
BY DEF Holds

LEMMA LeaveQueue ==
  ASSUME queue \in Seq(Run \cup {Host}), NEW x, Holds(x),
         queue' = Tail(queue)
  PROVE  /\ queue' \in Seq(Run \cup {Host})
         /\ \A y : Holds(y) => y = x
BY DEF Holds

-----------------------------------------------------------------------------
(* A step of one run keeps what holds of the others.                       *)

LEMMA OtherRun ==
  ASSUME NEW s \in Run, RunInv(s),
         journal'[s] = journal[s], attempt'[s] = attempt[s],
         Committed(s) => artifact'[s] = artifact[s],
         attempt[s].phase = "committing" => artifact'[s] = artifact[s],
         Committed(s)' <=> Committed(s),
         Committed(s) =>
           /\ turnCandidates'[s].turn = turnCandidates[s].turn
           /\ turnCandidates'[s].swipe = turnCandidates[s].swipe
           /\ turnCandidates[s].status # "deleted"
                => turnCandidates'[s].status # "deleted",
         s \in DOMAIN historyEvents' <=> s \in DOMAIN historyEvents,
         s \in DOMAIN historyEvents =>
           historyEvents'[s].result = historyEvents[s].result
  PROVE  RunInv(s)'
<1>1. TurnOf(s)' = TurnOf(s) /\ (Pending(s)' <=> Pending(s))
      /\ (Correctable(s)' <=> Correctable(s))
  BY DEF TurnOf, Pending, Correctable
<1>2. JournalInv(s)'
  BY <1>1 DEF RunInv, JournalInv
<1>3. AttemptInv(s)'
  BY <1>1 DEF RunInv, AttemptInv
<1>4. WritebackInv(s)'
  BY <1>1 DEF RunInv, WritebackInv
<1>5. CommittedInv(s)'
  BY <1>1 DEF RunInv, CommittedInv
<1> QED
  BY <1>2, <1>3, <1>4, <1>5 DEF RunInv

(* A row is committed only while its journal announces it or afterwards.   *)
LEMMA Uncommitted ==
  ASSUME IInv, NEW r \in Run, ~ Pending(r), journal[r].state # "completed"
  PROVE  ~ Committed(r)
<1>1. artifact[r] \in Artifact \cup {None}
  BY DEF IInv, TypeOK
<1>2. artifact[r] # None => artifact[r].delta # None
  BY <1>1, NoneIsNothing DEF Artifact
<1> QED
  BY <1>2 DEF IInv, RunInv, CommittedInv, Pending

(* A step that changes the journal and the call of one run, and does not   *)
(* enter the coordinator.                                                  *)
LEMMA QuietStep ==
  ASSUME IInv, NEW r \in Run,
         UNCHANGED <<ledger, disk, queue, host>>, faults' \in 0 .. MaxFaults,
         journal' \in [Run -> Journal], attempt' \in [Run -> Attempt],
         \A s \in Run \ {r} : journal'[s] = journal[s] /\ attempt'[s] = attempt[s],
         attempt'[r].phase \notin Writing,
         RunInv(r)'
  PROVE  IInv'
<1>1. LedgerProofs!IInv'
  BY LedgerUnchanged DEF IInv, ledger
<1>2. TypeOK'
  <2>1. Ledger!TypeOK'
    BY <1>1, LedgerTypes, PTL
  <2> QED
    BY <2>1 DEF IInv, TypeOK, ledger, tables, disk
<1>3. HostInv'
  BY DEF IInv, HostInv
<1>4. OneWriter'
  BY DEF IInv, OneWriter, Holds
<1>5. ASSUME NEW s \in Run \ {r} PROVE RunInv(s)'
  BY <1>5, OtherRun DEF IInv, Committed, ledger, tables, disk
<1> QED
  BY <1>1, <1>2, <1>3, <1>4, <1>5 DEF IInv

-----------------------------------------------------------------------------
(* Checkpoints and calls keep their types.                                 *)

LEMMA CountType ==
  ASSUME NEW f \in [Kind -> Nat], NEW k \in Kind
  PROVE  [f EXCEPT ![k] = @ + 1] \in [Kind -> Nat]
OBVIOUS

LEMMA NoAttemptType == NoAttempt \in Attempt
BY BoundsAssumption, NoneIsNothing DEF NoAttempt, Attempt

LEMMA NoJournalType == NoJournal \in Journal
BY BoundsAssumption, NoneIsNothing DEF NoJournal, Journal, Epoch

LEMMA CheckpointTypes ==
  ASSUME journal \in [Run -> Journal], NEW r \in Run, NEW row \in Journal,
         Checkpoint(r, row)
  PROVE  /\ journal' \in [Run -> Journal] /\ journal'[r] = row
         /\ \A s \in Run \ {r} : journal'[s] = journal[s]
BY DEF Checkpoint

LEMMA ContinueTypes ==
  ASSUME attempt \in [Run -> Attempt], NEW r \in Run,
         NEW committed \in Body \cup {None}, NEW steps \in 0 .. MaxToolSteps,
         NEW rejected \in [Kind -> Nat],
         Continue(r, committed, steps, rejected)
  PROVE  /\ attempt' \in [Run -> Attempt]
         /\ \A s \in Run \ {r} : attempt'[s] = attempt[s]
         /\ attempt'[r].phase \notin Writing
<1>1. [NoAttempt EXCEPT !.phase = "provider", !.committed = committed,
                        !.steps = steps, !.rejected = rejected] \in Attempt
  BY NoAttemptType DEF Attempt
<1> QED
  BY <1>1 DEF Continue, Writing, NoAttempt

LEMMA EndTypes ==
  ASSUME attempt \in [Run -> Attempt], NEW r \in Run, End(r)
  PROVE  /\ attempt' \in [Run -> Attempt]
         /\ \A s \in Run \ {r} : attempt'[s] = attempt[s]
         /\ attempt'[r].phase \notin Writing
BY NoAttemptType DEF End, NoAttempt, Writing

-----------------------------------------------------------------------------
(* The steps before and after the writeback.                               *)

(* A new journal.                                                          *)
LEMMA BeginStep ==
  ASSUME IInv, NEW r \in Run, Begin(r)
  PROVE  IInv'
<1>1. /\ journal[r] \in Journal /\ attempt[r] \in Attempt
      /\ journal \in [Run -> Journal] /\ attempt \in [Run -> Attempt]
      /\ RunInv(r) /\ faults \in 0 .. MaxFaults
  BY DEF IInv, TypeOK
<1>2. /\ journal' \in [Run -> Journal]
      /\ \A s \in Run \ {r} : journal'[s] = journal[s]
  <2>1. PICK e \in Epoch :
          Checkpoint(r, [NoJournal EXCEPT !.state = "running", !.epoch = e])
    BY DEF Begin
  <2>2. [NoJournal EXCEPT !.state = "running", !.epoch = e] \in Journal
    BY <2>1, NoJournalType DEF Journal
  <2> QED
    BY <1>1, <2>1, <2>2, CheckpointTypes
<1>3. /\ attempt' \in [Run -> Attempt]
      /\ \A s \in Run \ {r} : attempt'[s] = attempt[s]
      /\ attempt'[r].phase \notin Writing
  <2>1. [k \in Kind |-> 0] \in [Kind -> Nat]
    OBVIOUS
  <2> QED
    BY <1>1, <2>1, ContinueTypes, BoundsAssumption DEF Begin
<1>4. RunInv(r)'
  BY <1>1, Uncommitted, NoneIsNothing
     DEF Begin, Checkpoint, Continue, NoJournal, NoAttempt, Journal, Attempt, RunInv, JournalInv, AttemptInv,
         WritebackInv, CommittedInv, Pending, Committed, Busy, Correctable,
         TurnOf, ledger, tables, disk
<1>5. UNCHANGED <<ledger, disk, queue, host>> /\ faults' \in 0 .. MaxFaults
  BY <1>1, BoundsAssumption DEF Begin
<1> QED
  BY <1>2, <1>3, <1>4, <1>5, QuietStep

(* A resumed call.                                                         *)
LEMMA ResumeStep ==
  ASSUME IInv, NEW r \in Run, Resume(r)
  PROVE  IInv'
<1>1. /\ journal[r] \in Journal /\ attempt[r] \in Attempt
      /\ journal \in [Run -> Journal] /\ attempt \in [Run -> Attempt]
      /\ RunInv(r) /\ faults \in 0 .. MaxFaults
  BY DEF IInv, TypeOK
<1>2. /\ journal' \in [Run -> Journal]
      /\ \A s \in Run \ {r} : journal'[s] = journal[s]
  BY <1>1 DEF Resume
<1>3. /\ attempt' \in [Run -> Attempt]
      /\ \A s \in Run \ {r} : attempt'[s] = attempt[s]
      /\ attempt'[r].phase \notin Writing
  <2>1. /\ journal[r].committed \in Body \cup {None}
        /\ journal[r].steps \in 0 .. MaxToolSteps
        /\ journal[r].rejected \in [Kind -> Nat]
    BY <1>1 DEF Journal
  <2> QED
    BY <1>1, <2>1, ContinueTypes DEF Resume
<1>4. RunInv(r)'
  BY <1>1, Uncommitted, NoneIsNothing
     DEF Resume, Continue, NoAttempt, Journal, Attempt, RunInv, JournalInv, AttemptInv,
         WritebackInv, CommittedInv, Pending, Committed, Busy, Correctable,
         TurnOf, ledger, tables, disk
<1>5. UNCHANGED <<ledger, disk, queue, host>> /\ faults' \in 0 .. MaxFaults
  BY <1>1, BoundsAssumption DEF Resume
<1> QED
  BY <1>2, <1>3, <1>4, <1>5, QuietStep

(* A retrieval.                                                            *)
LEMMA RetrieveStep ==
  ASSUME IInv, NEW r \in Run, Retrieve(r)
  PROVE  IInv'
<1>1. /\ journal[r] \in Journal /\ attempt[r] \in Attempt
      /\ journal \in [Run -> Journal] /\ attempt \in [Run -> Attempt]
      /\ RunInv(r) /\ faults \in 0 .. MaxFaults
  BY DEF IInv, TypeOK
<1>2. /\ journal' \in [Run -> Journal]
      /\ \A s \in Run \ {r} : journal'[s] = journal[s]
  <2>1. attempt[r].steps + 1 \in 0 .. MaxToolSteps
    BY <1>1, BoundsAssumption DEF Retrieve, Asking, Attempt
  <2>2. [journal[r] EXCEPT !.state = "running",
                             !.steps = attempt[r].steps + 1] \in Journal
    BY <1>1, <2>1 DEF Journal
  <2>3. Checkpoint(r, [journal[r] EXCEPT !.state = "running",
                             !.steps = attempt[r].steps + 1])
    BY DEF Retrieve
  <2> QED
    BY <1>1, <2>2, <2>3, CheckpointTypes
<1>3. /\ attempt' \in [Run -> Attempt]
      /\ \A s \in Run \ {r} : attempt'[s] = attempt[s]
      /\ attempt'[r].phase \notin Writing
  <2>1. attempt[r].steps + 1 \in 0 .. MaxToolSteps /\ attempt[r].rejected \in [Kind -> Nat]
    BY <1>1, BoundsAssumption DEF Retrieve, Asking, Attempt
  <2> QED
    BY <1>1, <2>1, ContinueTypes DEF Retrieve
<1>4. RunInv(r)'
  BY <1>1, Uncommitted, NoneIsNothing
     DEF Retrieve, Asking, Checkpoint, Continue, NoAttempt, Journal, Attempt, RunInv, JournalInv, AttemptInv,
         WritebackInv, CommittedInv, Pending, Committed, Busy, Correctable,
         TurnOf, ledger, tables, disk
<1>5. UNCHANGED <<ledger, disk, queue, host>> /\ faults' \in 0 .. MaxFaults
  BY <1>1, BoundsAssumption DEF Retrieve
<1> QED
  BY <1>2, <1>3, <1>4, <1>5, QuietStep

(* A broken response.                                                      *)
LEMMA BreakProtocolStep ==
  ASSUME IInv, NEW r \in Run, BreakProtocol(r)
  PROVE  IInv'
<1>1. /\ journal[r] \in Journal /\ attempt[r] \in Attempt
      /\ journal \in [Run -> Journal] /\ attempt \in [Run -> Attempt]
      /\ RunInv(r) /\ faults \in 0 .. MaxFaults
  BY DEF IInv, TypeOK
<1>2. /\ journal' \in [Run -> Journal]
      /\ \A s \in Run \ {r} : journal'[s] = journal[s]
  <2>1. [journal[r] EXCEPT !.state = "failed"] \in Journal
    BY <1>1, BoundsAssumption DEF BreakProtocol, Asking, Journal
  <2>2. Checkpoint(r, [journal[r] EXCEPT !.state = "failed"])
    BY DEF BreakProtocol
  <2> QED
    BY <1>1, <2>1, <2>2, CheckpointTypes
<1>3. /\ attempt' \in [Run -> Attempt]
      /\ \A s \in Run \ {r} : attempt'[s] = attempt[s]
      /\ attempt'[r].phase \notin Writing
  BY <1>1, EndTypes DEF BreakProtocol
<1>4. RunInv(r)'
  BY <1>1, Uncommitted, NoneIsNothing
     DEF BreakProtocol, Asking, Checkpoint, End, NoAttempt, Journal, Attempt, RunInv, JournalInv, AttemptInv,
         WritebackInv, CommittedInv, Pending, Committed, Busy, Correctable,
         TurnOf, ledger, tables, disk
<1>5. UNCHANGED <<ledger, disk, queue, host>> /\ faults' \in 0 .. MaxFaults
  BY <1>1, BoundsAssumption DEF BreakProtocol
<1> QED
  BY <1>2, <1>3, <1>4, <1>5, QuietStep

(* A call that ends.                                                       *)
LEMMA AbandonStep ==
  ASSUME IInv, NEW r \in Run, Abandon(r)
  PROVE  IInv'
<1>1. /\ journal[r] \in Journal /\ attempt[r] \in Attempt
      /\ journal \in [Run -> Journal] /\ attempt \in [Run -> Attempt]
      /\ RunInv(r) /\ faults \in 0 .. MaxFaults
  BY DEF IInv, TypeOK
<1>2. /\ journal' \in [Run -> Journal]
      /\ \A s \in Run \ {r} : journal'[s] = journal[s]
  BY <1>1 DEF Abandon
<1>3. /\ attempt' \in [Run -> Attempt]
      /\ \A s \in Run \ {r} : attempt'[s] = attempt[s]
      /\ attempt'[r].phase \notin Writing
  BY <1>1, EndTypes DEF Abandon
<1>4. RunInv(r)'
  BY <1>1, Uncommitted, NoneIsNothing
     DEF Abandon, End, NoAttempt, Journal, Attempt, RunInv, JournalInv, AttemptInv,
         WritebackInv, CommittedInv, Pending, Committed, Busy, Correctable,
         TurnOf, ledger, tables, disk
<1>5. UNCHANGED <<ledger, disk, queue, host>> /\ faults' \in 0 .. MaxFaults
  BY <1>1, BoundsAssumption DEF Abandon
<1> QED
  BY <1>2, <1>3, <1>4, <1>5, QuietStep

(* Sealing the prose.                                                      *)
LEMMA StoryCommitStep ==
  ASSUME IInv, NEW r \in Run, NEW body \in Body, StoryCommit(r, body)
  PROVE  IInv'
<1>1. /\ journal[r] \in Journal /\ attempt[r] \in Attempt
      /\ journal \in [Run -> Journal] /\ attempt \in [Run -> Attempt]
      /\ RunInv(r) /\ faults \in 0 .. MaxFaults
  BY DEF IInv, TypeOK
<1>2. /\ journal' \in [Run -> Journal]
      /\ \A s \in Run \ {r} : journal'[s] = journal[s]
  <2>1. attempt[r].steps + 1 \in 0 .. MaxToolSteps
    BY <1>1, BoundsAssumption DEF StoryCommit, Asking, Attempt
  <2>2. [journal[r] EXCEPT !.state = "body_committed",
                             !.committed = body,
                             !.steps = attempt[r].steps + 1] \in Journal
    BY <1>1, <2>1 DEF Journal
  <2>3. Checkpoint(r, [journal[r] EXCEPT !.state = "body_committed",
                             !.committed = body,
                             !.steps = attempt[r].steps + 1])
    BY DEF StoryCommit
  <2> QED
    BY <1>1, <2>2, <2>3, CheckpointTypes
<1>3. /\ attempt' \in [Run -> Attempt]
      /\ \A s \in Run \ {r} : attempt'[s] = attempt[s]
      /\ attempt'[r].phase \notin Writing
  <2>1. attempt[r].steps + 1 \in 0 .. MaxToolSteps /\ attempt[r].rejected \in [Kind -> Nat]
    BY <1>1, BoundsAssumption DEF StoryCommit, Asking, Attempt
  <2> QED
    BY <1>1, <2>1, ContinueTypes DEF StoryCommit
<1>4. RunInv(r)'
  BY <1>1, Uncommitted, NoneIsNothing
     DEF StoryCommit, Asking, MaySeal, Checkpoint, Continue, NoAttempt, Journal, Attempt, RunInv, JournalInv, AttemptInv,
         WritebackInv, CommittedInv, Pending, Committed, Busy, Correctable,
         TurnOf, ledger, tables, disk
<1>5. UNCHANGED <<ledger, disk, queue, host>> /\ faults' \in 0 .. MaxFaults
  BY <1>1, BoundsAssumption DEF StoryCommit
<1> QED
  BY <1>2, <1>3, <1>4, <1>5, QuietStep

(* A delta refused before it is announced.                                 *)
LEMMA RefuseDeltaStep ==
  ASSUME IInv, NEW r \in Run, NEW error \in {"correctable", "other"}, RefuseDelta(r, error)
  PROVE  IInv'
<1>1. /\ journal[r] \in Journal /\ attempt[r] \in Attempt
      /\ journal \in [Run -> Journal] /\ attempt \in [Run -> Attempt]
      /\ RunInv(r) /\ faults \in 0 .. MaxFaults
  BY DEF IInv, TypeOK
<1>2. /\ journal' \in [Run -> Journal]
      /\ \A s \in Run \ {r} : journal'[s] = journal[s]
  BY <1>1 DEF RefuseDelta
<1>3. /\ attempt' \in [Run -> Attempt]
      /\ \A s \in Run \ {r} : attempt'[s] = attempt[s]
      /\ attempt'[r].phase \notin Writing
  BY <1>1 DEF RefuseDelta, Attempt, Writing
<1>4. RunInv(r)'
  BY <1>1, Uncommitted, NoneIsNothing
     DEF RefuseDelta, Asking, NoAttempt, Journal, Attempt, RunInv, JournalInv, AttemptInv,
         WritebackInv, CommittedInv, Pending, Committed, Busy, Correctable,
         TurnOf, ledger, tables, disk
<1>5. UNCHANGED <<ledger, disk, queue, host>> /\ faults' \in 0 .. MaxFaults
  BY <1>1, BoundsAssumption DEF RefuseDelta
<1> QED
  BY <1>2, <1>3, <1>4, <1>5, QuietStep

(* The last checkpoint.                                                    *)
LEMMA CompleteStep ==
  ASSUME IInv, NEW r \in Run, Complete(r)
  PROVE  IInv'
<1>1. /\ journal[r] \in Journal /\ attempt[r] \in Attempt
      /\ journal \in [Run -> Journal] /\ attempt \in [Run -> Attempt]
      /\ RunInv(r) /\ faults \in 0 .. MaxFaults
  BY DEF IInv, TypeOK
<1>2. /\ journal' \in [Run -> Journal]
      /\ \A s \in Run \ {r} : journal'[s] = journal[s]
  <2>1. [journal[r] EXCEPT !.state = "completed", !.pending = None] \in Journal
    BY <1>1, BoundsAssumption DEF Complete, Asking, Journal
  <2>2. Checkpoint(r, [journal[r] EXCEPT !.state = "completed", !.pending = None])
    BY DEF Complete
  <2> QED
    BY <1>1, <2>1, <2>2, CheckpointTypes
<1>3. /\ attempt' \in [Run -> Attempt]
      /\ \A s \in Run \ {r} : attempt'[s] = attempt[s]
      /\ attempt'[r].phase \notin Writing
  BY <1>1, EndTypes DEF Complete
<1>4. RunInv(r)'
  BY <1>1, Uncommitted, NoneIsNothing
     DEF Complete, Checkpoint, End, NoAttempt, Journal, Attempt, RunInv, JournalInv, AttemptInv,
         WritebackInv, CommittedInv, Pending, Committed, Busy, Correctable,
         TurnOf, ledger, tables, disk
<1>5. UNCHANGED <<ledger, disk, queue, host>> /\ faults' \in 0 .. MaxFaults
  BY <1>1, BoundsAssumption DEF Complete
<1> QED
  BY <1>2, <1>3, <1>4, <1>5, QuietStep

(* A checkpoint that fails.                                                *)
LEMMA CheckpointFailsStep ==
  ASSUME IInv, NEW r \in Run, CheckpointFails(r)
  PROVE  IInv'
<1>1. /\ journal[r] \in Journal /\ attempt[r] \in Attempt
      /\ journal \in [Run -> Journal] /\ attempt \in [Run -> Attempt]
      /\ RunInv(r) /\ faults \in 0 .. MaxFaults
  BY DEF IInv, TypeOK
<1>2. /\ journal' \in [Run -> Journal]
      /\ \A s \in Run \ {r} : journal'[s] = journal[s]
  BY <1>1 DEF CheckpointFails
<1>3. /\ attempt' \in [Run -> Attempt]
      /\ \A s \in Run \ {r} : attempt'[s] = attempt[s]
      /\ attempt'[r].phase \notin Writing
  BY <1>1, EndTypes DEF CheckpointFails
<1>4. RunInv(r)'
  BY <1>1, Uncommitted, NoneIsNothing
     DEF CheckpointFails, End, NoAttempt, Journal, Attempt, RunInv, JournalInv, AttemptInv,
         WritebackInv, CommittedInv, Pending, Committed, Busy, Correctable,
         TurnOf, ledger, tables, disk
<1>5. UNCHANGED <<ledger, disk, queue, host>> /\ faults' \in 0 .. MaxFaults
  BY <1>1, BoundsAssumption DEF CheckpointFails, Fault
<1> QED
  BY <1>2, <1>3, <1>4, <1>5, QuietStep

(* A rejected call.                                                        *)
LEMMA RejectCallStep ==
  ASSUME IInv, NEW r \in Run, NEW k \in Kind, RejectCall(r, k)
  PROVE  IInv'
<1>1. /\ journal[r] \in Journal /\ attempt[r] \in Attempt
      /\ journal \in [Run -> Journal] /\ attempt \in [Run -> Attempt]
      /\ RunInv(r) /\ faults \in 0 .. MaxFaults
  BY DEF IInv, TypeOK
<1>2. /\ journal' \in [Run -> Journal]
      /\ \A s \in Run \ {r} : journal'[s] = journal[s]
  <2>1. /\ attempt[r].steps + 1 \in 0 .. MaxToolSteps
        /\ journal[r].rejected \in [Kind -> Nat]
    BY <1>1, BoundsAssumption DEF RejectCall, Asking, Attempt, Journal
  <2>2. [journal[r].rejected EXCEPT ![k] = @ + 1] \in [Kind -> Nat]
    BY <2>1, CountType
  <2>3. PICK state \in {"failed", "running"} :
          Checkpoint(r, [journal[r] EXCEPT !.state = state,
                                           !.steps = attempt[r].steps + 1,
                                           !.rejected[k] = @ + 1])
    BY DEF RejectCall
  <2>4. [journal[r] EXCEPT !.state = state, !.steps = attempt[r].steps + 1,
                           !.rejected[k] = @ + 1] \in Journal
    BY <1>1, <2>1, <2>2, <2>3 DEF Journal
  <2> QED
    BY <1>1, <2>3, <2>4, CheckpointTypes
<1>3. /\ attempt' \in [Run -> Attempt]
      /\ \A s \in Run \ {r} : attempt'[s] = attempt[s]
      /\ attempt'[r].phase \notin Writing
  <2>1. /\ attempt[r].steps + 1 \in 0 .. MaxToolSteps
        /\ attempt[r].committed \in Body \cup {None}
        /\ attempt[r].rejected \in [Kind -> Nat]
    BY <1>1, BoundsAssumption DEF RejectCall, Asking, Attempt
  <2>2. [attempt[r].rejected EXCEPT ![k] = @ + 1] \in [Kind -> Nat]
    BY <2>1, CountType
  <2>3. End(r) \/ Continue(r, attempt[r].committed, attempt[r].steps + 1,
                           [attempt[r].rejected EXCEPT ![k] = @ + 1])
    BY DEF RejectCall
  <2> QED
    BY <1>1, <2>1, <2>2, <2>3, ContinueTypes, EndTypes
<1>4. RunInv(r)'
  <2>1. /\ ~ Pending(r) /\ ~ Committed(r)
        /\ journal[r].committed = attempt[r].committed
    BY <1>1, Uncommitted DEF RejectCall, Asking, RunInv, AttemptInv
  <2>2. /\ journal'[r].committed = journal[r].committed
        /\ journal'[r].pending = journal[r].pending
        /\ journal'[r].epoch = journal[r].epoch
    BY <1>1 DEF RejectCall, Checkpoint, Journal
  <2>3. \/ journal'[r].state = "failed" /\ attempt'[r].phase = "idle"
        \/ /\ journal'[r].state = "running" /\ attempt'[r].phase = "provider"
           /\ attempt'[r].committed = attempt[r].committed
           /\ ~ attempt'[r].recovery
    <3> DEFINE last == LastRejection(k, attempt[r].steps + 1,
                         [attempt[r].rejected EXCEPT ![k] = @ + 1])
    <3>1. journal'[r].state = IF last THEN "failed" ELSE "running"
      BY <1>1 DEF RejectCall, Checkpoint, Journal
    <3>2. IF last THEN End(r)
          ELSE Continue(r, attempt[r].committed, attempt[r].steps + 1,
                        [attempt[r].rejected EXCEPT ![k] = @ + 1])
      BY DEF RejectCall
    <3>3. CASE last
      BY <1>1, <3>1, <3>2, <3>3 DEF End, NoAttempt
    <3>4. CASE ~ last
      BY <1>1, <3>1, <3>2, <3>4 DEF Continue, NoAttempt
    <3> QED
      BY <3>3, <3>4
  <2>4. UNCHANGED <<turnCandidates, historyEvents, artifact>>
    BY DEF RejectCall, ledger, tables, disk
  <2> QED
    BY <1>1, <2>1, <2>2, <2>3, <2>4
       DEF RunInv, JournalInv, AttemptInv, WritebackInv,
           CommittedInv, Pending, Committed, Busy, Correctable, TurnOf,
           ledger, tables, disk
<1>5. UNCHANGED <<ledger, disk, queue, host>> /\ faults' \in 0 .. MaxFaults
  BY <1>1, BoundsAssumption DEF RejectCall
<1> QED
  BY <1>2, <1>3, <1>4, <1>5, QuietStep

(* A correction.                                                           *)
LEMMA CorrectStep ==
  ASSUME IInv, NEW r \in Run, Correct(r)
  PROVE  IInv'
<1>1. /\ journal[r] \in Journal /\ attempt[r] \in Attempt
      /\ journal \in [Run -> Journal] /\ attempt \in [Run -> Attempt]
      /\ RunInv(r) /\ faults \in 0 .. MaxFaults
  BY DEF IInv, TypeOK
<1>2. /\ journal' \in [Run -> Journal]
      /\ \A s \in Run \ {r} : journal'[s] = journal[s]
  <2>1. /\ attempt[r].steps + 1 \in 0 .. MaxToolSteps
        /\ attempt[r].committed \in Body \cup {None}
        /\ attempt[r].rejected \in [Kind -> Nat]
        /\ journal[r].rejected \in [Kind -> Nat]
        /\ "writeback" \in Kind
    BY <1>1, BoundsAssumption
       DEF Correct, RunInv, AttemptInv, Correctable, Attempt, Journal, Kind
  <2>2. [journal[r].rejected EXCEPT !["writeback"] = @ + 1] \in [Kind -> Nat]
    BY <2>1, CountType
  <2>3. [journal[r] EXCEPT !.state = "body_committed", !.pending = None,
                           !.steps = attempt[r].steps + 1,
                           !.rejected["writeback"] = @ + 1] \in Journal
    BY <1>1, <2>1, <2>2 DEF Journal
  <2> QED
    BY <1>1, <2>3, CheckpointTypes DEF Correct
<1>3. /\ attempt' \in [Run -> Attempt]
      /\ \A s \in Run \ {r} : attempt'[s] = attempt[s]
      /\ attempt'[r].phase \notin Writing
  <2>1. /\ attempt[r].steps + 1 \in 0 .. MaxToolSteps
        /\ attempt[r].committed \in Body \cup {None}
        /\ attempt[r].rejected \in [Kind -> Nat]
        /\ journal[r].rejected \in [Kind -> Nat]
        /\ "writeback" \in Kind
    BY <1>1, BoundsAssumption
       DEF Correct, RunInv, AttemptInv, Correctable, Attempt, Journal, Kind
  <2>2. [attempt[r].rejected EXCEPT !["writeback"] = @ + 1] \in [Kind -> Nat]
    BY <2>1, CountType
  <2> QED
    BY <1>1, <2>1, <2>2, ContinueTypes DEF Correct
<1>4. RunInv(r)'
  BY <1>1, Uncommitted, NoneIsNothing
     DEF Correct, Checkpoint, Continue, NoAttempt, Journal, Attempt, RunInv, JournalInv, AttemptInv,
         WritebackInv, CommittedInv, Pending, Committed, Busy, Correctable,
         TurnOf, ledger, tables, disk
<1>5. UNCHANGED <<ledger, disk, queue, host>> /\ faults' \in 0 .. MaxFaults
  BY <1>1, BoundsAssumption DEF Correct
<1> QED
  BY <1>2, <1>3, <1>4, <1>5, QuietStep

(* Giving up.                                                              *)
LEMMA GiveUpStep ==
  ASSUME IInv, NEW r \in Run, GiveUp(r)
  PROVE  IInv'
<1>1. /\ journal[r] \in Journal /\ attempt[r] \in Attempt
      /\ journal \in [Run -> Journal] /\ attempt \in [Run -> Attempt]
      /\ RunInv(r) /\ faults \in 0 .. MaxFaults
  BY DEF IInv, TypeOK
<1>2. /\ journal' \in [Run -> Journal]
      /\ \A s \in Run \ {r} : journal'[s] = journal[s]
  <2>1. CASE Correctable(r) /\ Checkpoint(r,
               [journal[r] EXCEPT !.state = "partial_success", !.pending = None,
                                  !.steps = attempt[r].steps + 1,
                                  !.rejected["writeback"] = @ + 1])
    <3>1. /\ attempt[r].steps + 1 \in 0 .. MaxToolSteps
          /\ journal[r].rejected \in [Kind -> Nat]
          /\ "writeback" \in Kind
      BY <1>1, <2>1, BoundsAssumption
         DEF GiveUp, RunInv, AttemptInv, Correctable, Attempt, Journal, Kind
    <3>2. [journal[r].rejected EXCEPT !["writeback"] = @ + 1] \in [Kind -> Nat]
      BY <3>1, CountType
    <3>3. [journal[r] EXCEPT !.state = "partial_success", !.pending = None,
                             !.steps = attempt[r].steps + 1,
                             !.rejected["writeback"] = @ + 1] \in Journal
      BY <1>1, <3>1, <3>2 DEF Journal
    <3> QED
      BY <1>1, <2>1, <3>3, CheckpointTypes
  <2>2. CASE Checkpoint(r, KeepWriteback(journal[r]))
    <3>1. KeepWriteback(journal[r]) \in Journal
      BY <1>1 DEF KeepWriteback, Journal
    <3> QED
      BY <1>1, <2>2, <3>1, CheckpointTypes
  <2> QED
    BY <2>1, <2>2 DEF GiveUp
<1>3. /\ attempt' \in [Run -> Attempt]
      /\ \A s \in Run \ {r} : attempt'[s] = attempt[s]
      /\ attempt'[r].phase \notin Writing
  BY <1>1, EndTypes DEF GiveUp
<1>4. RunInv(r)'
  <2> DEFINE given == [journal[r] EXCEPT !.state = "partial_success",
                                        !.pending = None,
                                        !.steps = attempt[r].steps + 1,
                                        !.rejected["writeback"] = @ + 1]
  <2>1. /\ attempt'[r].phase = "idle"
        /\ UNCHANGED <<turnCandidates, historyEvents, artifact>>
    BY <1>1 DEF GiveUp, End, NoAttempt, ledger, tables, disk
  <2>2. /\ journal'[r].state = "partial_success"
        /\ journal'[r].committed = journal[r].committed
        /\ journal'[r].epoch = journal[r].epoch
        /\ \/ journal'[r].pending = None /\ ~ Committed(r)
           \/ journal'[r].pending = journal[r].pending
    <3>1. CASE Correctable(r) /\ Checkpoint(r, given)
      <4>1. ~ Committed(r)
        BY <1>1, <3>1 DEF GiveUp, RunInv, AttemptInv
      <4> QED
        BY <1>1, <3>1, <4>1 DEF Checkpoint, Journal
    <3>2. CASE Checkpoint(r, KeepWriteback(journal[r]))
      BY <1>1, <3>2 DEF Checkpoint, KeepWriteback, Journal
    <3> QED
      BY <3>1, <3>2 DEF GiveUp
  <2>3. journal[r].state \notin {"none", "torn", "completed"}
    BY <1>1 DEF GiveUp, RunInv, AttemptInv, JournalInv
  <2> QED
    BY <1>1, <2>1, <2>2, <2>3
       DEF RunInv, JournalInv, AttemptInv, WritebackInv,
           CommittedInv, Pending, Committed, Busy, Correctable, TurnOf,
           ledger, tables, disk
<1>5. UNCHANGED <<ledger, disk, queue, host>> /\ faults' \in 0 .. MaxFaults
  BY <1>1, BoundsAssumption DEF GiveUp
<1> QED
  BY <1>2, <1>3, <1>4, <1>5, QuietStep

-----------------------------------------------------------------------------
(* The steps under the coordinator.                                        *)

(* Moving on under the coordinator changes the phase of the call only.     *)
LEMMA GotoTypes ==
  ASSUME attempt \in [Run -> Attempt], NEW r \in Run,
         NEW phase \in {"queued", "committing", "activating", "rebuilding",
                        "settling"},
         Goto(r, phase)
  PROVE  /\ attempt' \in [Run -> Attempt]
         /\ \A s \in Run \ {r} : attempt'[s] = attempt[s]
         /\ attempt'[r].phase = phase
         /\ attempt'[r].recovery = attempt[r].recovery
         /\ attempt'[r].steps = attempt[r].steps
         /\ attempt'[r].committed = attempt[r].committed
         /\ attempt'[r].error = attempt[r].error
<1>1. [attempt[r] EXCEPT !.phase = phase] \in Attempt
  BY DEF Attempt
<1> QED
  BY <1>1 DEF Goto, Attempt

(* An error changes the phase and the error and leaves the queue.          *)
LEMMA ThrowTypes ==
  ASSUME attempt \in [Run -> Attempt], NEW r \in Run,
         NEW error \in {"correctable", "other"}, Throw(r, error)
  PROVE  /\ attempt' \in [Run -> Attempt]
         /\ \A s \in Run \ {r} : attempt'[s] = attempt[s]
         /\ attempt'[r].phase = "rejecting"
         /\ attempt'[r].recovery = attempt[r].recovery
         /\ attempt'[r].steps = attempt[r].steps
         /\ attempt'[r].committed = attempt[r].committed
         /\ attempt'[r].error = error
         /\ queue' = Tail(queue)
<1>1. [attempt[r] EXCEPT !.phase = "rejecting", !.error = error] \in Attempt
  BY DEF Attempt
<1> QED
  BY <1>1 DEF Throw, Attempt

(* The holder of the coordinator may write.                                *)
LEMMA StayInside ==
  ASSUME IInv, NEW r \in Run, Holds(r), queue' = queue, host' = host,
         \A s \in Run \ {r} : attempt'[s] = attempt[s]
  PROVE  OneWriter'
BY DEF IInv, OneWriter, Holds

(* When the holder leaves, nobody else was writing.                        *)
LEMMA LeaveCoordinator ==
  ASSUME IInv, NEW r \in Run, Holds(r), queue' = Tail(queue), host' = host,
         \A s \in Run \ {r} : attempt'[s] = attempt[s],
         attempt'[r].phase \notin Writing
  PROVE  OneWriter' /\ queue' \in Seq(Run \cup {Host})
<1>1. queue \in Seq(Run \cup {Host})
  BY DEF IInv, TypeOK
<1>2. queue' \in Seq(Run \cup {Host}) /\ \A y : Holds(y) => y = r
  BY <1>1, LeaveQueue
<1>3. \A s \in Run : attempt'[s].phase \notin Writing
  BY <1>2 DEF IInv, OneWriter
<1>4. host.phase # "rebuilding"
  BY <1>2, NoneIsNothing DEF IInv, OneWriter
<1> QED
  BY <1>2, <1>3, <1>4 DEF OneWriter

(* Whoever waits disturbs nobody.                                          *)
LEMMA JoinCoordinator ==
  ASSUME IInv, NEW r \in Run, queue' = Append(queue, r), host' = host,
         \A s \in Run \ {r} : attempt'[s] = attempt[s],
         attempt'[r].phase \notin Writing
  PROVE  OneWriter' /\ queue' \in Seq(Run \cup {Host})
<1>1. queue \in Seq(Run \cup {Host})
  BY DEF IInv, TypeOK
<1>2. queue' \in Seq(Run \cup {Host}) /\ \A y : Holds(y) => Holds(y)'
  BY <1>1, JoinQueue
<1> QED
  BY <1>2 DEF IInv, OneWriter

(* A step of one run: what is left to show of it.                          *)
LEMMA WritebackStep ==
  ASSUME IInv, NEW r \in Run,
         LedgerProofs!IInv', turnRun' \in [DOMAIN turns' -> Run],
         artifact' \in [Run -> Artifact \cup {None}],
         concept' \in [Run -> BOOLEAN], world' \in World,
         journal' \in [Run -> Journal], attempt' \in [Run -> Attempt],
         queue' \in Seq(Run \cup {Host}), host' = host,
         faults' \in 0 .. MaxFaults,
         OneWriter',
         \A s \in Run \ {r} :
           /\ journal'[s] = journal[s]
           /\ attempt'[s] = attempt[s]
           /\ artifact'[s] = artifact[s]
           /\ Committed(s)' <=> Committed(s)
           /\ Committed(s) =>
                /\ turnCandidates'[s].turn = turnCandidates[s].turn
                /\ turnCandidates'[s].swipe = turnCandidates[s].swipe
                /\ turnCandidates[s].status # "deleted"
                     => turnCandidates'[s].status # "deleted"
           /\ s \in DOMAIN historyEvents' <=> s \in DOMAIN historyEvents
           /\ s \in DOMAIN historyEvents =>
                historyEvents'[s].result = historyEvents[s].result,
         RunInv(r)'
  PROVE  IInv'
<1>1. Ledger!TypeOK'
  BY LedgerTypes, PTL
<1>2. TypeOK'
  BY <1>1 DEF IInv, TypeOK
<1>3. HostInv'
  BY DEF IInv, HostInv
<1>4. ASSUME NEW s \in Run \ {r} PROVE RunInv(s)'
  <2>1. RunInv(s)
    BY DEF IInv
  <2> QED
    BY <2>1, OtherRun
<1> QED
  BY <1>2, <1>3, <1>4 DEF IInv

(* What is known of a run before its step.                                 *)
LEMMA RunFacts ==
  ASSUME IInv, NEW r \in Run
  PROVE  /\ journal \in [Run -> Journal] /\ journal[r] \in Journal
         /\ attempt \in [Run -> Attempt] /\ attempt[r] \in Attempt
         /\ artifact \in [Run -> Artifact \cup {None}]
         /\ concept \in [Run -> BOOLEAN] /\ world \in World
         /\ queue \in Seq(Run \cup {Host}) /\ faults \in 0 .. MaxFaults
         /\ turnRun \in [DOMAIN turns -> Run]
         /\ RunInv(r)
BY DEF IInv, TypeOK

(* A step that writes neither the ledger nor the files.                    *)
LEMMA NoWriteStep ==
  ASSUME IInv, NEW r \in Run, UNCHANGED <<ledger, disk, host>>,
         journal' \in [Run -> Journal], attempt' \in [Run -> Attempt],
         queue' \in Seq(Run \cup {Host}), faults' \in 0 .. MaxFaults, OneWriter',
         \A s \in Run \ {r} : journal'[s] = journal[s] /\ attempt'[s] = attempt[s],
         RunInv(r)'
  PROVE  IInv'
<1>1. LedgerProofs!IInv'
  BY LedgerUnchanged DEF IInv, ledger
<1>2. /\ turnRun' \in [DOMAIN turns' -> Run]
      /\ artifact' \in [Run -> Artifact \cup {None}]
      /\ concept' \in [Run -> BOOLEAN] /\ world' \in World
      /\ host' = host
      /\ UNCHANGED <<turnCandidates, historyEvents, artifact>>
  BY RunFacts DEF ledger, tables, disk
<1> QED
  BY <1>1, <1>2, WritebackStep DEF Committed

(* The journal of a run and its rows, when neither changes.                *)
LEMMA SameRecords ==
  ASSUME NEW r \in Run, RunInv(r),
         journal'[r] = journal[r], artifact'[r] = artifact[r],
         UNCHANGED <<turnCandidates, historyEvents>>
  PROVE  /\ JournalInv(r)' /\ CommittedInv(r)'
         /\ Pending(r)' <=> Pending(r)
         /\ Committed(r)' <=> Committed(r)
<1>1. TurnOf(r)' = TurnOf(r) /\ (Pending(r)' <=> Pending(r))
      /\ (Committed(r)' <=> Committed(r))
  BY DEF TurnOf, Pending, Committed
<1>2. JournalInv(r)'
  BY <1>1 DEF RunInv, JournalInv
<1>3. CommittedInv(r)'
  BY <1>1 DEF RunInv, CommittedInv
<1> QED
  BY <1>1, <1>2, <1>3

(* A recovery waits for the coordinator.                                   *)
LEMMA RecoverStep ==
  ASSUME IInv, NEW r \in Run, Recover(r)
  PROVE  IInv'
<1> DEFINE a == [NoAttempt EXCEPT !.phase = "queued", !.recovery = TRUE]
<1>1. a \in Attempt
  BY NoAttemptType DEF Attempt
<1>2. /\ attempt' \in [Run -> Attempt] /\ attempt'[r] = a
      /\ \A s \in Run \ {r} : attempt'[s] = attempt[s]
  BY <1>1, RunFacts DEF Recover
<1>3. OneWriter' /\ queue' \in Seq(Run \cup {Host})
  BY <1>2, JoinCoordinator DEF Recover, NoAttempt, Writing
<1>4. RunInv(r)'
  <2>1. /\ attempt'[r].phase = "queued" /\ attempt'[r].recovery
        /\ journal[r].state # "completed" /\ Pending(r)
    BY <1>2 DEF Recover, Recoverable, NoAttempt
  <2>2. UNCHANGED <<journal, artifact, turnCandidates, historyEvents>>
    BY DEF Recover, ledger, tables, disk
  <2>3. /\ JournalInv(r)' /\ CommittedInv(r)'
        /\ Pending(r)' <=> Pending(r)
    BY <2>2, SameRecords, RunFacts
  <2>4. AttemptInv(r)'
    BY <2>1, <2>3 DEF AttemptInv, Busy
  <2>5. WritebackInv(r)'
    BY <2>1, <2>2 DEF WritebackInv
  <2> QED
    BY <2>3, <2>4, <2>5 DEF RunInv
<1> QED
  BY <1>2, <1>3, <1>4, RunFacts, NoWriteStep DEF Recover

(* A delta is announced, and the run waits for the coordinator.            *)
LEMMA WriteTurnDeltaStep ==
  ASSUME IInv, NEW r \in Run, NEW delta \in Delta, WriteTurnDelta(r, delta)
  PROVE  IInv'
<1> DEFINE row == Announced(journal[r], delta, attempt[r].steps + 1)
<1>1. attempt[r].steps + 1 \in 0 .. MaxToolSteps
  BY RunFacts, BoundsAssumption DEF WriteTurnDelta, Asking, Attempt
<1>2. row \in Journal
  BY <1>1, RunFacts DEF Announced, Journal
<1>3. /\ journal' \in [Run -> Journal] /\ journal'[r] = row
      /\ \A s \in Run \ {r} : journal'[s] = journal[s]
  BY <1>2, RunFacts, CheckpointTypes DEF WriteTurnDelta
<1>4. /\ attempt' \in [Run -> Attempt]
      /\ \A s \in Run \ {r} : attempt'[s] = attempt[s]
      /\ attempt'[r].phase = "queued"
      /\ attempt'[r].recovery = attempt[r].recovery
      /\ attempt'[r].steps = attempt[r].steps
      /\ attempt'[r].committed = attempt[r].committed
  BY RunFacts, GotoTypes DEF WriteTurnDelta
<1>5. OneWriter' /\ queue' \in Seq(Run \cup {Host})
  BY <1>4, JoinCoordinator DEF WriteTurnDelta, Writing
<1>6. RunInv(r)'
  <2>1. /\ journal'[r].state = "applying_writeback"
        /\ journal'[r].pending = delta /\ delta # None
        /\ journal'[r].committed = journal[r].committed
        /\ journal'[r].epoch = journal[r].epoch
    BY <1>3, RunFacts, NoneIsNothing DEF Announced, Journal
  <2>2. ~ Committed(r) /\ journal[r].committed = attempt[r].committed
        /\ attempt[r].committed # None /\ attempt[r].steps < MaxToolSteps
    BY RunFacts, Uncommitted
       DEF WriteTurnDelta, Asking, RunInv, AttemptInv
  <2> QED
    BY <1>4, <2>1, <2>2, RunFacts
       DEF WriteTurnDelta, RunInv, JournalInv, AttemptInv, WritebackInv, CommittedInv, Pending,
           Committed, Busy, Correctable, TurnOf, ledger, tables, disk
<1> QED
  BY <1>3, <1>4, <1>5, <1>6, RunFacts, NoWriteStep DEF WriteTurnDelta

(* A committed delta was not refused.                                      *)
LEMMA CommittedIsValid ==
  ASSUME IInv, NEW r \in Run, Pending(r), Committed(r)
  PROVE  journal[r].pending # "invalid"
BY RunFacts DEF RunInv, JournalInv, CommittedInv

(* A writeback that ends with an error and wrote nothing.                  *)
LEMMA ThrowStep ==
  ASSUME IInv, NEW r \in Run, NEW error \in {"correctable", "other"},
         attempt[r].phase \in {"queued", "activating", "rebuilding"},
         Holds(r), Throw(r, error), faults' \in 0 .. MaxFaults,
         error = "correctable" => ~ Committed(r),
         UNCHANGED <<ledger, disk, journal, host>>
  PROVE  IInv'
<1>1. /\ attempt' \in [Run -> Attempt]
      /\ \A s \in Run \ {r} : attempt'[s] = attempt[s]
      /\ attempt'[r].phase = "rejecting"
      /\ attempt'[r].recovery = attempt[r].recovery
      /\ attempt'[r].steps = attempt[r].steps
      /\ attempt'[r].committed = attempt[r].committed
      /\ attempt'[r].error = error
      /\ queue' = Tail(queue)
  BY RunFacts, ThrowTypes
<1>2. OneWriter' /\ queue' \in Seq(Run \cup {Host})
  BY <1>1, LeaveCoordinator DEF Writing
<1>3. RunInv(r)'
  <2>1. UNCHANGED <<journal, artifact, turnCandidates, historyEvents>>
    BY DEF ledger, tables, disk
  <2>2. /\ JournalInv(r)' /\ CommittedInv(r)'
        /\ Pending(r)' <=> Pending(r)
        /\ Committed(r)' <=> Committed(r)
    BY <2>1, SameRecords, RunFacts
  <2>3. /\ Pending(r)
        /\ ~ attempt[r].recovery =>
             /\ attempt[r].steps < MaxToolSteps
             /\ attempt[r].committed # None
             /\ attempt[r].committed = journal[r].committed
        /\ journal[r].state = "completed" =>
             Committed(r) /\ r \in DOMAIN historyEvents
    BY RunFacts DEF RunInv, AttemptInv, WritebackInv, Busy
  <2>4. AttemptInv(r)'
    BY <1>1, <2>1, <2>2, <2>3 DEF AttemptInv, Busy, Correctable
  <2>5. WritebackInv(r)'
    BY <1>1, <2>1, <2>2, <2>3 DEF WritebackInv
  <2> QED
    BY <2>2, <2>4, <2>5 DEF RunInv
<1> QED
  BY <1>1, <1>2, <1>3, RunFacts, NoWriteStep

LEMMA RejectDeltaStep ==
  ASSUME IInv, NEW r \in Run, RejectDelta(r)
  PROVE  IInv'
<1>1. ~ Committed(r)
  BY CommittedIsValid, NoneIsNothing, RunAssumption
     DEF RejectDelta, Pending, DeltaKind
<1> QED
  BY <1>1, RunFacts, ThrowStep DEF RejectDelta, MayCommit

LEMMA ActivationFailsStep ==
  ASSUME IInv, NEW r \in Run, ActivationFails(r)
  PROVE  IInv'
<1>1. Holds(r)
  BY DEF ActivationFails, IInv, OneWriter, Writing
<1>2. faults' \in 0 .. MaxFaults
  BY RunFacts, BoundsAssumption DEF ActivationFails, Fault
<1> QED
  BY <1>1, <1>2, ThrowStep DEF ActivationFails

LEMMA RebuildFailsStep ==
  ASSUME IInv, NEW r \in Run, RebuildFails(r)
  PROVE  IInv'
<1>1. Holds(r)
  BY DEF RebuildFails, IInv, OneWriter, Writing
<1>2. faults' \in 0 .. MaxFaults
  BY RunFacts, BoundsAssumption DEF RebuildFails, Fault
<1> QED
  BY <1>1, <1>2, ThrowStep DEF RebuildFails

(* The reply was committed before.                                         *)
LEMMA CommitExistingStep ==
  ASSUME IInv, NEW r \in Run, CommitExisting(r)
  PROVE  IInv'
<1>1. /\ attempt' \in [Run -> Attempt]
      /\ \A s \in Run \ {r} : attempt'[s] = attempt[s]
      /\ attempt'[r].phase = "activating"
      /\ attempt'[r].recovery = attempt[r].recovery
      /\ attempt'[r].steps = attempt[r].steps
      /\ attempt'[r].committed = attempt[r].committed
  BY RunFacts, GotoTypes DEF CommitExisting
<1>2. OneWriter'
  BY <1>1, StayInside DEF CommitExisting, MayCommit
<1>3. RunInv(r)'
  BY <1>1, RunFacts
     DEF CommitExisting, MayCommit, Known, RunInv, JournalInv, AttemptInv, WritebackInv, CommittedInv, Pending,
           Committed, Busy, Correctable, TurnOf, ledger, tables, disk
<1> QED
  BY <1>1, <1>2, <1>3, RunFacts, NoWriteStep DEF CommitExisting

(* A writeback that ends with an error and takes back its artifact.        *)
LEMMA ThrowUndoneStep ==
  ASSUME IInv, NEW r \in Run, NEW error \in {"correctable", "other"},
         attempt[r].phase \in {"queued", "committing"}, ~ Committed(r),
         Holds(r), Throw(r, error), faults' \in 0 .. MaxFaults,
         artifact' = [artifact EXCEPT ![r] = None],
         concept' \in [Run -> BOOLEAN],
         UNCHANGED <<ledger, world, journal, host>>
  PROVE  IInv'
<1>1. /\ attempt' \in [Run -> Attempt]
      /\ \A s \in Run \ {r} : attempt'[s] = attempt[s]
      /\ attempt'[r].phase = "rejecting"
      /\ attempt'[r].recovery = attempt[r].recovery
      /\ attempt'[r].steps = attempt[r].steps
      /\ attempt'[r].committed = attempt[r].committed
      /\ queue' = Tail(queue)
  BY RunFacts, ThrowTypes
<1>2. OneWriter' /\ queue' \in Seq(Run \cup {Host})
  BY <1>1, LeaveCoordinator DEF Writing
<1>3. /\ artifact' \in [Run -> Artifact \cup {None}]
      /\ \A s \in Run \ {r} : artifact'[s] = artifact[s]
      /\ UNCHANGED <<turnCandidates, historyEvents>>
  BY RunFacts DEF ledger, tables
<1>4. LedgerProofs!IInv'
  BY LedgerUnchanged DEF IInv, ledger
<1>5. ~ Committed(r)' /\ (Pending(r)' <=> Pending(r))
  BY <1>3 DEF Committed, Pending
<1>6. RunInv(r)'
  <2>1. /\ Pending(r)
        /\ ~ attempt[r].recovery =>
             /\ attempt[r].steps < MaxToolSteps
             /\ attempt[r].committed # None
             /\ attempt[r].committed = journal[r].committed
        /\ journal[r].state # "completed"
        /\ r \in DOMAIN historyEvents => historyEvents[r].result = r
    BY RunFacts DEF RunInv, AttemptInv, WritebackInv, CommittedInv, Busy
  <2>2. JournalInv(r)'
    BY <1>5, RunFacts DEF RunInv, JournalInv
  <2>3. AttemptInv(r)'
    BY <1>1, <1>5, <2>1 DEF AttemptInv, Busy
  <2>4. WritebackInv(r)'
    BY <1>1, <2>1 DEF WritebackInv
  <2>5. CommittedInv(r)'
    BY <1>3, <1>5, <2>1 DEF CommittedInv
  <2> QED
    BY <2>2, <2>3, <2>4, <2>5 DEF RunInv
<1>7. turnRun' \in [DOMAIN turns' -> Run] /\ world' \in World /\ host' = host
      /\ journal' \in [Run -> Journal]
      /\ \A s \in Run \ {r} : journal'[s] = journal[s]
  BY RunFacts DEF ledger, tables
<1> QED
  BY <1>1, <1>2, <1>3, <1>4, <1>6, <1>7, WritebackStep DEF Committed

LEMMA ConceptConflictStep ==
  ASSUME IInv, NEW r \in Run, ConceptConflict(r)
  PROVE  IInv'
<1>1. concept' \in [Run -> BOOLEAN] /\ faults' \in 0 .. MaxFaults
  BY RunFacts DEF ConceptConflict
<1> QED
  BY <1>1, ThrowUndoneStep DEF ConceptConflict, MayCommit, Known

LEMMA CommitFailsStep ==
  ASSUME IInv, NEW r \in Run, CommitFails(r)
  PROVE  IInv'
<1>1. Holds(r) /\ ~ Committed(r)
  BY RunFacts DEF CommitFails, IInv, OneWriter, Writing, RunInv, WritebackInv
<1>2. concept' \in [Run -> BOOLEAN]
  BY RunFacts DEF CommitFails, UndoCommitFiles
<1>3. faults' \in 0 .. MaxFaults
  BY RunFacts, BoundsAssumption DEF CommitFails, Fault
<1>4. PICK error \in {"correctable", "other"} : Throw(r, error)
  BY DEF CommitFails
<1> QED
  BY <1>1, <1>2, <1>3, <1>4, ThrowUndoneStep
     DEF CommitFails, UndoCommitFiles

(* The files of the turn are there before its rows.                        *)
LEMMA WriteCommitFilesStep ==
  ASSUME IInv, NEW r \in Run, WriteCommitFiles(r)
  PROVE  IInv'
<1> DEFINE a == [body |-> journal[r].committed, delta |-> journal[r].pending]
<1>1. /\ attempt' \in [Run -> Attempt]
      /\ \A s \in Run \ {r} : attempt'[s] = attempt[s]
      /\ attempt'[r].phase = "committing"
      /\ attempt'[r].recovery = attempt[r].recovery
      /\ attempt'[r].steps = attempt[r].steps
      /\ attempt'[r].committed = attempt[r].committed
  BY RunFacts, GotoTypes DEF WriteCommitFiles
<1>2. OneWriter'
  BY <1>1, StayInside DEF WriteCommitFiles, MayCommit
<1>3. /\ Pending(r) /\ ~ Committed(r)
      /\ attempt[r].phase = "queued"
      /\ UNCHANGED <<turnCandidates, historyEvents, journal>>
  BY RunFacts
     DEF WriteCommitFiles, MayCommit, Known, RunInv, AttemptInv, Busy,
         ledger, tables
<1>4. a \in Artifact
  BY <1>3, RunFacts
     DEF Artifact, RunInv, JournalInv, Pending, Journal
<1>5. /\ artifact' \in [Run -> Artifact \cup {None}] /\ artifact'[r] = a
      /\ \A s \in Run \ {r} : artifact'[s] = artifact[s]
      /\ concept' \in [Run -> BOOLEAN]
  BY <1>4, RunFacts DEF WriteCommitFiles
<1>6. LedgerProofs!IInv'
  BY LedgerUnchanged DEF WriteCommitFiles, IInv, ledger
<1>7. RunInv(r)'
  <2>1. ~ Committed(r)' /\ Pending(r)'
    BY <1>3 DEF Committed, Pending
  <2>2. /\ ~ attempt[r].recovery =>
             /\ attempt[r].steps < MaxToolSteps
             /\ attempt[r].committed # None
             /\ attempt[r].committed = journal[r].committed
        /\ journal[r].state # "completed"
        /\ r \in DOMAIN historyEvents => historyEvents[r].result = r
    BY <1>3, RunFacts DEF RunInv, AttemptInv, WritebackInv, CommittedInv, Busy
  <2>3. JournalInv(r)'
    BY <1>3, <2>1, RunFacts DEF RunInv, JournalInv, Pending
  <2>4. AttemptInv(r)'
    BY <1>1, <1>3, <2>1, <2>2 DEF AttemptInv, Busy
  <2>5. WritebackInv(r)'
    BY <1>1, <1>3, <1>5, <2>1, <2>2 DEF WritebackInv
  <2>6. CommittedInv(r)'
    BY <1>3, <2>1, <2>2 DEF CommittedInv
  <2> QED
    BY <2>3, <2>4, <2>5, <2>6 DEF RunInv
<1>8. /\ turnRun' \in [DOMAIN turns' -> Run] /\ world' \in World
      /\ host' = host /\ queue' \in Seq(Run \cup {Host})
      /\ faults' \in 0 .. MaxFaults /\ journal' \in [Run -> Journal]
      /\ \A s \in Run \ {r} : journal'[s] = journal[s]
  BY RunFacts DEF WriteCommitFiles, ledger, tables
<1> QED
  BY <1>1, <1>2, <1>3, <1>5, <1>6, <1>7, <1>8, WritebackStep DEF Committed

(* The operations of the ledger that the root turn calls.                  *)
LEMMA LedgerCommit ==
  ASSUME LedgerProofs!IInv, NEW r \in Run, NEW e \in Epoch, NEW i \in Index,
         NEW s \in 0 .. MaxSwipe,
         Ledger!CommitTurn(r, e, i, s, "user", "untouched")
  PROVE  LedgerProofs!IInv'
<1>1. LedgerProofs!CommitTurn(r, e, i, s, "user", "untouched")
  BY DEF Ledger!CommitTurn, LedgerProofs!CommitTurn,
         Ledger!ActiveEpoch, LedgerProofs!ActiveEpoch,
         Ledger!WithRoot, LedgerProofs!WithRoot,
         Ledger!RootBranch, LedgerProofs!RootBranch,
         Ledger!AdvanceHead, LedgerProofs!AdvanceHead,
         Ledger!Insert, LedgerProofs!Insert
<1>2. e \in LedgerProofs!Epoch /\ i \in LedgerProofs!Index
      /\ s \in LedgerProofs!Swipe /\ "untouched" \in LedgerProofs!Thread
  BY DEF Epoch, Index, LedgerProofs!Epoch, LedgerProofs!Index,
         LedgerProofs!Swipe, LedgerProofs!Thread
<1> QED
  BY <1>1, <1>2, LedgerProofs!CommitTurnStep, RunAssumption, BoundsAssumption

LEMMA LedgerActivate ==
  ASSUME LedgerProofs!IInv, NEW r \in Run, NEW e \in Epoch, NEW i \in Index,
         NEW s \in 0 .. MaxSwipe,
         Ledger!ActivateCandidateByHostCoordinate(r, e, i, s)
  PROVE  LedgerProofs!IInv'
<1>1. LedgerProofs!ActivateCandidateByHostCoordinate(r, e, i, s)
  BY DEF Ledger!ActivateCandidateByHostCoordinate,
         LedgerProofs!ActivateCandidateByHostCoordinate,
         Ledger!FreshCommand, LedgerProofs!FreshCommand,
         Ledger!ActiveEpoch, LedgerProofs!ActiveEpoch,
         Ledger!Ambiguous, LedgerProofs!Ambiguous,
         Ledger!Swipe, LedgerProofs!Swipe,
         Ledger!AtMostOne, LedgerProofs!AtMostOne,
         Ledger!LiveAt, LedgerProofs!LiveAt, Ledger!LiveOf, LedgerProofs!LiveOf,
         Ledger!ActiveOf, LedgerProofs!ActiveOf,
         Ledger!CandidatesOf, LedgerProofs!CandidatesOf,
         Ledger!Activate, LedgerProofs!Activate,
         Ledger!Insert, LedgerProofs!Insert
<1>2. e \in LedgerProofs!Epoch /\ i \in LedgerProofs!Index
      /\ s \in LedgerProofs!Swipe
  BY DEF Epoch, Index, LedgerProofs!Epoch, LedgerProofs!Index,
         LedgerProofs!Swipe
<1> QED
  BY <1>1, <1>2, LedgerProofs!ActivateByHostCoordinateStep, RunAssumption,
     BoundsAssumption

LEMMA LedgerTruncate ==
  ASSUME LedgerProofs!IInv, NEW e \in Epoch, NEW cutoff \in Index,
         Ledger!TruncateBranch(Host, e, cutoff)
  PROVE  LedgerProofs!IInv'
<1>1. LedgerProofs!TruncateBranch(Host, e, cutoff)
  BY DEF Ledger!TruncateBranch, LedgerProofs!TruncateBranch,
         Ledger!FreshCommand, LedgerProofs!FreshCommand,
         Ledger!ActiveEpoch, LedgerProofs!ActiveEpoch,
         Ledger!WithRoot, LedgerProofs!WithRoot,
         Ledger!RootBranch, LedgerProofs!RootBranch,
         Ledger!OpenEpoch, LedgerProofs!OpenEpoch,
         Ledger!candidateTables, LedgerProofs!candidateTables,
         Ledger!Insert, LedgerProofs!Insert
<1>2. e \in LedgerProofs!Epoch /\ cutoff \in 0 .. MaxIndex + 1
  BY BoundsAssumption DEF Epoch, Index, LedgerProofs!Epoch
<1> QED
  BY <1>1, <1>2, LedgerProofs!TruncateBranchStep, RunAssumption,
     BoundsAssumption

-----------------------------------------------------------------------------

(* The turn of a run is a turn of the bounded chat.                        *)
LEMMA Coordinates ==
  ASSUME IInv, NEW r \in Run
  PROVE  /\ journal[r].epoch \in Epoch /\ IndexOf[r] \in Index
         /\ SwipeOf[r] \in 0 .. MaxSwipe
         /\ TurnOf(r) = <<journal[r].epoch, IndexOf[r]>>
BY RunFacts, RunAssumption DEF Journal, TurnOf

(* commitTurn: the reply enters the ledger.                                *)
LEMMA CommitLedgerStep ==
  ASSUME IInv, NEW r \in Run, CommitLedger(r)
  PROVE  IInv'
<1> DEFINE t == TurnOf(r)
<1>1. /\ attempt' \in [Run -> Attempt]
      /\ \A s \in Run \ {r} : attempt'[s] = attempt[s]
      /\ attempt'[r].phase = "activating"
      /\ attempt'[r].recovery = attempt[r].recovery
      /\ attempt'[r].steps = attempt[r].steps
      /\ attempt'[r].committed = attempt[r].committed
  BY RunFacts, GotoTypes DEF CommitLedger
<1>2. Holds(r)
  BY DEF CommitLedger, IInv, OneWriter, Writing
<1>3. OneWriter'
  BY <1>1, <1>2, StayInside DEF CommitLedger
<1>4. Ledger!CommitTurn(r, journal[r].epoch, IndexOf[r], SwipeOf[r],
                        "user", "untouched")
  BY DEF CommitLedger, TurnOf
<1>5. LedgerProofs!IInv'
  BY <1>4, Coordinates, LedgerCommit DEF IInv
<1>6. /\ ~ Committed(r)
      /\ turns' = IF t \in DOMAIN turns THEN turns
                  ELSE Ledger!Insert(turns, t, "user")
      /\ turnCandidates' =
           Ledger!Insert(turnCandidates, r,
                         [turn |-> t, swipe |-> SwipeOf[r],
                          status |-> IF t \in DOMAIN turns
                                     THEN "inactive" ELSE "active"])
      /\ historyEvents' = historyEvents
  BY <1>4 DEF Ledger!CommitTurn, TurnOf, Committed
<1>7. turnRun' \in [DOMAIN turns' -> Run]
  BY <1>6, RunFacts DEF CommitLedger, Ledger!Insert
<1>8. /\ Committed(r)' /\ turnCandidates'[r].turn = t
      /\ turnCandidates'[r].swipe = SwipeOf[r]
      /\ turnCandidates'[r].status # "deleted"
  BY <1>6 DEF Committed, Ledger!Insert
<1>9. \A s \in Run \ {r} :
        /\ Committed(s)' <=> Committed(s)
        /\ Committed(s) => turnCandidates'[s] = turnCandidates[s]
  BY <1>6 DEF Committed, Ledger!Insert
<1>10. RunInv(r)'
  <2>1. /\ UNCHANGED <<journal, artifact, historyEvents>>
        /\ t' = t /\ (Pending(r)' <=> Pending(r))
    BY <1>6 DEF CommitLedger, disk, TurnOf, Pending
  <2>2. /\ artifact[r] = [body |-> journal[r].committed,
                          delta |-> journal[r].pending]
        /\ Pending(r) /\ journal[r].committed # None
        /\ journal[r].pending # "invalid"
        /\ ~ attempt[r].recovery =>
             /\ attempt[r].steps < MaxToolSteps
             /\ attempt[r].committed # None
             /\ attempt[r].committed = journal[r].committed
        /\ journal[r].state # "completed"
        /\ r \in DOMAIN historyEvents => historyEvents[r].result = r
    BY <1>6, RunFacts
       DEF CommitLedger, RunInv, JournalInv, AttemptInv, WritebackInv,
           CommittedInv, Busy
  <2>3. artifact[r] # None
    BY <2>2, RunFacts, NoneIsNothing DEF RunInv, JournalInv, Pending, Journal, Artifact
  <2>4. JournalInv(r)'
    BY <2>1, RunFacts DEF RunInv, JournalInv
  <2>5. AttemptInv(r)'
    BY <1>1, <2>1, <2>2 DEF AttemptInv, Busy
  <2>6. WritebackInv(r)'
    BY <1>1, <1>8, <2>1, <2>2 DEF WritebackInv
  <2>7. CommittedInv(r)'
    BY <1>8, <2>1, <2>2, <2>3 DEF CommittedInv
  <2> QED
    BY <2>4, <2>5, <2>6, <2>7 DEF RunInv
<1>11. /\ artifact' \in [Run -> Artifact \cup {None}]
       /\ concept' \in [Run -> BOOLEAN] /\ world' \in World
       /\ host' = host /\ queue' \in Seq(Run \cup {Host})
       /\ faults' \in 0 .. MaxFaults /\ journal' \in [Run -> Journal]
       /\ UNCHANGED <<artifact, journal, historyEvents>>
  BY <1>6, RunFacts DEF CommitLedger, disk
<1> QED
  BY <1>1, <1>3, <1>5, <1>7, <1>9, <1>10, <1>11, WritebackStep

(* The committed reply is made the active one of its turn.                 *)
LEMMA ActivateStep ==
  ASSUME IInv, NEW r \in Run, Activate(r)
  PROVE  IInv'
<1> DEFINE t == TurnOf(r)
<1>1. /\ attempt' \in [Run -> Attempt]
      /\ \A s \in Run \ {r} : attempt'[s] = attempt[s]
      /\ attempt'[r].phase = "rebuilding"
      /\ attempt'[r].recovery = attempt[r].recovery
      /\ attempt'[r].steps = attempt[r].steps
      /\ attempt'[r].committed = attempt[r].committed
  BY RunFacts, GotoTypes DEF Activate
<1>2. Holds(r)
  BY DEF Activate, IInv, OneWriter, Writing
<1>3. OneWriter'
  BY <1>1, <1>2, StayInside DEF Activate
<1>4. /\ Committed(r) /\ Pending(r)
      /\ turnCandidates[r].turn = t /\ turnCandidates[r].swipe = SwipeOf[r]
      /\ turnCandidates[r].status # "deleted"
      /\ r \in DOMAIN historyEvents => historyEvents[r].result = r
  BY RunFacts
     DEF Activate, RunInv, AttemptInv, WritebackInv, CommittedInv, Busy
<1>5. /\ LedgerProofs!IInv'
      /\ turns' = turns
      /\ DOMAIN turnCandidates' = DOMAIN turnCandidates
      /\ \A c \in DOMAIN turnCandidates :
           /\ turnCandidates'[c].turn = turnCandidates[c].turn
           /\ turnCandidates'[c].swipe = turnCandidates[c].swipe
           /\ turnCandidates[c].status # "deleted"
                => turnCandidates'[c].status # "deleted"
      /\ DOMAIN historyEvents' = DOMAIN historyEvents \cup {r}
      /\ \A x \in DOMAIN historyEvents : historyEvents'[x] = historyEvents[x]
      /\ historyEvents'[r].result = r
  <2>1. CASE r \in DOMAIN historyEvents /\ UNCHANGED tables
    BY <1>4, <2>1, LedgerUnchanged DEF IInv, tables
  <2>2. CASE Ledger!ActivateCandidateByHostCoordinate(
               r, journal[r].epoch, IndexOf[r], SwipeOf[r])
    <3>1. LedgerProofs!IInv'
      BY <2>2, Coordinates, LedgerActivate DEF IInv
    <3>2. PICK target \in Ledger!LiveAt(t, SwipeOf[r]) :
            /\ IF turnCandidates[target].status = "active"
               THEN UNCHANGED <<turnCandidates, patches>>
               ELSE Ledger!Activate(t, target)
            /\ historyEvents' =
                 Ledger!Insert(historyEvents, r,
                   [type |-> "activate_swipe", epoch |-> journal[r].epoch,
                    index |-> IndexOf[r], swipe |-> SwipeOf[r],
                    result |-> target])
      BY <2>2 DEF Ledger!ActivateCandidateByHostCoordinate, TurnOf
    <3>3. r \in Ledger!LiveAt(t, SwipeOf[r])
      BY <1>4 DEF Ledger!LiveAt, Ledger!LiveOf, Ledger!CandidatesOf, Committed
    <3>4. target = r
      <4>1. SwipeOf[r] \in Ledger!Swipe
        BY Coordinates DEF Ledger!Swipe
      <4>2. ~ Ledger!Ambiguous(t)
        BY <2>2 DEF Ledger!ActivateCandidateByHostCoordinate, TurnOf
      <4> QED
        BY <3>2, <3>3, <4>1, <4>2 DEF Ledger!Ambiguous, Ledger!AtMostOne
    <3>5. /\ turns' = turns
          /\ r \notin DOMAIN historyEvents
      BY <2>2 DEF Ledger!ActivateCandidateByHostCoordinate, Ledger!FreshCommand
    <3>6. /\ DOMAIN turnCandidates' = DOMAIN turnCandidates
          /\ \A c \in DOMAIN turnCandidates :
               /\ turnCandidates'[c].turn = turnCandidates[c].turn
               /\ turnCandidates'[c].swipe = turnCandidates[c].swipe
               /\ turnCandidates[c].status # "deleted"
                    => turnCandidates'[c].status # "deleted"
      <4>1. CASE turnCandidates' = turnCandidates
        BY <4>1
      <4>2. CASE Ledger!Activate(t, target)
        <5>1. Ledger!TypeOK
          BY DEF IInv, TypeOK
        <5>2. \A c \in DOMAIN turnCandidates : turnCandidates[c] \in Ledger!CandidateRow
          BY <5>1 DEF Ledger!TypeOK
        <5> QED
          BY <4>2, <5>2 DEF Ledger!Activate, Ledger!CandidateRow
      <4> QED
        BY <3>2, <4>1, <4>2
    <3> QED
      BY <3>1, <3>2, <3>4, <3>5, <3>6 DEF Ledger!Insert
  <2> QED
    BY <2>1, <2>2 DEF Activate
<1>6. /\ UNCHANGED <<journal, artifact>>
      /\ t' = t /\ (Pending(r)' <=> Pending(r)) /\ Committed(r)'
  BY <1>4, <1>5 DEF Activate, disk, TurnOf, Pending, Committed
<1>7. RunInv(r)'
  <2>1. /\ ~ attempt[r].recovery =>
             /\ attempt[r].steps < MaxToolSteps
             /\ attempt[r].committed # None
             /\ attempt[r].committed = journal[r].committed
        /\ artifact[r] # None /\ artifact[r].delta # "invalid"
        /\ artifact[r].body = journal[r].committed /\ journal[r].committed # None
        /\ journal[r].state = "completed" \/ artifact[r].delta = journal[r].pending
    BY <1>4, RunFacts DEF Activate, RunInv, AttemptInv, CommittedInv, Busy
  <2>2. JournalInv(r)'
    BY <1>6, RunFacts DEF RunInv, JournalInv
  <2>3. AttemptInv(r)'
    BY <1>1, <1>4, <1>6, <2>1 DEF AttemptInv, Busy
  <2>4. WritebackInv(r)'
    BY <1>1, <1>5, <1>6 DEF WritebackInv
  <2>5. CommittedInv(r)'
    BY <1>4, <1>5, <1>6, <2>1 DEF CommittedInv, Committed
  <2> QED
    BY <2>2, <2>3, <2>4, <2>5 DEF RunInv
<1>8. \A s \in Run \ {r} :
        /\ Committed(s)' <=> Committed(s)
        /\ Committed(s) =>
             /\ turnCandidates'[s].turn = turnCandidates[s].turn
             /\ turnCandidates'[s].swipe = turnCandidates[s].swipe
             /\ turnCandidates[s].status # "deleted"
                  => turnCandidates'[s].status # "deleted"
        /\ s \in DOMAIN historyEvents' <=> s \in DOMAIN historyEvents
        /\ s \in DOMAIN historyEvents =>
             historyEvents'[s].result = historyEvents[s].result
  BY <1>5 DEF Committed
<1>9. /\ turnRun' \in [DOMAIN turns' -> Run]
      /\ artifact' \in [Run -> Artifact \cup {None}]
      /\ concept' \in [Run -> BOOLEAN] /\ world' \in World
      /\ host' = host /\ queue' \in Seq(Run \cup {Host})
      /\ faults' \in 0 .. MaxFaults /\ journal' \in [Run -> Journal]
  BY <1>5, RunFacts DEF Activate, disk
<1> QED
  BY <1>1, <1>3, <1>5, <1>6, <1>7, <1>8, <1>9, WritebackStep

(* The files of the projection are of their types.                         *)
LEMMA RebuildTypes ==
  ASSUME IInv, NEW e \in Epoch, NEW i \in Index, Rebuild(e, i)
  PROVE  /\ world' \in World /\ concept' \in [Run -> BOOLEAN]
         /\ artifact' = artifact
<1>1. Ledger!MemoryRows(e, i) \subseteq Run
  BY DEF Ledger!MemoryRows, IInv, TypeOK, Ledger!TypeOK
<1> QED
  BY <1>1 DEF Rebuild, World

LEMMA RebuildProjectionStep ==
  ASSUME IInv, NEW r \in Run, RebuildProjection(r)
  PROVE  IInv'
<1>1. /\ attempt' \in [Run -> Attempt]
      /\ \A s \in Run \ {r} : attempt'[s] = attempt[s]
      /\ attempt'[r].phase = "settling"
      /\ attempt'[r].recovery = attempt[r].recovery
      /\ attempt'[r].steps = attempt[r].steps
      /\ attempt'[r].committed = attempt[r].committed
  BY RunFacts, GotoTypes DEF RebuildProjection
<1>2. Holds(r)
  BY DEF RebuildProjection, IInv, OneWriter, Writing
<1>3. OneWriter' /\ queue' \in Seq(Run \cup {Host})
  BY <1>1, <1>2, LeaveCoordinator DEF RebuildProjection, Writing
<1>4. world' \in World /\ concept' \in [Run -> BOOLEAN] /\ artifact' = artifact
  BY Coordinates, RebuildTypes DEF RebuildProjection
<1>5. UNCHANGED <<journal, artifact, turnCandidates, historyEvents, turns>>
  BY <1>4 DEF RebuildProjection, ledger, tables
<1>6. RunInv(r)'
  <2>1. /\ JournalInv(r)' /\ CommittedInv(r)'
        /\ Pending(r)' <=> Pending(r)
        /\ Committed(r)' <=> Committed(r)
    BY <1>5, SameRecords, RunFacts
  <2>2. /\ Pending(r) /\ Committed(r) /\ r \in DOMAIN historyEvents
        /\ ~ attempt[r].recovery =>
             /\ attempt[r].steps < MaxToolSteps
             /\ attempt[r].committed # None
             /\ attempt[r].committed = journal[r].committed
    BY RunFacts DEF RebuildProjection, RunInv, AttemptInv, WritebackInv, Busy
  <2>3. AttemptInv(r)'
    BY <1>1, <1>5, <2>1, <2>2 DEF AttemptInv, Busy
  <2>4. WritebackInv(r)'
    BY <1>1, <1>5, <2>1, <2>2 DEF WritebackInv
  <2> QED
    BY <2>1, <2>3, <2>4 DEF RunInv
<1>7. LedgerProofs!IInv'
  BY LedgerUnchanged DEF RebuildProjection, IInv, ledger
<1>8. /\ turnRun' \in [DOMAIN turns' -> Run]
      /\ artifact' \in [Run -> Artifact \cup {None}]
      /\ host' = host /\ faults' \in 0 .. MaxFaults
      /\ journal' \in [Run -> Journal]
  BY <1>5, RunFacts DEF RebuildProjection, ledger
<1> QED
  BY <1>1, <1>3, <1>4, <1>5, <1>6, <1>7, <1>8, WritebackStep DEF Committed

-----------------------------------------------------------------------------
(* A step of the host: what is left to show of it.                         *)
LEMMA HostStep ==
  ASSUME IInv, LedgerProofs!IInv', turns' = turns, turnRun' = turnRun,
         turnCandidates' = turnCandidates,
         \A r \in Run :
           /\ r \in DOMAIN historyEvents' <=> r \in DOMAIN historyEvents
           /\ r \in DOMAIN historyEvents => historyEvents'[r] = historyEvents[r],
         UNCHANGED <<artifact, journal, attempt>>,
         concept' \in [Run -> BOOLEAN], world' \in World,
         queue' \in Seq(Run \cup {Host}), host' \in HostRequest,
         faults' \in 0 .. MaxFaults,
         HostInv', OneWriter'
  PROVE  IInv'
<1>1. Ledger!TypeOK'
  BY LedgerTypes, PTL
<1>2. TypeOK'
  BY <1>1 DEF IInv, TypeOK
<1>3. ASSUME NEW r \in Run PROVE RunInv(r)'
  BY RunFacts, OtherRun DEF Committed
<1> QED
  BY <1>2, <1>3 DEF IInv

LEMMA HostSendStep == ASSUME IInv, HostSend PROVE IInv'
<1>1. queue \in Seq(Run \cup {Host}) /\ host \in HostRequest
  BY DEF IInv, TypeOK
<1>2. /\ queue' \in Seq(Run \cup {Host})
      /\ \A y : Holds(y) => Holds(y)'
  BY <1>1, JoinQueue DEF HostSend
<1>3. host' \in HostRequest /\ HostInv' /\ host'.phase = "queued"
  <2>1. CASE /\ host.phase = "idle"
             /\ \E e \in DOMAIN branchEpochs \cap 0 .. MaxEpoch - 1,
                   cutoff \in Index :
                  host' = [phase |-> "queued", epoch |-> e, cutoff |-> cutoff]
    BY <2>1, BoundsAssumption DEF HostRequest, HostInv, Epoch
  <2>2. CASE host.phase = "failed" /\ host' = [host EXCEPT !.phase = "queued"]
    BY <1>1, <2>2 DEF IInv, HostRequest, HostInv
  <2> QED
    BY <2>1, <2>2 DEF HostSend
<1>4. OneWriter'
  BY <1>2, <1>3 DEF HostSend, IInv, OneWriter
<1>5. LedgerProofs!IInv'
  BY LedgerUnchanged DEF HostSend, IInv, ledger
<1>6. /\ turns' = turns /\ turnRun' = turnRun
      /\ UNCHANGED <<turnCandidates, historyEvents, artifact, journal, attempt,
                     concept, world, faults>>
      /\ concept \in [Run -> BOOLEAN] /\ world \in World
      /\ faults \in 0 .. MaxFaults
  BY DEF HostSend, ledger, tables, disk, IInv, TypeOK
<1> QED
  BY <1>2, <1>3, <1>4, <1>5, <1>6, HostStep

LEMMA HostTruncateStep == ASSUME IInv, HostTruncate PROVE IInv'
<1>1. host \in HostRequest
  BY DEF IInv, TypeOK
<1>2. host' \in HostRequest /\ HostInv' /\ OneWriter' /\ queue' = queue
  BY <1>1 DEF HostTruncate, HostRequest, IInv, HostInv, OneWriter, Holds
<1>3. /\ LedgerProofs!IInv'
      /\ turns' = turns /\ turnCandidates' = turnCandidates
      /\ \A r \in Run :
           /\ r \in DOMAIN historyEvents' <=> r \in DOMAIN historyEvents
           /\ r \in DOMAIN historyEvents => historyEvents'[r] = historyEvents[r]
  <2>1. CASE UNCHANGED tables
    BY <2>1, LedgerUnchanged DEF IInv, tables
  <2>2. CASE Ledger!TruncateBranch(Host, host.epoch, host.cutoff)
    <3>1. host.epoch \in Epoch /\ host.cutoff \in Index
      BY <1>1 DEF HostRequest
    <3>2. LedgerProofs!IInv'
      BY <2>2, <3>1, LedgerTruncate DEF IInv
    <3> QED
      BY <2>2, <3>2, NoneIsNothing
         DEF Ledger!TruncateBranch, Ledger!candidateTables, Ledger!Insert
  <2> QED
    BY <2>1, <2>2 DEF HostTruncate
<1>4. /\ turnRun' = turnRun
      /\ UNCHANGED <<artifact, journal, attempt, concept, world, faults>>
      /\ concept \in [Run -> BOOLEAN] /\ world \in World
      /\ faults \in 0 .. MaxFaults /\ queue \in Seq(Run \cup {Host})
  BY DEF HostTruncate, disk, IInv, TypeOK
<1> QED
  BY <1>2, <1>3, <1>4, HostStep

LEMMA HostRebuildStep == ASSUME IInv, HostRebuild PROVE IInv'
<1>1. host \in HostRequest /\ queue \in Seq(Run \cup {Host})
  BY DEF IInv, TypeOK
<1>2. Holds(Host)
  BY DEF HostRebuild, IInv, OneWriter
<1>3. /\ queue' \in Seq(Run \cup {Host})
      /\ \A y : Holds(y) => y = Host
  BY <1>1, <1>2, LeaveQueue DEF HostRebuild
<1>4. \A r \in Run : attempt[r].phase \notin Writing
  BY <1>3, NoneIsNothing DEF IInv, OneWriter
<1>5. /\ host' \in HostRequest /\ host'.phase = "done" /\ HostInv'
  BY <1>1 DEF HostRebuild, HostRequest, HostInv, IInv
<1>6. world' \in World /\ concept' \in [Run -> BOOLEAN] /\ artifact' = artifact
  <2>1. host.epoch + 1 \in Epoch
    BY <1>1, BoundsAssumption DEF HostRebuild, IInv, HostInv, HostRequest, Epoch
  <2>2. (IF host.cutoff = 0 THEN 0 ELSE host.cutoff - 1) \in Index
    BY <1>1, BoundsAssumption DEF HostRequest, Index
  <2> QED
    BY <2>1, <2>2, RebuildTypes DEF HostRebuild
<1>7. LedgerProofs!IInv'
  BY LedgerUnchanged DEF HostRebuild, IInv, ledger
<1>8. /\ turns' = turns /\ turnRun' = turnRun
      /\ UNCHANGED <<turnCandidates, historyEvents, journal, attempt, faults>>
      /\ faults \in 0 .. MaxFaults
  BY DEF HostRebuild, ledger, tables, IInv, TypeOK
<1>9. OneWriter'
  BY <1>4, <1>5, <1>8 DEF OneWriter
<1> QED
  BY <1>3, <1>5, <1>6, <1>7, <1>8, <1>9, HostStep

LEMMA HostFailsStep == ASSUME IInv, HostFails PROVE IInv'
<1>1. host \in HostRequest /\ queue \in Seq(Run \cup {Host})
      /\ faults \in 0 .. MaxFaults
  BY DEF IInv, TypeOK
<1>2. /\ queue' \in Seq(Run \cup {Host})
      /\ \A y : Holds(y) => y = Host
  BY <1>1, LeaveQueue DEF HostFails
<1>3. \A r \in Run : attempt[r].phase \notin Writing
  BY <1>2, NoneIsNothing DEF IInv, OneWriter
<1>4. host' \in HostRequest /\ host'.phase = "failed" /\ HostInv'
  BY <1>1 DEF HostFails, HostRequest, HostInv, IInv
<1>5. faults' \in 0 .. MaxFaults
  BY <1>1, BoundsAssumption DEF HostFails, Fault
<1>6. LedgerProofs!IInv'
  BY LedgerUnchanged DEF HostFails, IInv, ledger
<1>7. /\ turns' = turns /\ turnRun' = turnRun
      /\ UNCHANGED <<turnCandidates, historyEvents, artifact, journal, attempt,
                     concept, world>>
      /\ concept \in [Run -> BOOLEAN] /\ world \in World
  BY DEF HostFails, ledger, tables, disk, IInv, TypeOK
<1>8. OneWriter'
  BY <1>3, <1>4, <1>7 DEF OneWriter
<1> QED
  BY <1>2, <1>4, <1>5, <1>6, <1>7, <1>8, HostStep

-----------------------------------------------------------------------------
(* The process dies: nobody holds the coordinator, and no run that is     *)
(* known gets another journal.                                             *)
LEMMA CrashStep == ASSUME IInv, Crash PROVE IInv'
<1>1. /\ host \in HostRequest /\ journal \in [Run -> Journal]
      /\ faults \in 0 .. MaxFaults
  BY DEF IInv, TypeOK
<1>2. /\ attempt' = [r \in Run |-> NoAttempt] /\ queue' = <<>>
      /\ attempt' \in [Run -> Attempt] /\ queue' \in Seq(Run \cup {Host})
  BY NoAttemptType DEF Crash
<1>3. /\ host' \in HostRequest /\ host'.phase # "rebuilding" /\ HostInv'
  BY <1>1 DEF Crash, HostRequest, HostInv, IInv
<1>4. faults' \in 0 .. MaxFaults
  BY <1>1, BoundsAssumption DEF Crash, Fault
<1>5. /\ journal' \in [Run -> Journal]
      /\ \A r \in Run :
           \/ journal'[r] = journal[r]
           \/ /\ journal[r].state = "none"
              /\ journal'[r] = [NoJournal EXCEPT !.state = "torn"]
  <2>1. [NoJournal EXCEPT !.state = "torn"] \in Journal
    BY NoJournalType DEF Journal
  <2> QED
    BY <1>1, <2>1 DEF Crash, Checkpoint
<1>6. LedgerProofs!IInv'
  BY LedgerUnchanged DEF Crash, IInv, ledger
<1>7. UNCHANGED <<turns, turnRun, turnCandidates, historyEvents, artifact,
                  concept, world>>
  BY DEF Crash, ledger, tables, disk
<1>8. TypeOK'
  <2>1. Ledger!TypeOK'
    BY <1>6, LedgerTypes, PTL
  <2> QED
    BY <1>2, <1>3, <1>4, <1>5, <1>7, <2>1 DEF IInv, TypeOK
<1>9. OneWriter'
  BY <1>2, <1>3 DEF OneWriter, NoAttempt, Writing
<1>10. ASSUME NEW r \in Run PROVE RunInv(r)'
  <2>1. /\ attempt'[r].phase = "idle"
        /\ r \in DOMAIN historyEvents => historyEvents[r].result = r
        /\ journal[r].state = "completed" =>
             Committed(r) /\ r \in DOMAIN historyEvents
    BY <1>2, <1>10, RunFacts
       DEF NoAttempt, RunInv, WritebackInv, CommittedInv
  <2>2. AttemptInv(r)'
    BY <2>1 DEF AttemptInv, Busy
  <2>3. CASE journal'[r] = journal[r]
    <3>1. /\ JournalInv(r)' /\ CommittedInv(r)'
          /\ Committed(r)' <=> Committed(r)
      BY <1>7, <1>10, <2>3, SameRecords, RunFacts
    <3>2. WritebackInv(r)'
      BY <1>7, <2>1, <2>3, <3>1 DEF WritebackInv
    <3> QED
      BY <2>2, <3>1, <3>2 DEF RunInv
  <2>4. CASE /\ journal[r].state = "none"
             /\ journal'[r] = [NoJournal EXCEPT !.state = "torn"]
    <3>1. /\ journal'[r].state = "torn" /\ journal'[r].pending = None
          /\ journal'[r].committed = None
      BY <2>4 DEF NoJournal
    <3>2. ~ Committed(r)
      BY <1>10, <2>4, RunFacts, Uncommitted DEF RunInv, JournalInv
    <3>3. JournalInv(r)'
      BY <3>1 DEF JournalInv, Pending
    <3>4. WritebackInv(r)'
      BY <2>1, <3>1 DEF WritebackInv
    <3>5. CommittedInv(r)'
      BY <1>7, <2>1, <3>2 DEF CommittedInv, Committed
    <3> QED
      BY <2>2, <3>3, <3>4, <3>5 DEF RunInv
  <2> QED
    BY <1>5, <1>10, <2>3, <2>4
<1> QED
  BY <1>6, <1>8, <1>3, <1>9, <1>10 DEF IInv

-----------------------------------------------------------------------------
(* The induction.                                                          *)

LEMMA InitInvariant == Init => IInv
<1> SUFFICES ASSUME Init PROVE IInv
  OBVIOUS
<1>1. LedgerProofs!IInv
  <2>1. LedgerProofs!Init
    BY DEF Init, Ledger!Init, LedgerProofs!Init
  <2> QED
    BY <2>1, LedgerProofs!InitInvariant, RunAssumption, BoundsAssumption
<1>2. TypeOK
  <2>1. Ledger!TypeOK
    BY <1>1, LedgerTypes
  <2>2. turnRun \in [DOMAIN turns -> Run]
    BY DEF Init, Ledger!Init
  <2>3. journal \in [Run -> Journal] /\ attempt \in [Run -> Attempt]
    BY NoJournalType, NoAttemptType DEF Init
  <2>4. host \in HostRequest /\ world \in World /\ faults \in 0 .. MaxFaults
    BY BoundsAssumption DEF Init, HostRequest, World, Epoch, Index
  <2> QED
    BY <2>1, <2>2, <2>3, <2>4 DEF Init, TypeOK
<1>3. HostInv /\ OneWriter
  BY DEF Init, HostInv, OneWriter, NoAttempt, Writing
<1>4. ASSUME NEW r \in Run PROVE RunInv(r)
  <2>1. /\ journal[r] = NoJournal /\ attempt[r] = NoAttempt
        /\ ~ Committed(r) /\ r \notin DOMAIN historyEvents
    BY DEF Init, Ledger!Init, Committed
  <2> QED
    BY <2>1
       DEF RunInv, JournalInv, AttemptInv, WritebackInv, CommittedInv,
           Pending, Busy, NoJournal, NoAttempt
<1> QED
  BY <1>1, <1>2, <1>3, <1>4 DEF IInv

LEMMA StepInvariant == IInv /\ [Next]_vars => IInv'
<1> SUFFICES ASSUME IInv, [Next]_vars PROVE IInv'
  OBVIOUS
<1>1. ASSUME NEW r \in Run,
             \/ Begin(r) \/ Resume(r) \/ Recover(r)
             \/ Retrieve(r) \/ BreakProtocol(r) \/ Abandon(r)
      PROVE  IInv'
  BY <1>1, BeginStep, ResumeStep, RecoverStep, RetrieveStep,
     BreakProtocolStep, AbandonStep
<1>2. ASSUME NEW r \in Run, NEW k \in Kind, RejectCall(r, k) PROVE IInv'
  BY <1>2, RejectCallStep
<1>3. ASSUME NEW r \in Run, NEW body \in Body, StoryCommit(r, body)
      PROVE  IInv'
  BY <1>3, StoryCommitStep
<1>4. ASSUME NEW r \in Run, NEW delta \in Delta, WriteTurnDelta(r, delta)
      PROVE  IInv'
  BY <1>4, WriteTurnDeltaStep
<1>5. ASSUME NEW r \in Run, NEW error \in {"correctable", "other"},
             RefuseDelta(r, error)
      PROVE  IInv'
  BY <1>5, RefuseDeltaStep
<1>6. ASSUME NEW r \in Run, Step(r) PROVE IInv'
  BY <1>6, RejectDeltaStep, CommitExistingStep, ConceptConflictStep,
     WriteCommitFilesStep, CommitLedgerStep, CommitFailsStep, ActivateStep,
     ActivationFailsStep, RebuildProjectionStep, RebuildFailsStep,
     CompleteStep, CorrectStep, GiveUpStep, CheckpointFailsStep DEF Step
<1>7. CASE UNCHANGED vars
  <2>1. LedgerProofs!IInv'
    BY <1>7, LedgerUnchanged DEF vars, ledger, IInv
  <2>2. Ledger!TypeOK'
    BY <2>1, LedgerTypes, PTL
  <2>3. UNCHANGED <<turns, turnCandidates, historyEvents, turnRun, artifact,
                    concept, world, journal, attempt, queue, host, faults>>
    BY <1>7 DEF vars, ledger, tables, disk
  <2>4. TypeOK' /\ HostInv' /\ OneWriter'
    BY <2>2, <2>3 DEF IInv, TypeOK, HostInv, OneWriter, Holds
  <2>5. ASSUME NEW r \in Run PROVE RunInv(r)'
    BY <2>3, RunFacts, OtherRun DEF Committed
  <2> QED
    BY <2>1, <2>4, <2>5 DEF IInv
<1> QED
  BY <1>1, <1>2, <1>3, <1>4, <1>5, <1>6, <1>7, HostSendStep,
     HostTruncateStep, HostRebuildStep, HostFailsStep, CrashStep DEF Next

-----------------------------------------------------------------------------
(* What follows for every behaviour.                                       *)

(* The relation between journals, calls, artifacts and rows always holds.  *)
THEOREM Invariance == Spec => []IInv
<1>1. Init => IInv
  BY InitInvariant
<1>2. IInv /\ [Next]_vars => IInv'
  BY StepInvariant
<1> QED
  BY <1>1, <1>2, PTL DEF Spec

(* Journals, calls and files are always of their types; in particular no   *)
(* call goes beyond its tool calls.                                        *)
THEOREM TypeCorrect == Spec => []TypeOK
<1>1. IInv => TypeOK
  BY DEF IInv
<1> QED
  BY <1>1, Invariance, PTL

(* Nothing is ever in the history that the journal did not announce with   *)
(* the sealed prose, and an unfinished writeback stays announced.          *)
THEOREM HistoryIsAnnounced == Spec => []WriteAhead
<1>1. IInv => WriteAhead
  <2> SUFFICES ASSUME IInv, NEW r \in Run, Committed(r)
      PROVE /\ journal[r].committed # None
            /\ artifact[r] # None
            /\ artifact[r].body = journal[r].committed
            /\ \/ journal[r].state = "completed"
               \/ Pending(r) /\ artifact[r].delta = journal[r].pending
    BY DEF WriteAhead
  <2>1. artifact[r] \in Artifact
    BY RunFacts DEF RunInv, CommittedInv
  <2>2. artifact[r].delta # None
    BY <2>1, NoneIsNothing DEF Artifact
  <2> QED
    BY <2>2, RunFacts DEF RunInv, CommittedInv, Pending
<1> QED
  BY <1>1, Invariance, PTL

(* A run that was answered as completed is always in the history,          *)
(* activated by its own command, at its own coordinate.                    *)
THEOREM CompletedStays == Spec => []CompletedIsCommitted
<1>1. IInv => CompletedIsCommitted
  BY DEF IInv, RunInv, JournalInv, WritebackInv, CommittedInv, Pending,
         CompletedIsCommitted
<1> QED
  BY <1>1, Invariance, PTL

(* Whoever writes always holds the coordinator, crashes included.          *)
THEOREM WriterHolds == Spec => []OneWriter
<1>1. IInv => OneWriter
  BY DEF IInv
<1> QED
  BY <1>1, Invariance, PTL

-----------------------------------------------------------------------------
(* What one step does to what is sealed.                                   *)

(* A step that changes neither the prose of a journal nor a committed      *)
(* artifact or row.                                                        *)
SealKept(r) ==
  /\ journal[r].committed # None =>
       journal'[r].committed = journal[r].committed
  /\ Committed(r) =>
       /\ artifact'[r] = artifact[r]
       /\ r \in DOMAIN turnCandidates'
       /\ turnCandidates'[r].turn = turnCandidates[r].turn

(* Checkpoints keep the sealed prose.                                      *)
LEMMA CheckpointSealed ==
  ASSUME IInv, NEW s \in Run, NEW row, Checkpoint(s, row),
         journal[s].committed # None => row.committed = journal[s].committed,
         UNCHANGED <<ledger, disk>>, NEW r \in Run
  PROVE  SealKept(r)
<1>1. journal'[r] = IF r = s THEN row ELSE journal[r]
  BY RunFacts DEF Checkpoint
<1> QED
  BY <1>1 DEF SealKept, Committed, ledger, tables, disk

(* Only a run that is not committed loses or replaces its artifact.        *)
LEMMA ArtifactSealed ==
  ASSUME IInv, NEW s \in Run, ~ Committed(s), NEW a,
         artifact' = [artifact EXCEPT ![s] = a],
         UNCHANGED <<ledger, journal>>, NEW r \in Run
  PROVE  SealKept(r)
<1>1. Committed(r) => artifact'[r] = artifact[r]
  BY RunFacts
<1> QED
  BY <1>1 DEF SealKept, Committed, ledger, tables

LEMMA RunStepSealed ==
  ASSUME IInv, NEW s \in Run, NEW r \in Run,
         \/ Begin(s) \/ Resume(s) \/ Recover(s)
         \/ Retrieve(s) \/ BreakProtocol(s) \/ Abandon(s)
         \/ \E k \in Kind : RejectCall(s, k)
         \/ \E body \in Body : StoryCommit(s, body)
         \/ \E delta \in Delta : WriteTurnDelta(s, delta)
         \/ \E error \in {"correctable", "other"} : RefuseDelta(s, error)
         \/ Step(s)
  PROVE  SealKept(r)
<1>j. journal[s] \in Journal
  BY RunFacts
<1>1. CASE Begin(s)
  <2>1. journal[s].committed = None
    BY <1>1, RunFacts DEF Begin, RunInv, JournalInv
  <2>2. PICK row : Checkpoint(s, row)
    BY <1>1 DEF Begin
  <2> QED
    BY <1>1, <2>1, <2>2, CheckpointSealed DEF Begin
<1>2. CASE UNCHANGED <<ledger, disk, journal>>
  BY <1>2 DEF SealKept, Committed, ledger, tables, disk
<1>3. CASE Retrieve(s)
  BY <1>3, <1>j, CheckpointSealed DEF Retrieve, Journal
<1>4. CASE BreakProtocol(s)
  BY <1>4, <1>j, CheckpointSealed DEF BreakProtocol, Journal
<1>5. CASE \E k \in Kind : RejectCall(s, k)
  BY <1>5, <1>j, CheckpointSealed DEF RejectCall, Journal
<1>6. CASE \E body \in Body : StoryCommit(s, body)
  <2>1. PICK body \in Body : StoryCommit(s, body)
    BY <1>6
  <2>2. attempt[s].committed = journal[s].committed
    BY <2>1, RunFacts DEF StoryCommit, Asking, RunInv, AttemptInv
  <2> QED
    BY <2>1, <2>2, <1>j, CheckpointSealed DEF StoryCommit, MaySeal, Journal
<1>7. CASE \E delta \in Delta : WriteTurnDelta(s, delta)
  BY <1>7, <1>j, CheckpointSealed DEF WriteTurnDelta, Announced, Journal
<1>8. CASE Complete(s) \/ Correct(s)
  BY <1>8, <1>j, CheckpointSealed DEF Complete, Correct, Journal
<1>9. CASE GiveUp(s)
  BY <1>9, <1>j, CheckpointSealed DEF GiveUp, KeepWriteback, Journal
<1>10. CASE ConceptConflict(s)
  BY <1>10, ArtifactSealed DEF ConceptConflict, Known
<1>11. CASE WriteCommitFiles(s)
  BY <1>11, ArtifactSealed DEF WriteCommitFiles, Known
<1>12. CASE CommitFails(s)
  <2>1. ~ Committed(s)
    BY <1>12, RunFacts DEF CommitFails, RunInv, WritebackInv
  <2> QED
    BY <1>12, <2>1, ArtifactSealed DEF CommitFails, UndoCommitFiles
<1>13. CASE RebuildProjection(s)
  BY <1>13 DEF RebuildProjection, Rebuild, SealKept, Committed, ledger, tables
<1>14. CASE CommitLedger(s)
  <2>1. /\ s \notin DOMAIN turnCandidates
        /\ \A c \in DOMAIN turnCandidates :
             c \in DOMAIN turnCandidates' /\ turnCandidates'[c] = turnCandidates[c]
    BY <1>14 DEF CommitLedger, Ledger!CommitTurn, Ledger!Insert
  <2> QED
    BY <1>14, <2>1 DEF CommitLedger, SealKept, Committed, disk
<1>15. CASE Activate(s)
  <2>1. \A c \in DOMAIN turnCandidates : turnCandidates[c] \in Ledger!CandidateRow
    BY DEF IInv, TypeOK, Ledger!TypeOK
  <2>2. \A c \in DOMAIN turnCandidates :
          c \in DOMAIN turnCandidates'
          /\ turnCandidates'[c].turn = turnCandidates[c].turn
    <3>1. \/ turnCandidates' = turnCandidates
          \/ \E t, target : Ledger!Activate(t, target)
      BY <1>15 DEF Activate, tables, Ledger!ActivateCandidateByHostCoordinate
    <3> QED
      BY <2>1, <3>1 DEF Ledger!Activate, Ledger!CandidateRow
  <2> QED
    BY <1>15, <2>2 DEF Activate, SealKept, Committed, disk
<1>16. CASE \/ Resume(s) \/ Recover(s) \/ Abandon(s)
            \/ RejectDelta(s) \/ CommitExisting(s) \/ ActivationFails(s)
            \/ RebuildFails(s) \/ CheckpointFails(s)
  BY <1>2, <1>16
     DEF Resume, Recover, Abandon, RejectDelta, CommitExisting,
         ActivationFails, RebuildFails, CheckpointFails
<1>17. CASE \E error \in {"correctable", "other"} : RefuseDelta(s, error)
  BY <1>2, <1>17, <1>j, CheckpointSealed DEF RefuseDelta, Journal
<1> QED
  BY <1>1, <1>3, <1>4, <1>5, <1>6, <1>7, <1>8, <1>9, <1>10, <1>11, <1>12,
     <1>13, <1>14, <1>15, <1>16, <1>17 DEF Step

LEMMA StepSealed ==
  ASSUME IInv, [Next]_vars, NEW r \in Run
  PROVE  SealKept(r)
<1>1. CASE UNCHANGED vars
  BY <1>1 DEF vars, SealKept, Committed, ledger, tables, disk
<1>2. CASE HostSend \/ HostFails
  BY <1>2 DEF HostSend, HostFails, SealKept, Committed, ledger, tables, disk
<1>3. CASE HostTruncate
  BY <1>3
     DEF HostTruncate, Ledger!TruncateBranch, Ledger!candidateTables,
         SealKept, Committed, tables, disk
<1>4. CASE HostRebuild
  BY <1>4 DEF HostRebuild, Rebuild, SealKept, Committed, ledger, tables
<1>5. CASE Crash
  <2>1. journal[r].committed # None => journal'[r] = journal[r]
    BY <1>5, RunFacts DEF Crash, Checkpoint, RunInv, JournalInv
  <2> QED
    BY <1>5, <2>1 DEF Crash, SealKept, Committed, ledger, tables, disk
<1> QED
  BY <1>1, <1>2, <1>3, <1>4, <1>5, RunStepSealed DEF Next

(* Sealed prose never changes: neither the journal of a run after          *)
(* story_commit nor the artifact of a committed turn, by whatever          *)
(* recoveries, corrections, truncations and crashes.                       *)
THEOREM ProseSealed == Spec => SealedProseKept
<1>1. IInv /\ [Next]_vars => [\A r \in Run : SealKept(r)]_vars
  BY StepSealed
<1>2. (\A r \in Run : SealKept(r)) <=>
        \A r \in Run :
          /\ journal[r].committed # None =>
               journal'[r].committed = journal[r].committed
          /\ Committed(r) =>
               /\ artifact'[r] = artifact[r]
               /\ r \in DOMAIN turnCandidates'
               /\ turnCandidates'[r].turn = turnCandidates[r].turn
  BY DEF SealKept
<1> QED
  BY <1>1, <1>2, Invariance, PTL DEF Spec, SealedProseKept

-----------------------------------------------------------------------------
(* The ledger of the root turn is a governed history ledger.               *)

(* Every step of a run is one operation of the ledger or leaves it alone.  *)
LEMMA RunStepOfLedger ==
  ASSUME IInv, NEW r \in Run,
         \/ Begin(r) \/ Resume(r) \/ Recover(r)
         \/ Retrieve(r) \/ BreakProtocol(r) \/ Abandon(r)
         \/ \E k \in Kind : RejectCall(r, k)
         \/ \E body \in Body : StoryCommit(r, body)
         \/ \E delta \in Delta : WriteTurnDelta(r, delta)
         \/ \E error \in {"correctable", "other"} : RefuseDelta(r, error)
         \/ Step(r)
  PROVE  [Ledger!Next]_Ledger!vars
<1>1. journal[r].epoch \in Ledger!Epoch /\ IndexOf[r] \in Ledger!Index
      /\ SwipeOf[r] \in Ledger!Swipe /\ r \in Run \cup {Host}
      /\ "untouched" \in Ledger!Thread /\ "user" \in {"user"}
  BY Coordinates
     DEF Epoch, Index, Ledger!Epoch, Ledger!Index, Ledger!Swipe, Ledger!Thread
<1>2. CASE UNCHANGED ledger
  BY <1>2 DEF ledger, tables, Ledger!vars
<1>3. CASE CommitLedger(r)
  <2>1. Ledger!CommitTurn(r, journal[r].epoch, IndexOf[r], SwipeOf[r],
                          "user", "untouched")
    BY <1>3 DEF CommitLedger, TurnOf
  <2> QED
    BY <1>1, <2>1 DEF Ledger!Next
<1>4. CASE Activate(r)
  BY <1>1, <1>4 DEF Activate, tables, Ledger!Next, Ledger!vars
<1>5. CASE \/ Begin(r) \/ Resume(r) \/ Recover(r)
           \/ Retrieve(r) \/ BreakProtocol(r) \/ Abandon(r)
           \/ \E k \in Kind : RejectCall(r, k)
           \/ \E body \in Body : StoryCommit(r, body)
           \/ \E delta \in Delta : WriteTurnDelta(r, delta)
           \/ \E error \in {"correctable", "other"} : RefuseDelta(r, error)
  BY <1>2, <1>5
     DEF Begin, Resume, Recover, Retrieve, BreakProtocol, Abandon,
         RejectCall, StoryCommit, WriteTurnDelta, RefuseDelta
<1>6. CASE \/ RejectDelta(r) \/ CommitExisting(r) \/ ConceptConflict(r)
           \/ WriteCommitFiles(r) \/ CommitFails(r) \/ ActivationFails(r)
           \/ RebuildProjection(r) \/ RebuildFails(r)
           \/ Complete(r) \/ Correct(r) \/ GiveUp(r) \/ CheckpointFails(r)
  BY <1>2, <1>6
     DEF RejectDelta, CommitExisting, ConceptConflict, WriteCommitFiles,
         CommitFails, ActivationFails, RebuildProjection, RebuildFails,
         Complete, Correct, GiveUp, CheckpointFails
<1> QED
  BY <1>3, <1>4, <1>5, <1>6 DEF Step

LEMMA StepOfLedger == IInv /\ [Next]_vars => [Ledger!Next]_Ledger!vars
<1> SUFFICES ASSUME IInv, [Next]_vars PROVE [Ledger!Next]_Ledger!vars
  OBVIOUS
<1>1. CASE UNCHANGED ledger
  BY <1>1 DEF ledger, tables, Ledger!vars
<1>2. CASE HostTruncate
  <2>1. host.epoch \in Ledger!Epoch /\ host.cutoff \in 0 .. MaxIndex + 1
    BY BoundsAssumption
       DEF IInv, TypeOK, HostRequest, Epoch, Index, Ledger!Epoch
  <2> QED
    BY <1>2, <2>1 DEF HostTruncate, tables, Ledger!Next, Ledger!vars
<1>3. CASE UNCHANGED vars \/ HostSend \/ HostRebuild \/ HostFails \/ Crash
  BY <1>1, <1>3 DEF vars, HostSend, HostRebuild, HostFails, Crash
<1> QED
  BY <1>2, <1>3, RunStepOfLedger DEF Next

(* The root turn, with its crashes and recoveries, implements the ledger:  *)
(* it never writes the tables but by one whole operation of StateHistory   *)
(* with arguments that the ledger expects, so that whatever holds of every *)
(* ledger holds of its ledger.                                             *)
THEOREM ImplementsLedger == Spec => Ledger!Spec
<1>1. Init => Ledger!Init
  BY DEF Init
<1>2. IInv /\ [Next]_vars => [Ledger!Next]_Ledger!vars
  BY StepOfLedger
<1> QED
  BY <1>1, <1>2, Invariance, PTL DEF Spec, Ledger!Spec

-----------------------------------------------------------------------------
(* The projection and the ledger.  WorldMatchesLedger is not inductive: a   *)
(* rebuild must find the epoch that it names in the ledger, and a run is    *)
(* settled only after it has rebuilt.                                       *)

(* A writeback that is in the history and has not rebuilt since.           *)
Unsettled(r) ==
  /\ journal[r].pending # None
  /\ r \in DOMAIN turnCandidates
  /\ attempt[r].phase # "settling"

(* The projection names an epoch of the ledger.                            *)
WorldNamed ==
  world.epoch # None => world.epoch \in DOMAIN branchEpochs /\ world.through \in Index

(* The epoch that the host's command opened is the one it rebuilds.        *)
HostLeads ==
  host.phase = "rebuilding" \/ Host \in DOMAIN historyEvents =>
    host.phase # "idle" /\ host.epoch + 1 \in DOMAIN branchEpochs

(* It says what the ledger says, or somebody still has to rebuild it.      *)
WorldSays ==
  \/ world.epoch = None
  \/ world.rows = Ledger!MemoryRows(world.epoch, world.through)
  \/ \E r \in Run : Unsettled(r)

(* The invariant of the projection.                                        *)
WorldInv == WorldNamed /\ HostLeads /\ WorldSays

(* A step that writes neither the tables nor the world and settles nobody. *)
LEMMA WorldStays ==
  ASSUME WorldInv, UNCHANGED <<tables, world>>,
         \A r \in Run : Unsettled(r) => Unsettled(r)',
         HostLeads'
  PROVE  WorldInv'
<1>1. WorldNamed'
  BY DEF WorldInv, WorldNamed, tables
<1>2. CASE world.epoch = None
  BY <1>1, <1>2 DEF WorldInv, WorldSays
<1>3. CASE world.rows = Ledger!MemoryRows(world.epoch, world.through)
  <2>1. world'.rows = Ledger!MemoryRows(world.epoch, world.through)'
    BY <1>3 DEF tables, Ledger!MemoryRows, Ledger!Segments
  <2> QED
    BY <1>1, <2>1 DEF WorldInv, WorldSays
<1>4. CASE \E r \in Run : Unsettled(r)
  BY <1>1, <1>4 DEF WorldInv, WorldSays
<1> QED
  BY <1>2, <1>3, <1>4 DEF WorldInv, WorldSays

(* The same for a step of one run.                                         *)
LEMMA WorldStaysFor ==
  ASSUME WorldInv, NEW r \in Run, UNCHANGED <<tables, world, host>>,
         \A s \in Run \ {r} : journal'[s] = journal[s] /\ attempt'[s] = attempt[s],
         Unsettled(r) => Unsettled(r)'
  PROVE  WorldInv'
<1>1. \A s \in Run : Unsettled(s) => Unsettled(s)'
  BY DEF Unsettled, tables
<1>2. HostLeads'
  BY DEF WorldInv, HostLeads, tables
<1> QED
  BY <1>1, <1>2, WorldStays

(* Whoever has just changed the tables is unsettled.                       *)
LEMMA WorldWaits ==
  ASSUME WorldInv, NEW r \in Run, UNCHANGED <<world, host>>, Unsettled(r)',
         DOMAIN branchEpochs \subseteq DOMAIN branchEpochs',
         Host \in DOMAIN historyEvents' <=> Host \in DOMAIN historyEvents
  PROVE  WorldInv'
<1>1. WorldNamed' /\ HostLeads'
  BY DEF WorldInv, WorldNamed, HostLeads
<1>2. WorldSays'
  BY DEF WorldSays
<1> QED
  BY <1>1, <1>2 DEF WorldInv

(* A projection that was just built says what the ledger says.             *)
LEMMA WorldRebuilt ==
  ASSUME WorldInv, UNCHANGED tables, NEW e \in DOMAIN branchEpochs, NEW i \in Index,
         Rebuild(e, i), HostLeads'
  PROVE  WorldInv'
<1>1. /\ world'.epoch = e /\ world'.through = i
      /\ world'.rows = Ledger!MemoryRows(e, i)
  BY DEF Rebuild
<1>2. WorldNamed'
  BY <1>1 DEF WorldNamed, tables
<1>3. WorldSays'
  BY <1>1 DEF WorldSays, tables, Ledger!MemoryRows, Ledger!Segments
<1> QED
  BY <1>2, <1>3 DEF WorldInv

(* What is committed belongs to an epoch of the ledger.                    *)
LEMMA CommittedEpoch ==
  ASSUME IInv, NEW r \in Run, Committed(r)
  PROVE  journal[r].epoch \in DOMAIN branchEpochs
<1>1. turnCandidates[r].turn = <<journal[r].epoch, IndexOf[r]>>
  BY RunFacts, Coordinates DEF RunInv, CommittedInv
<1>2. turnCandidates[r].turn \in DOMAIN turns
  BY DEF IInv, LedgerProofs!IInv, LedgerProofs!HeadCoversTurns, Committed
<1>3. turnCandidates[r].turn[1] \in DOMAIN branchEpochs
  BY <1>2 DEF IInv, LedgerProofs!IInv, LedgerProofs!HeadCoversTurns
<1> QED
  BY <1>1, <1>3

(* The ledger of the root turn and that of the proofs read alike.          *)
LEMMA SegmentsAgree ==
  ASSUME NEW rows, NEW e, NEW i
  PROVE  Ledger!SegmentsIn(rows, e, i) = LedgerProofs!SegmentsIn(rows, e, i)
BY DEF Ledger!SegmentsIn, LedgerProofs!SegmentsIn, Ledger!Segment, LedgerProofs!Segment,
       Ledger!Inherited, LedgerProofs!Inherited

(* A truncation of the one is a truncation of the other.                   *)
LEMMA TruncationAlike ==
  ASSUME NEW e, NEW cutoff, Ledger!TruncateBranch(Host, e, cutoff)
  PROVE  LedgerProofs!TruncateBranch(Host, e, cutoff)
BY DEF Ledger!TruncateBranch, LedgerProofs!TruncateBranch,
       Ledger!FreshCommand, LedgerProofs!FreshCommand,
       Ledger!ActiveEpoch, LedgerProofs!ActiveEpoch,
       Ledger!WithRoot, LedgerProofs!WithRoot,
       Ledger!RootBranch, LedgerProofs!RootBranch,
       Ledger!OpenEpoch, LedgerProofs!OpenEpoch,
       Ledger!candidateTables, LedgerProofs!candidateTables,
       Ledger!Insert, LedgerProofs!Insert

(* The rows of the epochs are those of a ledger.                           *)
LEMMA KnownRows == LedgerProofs!IInv => LedgerProofs!EpochRows(branchEpochs)
BY LedgerProofs!LedgerRows, RunAssumption, BoundsAssumption

(* A truncation opens an epoch and shows the same of every older one.      *)
LEMMA TruncationKeeps ==
  ASSUME LedgerProofs!IInv, NEW e \in Epoch, NEW cutoff \in Index,
         Ledger!TruncateBranch(Host, e, cutoff)
  PROVE  /\ DOMAIN branchEpochs \subseteq DOMAIN branchEpochs'
         /\ e + 1 \in DOMAIN branchEpochs'
         /\ \A x \in DOMAIN branchEpochs : \A i \in Index : \A t :
              Ledger!Within(t, Ledger!SegmentsIn(branchEpochs', x, i))
                <=> Ledger!Within(t, Ledger!SegmentsIn(branchEpochs, x, i))
<1>1. e + 1 \in DOMAIN branchEpochs'
  BY DEF Ledger!TruncateBranch, Ledger!OpenEpoch, Ledger!Insert
<1>2. CASE DOMAIN branchEpochs = {}
  BY <1>1, <1>2
<1>3. CASE DOMAIN branchEpochs # {}
  <2>1. LedgerProofs!TruncateBranch(Host, e, cutoff)
    BY TruncationAlike
  <2>2. e \in LedgerProofs!Epoch /\ cutoff \in 0 .. MaxIndex + 1
        /\ Host \in Run \cup {Host}
    BY BoundsAssumption DEF Epoch, Index, LedgerProofs!Epoch
  <2>3. LedgerProofs!Next
    BY <2>1, <2>2 DEF LedgerProofs!Next
  <2>4. /\ DOMAIN branchEpochs \subseteq DOMAIN branchEpochs'
        /\ \A x \in DOMAIN branchEpochs :
             /\ branchEpochs'[x].parent = branchEpochs[x].parent
             /\ branchEpochs'[x].cutoff = branchEpochs[x].cutoff
    BY <1>3, <2>3, LedgerProofs!StepAddsRows, RunAssumption, BoundsAssumption
  <2>5. LedgerProofs!IInv'
    BY LedgerTruncate
  <2>6. LedgerProofs!EpochRows(branchEpochs)
    BY KnownRows
  <2>7. LedgerProofs!EpochRows(branchEpochs')
    <3>1. (LedgerProofs!IInv => LedgerProofs!EpochRows(branchEpochs))'
      BY KnownRows, PTL
    <3> QED
      BY <2>5, <3>1
  <2>8. ASSUME NEW t
        PROVE  \A x \in DOMAIN branchEpochs : \A i \in -1 .. MaxIndex :
                 LedgerProofs!Within(t, LedgerProofs!SegmentsIn(branchEpochs', x, i))
                   <=> LedgerProofs!Within(t, LedgerProofs!SegmentsIn(branchEpochs, x, i))
    BY <2>4, <2>6, <2>7, LedgerProofs!KeptRowsShowTheSame, RunAssumption, BoundsAssumption
  <2>9. \A i \in Index : i \in -1 .. MaxIndex
    BY BoundsAssumption DEF Index
  <2>10. \A t, segments : Ledger!Within(t, segments) <=> LedgerProofs!Within(t, segments)
    BY DEF Ledger!Within, LedgerProofs!Within
  <2> QED
    BY <1>1, <2>4, <2>8, <2>9, <2>10, SegmentsAgree
<1> QED
  BY <1>2, <1>3

(* A step of a run that writes neither the tables nor the projection.      *)
LEMMA RunQuiet ==
  ASSUME IInv, WorldInv, NEW r \in Run,
         \/ Begin(r) \/ Resume(r) \/ Recover(r)
         \/ Retrieve(r) \/ BreakProtocol(r) \/ Abandon(r)
         \/ \E k \in Kind : RejectCall(r, k)
         \/ \E body \in Body : StoryCommit(r, body)
         \/ \E delta \in Delta : WriteTurnDelta(r, delta)
         \/ \E error \in {"correctable", "other"} : RefuseDelta(r, error)
         \/ RejectDelta(r) \/ CommitExisting(r) \/ ConceptConflict(r)
         \/ WriteCommitFiles(r) \/ CommitFails(r) \/ ActivationFails(r)
         \/ RebuildFails(r) \/ Complete(r) \/ Correct(r) \/ GiveUp(r)
         \/ CheckpointFails(r)
  PROVE  WorldInv'
<1>1. /\ journal \in [Run -> Journal] /\ journal[r] \in Journal
      /\ attempt \in [Run -> Attempt] /\ attempt[r] \in Attempt
  BY RunFacts
<1>2. UNCHANGED <<tables, world, host>>
  BY DEF ledger, disk, Begin, Resume, Recover, Retrieve, BreakProtocol, Abandon,
         RejectCall, StoryCommit, WriteTurnDelta, RefuseDelta, RejectDelta,
         CommitExisting, ConceptConflict, WriteCommitFiles, CommitFails,
         ActivationFails, RebuildFails, Complete, Correct, GiveUp, CheckpointFails
<1>3. \A s \in Run \ {r} : journal'[s] = journal[s] /\ attempt'[s] = attempt[s]
  <2>1. journal' = journal \/ \E row : journal' = [journal EXCEPT ![r] = row]
    BY DEF Checkpoint, Begin, Resume, Recover, Retrieve, BreakProtocol, Abandon,
           RejectCall, StoryCommit, WriteTurnDelta, RefuseDelta, RejectDelta,
           CommitExisting, ConceptConflict, WriteCommitFiles, CommitFails,
           ActivationFails, RebuildFails, Complete, Correct, GiveUp, CheckpointFails
  <2>2. \A s \in Run \ {r} : attempt'[s] = attempt[s]
    BY <1>1 DEF Continue, Goto, End, Throw, Begin, Resume, Recover, Retrieve,
           BreakProtocol, Abandon,
           RejectCall, StoryCommit, WriteTurnDelta, RefuseDelta, RejectDelta,
           CommitExisting, ConceptConflict, WriteCommitFiles, CommitFails,
           ActivationFails, RebuildFails, Complete, Correct, GiveUp, CheckpointFails
  <2> QED
    BY <1>1, <2>1, <2>2
<1>4. ASSUME Unsettled(r) PROVE Unsettled(r)'
  <2>1. /\ Pending(r) /\ Committed(r)
        /\ journal[r].state \in {"applying_writeback", "partial_success"}
        /\ attempt[r].phase \notin {"provider", "settling"}
        /\ ~ (attempt[r].phase = "rejecting" /\ Correctable(r))
    BY <1>4, RunFacts
       DEF Unsettled, Pending, Committed, RunInv, JournalInv, AttemptInv
  <2>2. CASE Recover(r) \/ RejectDelta(r) \/ CommitExisting(r) \/ ConceptConflict(r)
             \/ CommitFails(r) \/ ActivationFails(r) \/ RebuildFails(r)
             \/ CheckpointFails(r)
    <3>1. journal' = journal
      BY <2>2 DEF Recover, RejectDelta, CommitExisting, ConceptConflict,
                  CommitFails, ActivationFails, RebuildFails, CheckpointFails
    <3>2. CASE Recover(r) \/ CommitExisting(r) \/ CheckpointFails(r)
      <4>1. Recover(r) => attempt'[r].phase = "queued"
        BY <1>1 DEF Recover, NoAttempt
      <4>2. CommitExisting(r) => attempt'[r].phase = "activating"
        BY <1>1 DEF CommitExisting, Goto
      <4>3. CheckpointFails(r) => attempt'[r].phase = "idle"
        BY <1>1 DEF CheckpointFails, End, NoAttempt
      <4> QED
        BY <3>1, <3>2, <4>1, <4>2, <4>3, <1>2, <1>4 DEF Unsettled, tables
    <3>3. CASE \E error \in {"correctable", "other"} : Throw(r, error)
      BY <3>1, <3>3, <1>1, <1>2, <1>4 DEF Throw, Unsettled, tables
    <3> QED
      BY <2>2, <3>2, <3>3
         DEF RejectDelta, ConceptConflict, CommitFails, ActivationFails, RebuildFails
  <2>3. CASE GiveUp(r)
    <3>1. journal'[r].pending = journal[r].pending /\ attempt'[r].phase = "idle"
      BY <2>1, <2>3, <1>1
         DEF GiveUp, Checkpoint, KeepWriteback, End, NoAttempt, Journal
    <3> QED
      BY <3>1, <1>2, <1>4 DEF Unsettled, tables
  <2> QED
    BY <2>1, <2>2, <2>3
       DEF Begin, Resume, Retrieve, BreakProtocol, Abandon, RejectCall, StoryCommit,
           WriteTurnDelta, RefuseDelta, Asking, WriteCommitFiles, Known, Complete, Correct
<1> QED
  BY <1>2, <1>3, <1>4, WorldStaysFor

(* Whoever commits has still to rebuild.                                   *)
LEMMA CommitWaits ==
  ASSUME IInv, WorldInv, NEW r \in Run, CommitLedger(r)
  PROVE  WorldInv'
<1>1. /\ Pending(r) /\ attempt \in [Run -> Attempt]
  BY RunFacts DEF CommitLedger, RunInv, AttemptInv, Busy
<1>2. /\ r \in DOMAIN turnCandidates' /\ historyEvents' = historyEvents
      /\ DOMAIN branchEpochs \subseteq DOMAIN branchEpochs'
  BY DEF CommitLedger, Ledger!CommitTurn, Ledger!Insert, Ledger!WithRoot
<1>3. Unsettled(r)'
  BY <1>1, <1>2 DEF CommitLedger, Goto, Unsettled, Pending
<1> QED
  BY <1>2, <1>3, WorldWaits DEF CommitLedger, disk

(* So has whoever activates.                                               *)
LEMMA ActivateWaits ==
  ASSUME IInv, WorldInv, NEW r \in Run, Activate(r)
  PROVE  WorldInv'
<1>1. /\ Pending(r) /\ Committed(r) /\ attempt \in [Run -> Attempt]
  BY RunFacts DEF Activate, RunInv, AttemptInv, WritebackInv, Busy
<1>2. /\ DOMAIN turnCandidates' = DOMAIN turnCandidates
      /\ branchEpochs' = branchEpochs
      /\ Host \in DOMAIN historyEvents' <=> Host \in DOMAIN historyEvents
  <2>1. CASE UNCHANGED tables
    BY <2>1 DEF tables
  <2>2. CASE Ledger!ActivateCandidateByHostCoordinate(
               r, journal[r].epoch, IndexOf[r], SwipeOf[r])
    BY <2>2, NoneIsNothing
       DEF Ledger!ActivateCandidateByHostCoordinate, Ledger!Activate, Ledger!Insert
  <2> QED
    BY <2>1, <2>2 DEF Activate
<1>3. Unsettled(r)'
  BY <1>1, <1>2 DEF Activate, Goto, Unsettled, Pending, Committed
<1> QED
  BY <1>2, <1>3, WorldWaits DEF Activate, disk

(* A run rebuilds the epoch of its own turn.                               *)
LEMMA RunRebuilds ==
  ASSUME IInv, WorldInv, NEW r \in Run, RebuildProjection(r)
  PROVE  WorldInv'
<1>1. journal[r].epoch \in DOMAIN branchEpochs /\ IndexOf[r] \in Index
  BY CommittedEpoch, Coordinates, RunFacts
     DEF RebuildProjection, RunInv, WritebackInv
<1>2. UNCHANGED tables /\ UNCHANGED host
  BY DEF RebuildProjection, ledger
<1>3. HostLeads'
  BY <1>2 DEF WorldInv, HostLeads, tables
<1> QED
  BY <1>1, <1>2, <1>3, WorldRebuilt DEF RebuildProjection

(* The host rebuilds the epoch that its command opened.                    *)
LEMMA HostRebuilds ==
  ASSUME IInv, WorldInv, HostRebuild
  PROVE  WorldInv'
<1>1. host \in HostRequest
  BY DEF IInv, TypeOK
<1>2. host.epoch + 1 \in DOMAIN branchEpochs
  BY DEF HostRebuild, WorldInv, HostLeads
<1>3. (IF host.cutoff = 0 THEN 0 ELSE host.cutoff - 1) \in Index
  BY <1>1, BoundsAssumption DEF HostRequest, Index
<1>4. UNCHANGED tables
  BY DEF HostRebuild, ledger
<1>5. HostLeads'
  BY <1>1, <1>2, <1>4 DEF HostRebuild, HostLeads, HostRequest, tables
<1> QED
  BY <1>2, <1>3, <1>4, <1>5, WorldRebuilt DEF HostRebuild

(* A truncation leaves the projection of an older epoch true.              *)
LEMMA HostTruncates ==
  ASSUME IInv, WorldInv, HostTruncate
  PROVE  WorldInv'
<1>1. host \in HostRequest
  BY DEF IInv, TypeOK
<1>2. /\ host'.phase = "rebuilding" /\ host'.epoch = host.epoch
      /\ UNCHANGED <<world, journal, attempt>>
  BY <1>1 DEF HostTruncate, HostRequest, disk
<1>3. CASE UNCHANGED tables /\ Host \in DOMAIN historyEvents
  <2>1. HostLeads'
    BY <1>2, <1>3 DEF WorldInv, HostLeads, tables
  <2>2. \A r \in Run : Unsettled(r) => Unsettled(r)'
    BY <1>2, <1>3 DEF Unsettled, tables
  <2> QED
    BY <1>2, <1>3, <2>1, <2>2, WorldStays
<1>4. CASE Ledger!TruncateBranch(Host, host.epoch, host.cutoff)
  <2>1. host.epoch \in Epoch /\ host.cutoff \in Index
    BY <1>1 DEF HostRequest
  <2>2. /\ DOMAIN branchEpochs \subseteq DOMAIN branchEpochs'
        /\ host.epoch + 1 \in DOMAIN branchEpochs'
        /\ \A x \in DOMAIN branchEpochs : \A i \in Index : \A t :
             Ledger!Within(t, Ledger!SegmentsIn(branchEpochs', x, i))
               <=> Ledger!Within(t, Ledger!SegmentsIn(branchEpochs, x, i))
    BY <1>4, <2>1, TruncationKeeps DEF IInv
  <2>3. UNCHANGED <<turnCandidates, patches, turnMemoryRecords>>
    BY <1>4 DEF Ledger!TruncateBranch, Ledger!candidateTables
  <2>4. HostLeads'
    BY <1>2, <2>2 DEF HostLeads
  <2>5. WorldNamed'
    BY <1>2, <2>2 DEF WorldInv, WorldNamed
  <2>6. WorldSays'
    <3>1. CASE world.epoch = None \/ \E r \in Run : Unsettled(r)
      BY <1>2, <2>3, <3>1 DEF WorldSays, Unsettled
    <3>2. CASE /\ world.epoch # None
               /\ world.rows = Ledger!MemoryRows(world.epoch, world.through)
      <4>1. world.epoch \in DOMAIN branchEpochs /\ world.through \in Index
        BY <3>2 DEF WorldInv, WorldNamed
      <4>2. \A t : Ledger!Within(t, Ledger!SegmentsIn(branchEpochs', world.epoch, world.through))
                     <=> Ledger!Within(t, Ledger!SegmentsIn(branchEpochs, world.epoch, world.through))
        BY <2>2, <4>1
      <4>3. world'.rows = Ledger!MemoryRows(world.epoch, world.through)'
        BY <1>2, <2>3, <3>2, <4>2 DEF Ledger!MemoryRows, Ledger!Segments
      <4> QED
        BY <4>3 DEF WorldSays
    <3> QED
      BY <3>1, <3>2 DEF WorldInv, WorldSays
  <2> QED
    BY <2>4, <2>5, <2>6 DEF WorldInv
<1> QED
  BY <1>3, <1>4 DEF HostTruncate

(* The other steps write neither the tables nor the projection.            *)
LEMMA HostWaits ==
  ASSUME IInv, WorldInv, HostSend \/ HostFails \/ Crash
  PROVE  WorldInv'
<1>1. UNCHANGED <<tables, world>>
  BY DEF HostSend, HostFails, Crash, ledger, disk
<1>2. HostLeads'
  <2>1. host \in HostRequest
    BY DEF IInv, TypeOK
  <2>2. /\ host.phase # "idle" => host'.phase # "idle" /\ host'.epoch = host.epoch
        /\ host'.phase = "rebuilding" => host.phase = "rebuilding"
    BY <2>1 DEF HostSend, HostFails, Crash, HostRequest
  <2> QED
    BY <1>1, <2>2 DEF WorldInv, HostLeads, tables
<1>3. ASSUME NEW r \in Run, Unsettled(r) PROVE Unsettled(r)'
  <2>1. journal'[r] = journal[r]
    BY <1>3, RunFacts
       DEF HostSend, HostFails, Crash, Checkpoint, Unsettled, RunInv, JournalInv, Pending
  <2>2. attempt'[r].phase # "settling"
    BY <1>3 DEF HostSend, HostFails, Crash, Unsettled, NoAttempt
  <2> QED
    BY <1>1, <1>3, <2>1, <2>2 DEF Unsettled, tables
<1> QED
  BY <1>1, <1>2, <1>3, WorldStays

(* Every step keeps the invariant of the projection.                       *)
LEMMA WorldStep == IInv /\ WorldInv /\ [Next]_vars => WorldInv'
<1> SUFFICES ASSUME IInv, WorldInv, [Next]_vars PROVE WorldInv'
  OBVIOUS
<1>1. ASSUME NEW r \in Run, Step(r) PROVE WorldInv'
  BY <1>1, RunQuiet, CommitWaits, ActivateWaits, RunRebuilds DEF Step
<1>2. CASE UNCHANGED vars
  <2>1. UNCHANGED <<tables, world, host, journal, attempt>>
    BY <1>2 DEF vars, ledger, disk
  <2>2. HostLeads' /\ \A r \in Run : Unsettled(r) => Unsettled(r)'
    BY <2>1 DEF WorldInv, HostLeads, Unsettled, tables
  <2> QED
    BY <2>1, <2>2, WorldStays
<1> QED
  BY <1>1, <1>2, RunQuiet, HostRebuilds, HostTruncates, HostWaits DEF Next

(* The projection never tells another history than the ledger of the same  *)
(* turns, unless a run is pending that is in the history and whose recovery *)
(* rebuilds it.                                                            *)
THEOREM WorldSaysLedger == Spec => []WorldMatchesLedger
<1>1. Init => WorldInv
  BY NoneIsNothing DEF Init, WorldInv, WorldNamed, HostLeads, WorldSays, Ledger!Init
<1>2. IInv /\ WorldInv /\ [Next]_vars => WorldInv'
  BY WorldStep
<1>3. WorldInv => WorldMatchesLedger
  BY DEF WorldInv, WorldSays, WorldMatchesLedger, Unsettled, Pending, Committed
<1> QED
  BY <1>1, <1>2, <1>3, Invariance, PTL DEF Spec

=============================================================================
