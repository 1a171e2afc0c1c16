----------------------- MODULE StagedFileTransaction -----------------------
(***************************************************************************)
(* The staged file transaction that publishes a Static Lore projection     *)
(* (src/storage/staged-file-transaction.js, as src/intake/static-lore-     *)
(* intake.js uses it).                                                     *)
(*                                                                         *)
(* The projection of a snapshot is a set of files in the chat save; which  *)
(* snapshot is active is recorded in the SQLite ledger.  Neither store can *)
(* be written together with the other, so a writer stages copies of the    *)
(* files before and after, writes a journal that names both snapshots,     *)
(* installs the new files, commits the ledger and cleans up.  Whoever      *)
(* takes the writer lock next completes or undoes what a dead or failed    *)
(* writer left, by asking the ledger which snapshot is active.             *)
(*                                                                         *)
(* A file operation is one step, a process may die between any two of      *)
(* them, and every step may fail.  Writers exclude each other here: the    *)
(* lock is one variable whose dead owner can be replaced.  WriterLock      *)
(* models how the code takes that lock.  The state field of the journal    *)
(* is written by updateJournalState and read by nobody, and is left out,   *)
(* as are the hashes: a staged copy that is there has the hash that the    *)
(* journal records.                                                        *)
(***************************************************************************)
EXTENDS Naturals

CONSTANTS
  Path,            \* the files of a projection
  RuntimeWorld,    \* the path of derived/runtime-world.json
  Snapshot,        \* Static Lore snapshots
  None,            \* null: no active snapshot, no journal, no plan, no owner
  Absent,          \* what reading a path returns when there is no file
  Content,         \* file contents
  Projection,      \* snapshot (or None) -> path -> content
  Writer,          \* the intake requests of all processes
  MaxFaults        \* bound: steps that fail and processes that die

ASSUME NoneAssumption == None \notin Snapshot /\ None \notin Writer
ASSUME PathAssumption == RuntimeWorld \in Path
ASSUME ContentAssumption == Absent \notin Content
ASSUME FaultAssumption == MaxFaults \in Nat

Files == [Path -> Content \cup {Absent}]

ASSUME ProjectionAssumption == Projection \in [Snapshot \cup {None} -> Files]

VARIABLES
  files,      \* disk: path -> content or Absent
  active,     \* ledger: the active snapshot, or None
  journal,    \* disk: derived/static-lore-transaction.json, or None
  stage,      \* disk: the copies in the stage directory of the transaction
  lock,       \* disk: the lock is "free", "held", or its owner is "dead"
  owner,      \* memory: the request that holds the lock, or None
  work,       \* memory: what the owner is doing
  recovered,  \* memory: requests whose recoverStagedFileTransaction returned
  plan,       \* memory: request -> the transaction it wants to run, or None
  faults,     \* how many faults there have been
  misread     \* history: since the last commit a catch has restored the
              \* version of a snapshot that the ledger does not call active

vars == <<files, active, journal, stage, lock, owner, work, recovered, plan,
          faults, misread>>

-----------------------------------------------------------------------------

Plan == [target : Snapshot, previous : Snapshot \cup {None}]

Journal == [target : Snapshot, previous : Snapshot \cup {None},
            before : Files, after : Files]

ASSUME JournalAssumption == None \notin Journal

Stage == [backups : SUBSET Path, writes : SUBSET Path]

(* recoverJournal runs in mode "recovery", the body of                     *)
(* runStagedFileTransaction in mode "transaction", its catch in "rescue".  *)
Work == [phase   : {"idle", "recover", "begin", "stage", "install", "commit",
                    "cleanup", "release"},
         mode    : {"recovery", "transaction", "rescue"},
         version : {"before", "after"},    \* which copies are installed
         todo    : SUBSET Path]            \* paths not yet staged or installed

Idle == [phase |-> "idle", mode |-> "recovery", version |-> "before",
         todo |-> {}]

TypeOK ==
  /\ files \in Files
  /\ active \in Snapshot \cup {None}
  /\ journal \in Journal \cup {None}
  /\ stage \in Stage
  /\ lock \in {"free", "held", "dead"}
  /\ owner \in Writer \cup {None}
  /\ work \in Work
  /\ recovered \subseteq Writer
  /\ plan \in [Writer -> Plan \cup {None}]
  /\ faults \in 0 .. MaxFaults
  /\ misread \in BOOLEAN

Init ==
  /\ active \in Snapshot \cup {None}
  /\ files = Projection[active]
  /\ journal = None
  /\ stage = [backups |-> {}, writes |-> {}]
  /\ lock = "free"
  /\ owner = None
  /\ work = Idle
  /\ recovered = {}
  /\ plan = [w \in Writer |-> None]
  /\ faults = 0
  /\ misread = FALSE

-----------------------------------------------------------------------------
(* The journal and its stage directory.                                    *)

Present(f) == {p \in Path : f[p] # Absent}

(* The paths that a transaction writes or removes.                         *)
Entries(before, after) == Present(before) \cup Present(after)

(* verifyJournalStaging: every copy that the journal names is there.       *)
StagingIntact(j) ==
  /\ Present(j.before) \subseteq stage.backups
  /\ Present(j.after) \subseteq stage.writes

Version(j, version) == IF version = "after" THEN j.after ELSE j.before

Copies(version) == IF version = "after" THEN stage.writes ELSE stage.backups

Phase(phase) == owner # None /\ work.phase = phase

Enter(phase) == work' = [work EXCEPT !.phase = phase]

(* Install the given version of every file of the journal.                 *)
Installing(mode, version, j) ==
  [phase |-> "install", mode |-> mode, version |-> version,
   todo |-> Entries(j.before, j.after)]

(* Forward or back?  The ledger decides; neither if it is elsewhere.       *)
RecoveryVersion(j, a) ==
  CASE a = j.target   -> {"after"}
    [] a = j.previous -> {"before"}
    [] OTHER          -> {}

-----------------------------------------------------------------------------
(* The writer lock and the request.                                        *)

(* Mutation of Takeable: the lock of a dead process is never replaced.     *)
TakeableOnlyFree == lock = "free"

Takeable == lock \in {"free", "dead"}

(* acquireWriterLock; a request that finds a live owner is refused, which  *)
(* changes nothing.                                                        *)
AcquireWriterLock(w) ==
  /\ Takeable
  /\ w \notin recovered
  /\ lock' = "held"
  /\ owner' = w
  /\ work' = [Idle EXCEPT !.phase = "recover"]
  /\ UNCHANGED <<files, active, journal, stage, recovered, plan, faults,
                 misread>>

(* applyExtraction, between its recovery and its transaction, without the  *)
(* lock: the plan is made from what the ledger and the disk say now.       *)
PlanTransaction(w, s) ==
  /\ w \in recovered \ {owner}
  /\ s # active
  /\ files[RuntimeWorld] = Projection[active][RuntimeWorld]
  /\ plan' = [plan EXCEPT ![w] = [target |-> s, previous |-> active]]
  /\ recovered' = recovered \ {w}
  /\ UNCHANGED <<files, active, journal, stage, lock, owner, work, faults,
                 misread>>

(* The plan is refused, or the extraction was applied before.              *)
AbandonExtraction(w) ==
  /\ w \in recovered \ {owner}
  /\ recovered' = recovered \ {w}
  /\ UNCHANGED <<files, active, journal, stage, lock, owner, work, plan,
                 faults, misread>>

ReleaseWriterLock ==
  /\ Phase("release")
  /\ lock' = "free"
  /\ owner' = None
  /\ work' = Idle
  /\ plan' = [plan EXCEPT ![owner] = None]
  /\ UNCHANGED <<files, active, journal, stage, recovered, faults, misread>>

-----------------------------------------------------------------------------
(* Recovery, before anything else is done under the lock.                  *)

(* recoverJournal finds a journal and knows which way to go.               *)
RecoverJournal ==
  /\ Phase("recover")
  /\ journal # None
  /\ StagingIntact(journal)
  /\ \E version \in RecoveryVersion(journal, active) :
       work' = Installing("recovery", version, journal)
  /\ UNCHANGED <<files, active, journal, stage, lock, owner, recovered, plan,
                 faults, misread>>

(* recoverJournal throws: a copy is missing, or the ledger has moved on.   *)
RecoveryRefused ==
  /\ Phase("recover")
  /\ journal # None
  /\ ~ StagingIntact(journal) \/ RecoveryVersion(journal, active) = {}
  /\ Enter("release")
  /\ UNCHANGED <<files, active, journal, stage, lock, owner, recovered, plan,
                 faults, misread>>

(* recoverJournal returns null.                                            *)
NothingToRecover ==
  /\ Phase("recover")
  /\ journal = None
  /\ Enter("begin")
  /\ UNCHANGED <<files, active, journal, stage, lock, owner, recovered, plan,
                 faults, misread>>

(* recoverStagedFileTransaction has nothing else to do.                    *)
RecoveryDone ==
  /\ Phase("begin")
  /\ plan[owner] = None
  /\ Enter("release")
  /\ recovered' = recovered \cup {owner}
  /\ UNCHANGED <<files, active, journal, stage, lock, owner, plan, faults,
                 misread>>

-----------------------------------------------------------------------------
(* The transaction.                                                        *)

(* 'Static Lore active snapshot changed before file staging.'              *)
PlanStale ==
  /\ Phase("begin")
  /\ plan[owner] # None
  /\ active # plan[owner].previous
  /\ Enter("release")
  /\ UNCHANGED <<files, active, journal, stage, lock, owner, recovered, plan,
                 faults, misread>>

(* Mutation of BeginTransaction: the ledger may have moved on.             *)
BeginStale ==
  /\ Phase("begin")
  /\ plan[owner] # None
  /\ stage' = [backups |-> {}, writes |-> {}]
  /\ work' = [phase |-> "stage", mode |-> "transaction", version |-> "after",
              todo |-> Entries(files, Projection[plan[owner].target])]
  /\ UNCHANGED <<files, active, journal, lock, owner, recovered, plan, faults,
                 misread>>

(* The plan still fits; the old stage directory is removed.                *)
BeginTransaction ==
  /\ Phase("begin")
  /\ plan[owner] # None
  /\ active = plan[owner].previous
  /\ stage' = [backups |-> {}, writes |-> {}]
  /\ work' = [phase |-> "stage", mode |-> "transaction", version |-> "after",
              todo |-> Entries(files, Projection[plan[owner].target])]
  /\ UNCHANGED <<files, active, journal, lock, owner, recovered, plan, faults,
                 misread>>

(* stageJournal: back up one file and write its replacement aside.         *)
StageFile(p) ==
  /\ Phase("stage")
  /\ p \in work.todo
  /\ stage' = [backups |-> stage.backups \cup ({p} \cap Present(files)),
               writes  |-> stage.writes
                             \cup ({p} \cap Present(Projection[plan[owner].target]))]
  /\ work' = [work EXCEPT !.todo = @ \ {p}]
  /\ UNCHANGED <<files, active, journal, lock, owner, recovered, plan, faults,
                 misread>>

(* stageJournal: the journal replaces nothing and appears at once; then    *)
(* verifyJournalStaging.                                                   *)
WriteJournal ==
  LET j == [target   |-> plan[owner].target,
            previous |-> plan[owner].previous,
            before   |-> files,
            after    |-> Projection[plan[owner].target]]
  IN
  /\ Phase("stage")
  /\ work.todo = {}
  /\ StagingIntact(j)
  /\ journal' = j
  /\ work' = Installing("transaction", "after", j)
  /\ UNCHANGED <<files, active, stage, lock, owner, recovered, plan, faults,
                 misread>>

(* applyJournalProjection and restoreJournalProjection, one entry: copy    *)
(* the staged file aside and rename it into place, or remove the file.     *)
InstallFile(p) ==
  LET content == Version(journal, work.version) IN
  /\ Phase("install")
  /\ p \in work.todo
  /\ content[p] # Absent => p \in Copies(work.version)
  /\ files' = [files EXCEPT ![p] = content[p]]
  /\ work' = [work EXCEPT !.todo = @ \ {p}]
  /\ UNCHANGED <<active, journal, stage, lock, owner, recovered, plan, faults,
                 misread>>

(* verifyJournalProjection.                                                *)
Installed ==
  /\ work.todo = {}
  /\ \A p \in Entries(journal.before, journal.after) :
       files[p] = Version(journal, work.version)[p]

(* All files are there and the bundle is valid: a transaction commits the  *)
(* ledger now, a recovery or rescue cleans up.                             *)
ValidateFiles ==
  /\ Phase("install")
  /\ Installed
  /\ Enter(IF work.mode = "transaction" THEN "commit" ELSE "cleanup")
  /\ UNCHANGED <<files, active, journal, stage, lock, owner, recovered, plan,
                 faults, misread>>

(* commitStaticLoreIntakeToLedger: one database transaction.               *)
CommitLedger ==
  /\ Phase("commit")
  /\ active = plan[owner].previous
  /\ active' = plan[owner].target
  /\ misread' = FALSE
  /\ Enter("cleanup")
  /\ UNCHANGED <<files, journal, stage, lock, owner, recovered, plan, faults>>

(* cleanupJournal: the recursive rm of the stage directory, one copy.      *)
CleanupStage ==
  /\ Phase("cleanup")
  /\ \/ \E p \in stage.backups :
          stage' = [stage EXCEPT !.backups = @ \ {p}]
     \/ \E p \in stage.writes :
          stage' = [stage EXCEPT !.writes = @ \ {p}]
  /\ UNCHANGED <<files, active, journal, lock, owner, work, recovered, plan,
                 faults, misread>>

(* cleanupJournal: then the journal.                                       *)
CleanupJournal ==
  /\ Phase("cleanup")
  /\ stage = [backups |-> {}, writes |-> {}]
  /\ journal' = None
  /\ Enter(IF work.mode = "recovery" THEN "begin" ELSE "release")
  /\ UNCHANGED <<files, active, stage, lock, owner, recovered, plan, faults,
                 misread>>

-----------------------------------------------------------------------------
(* Failures.                                                               *)

(* The snapshot that the catch of runStagedFileTransaction believes to be  *)
(* active: getActiveSnapshotId().catch(() => null), so null whenever the   *)
(* ledger cannot be read either.                                           *)
LedgerReading == {active, None}

(* What the catch does with its journal; when it cannot tell which way to  *)
(* go it throws and leaves the journal behind.                             *)
Rescue(reading) ==
  IF RecoveryVersion(journal, reading) = {}
  THEN Enter("release")
  ELSE \E version \in RecoveryVersion(journal, reading) :
         work' = Installing("rescue", version, journal)

(* An unreadable ledger looks like one in which nothing was ever active,   *)
(* so the catch undoes a first transaction that is already committed.      *)
Misleads(reading) == reading # active /\ RecoveryVersion(journal, reading) # {}

(* A step of the transaction throws after the journal was written.         *)
TransactionFails ==
  /\ work.mode = "transaction"
  /\ Phase("install") \/ Phase("commit") \/ Phase("cleanup")
  /\ faults < MaxFaults
  /\ faults' = faults + 1
  /\ \E reading \in LedgerReading :
       /\ Rescue(reading)
       /\ misread' = (misread \/ Misleads(reading))
  /\ UNCHANGED <<files, active, journal, stage, lock, owner, recovered, plan>>

(* Any other step throws: recovery, staging, and the rescue itself.        *)
RequestFails ==
  /\ \/ Phase("recover") \/ Phase("begin") \/ Phase("stage")
     \/ /\ work.mode # "transaction"
        /\ Phase("install") \/ Phase("cleanup")
  /\ faults < MaxFaults
  /\ faults' = faults + 1
  /\ Enter("release")
  /\ UNCHANGED <<files, active, journal, stage, lock, owner, recovered, plan,
                 misread>>

(* A rescue after a failed cleanup: the copy to install is gone.           *)
CopyMissing ==
  /\ Phase("install")
  /\ \E p \in work.todo :
       /\ Version(journal, work.version)[p] # Absent
       /\ p \notin Copies(work.version)
  /\ Enter("release")
  /\ UNCHANGED <<files, active, journal, stage, lock, owner, recovered, plan,
                 faults, misread>>

(* The process of the owner dies, and its lock directory stays.            *)
Crash ==
  /\ owner # None
  /\ faults < MaxFaults
  /\ faults' = faults + 1
  /\ lock' = "dead"
  /\ owner' = None
  /\ work' = Idle
  /\ plan' = [plan EXCEPT ![owner] = None]
  /\ recovered' = recovered \ {owner}
  /\ UNCHANGED <<files, active, journal, stage, misread>>

-----------------------------------------------------------------------------

OwnerStep ==
  \/ RecoverJournal \/ RecoveryRefused \/ NothingToRecover \/ RecoveryDone
  \/ PlanStale \/ BeginTransaction
  \/ \E p \in Path : StageFile(p) \/ InstallFile(p)
  \/ WriteJournal \/ ValidateFiles \/ CommitLedger
  \/ CleanupStage \/ CleanupJournal \/ CopyMissing
  \/ ReleaseWriterLock

Next ==
  \/ \E w \in Writer : AcquireWriterLock(w) \/ AbandonExtraction(w)
  \/ \E w \in Writer, s \in Snapshot : PlanTransaction(w, s)
  \/ OwnerStep
  \/ TransactionFails \/ RequestFails \/ Crash

Spec == Init /\ [][Next]_vars

(* A live process takes its next step, and intake requests keep coming: a  *)
(* user whose intake failed asks for it again.                             *)
Fairness ==
  /\ WF_vars(OwnerStep)
  /\ \A w \in Writer : WF_vars(AcquireWriterLock(w) \/ AbandonExtraction(w))

FairSpec == Spec /\ Fairness

-----------------------------------------------------------------------------
(* Properties.                                                             *)

(* Whenever the files on disk are not the projection of the snapshot that  *)
(* the ledger calls active, there is a journal that the next writer can    *)
(* recover from: all its copies are there and the ledger is at one of its  *)
(* two snapshots (recoverJournal, cleanupJournal, and the catch of         *)
(* runStagedFileTransaction) -- unless a catch that could not read the     *)
(* ledger has undone what it had just committed.                           *)
TornIsRecoverable ==
  ~ misread /\ files # Projection[active] =>
    /\ journal # None
    /\ StagingIntact(journal)
    /\ active \in {journal.target, journal.previous}

(* The ledger moves to a snapshot only when every file of its projection   *)
(* has been installed (commitLedger after verifyJournalProjection),        *)
(* whatever a catch has undone before.                                     *)
LedgerFollowsFiles ==
  [][active' # active => files = Projection[active']]_vars

(* A torn projection is repaired as long as somebody asks for an intake,   *)
(* whatever the writers that failed or died before have left, unless a     *)
(* catch undoes a commit that it cannot read.                              *)
TornIsRepaired ==
  files # Projection[active] ~> files = Projection[active] \/ misread

(* verifyJournalStaging, as an assertion: recovery finds every copy that   *)
(* the journal names.                                                      *)
RecoveryFindsStaging ==
  Phase("recover") /\ journal # None => StagingIntact(journal)

(* applyExtraction, as an assertion: a request that has recovered and is   *)
(* not overtaken finds the runtime world of the active snapshot.           *)
RuntimeWorldMatchesLedger ==
  owner = None /\ journal = None =>
    files[RuntimeWorld] = Projection[active][RuntimeWorld]

=============================================================================
