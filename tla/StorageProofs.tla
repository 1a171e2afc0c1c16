------------------------------- MODULE StorageProofs --------------------------------
(* What is proved of the files: the staged transaction, the lock that      *)
(* keeps its writers apart, and the installation.                          *)
(*                                                                         *)
(* TornIsRecoverable and LedgerFollowsFiles hold for every set of files,   *)
(* snapshots and requests and every number of faults, whether or not the   *)
(* ledger can be read in the error path; ExclusiveUntilTakeover for every  *)
(* set of processes and every number of attempts and of deaths;            *)
(* PromiseKept for every set of builds, profiles and installations and     *)
(* every number of changes and of faults.  The assumptions are those of    *)
(* the modules: the bounds are numbers, nobody's metadata reads like the   *)
(* absence of metadata, and null is no build and no profile.               *)
EXTENDS StagedFileTransaction, WriterLock, Provisioning, TLAPS

-----------------------------------------------------------------------------
(* The staged transaction                                                  *)

(* The lock is held exactly while somebody works under it.                 *)
LockInv ==
  /\ owner # None <=> lock = "held"
  /\ owner = None => work = Idle

(* A plan changes the snapshot.                                            *)
PlanInv == \A w \in Writer : plan[w] # None => plan[w].target # plan[w].previous

(* A journal is that of a transaction between two snapshots, of which the  *)
(* ledger is at one; every file has one of its two versions.               *)
JournalInv ==
  journal # None =>
    /\ journal.target # journal.previous
    /\ journal.after = Projection[journal.target]
    /\ active \in {journal.target, journal.previous}
    /\ \A p \in Path : files[p] \in {journal.before[p], journal.after[p]}

(* As long as no catch was misled, the version that belongs to the ledger  *)
(* is the projection of the active snapshot, and as long as the disk has   *)
(* another one the copies are complete.                                    *)
FaithfulInv ==
  ~ misread =>
    /\ journal = None => files = Projection[active]
    /\ journal # None =>
         /\ active = journal.previous => journal.before = Projection[active]
         /\ files # Projection[active] => StagingIntact(journal)

(* The owner's transaction, before its journal is written.                 *)
StageInv ==
  /\ Phase("begin") => journal = None
  /\ Phase("stage") =>
       /\ journal = None
       /\ plan[owner] # None
       /\ active = plan[owner].previous
       /\ Present(files) \ work.todo \subseteq stage.backups
       /\ Present(Projection[plan[owner].target]) \ work.todo
            \subseteq stage.writes

(* The journal on disk is that of the owner, and the ledger has not moved. *)
Uncommitted ==
  /\ plan[owner] # None
  /\ journal.target = plan[owner].target
  /\ journal.previous = plan[owner].previous
  /\ active = journal.previous
  /\ StagingIntact(journal)

(* Files outside todo have the version that is being installed: the one    *)
(* after the transaction until it commits, and then, unless a catch was    *)
(* misled, the one of the active snapshot.                                 *)
InstallInv ==
  Phase("install") =>
    /\ journal # None
    /\ \A p \in Path \ work.todo : files[p] = Version(journal, work.version)[p]
    /\ IF work.mode = "transaction"
       THEN Uncommitted /\ work.version = "after"
       ELSE ~ misread => Version(journal, work.version) = Projection[active]

FinishInv ==
  /\ Phase("commit") =>
       /\ journal # None
       /\ work.mode = "transaction"
       /\ Uncommitted
       /\ files = journal.after
  /\ Phase("cleanup") =>
       /\ journal # None
       /\ ~ misread => files = Projection[active]

IInv ==
  /\ TypeOK /\ LockInv /\ PlanInv /\ JournalInv /\ FaithfulInv
  /\ StageInv /\ InstallInv /\ FinishInv

USE NoneAssumption, PathAssumption, ContentAssumption, FaultAssumption,
    ProjectionAssumption, JournalAssumption

-----------------------------------------------------------------------------

(* A file that the journal does not name is absent, as in both versions.   *)
LEMMA OutsideEntries ==
  ASSUME IInv, journal # None,
         NEW version \in {"before", "after"},
         NEW p \in Path \ Entries(journal.before, journal.after)
  PROVE  files[p] = Version(journal, version)[p]
  BY DEF IInv, TypeOK, JournalInv, Journal, Files, Entries, Present, Version

(* The version that recovery installs is the one the ledger calls active.  *)
LEMMA VersionOfActive ==
  ASSUME IInv, journal # None,
         NEW version \in RecoveryVersion(journal, active)
  PROVE  ~ misread => Version(journal, version) = Projection[active]
  BY DEF IInv, JournalInv, FaithfulInv, RecoveryVersion, Version

(* The files named by a journal are paths, so the work is well-typed.      *)
LEMMA InstallingTyped ==
  ASSUME NEW j, NEW mode \in {"recovery", "transaction", "rescue"},
         NEW version \in {"before", "after"}
  PROVE  Installing(mode, version, j) \in Work
  BY DEF Installing, Work, Entries, Present

(* Starting to install a version keeps the invariant, when it is the one   *)
(* that belongs to the ledger or a catch was misled: this is what          *)
(* recoverJournal and the catch of runStagedFileTransaction do.            *)
LEMMA InstallVersion ==
  ASSUME IInv, journal # None, owner # None,
         NEW mode \in {"recovery", "rescue"},
         NEW version \in {"before", "after"},
         work' = Installing(mode, version, journal),
         faults' \in 0 .. MaxFaults,
         misread' \in BOOLEAN,
         misread => misread',
         ~ misread' => Version(journal, version) = Projection[active],
         UNCHANGED <<files, active, journal, stage, lock, owner, recovered,
                     plan>>
  PROVE  IInv'
<1>1. TypeOK'
  BY InstallingTyped DEF IInv, TypeOK
<1>2. LockInv' /\ PlanInv'
  BY DEF IInv, LockInv, PlanInv
<1>3. JournalInv' /\ FaithfulInv'
  BY DEF IInv, JournalInv, FaithfulInv, StagingIntact
<1>4. StageInv' /\ FinishInv'
  BY DEF StageInv, FinishInv, Phase, Installing
<1>5. InstallInv'
  BY OutsideEntries DEF InstallInv, Phase, Installing, Version
<1> QED
  BY <1>1, <1>2, <1>3, <1>4, <1>5 DEF IInv

-----------------------------------------------------------------------------

(* IInv is inductive, whatever the catch of runStagedFileTransaction reads *)
(* of the ledger.                                                          *)
THEOREM Invariance == Spec => []IInv
<1>1. Init => IInv
  <2> SUFFICES ASSUME Init
               PROVE  IInv
    OBVIOUS
  <2>1. TypeOK
    <3>1. files \in Files /\ active \in Snapshot \cup {None}
      BY DEF Init
    <3>2. stage \in Stage /\ work \in Work
      BY DEF Init, Idle, Stage, Work
    <3>3. plan \in [Writer -> Plan \cup {None}]
      BY DEF Init
    <3>4. faults \in 0 .. MaxFaults
      BY DEF Init
    <3> QED
      BY ONLY Init, <3>1, <3>2, <3>3, <3>4 DEF Init, TypeOK
  <2>2. LockInv /\ PlanInv /\ JournalInv /\ FaithfulInv
    BY DEF Init, LockInv, PlanInv, JournalInv, FaithfulInv
  <2>3. StageInv /\ InstallInv /\ FinishInv
    BY DEF Init, StageInv, InstallInv, FinishInv, Phase
  <2> QED
    BY <2>1, <2>2, <2>3 DEF IInv
<1>2. ASSUME IInv, [Next]_vars
      PROVE  IInv'
  <2> USE <1>2 DEF IInv, TypeOK, LockInv, PlanInv, JournalInv, FaithfulInv,
                   StageInv, InstallInv, FinishInv, Uncommitted, StagingIntact,
                   Phase, Enter, Work, Plan, Journal, Files, Stage
  \* The lock and the plans.
  <2>1. ASSUME NEW w \in Writer, AcquireWriterLock(w)
        PROVE  IInv'
    BY <2>1 DEF AcquireWriterLock, Takeable, Idle
  <2>2. ASSUME NEW w \in Writer, AbandonExtraction(w)
        PROVE  IInv'
    BY <2>2 DEF AbandonExtraction
  <2>3. ASSUME NEW w \in Writer, NEW s \in Snapshot, PlanTransaction(w, s)
        PROVE  IInv'
    BY <2>3 DEF PlanTransaction
  <2>4. CASE ReleaseWriterLock
    BY <2>4 DEF ReleaseWriterLock, Idle
  \* Recovery.
  <2>5. CASE RecoverJournal
    <3>1. PICK version \in RecoveryVersion(journal, active) :
            work' = Installing("recovery", version, journal)
      BY <2>5 DEF RecoverJournal
    <3>2. version \in {"before", "after"}
      BY <3>1 DEF RecoveryVersion
    <3>3. ~ misread => Version(journal, version) = Projection[active]
      BY ONLY <1>2, <2>5, <3>1, VersionOfActive DEF RecoverJournal
    <3> QED
      BY ONLY <1>2, <2>5, <3>1, <3>2, <3>3, InstallVersion
         DEF RecoverJournal, Phase, IInv, TypeOK
  <2>6. CASE RecoveryRefused
    BY <2>6 DEF RecoveryRefused
  <2>7. CASE NothingToRecover
    BY <2>7 DEF NothingToRecover
  <2>8. CASE RecoveryDone
    BY <2>8 DEF RecoveryDone
  \* The transaction.
  <2>9. CASE PlanStale
    BY <2>9 DEF PlanStale
  <2>10. CASE BeginTransaction
    BY <2>10 DEF BeginTransaction, Entries, Present
  <2>11. ASSUME NEW p \in Path, StageFile(p)
         PROVE  IInv'
    BY <2>11 DEF StageFile, Present
  <2>12. CASE WriteJournal
    BY <2>12 DEF WriteJournal, Installing, Version, Entries, Present
  <2>13. ASSUME NEW p \in Path, InstallFile(p)
         PROVE  IInv'
    <3>1. TypeOK' /\ LockInv' /\ PlanInv' /\ StageInv' /\ FinishInv'
      BY <2>13 DEF InstallFile, Version
    <3>2. JournalInv'
      BY <2>13 DEF InstallFile, Version
    <3>3. FaithfulInv'
      BY <2>13 DEF InstallFile, Version
    <3>4. InstallInv'
      BY <2>13 DEF InstallFile, Version
    <3> QED
      BY ONLY <3>1, <3>2, <3>3, <3>4 DEF IInv
  <2>14. CASE ValidateFiles
    BY <2>14 DEF ValidateFiles, Installed, Version
  <2>15. CASE CommitLedger
    BY <2>15 DEF CommitLedger
  <2>16. CASE CleanupStage
    BY <2>16 DEF CleanupStage
  <2>17. CASE CleanupJournal
    BY <2>17 DEF CleanupJournal
  \* Failures.
  <2>18. CASE CopyMissing
    BY <2>18 DEF CopyMissing
  <2>19. CASE TransactionFails
    <3>1. PICK reading \in LedgerReading :
            Rescue(reading) /\ misread' = (misread \/ Misleads(reading))
      BY <2>19 DEF TransactionFails
    <3>2. CASE RecoveryVersion(journal, reading) = {}
      BY <2>19, <3>1, <3>2 DEF TransactionFails, Rescue, Misleads
    <3>3. CASE RecoveryVersion(journal, reading) # {}
      <4>1. PICK version \in RecoveryVersion(journal, reading) :
              work' = Installing("rescue", version, journal)
        BY <3>1, <3>3 DEF Rescue
      <4>2. version \in {"before", "after"}
        BY <4>1 DEF RecoveryVersion
      <4>3. ~ misread' => reading = active /\ ~ misread
        BY <3>1, <3>3 DEF Misleads
      <4>4. journal # None
        BY <2>19 DEF TransactionFails
      <4>5. ~ misread' => Version(journal, version) = Projection[active]
        BY ONLY <1>2, <4>1, <4>3, <4>4, VersionOfActive
      <4>6. faults' \in 0 .. MaxFaults /\ misread' \in BOOLEAN
        BY <2>19, <3>1 DEF TransactionFails, Misleads
      <4> QED
        BY ONLY <1>2, <2>19, <3>1, <4>1, <4>2, <4>4, <4>5, <4>6, InstallVersion
           DEF TransactionFails, Phase
    <3> QED
      BY <3>2, <3>3
  <2>20. CASE RequestFails
    BY <2>20 DEF RequestFails
  <2>21. CASE Crash
    BY <2>21 DEF Crash, Idle
  <2>22. CASE UNCHANGED vars
    BY <2>22 DEF vars, Present
  <2> HIDE DEF IInv
  <2> QED
    BY ONLY <1>2, <2>1, <2>2, <2>3, <2>4, <2>5, <2>6, <2>7, <2>8, <2>9,
       <2>10, <2>11, <2>12, <2>13, <2>14, <2>15, <2>16, <2>17, <2>18, <2>19,
       <2>20, <2>21, <2>22 DEF Next, OwnerStep
<1> QED
  BY <1>1, <1>2, PTL DEF Spec

(* Type correctness.                                                       *)
THEOREM TypeCorrect == Spec => []TypeOK
  BY Invariance, PTL DEF IInv

(* A torn projection always has a journal to recover from, wherever the    *)
(* writers before were interrupted (see TornIsRecoverable).                *)
THEOREM Recoverable == Spec => []TornIsRecoverable
<1>1. IInv => TornIsRecoverable
  BY DEF IInv, JournalInv, FaithfulInv, TornIsRecoverable
<1> QED
  BY <1>1, Invariance, PTL

(* The ledger moves only when the whole projection is on disk.             *)
THEOREM FilesBeforeLedger == Spec => LedgerFollowsFiles
<1>1. ASSUME IInv, [Next]_vars, active' # active
      PROVE  files = Projection[active']
  <2>1. CommitLedger
    BY <1>1 DEF Next, OwnerStep, vars, AcquireWriterLock, AbandonExtraction,
                PlanTransaction, RecoverJournal, RecoveryRefused,
                NothingToRecover, RecoveryDone, PlanStale, BeginTransaction,
                StageFile, InstallFile, WriteJournal, ValidateFiles,
                CleanupStage, CleanupJournal, CopyMissing, ReleaseWriterLock,
                TransactionFails, RequestFails, Crash
  <2> QED
    BY <1>1, <2>1 DEF CommitLedger, IInv, JournalInv, FinishInv, Uncommitted
<1>2. IInv /\ [Next]_vars => [active' # active => files = Projection[active']]_vars
  BY <1>1
<1> QED
  BY <1>2, Invariance, PTL DEF Spec, LedgerFollowsFiles

-----------------------------------------------------------------------------
(* The lock                                                                *)

(* A process that is in the loop has an attempt left; one that is dead has *)
(* not used up its lives.                                                  *)
LockCountInv ==
  \A p \in Process :
    /\ pc[p] \in {"rename", "read", "judge", "steal"} => attempt[p] < MaxAttempts
    /\ pc[p] = "dead" => incarnation[p] < MaxCrashes

(* Until the first takeover the lock names whoever is inside, and whoever  *)
(* has found his own name in it and is about to remove it.                 *)
OwnerInv ==
  /\ ~ directory.exists => directory.owner = NoOwner
  /\ ~ takenOver =>
       \A p \in Process : pc[p] \in {"holding", "unlink"} => directory.owner = Self(p)

LockIInv == LockTypeOK /\ LockCountInv /\ OwnerInv

-----------------------------------------------------------------------------

LEMMA LockInitHolds ==
  ASSUME MaxAttempts \in Nat \ {0}, MaxCrashes \in Nat, LockInit
  PROVE  LockIInv
<1>1. LockTypeOK
  <2>1. 0 \in 0 .. MaxAttempts /\ 0 \in 0 .. MaxCrashes
    OBVIOUS
  <2>2. QED
    BY <2>1, Zenon DEF LockInit, LockTypeOK, NoLock, Location, Incarnation
<1>2. LockCountInv
  BY DEF LockInit, LockCountInv
<1>3. OwnerInv
  BY DEF LockInit, OwnerInv, NoLock
<1>4. QED
  BY <1>1, <1>2, <1>3 DEF LockIInv

(* Every step of a process keeps the types and the counts.                 *)
LEMMA LockTypesKept ==
  ASSUME MaxAttempts \in Nat \ {0}, MaxCrashes \in Nat,
         LockTypeOK, LockCountInv, NEW p \in Process,
         Request(p) \/ Acquire(p) \/ Release(p) \/ Die(p) \/ Restart(p)
  PROVE  LockTypeOK' /\ LockCountInv'
<1> USE DEF LockTypeOK, LockCountInv, Goto, Location, Self, Owner, Incarnation, NoLock, LockedBy
<1>1. CASE Request(p)
  BY <1>1 DEF Request
<1>2. CASE RenameCandidate(p)
  BY <1>2 DEF RenameCandidate
<1>3. CASE RenameFails(p)
  BY <1>3 DEF RenameFails
<1>4. CASE ReadOwner(p)
  BY <1>4 DEF ReadOwner
<1>5. CASE Refuse(p)
  BY <1>5 DEF Refuse
<1>6. CASE JudgeStale(p)
  BY <1>6 DEF JudgeStale
<1>7. CASE MoveStaleLock(p)
  BY <1>7 DEF MoveStaleLock
<1>8. CASE Finish(p)
  BY <1>8 DEF Finish
<1>9. CASE CheckOwner(p)
  BY <1>9 DEF CheckOwner
<1>10. CASE RemoveOwnerFile(p)
  BY <1>10 DEF RemoveOwnerFile
<1>11. CASE RemoveDirectory(p)
  BY <1>11 DEF RemoveDirectory
<1>12. CASE Die(p)
  BY <1>12 DEF Die
<1>13. CASE Restart(p)
  BY <1>13 DEF Restart
<1>14. QED
  BY <1>1, <1>2, <1>3, <1>4, <1>5, <1>6, <1>7, <1>8, <1>9, <1>10, <1>11,
     <1>12, <1>13 DEF Acquire, Release

(* Every step keeps what the lock says.  Only the rename enters, and it    *)
(* needs a lock that names nobody; only its owner removes a name.          *)
LEMMA LockKept ==
  ASSUME NoOwner \notin Owner, LockTypeOK, OwnerInv, NEW p \in Process,
         Request(p) \/ Acquire(p) \/ Release(p) \/ Die(p) \/ Restart(p)
  PROVE  OwnerInv'
<1>o. \A q \in Process : Self(q) \in Owner
  BY DEF LockTypeOK, Self, Owner
<1>d. \A q \in Process \ {p} : Self(q) # Self(p)
  BY DEF Self
<1> USE <1>o, <1>d DEF LockTypeOK, OwnerInv, Goto, NoLock, LockedBy
<1>1. CASE Request(p)
  BY <1>1 DEF Request, Self
<1>2. CASE RenameCandidate(p)
  <2>1. ~ takenOver => \A q \in Process : pc[q] \notin {"holding", "unlink"}
    BY <1>2 DEF RenameCandidate, Replaceable
  <2>2. QED
    BY <1>2, <2>1 DEF RenameCandidate, Self
<1>3. CASE RenameFails(p)
  BY <1>3 DEF RenameFails, Self
<1>4. CASE ReadOwner(p)
  BY <1>4 DEF ReadOwner, Self
<1>5. CASE Refuse(p)
  BY <1>5 DEF Refuse, Self
<1>6. CASE JudgeStale(p)
  BY <1>6 DEF JudgeStale, Self
<1>7. CASE MoveStaleLock(p)
  <2>1. ~ takenOver' => /\ ~ takenOver /\ directory.owner = NoOwner
                        /\ \A q \in Process : pc[q] \notin {"holding", "unlink"}
    BY <1>7 DEF MoveStaleLock
  <2>2. QED
    BY <1>7, <2>1 DEF MoveStaleLock, Self
<1>8. CASE Finish(p)
  BY <1>8 DEF Finish, Self
<1>9. CASE CheckOwner(p)
  BY <1>9 DEF CheckOwner, Self
<1>10. CASE RemoveOwnerFile(p)
  <2>1. ~ takenOver =>
          \A q \in Process \ {p} : pc[q] \notin {"holding", "unlink"}
    BY <1>10 DEF RemoveOwnerFile
  <2>2. QED
    BY <1>10, <2>1 DEF RemoveOwnerFile, Self
<1>11. CASE RemoveDirectory(p)
  BY <1>11 DEF RemoveDirectory, Self
<1>12. CASE Die(p)
  BY <1>12 DEF Die, Self
<1>13. CASE Restart(p)
  BY <1>13 DEF Restart, Self
<1>14. QED
  BY <1>1, <1>2, <1>3, <1>4, <1>5, <1>6, <1>7, <1>8, <1>9, <1>10, <1>11,
     <1>12, <1>13 DEF Acquire, Release

LEMMA LockInvariance ==
  ASSUME MaxAttempts \in Nat \ {0}, MaxCrashes \in Nat, NoOwner \notin Owner
  PROVE  LockSpec => []LockIInv
<1>1. LockInit => LockIInv
  BY LockInitHolds
<1>2. LockIInv /\ [LockNext]_lockVars => LockIInv'
  <2> SUFFICES ASSUME LockIInv, [LockNext]_lockVars  PROVE  LockIInv'
    OBVIOUS
  <2>1. CASE UNCHANGED lockVars
    BY <2>1 DEF LockIInv, LockTypeOK, LockCountInv, OwnerInv, Self, lockVars
  <2>2. CASE LockNext
    BY <2>2, LockTypesKept, LockKept DEF LockIInv, LockNext
  <2>3. QED
    BY <2>1, <2>2
<1>3. QED
  BY <1>1, <1>2, PTL DEF LockSpec

-----------------------------------------------------------------------------

(* The steps of acquireWriterLock and of release keep the types; in        *)
(* particular no process tries more often than the loop allows.            *)
THEOREM LockTypes ==
  ASSUME MaxAttempts \in Nat \ {0}, MaxCrashes \in Nat, NoOwner \notin Owner
  PROVE  LockSpec => []LockTypeOK
<1>1. LockIInv => LockTypeOK
  BY DEF LockIInv
<1>2. QED
  BY <1>1, LockInvariance, PTL

(* However the system calls of any number of processes interleave and      *)
(* whoever dies, at most one writer is inside until a lock directory was   *)
(* moved away; with OneActiveWriter violated afterwards, the takeover of   *)
(* acquireWriterLock is the only thing that breaks the exclusion.          *)
THEOREM LockExcludes ==
  ASSUME MaxAttempts \in Nat \ {0}, MaxCrashes \in Nat, NoOwner \notin Owner
  PROVE  LockSpec => []ExclusiveUntilTakeover
<1>1. LockIInv => ExclusiveUntilTakeover
  BY DEF LockIInv, OwnerInv, ExclusiveUntilTakeover, OneActiveWriter, Inside, Self
<1>2. QED
  BY <1>1, LockInvariance, PTL

-----------------------------------------------------------------------------
(* The installation                                                        *)

(* The disk is what was promised.                                          *)
Honours(p) ==
  /\ clone = p.build /\ binding = p.build
  /\ stub /\ yaml.plugins
  /\ configured = p.profile

(* What an installation has written stands.                                *)
WrittenSoFar(i) ==
  /\ clone = i.build
  /\ i.at # "runtime" => configured = i.profile
  /\ i.at \in {"binding", "yaml", "ending"} => stub
  /\ i.at \in {"yaml", "ending"} => binding = i.build
  /\ i.at = "ending" => yaml.plugins

(* An installation knows what it installs while it writes.                 *)
AttemptInv(t) ==
  /\ install[t].at \in Writing \cup {"validating"} => install[t].profile # Nil
  /\ install[t].at \in Writing => install[t].build # Nil /\ install[t].yaml # Nil
  /\ install[t].at = "polling" => install[t].build # Nil
  /\ install[t].at \notin Writing \cup {"expecting"} => ~install[t].alone
  /\ install[t].at \in Writing /\ install[t].alone => WrittenSoFar(install[t])

(* What a server owes at its start it keeps until something disturbs it.   *)
ServerInv ==
  /\ server.phase = "down" => server.due = Nil
  /\ server.phase = "fetching" => server.build # Nil
  /\ server.phase = "fetching" /\ server.due # Nil =>
       server.build = server.due.build /\ Honours(server.due)
  /\ PromiseKept

ProvisionIInv ==
  /\ ProvisionTypeOK
  /\ promised # Nil => Honours(promised)
  /\ ServerInv
  /\ \A t \in Install : AttemptInv(t)

-----------------------------------------------------------------------------

LEMMA ProvisionInitHolds == ProvisionInit => ProvisionIInv
<1> SUFFICES ASSUME ProvisionInit PROVE ProvisionIInv
  OBVIOUS
<1>1. Resting \in InstallState /\ NoResume \in ResumeState /\ CardOff \in CardState
  BY DEF Resting, InstallState, InstallPhase, NoResume, ResumeState, CardOff, CardState
<1>2. clone \in Build /\ selected \in Profile
  BY DEF ProvisionInit
<1>3. /\ server \in ServerState /\ card \in CardState /\ yaml \in Yaml
      /\ binding \in Build \cup {Nil} /\ configured \in Profile \cup {Nil}
      /\ stub \in BOOLEAN /\ installed \in [Build -> {"absent", "whole", "damaged"}]
  <2>1. CASE Fresh
    <3>1. server \in ServerState
      BY <2>1 DEF Fresh, Down, ServerState
    <3>2. yaml \in Yaml
      BY <2>1 DEF Fresh, Yaml
    <3>3. QED
      BY <1>1, <2>1, <3>1, <3>2 DEF Fresh
  <2>2. CASE Running
    <3>1. server = [phase |-> "up", build |-> clone, profile |-> selected, why |-> "fine",
                    watching |-> TRUE, leaving |-> FALSE, due |-> Nil]
      BY <2>2 DEF Running, Down
    <3>4. server \in ServerState
      BY <1>2, <3>1 DEF ServerState
    <3>2. card \in CardState
      BY <2>2 DEF Running, CardState
    <3>3. yaml \in Yaml
      BY <2>2 DEF Running, Yaml
    <3>5. QED
      BY <1>2, <2>2, <3>4, <3>2, <3>3 DEF Running
  <2>3. QED
    BY <2>1, <2>2 DEF ProvisionInit
<1>4. ProvisionTypeOK
  <2>1. install \in [Install -> InstallState] /\ resume \in ResumeState
    BY <1>1 DEF ProvisionInit
  <2>2. note = FALSE /\ promised = Nil /\ changes = 0 /\ installFaults = 0
    BY DEF ProvisionInit
  <2>3. QED
    <3>1. 0 \in 0 .. MaxChanges /\ 0 \in 0 .. MaxInstallFaults
      BY ChangesAssumption
    <3>2. QED
      BY <1>2, <1>3, <2>1, <2>2, <3>1, Zenon DEF ProvisionTypeOK
<1>5. ServerInv
  BY DEF ProvisionInit, Fresh, Running, ServerInv, PromiseKept, Down
<1>6. ASSUME NEW t \in Install PROVE AttemptInv(t)
  BY <1>6 DEF ProvisionInit, AttemptInv, Resting, Writing
<1>7. QED
  BY <1>4, <1>5, <1>6 DEF ProvisionIInv, ProvisionInit

(* What a disturbance and a written file leave of the types.               *)
LEMMA DisturbTypes ==
  ASSUME NEW s \in ServerState, install \in [Install -> InstallState], Disturb(s, install)
  PROVE  /\ promised' \in Promise \cup {Nil}
         /\ server' \in ServerState
         /\ install' \in [Install -> InstallState]
BY DEF Disturb, ServerState, InstallState

LEMMA WroteTypes ==
  ASSUME server \in ServerState, install \in [Install -> InstallState],
         NEW t \in Install, NEW phase \in Writing, Wrote(t, phase)
  PROVE  /\ promised' \in Promise \cup {Nil}
         /\ server' \in ServerState
         /\ install' \in [Install -> InstallState]
<1>1. phase \in InstallPhase
  BY DEF InstallPhase
<1>2. promised' \in Promise \cup {Nil} /\ server' \in ServerState
  BY DEF Wrote, ServerState
<1>3. install' \in [Install -> InstallState]
  BY <1>1 DEF Wrote, InstallState
<1>4. QED
  BY <1>2, <1>3

LEMMA SettleTypes ==
  ASSUME install \in [Install -> InstallState], NEW t \in Install, Settle(t)
  PROVE  card' \in CardState /\ install' \in [Install -> InstallState]
BY DEF Settle, Settled, CardState, Resting, InstallState, InstallPhase

LEMMA AdvanceTypes ==
  ASSUME install \in [Install -> InstallState], NEW t \in Install,
         NEW phase \in InstallPhase, Advance(t, phase)
  PROVE  install' \in [Install -> InstallState]
BY DEF Advance, InstallState

(* The counters.                                                           *)
LEMMA CountTypes ==
  ASSUME changes \in 0 .. MaxChanges, installFaults \in 0 .. MaxInstallFaults,
         Quiet \/ Change \/ MachineFault
  PROVE  changes' \in 0 .. MaxChanges /\ installFaults' \in 0 .. MaxInstallFaults
BY ChangesAssumption DEF Quiet, Change, MachineFault

(* Every step of the server, of the user, of an installation and of the    *)
(* page keeps the types.                                                   *)
LEMMA ServerTypes ==
  ASSUME ProvisionTypeOK, ServerInv, ServerStep
  PROVE  ProvisionTypeOK'
<1> USE DEF ProvisionTypeOK, diskVars, cardVars
<1>0. changes' \in 0 .. MaxChanges /\ installFaults' \in 0 .. MaxInstallFaults
  BY CountTypes DEF ServerStep, StartRefused, StartInstalled, StartFetch, FetchDone, FetchFails,
     StopServer, NoticeUninstall, Remove, RemoveCut
<1>1. CASE StartRefused
  <2>1. \A why \in {"refused", "damaged"} : Refused(why) \in ServerState
    BY DEF Refused, Down, ServerState
  <2>2. QED
    BY <1>0, <1>1, <2>1 DEF StartRefused
<1>2. ASSUME NEW b \in Build, NEW due \in Promise \cup {Nil}, Load(b, due)
      PROVE  /\ server' \in ServerState
             /\ stub' \in BOOLEAN /\ note' \in BOOLEAN
             /\ binding' \in Build \cup {Nil}
  <2>1. CASE UninstallStands
    <3>1. server' = [phase |-> "up", build |-> Nil, profile |-> Nil,
                     why |-> "refused", watching |-> FALSE, leaving |-> FALSE, due |-> due]
      BY <1>2, <2>1 DEF Load, Refused, Down
    <3>2. QED
      BY <1>2, <2>1, <3>1 DEF Load, ServerState
  <2>2. CASE ~UninstallStands
    <3>1. PICK p \in {configured, Nil} :
            server' = [Down EXCEPT !.phase = "up", !.build = b, !.profile = p,
                                   !.watching = TRUE, !.due = due]
      BY <1>2, <2>2 DEF Load
    <3>2. server' = [phase |-> "up", build |-> b, profile |-> p, why |-> "fine",
                     watching |-> TRUE, leaving |-> FALSE, due |-> due]
      BY <3>1 DEF Down
    <3>3. QED
      BY <1>2, <2>2, <3>2 DEF Load, ServerState
  <2>3. QED
    BY <2>1, <2>2
<1>3. CASE StartInstalled
  BY <1>0, <1>2, <1>3 DEF StartInstalled, Loadable, BindingResolves
<1>4. CASE StartFetch
  <2>1. server' \in ServerState
    BY <1>4 DEF StartFetch, Loadable, BindingResolves, Down, ServerState
  <2>2. QED
    BY <1>0, <1>4, <2>1 DEF StartFetch
<1>5. CASE FetchDone
  <2>1. server.build \in Build /\ server.due \in Promise \cup {Nil}
    BY <1>5 DEF FetchDone, ServerInv, ServerState
  <2>2. QED
    BY <1>0, <1>2, <1>5, <2>1 DEF FetchDone
<1>6. CASE FetchFails
  <2>1. server' \in ServerState
    BY <1>6 DEF FetchFails, Refused, Down, ServerState
  <2>2. QED
    BY <1>0, <1>6, <2>1 DEF FetchFails
<1>7. CASE StopServer
  <2>1. server' \in ServerState
    BY <1>7 DEF StopServer, Down, ServerState
  <2>2. QED
    BY <1>0, <1>7, <2>1 DEF StopServer
<1>8. CASE NoticeUninstall
  <2>1. server' \in ServerState
    BY <1>8 DEF NoticeUninstall, ServerState
  <2>2. QED
    BY <1>0, <1>8, <2>1 DEF NoticeUninstall
<1>9. [server EXCEPT !.leaving = FALSE] \in ServerState /\ Down \in ServerState
  BY DEF ServerState, Down
<1>10. CASE Remove
  BY <1>0, <1>9, <1>10, DisturbTypes DEF Remove
<1>11. CASE RemoveCut
  <2>1. PICK s \in {Down, [server EXCEPT !.leaving = FALSE]} : Disturb(s, install)
    BY <1>11 DEF RemoveCut
  <2>2. QED
    BY <1>0, <1>9, <1>11, <2>1, DisturbTypes DEF RemoveCut
<1>12. QED
  BY <1>1, <1>3, <1>4, <1>5, <1>6, <1>7, <1>8, <1>10, <1>11 DEF ServerStep

LEMMA UserTypes ==
  ASSUME ProvisionTypeOK, UserStep
  PROVE  ProvisionTypeOK'
<1> USE DEF ProvisionTypeOK, diskVars
<1>0. changes' \in 0 .. MaxChanges /\ installFaults' \in 0 .. MaxInstallFaults
  BY CountTypes DEF UserStep, ChangeClone, EditYaml, Select, SwitchProfile, SwitchOff, Reload,
     SwitchOn
<1>1. CASE ChangeClone
  BY <1>0, <1>1, DisturbTypes DEF ChangeClone
<1>2. CASE EditYaml
  <2>1. yaml' \in Yaml
    <3>1. yaml.edits + 1 \in Nat
      BY DEF Yaml
    <3>2. QED
      BY <1>2, <3>1 DEF EditYaml, Yaml
  <2>2. QED
    BY <1>0, <1>2, <2>1, DisturbTypes DEF EditYaml
<1>3. CASE Select
  BY <1>0, <1>3 DEF Select
<1>4. CASE SwitchProfile
  <2>1. PICK p \in {selected, Nil} : Disturb([server EXCEPT !.profile = p], install)
    BY <1>4 DEF SwitchProfile
  <2>2. [server EXCEPT !.profile = p] \in ServerState
    BY DEF ServerState
  <2>3. QED
    BY <1>0, <1>4, <2>1, <2>2, DisturbTypes DEF SwitchProfile
<1>5. CASE SwitchOff
  BY <1>0, <1>5 DEF SwitchOff, CardOff, CardState
<1>6. CASE Reload
  <2>1. install' \in [Install -> InstallState]
    BY <1>6 DEF Reload, Resting, InstallState, InstallPhase
  <2>2. card' \in CardState /\ resume' \in ResumeState
    BY <1>6 DEF Reload, CardState, ResumeState, NoResume
  <2>3. QED
    BY <1>0, <1>6, <2>1, <2>2 DEF Reload
<1>7. ASSUME NEW t \in Install, SwitchOn(t) PROVE ProvisionTypeOK'
  <2>1. install' \in [Install -> InstallState]
    BY <1>7 DEF SwitchOn, Resting, InstallState, InstallPhase
  <2>2. card' \in CardState
    BY <1>7 DEF SwitchOn, CardState
  <2>3. QED
    BY <1>0, <1>7, <2>1, <2>2 DEF SwitchOn
<1>8. QED
  BY <1>1, <1>2, <1>3, <1>4, <1>5, <1>6, <1>7 DEF UserStep

LEMMA InstallTypes ==
  ASSUME ProvisionTypeOK, NEW t \in Install, AttemptInv(t), InstallStep(t)
  PROVE  ProvisionTypeOK'
<1> USE DEF ProvisionTypeOK, diskVars
<1>0. changes' \in 0 .. MaxChanges /\ installFaults' \in 0 .. MaxInstallFaults
  BY CountTypes DEF InstallStep, InspectFirst, ReadInput, Validate, WriteRuntime, CheckYaml,
     WriteStub, WriteBinding, WriteYaml, Complete, FailInstall, PollBegins, PollEnds
<1>a. /\ install[t].build \in Build \cup {Nil} /\ install[t].profile \in Profile \cup {Nil}
      /\ install[t].yaml \in Yaml \cup {Nil} /\ install[t].alone \in BOOLEAN
  BY DEF InstallState
<1>b. Writing \subseteq InstallPhase
  BY DEF InstallPhase
<1>1. CASE InspectFirst(t)
  <2>1. "input" \in InstallPhase
    BY DEF InstallPhase
  <2>2. QED
    BY <1>0, <1>1, <2>1, SettleTypes, AdvanceTypes DEF InspectFirst
<1>2. CASE ReadInput(t)
  <2>1. [install[t] EXCEPT !.at = "validating", !.profile = selected] \in InstallState
    BY DEF InstallState, InstallPhase
  <2>3. install' \in [Install -> InstallState]
    BY <1>2, <2>1 DEF ReadInput
  <2>2. QED
    BY <1>0, <1>2, <2>3 DEF ReadInput
<1>3. CASE Validate(t)
  <2>1. CASE Settle(t)
    BY <1>0, <1>3, <2>1, SettleTypes DEF Validate
  <2>2. CASE ~Settle(t)
    <3>1. install' \in [Install -> InstallState]
      BY <1>3, <2>2 DEF Validate, InstallState, InstallPhase, Writing
    <3>2. QED
      BY <1>0, <1>3, <2>2, <3>1 DEF Validate
  <2>3. QED
    BY <2>1, <2>2
<1>4. CASE WriteRuntime(t)
  <2>1. "checking" \in Writing
    BY DEF Writing
  <2>2. QED
    BY <1>0, <1>a, <1>4, <2>1, WroteTypes DEF WriteRuntime
<1>5. CASE CheckYaml(t)
  <2>1. "stub" \in InstallPhase
    BY DEF InstallPhase, Writing
  <2>2. QED
    BY <1>0, <1>5, <2>1, AdvanceTypes DEF CheckYaml
<1>6. CASE WriteStub(t)
  <2>1. "binding" \in Writing
    BY DEF Writing
  <2>2. QED
    BY <1>0, <1>6, <2>1, WroteTypes DEF WriteStub
<1>7. CASE WriteBinding(t)
  <2>1. "yaml" \in Writing
    BY DEF Writing
  <2>2. QED
    BY <1>0, <1>a, <1>7, <2>1, WroteTypes DEF WriteBinding
<1>8. CASE WriteYaml(t)
  <2>1. "ending" \in Writing
    BY DEF Writing
  <2>2. yaml' \in Yaml
    BY <1>8, <1>a DEF WriteYaml, AttemptInv, Writing, Yaml
  <2>3. QED
    BY <1>0, <1>8, <2>1, <2>2, WroteTypes DEF WriteYaml
<1>9. CASE Complete(t)
  <2>1. "expecting" \in InstallPhase
    BY DEF InstallPhase
  <2>2. install' \in [Install -> InstallState]
    BY <1>9, <2>1, AdvanceTypes DEF Complete
  <2>3. card' \in CardState
    BY <1>9 DEF Complete, CardState
  <2>4. promised' \in Promise \cup {Nil}
    BY <1>9, <1>a DEF Complete, Promise, AttemptInv, Writing
  <2>5. QED
    BY <1>0, <1>9, <2>2, <2>3, <2>4 DEF Complete
<1>10. CASE FailInstall(t)
  <2>1. install' \in [Install -> InstallState]
    BY <1>10 DEF FailInstall, Resting, InstallState, InstallPhase
  <2>2. card' \in CardState
    BY <1>10 DEF FailInstall, CardOff, CardState
  <2>3. QED
    BY <1>0, <1>10, <2>1, <2>2 DEF FailInstall
<1>11. CASE PollBegins(t)
  <2>1. install' \in [Install -> InstallState]
    BY <1>11 DEF PollBegins, Resting, InstallState, InstallPhase
  <2>2. QED
    BY <1>0, <1>11, <2>1 DEF PollBegins
<1>12. CASE PollEnds(t)
  <2>1. CASE Settle(t)
    BY <1>0, <1>12, <2>1, SettleTypes DEF PollEnds
  <2>2. CASE ~Settle(t)
    <3>1. install' \in [Install -> InstallState]
      <4>1. Resting \in InstallState
        BY DEF Resting, InstallState, InstallPhase
      <4>2. QED
        BY <1>12, <2>2, <4>1 DEF PollEnds, Settle, Ready
    <3>2. QED
      BY <1>0, <1>12, <2>2, <3>1 DEF PollEnds
  <2>3. QED
    BY <2>1, <2>2
<1>13. QED
  BY <1>1, <1>2, <1>3, <1>4, <1>5, <1>6, <1>7, <1>8, <1>9, <1>10, <1>11, <1>12
     DEF InstallStep

LEMMA ResumeTypes ==
  ASSUME ProvisionTypeOK, ResumeStep
  PROVE  ProvisionTypeOK'
<1> USE DEF ProvisionTypeOK, diskVars
<1>0. changes' \in 0 .. MaxChanges /\ installFaults' \in 0 .. MaxInstallFaults
  BY CountTypes DEF ResumeStep, ResumeReady, ResumeNotReady, ResumePollBegins, ResumePollEnds
<1>1. Settled \in CardState /\ NoResume \in ResumeState
  BY DEF Settled, CardState, NoResume, ResumeState
<1>2. CASE ResumeReady
  BY <1>0, <1>1, <1>2 DEF ResumeReady
<1>3. CASE ResumeNotReady
  <2>1. card' \in CardState
    BY <1>3 DEF ResumeNotReady, CardState
  <2>2. resume' \in ResumeState
    BY <1>1, <1>3 DEF ResumeNotReady, ResumeState
  <2>3. QED
    BY <1>0, <1>3, <2>1, <2>2 DEF ResumeNotReady
<1>4. CASE ResumePollBegins
  <2>1. resume' \in ResumeState
    BY <1>1, <1>4 DEF ResumePollBegins, ResumeState
  <2>2. QED
    BY <1>0, <1>4, <2>1 DEF ResumePollBegins
<1>5. CASE ResumePollEnds
  BY <1>0, <1>1, <1>5 DEF ResumePollEnds
<1>6. QED
  BY <1>2, <1>3, <1>4, <1>5 DEF ResumeStep

-----------------------------------------------------------------------------

(* What the invariant says of a promise, of the server and of what the     *)
(* installations wrote only reads five files.                              *)
PlacedFiles == <<clone, stub, binding, yaml, configured>>

LEMMA FilesDecide ==
  ASSUME UNCHANGED PlacedFiles
  PROVE  /\ \A p : Honours(p)' <=> Honours(p')
         /\ UNCHANGED install => \A t \in Install : AttemptInv(t)' <=> AttemptInv(t)
BY DEF PlacedFiles, Honours, AttemptInv, WrittenSoFar

(* Nothing is promised or under way after a disturbance.                   *)
LEMMA DisturbedHolds ==
  ASSUME ProvisionTypeOK, \A t \in Install : AttemptInv(t),
         NEW s \in ServerState, Disturb(s, install),
         s.phase = "fetching" => s.build # Nil
  PROVE  promised' = Nil /\ ServerInv' /\ \A t \in Install : AttemptInv(t)'
<1>1. /\ server'.due = Nil /\ promised' = Nil
      /\ server'.phase = s.phase /\ server'.build = s.build
  BY DEF Disturb, ServerState
<1>2. ServerInv'
  BY <1>1 DEF ServerInv, PromiseKept
<1>3. ASSUME NEW t \in Install PROVE AttemptInv(t)'
  <2>1. /\ install'[t].at = install[t].at /\ install'[t].build = install[t].build
        /\ install'[t].profile = install[t].profile /\ install'[t].yaml = install[t].yaml
        /\ install'[t].alone = FALSE
    BY DEF Disturb, ProvisionTypeOK, InstallState
  <2>2. QED
    BY <2>1 DEF AttemptInv
<1>4. QED
  BY <1>1, <1>2, <1>3

(* A file that one installation writes disturbs the others.                *)
LEMMA WroteHolds ==
  ASSUME ProvisionTypeOK, ServerInv, \A u \in Install : AttemptInv(u),
         NEW t \in Install, NEW phase \in Writing, Wrote(t, phase)
  PROVE  /\ promised' = Nil /\ ServerInv'
         /\ \A u \in Install \ {t} : AttemptInv(u)'
         /\ install'[t] = [install[t] EXCEPT !.at = phase]
<1>1. /\ server'.due = Nil /\ promised' = Nil
      /\ server'.phase = server.phase /\ server'.build = server.build
  BY DEF Wrote, ServerState, ProvisionTypeOK
<1>2. ServerInv'
  BY <1>1 DEF ServerInv, PromiseKept
<1>3. ASSUME NEW u \in Install \ {t} PROVE AttemptInv(u)'
  <2>1. /\ install'[u].at = install[u].at /\ install'[u].build = install[u].build
        /\ install'[u].profile = install[u].profile /\ install'[u].yaml = install[u].yaml
        /\ install'[u].alone = FALSE
    BY DEF Wrote, ProvisionTypeOK, InstallState
  <2>2. QED
    BY <2>1 DEF AttemptInv
<1>4. install'[t] = [install[t] EXCEPT !.at = phase]
  BY DEF Wrote
<1>5. QED
  BY <1>1, <1>2, <1>3, <1>4

-----------------------------------------------------------------------------

LEMMA ServerHolds ==
  ASSUME ProvisionIInv, ServerStep
  PROVE  /\ promised' # Nil => Honours(promised)'
         /\ ServerInv'
         /\ \A t \in Install : AttemptInv(t)'
<1> USE NothingAssumption DEF ProvisionIInv, ServerInv, PromiseKept
<1> USE DEF Down, Refused
<1>t. ProvisionTypeOK
  OBVIOUS
<1>1. ASSUME UNCHANGED <<PlacedFiles, promised, install>>
      PROVE  /\ promised' # Nil => Honours(promised)'
             /\ \A t \in Install : AttemptInv(t)'
  BY <1>1 DEF PlacedFiles, Honours, AttemptInv, WrittenSoFar
<1>2. promised # Nil => promised.build # Nil /\ Loadable
  BY <1>t DEF ProvisionTypeOK, Promise, Honours, Loadable, BindingResolves
<1>3. CASE StartRefused
  <2>1. UNCHANGED <<PlacedFiles, promised, install>>
    BY <1>3 DEF StartRefused, diskVars, cardVars, PlacedFiles
  <2>2. ServerInv'
    BY <1>2, <1>3 DEF StartRefused
  <2>3. QED
    BY <1>1, <2>1, <2>2
<1>4. CASE StartInstalled
  <2>1. ~UninstallStands
    BY <1>4 DEF StartInstalled, UninstallStands, Loadable, BindingResolves
  <2>2. UNCHANGED <<PlacedFiles, promised, install>>
    BY <1>4, <2>1 DEF StartInstalled, Load, cardVars, PlacedFiles
  <2>3. PICK p \in {configured, Nil} :
          server' = [Down EXCEPT !.phase = "up", !.build = binding, !.profile = p,
                                 !.watching = TRUE, !.due = promised]
    BY <1>4, <2>1 DEF StartInstalled, Load
  <2>4. ServerInv'
    BY <2>3 DEF Honours
  <2>5. QED
    BY <1>1, <2>2, <2>4
<1>5. CASE StartFetch
  <2>1. UNCHANGED <<PlacedFiles, promised, install>>
    BY <1>5 DEF StartFetch, diskVars, cardVars, PlacedFiles
  <2>2. server' = [Down EXCEPT !.phase = "fetching", !.build = binding, !.due = promised]
        /\ binding # Nil
    BY <1>5 DEF StartFetch, Loadable, BindingResolves
  <2>3. ServerInv'
    BY <2>1, <2>2 DEF Honours, PlacedFiles
  <2>4. QED
    BY <1>1, <2>1, <2>3
<1>6. CASE FetchDone
  <2>1. CASE ~UninstallStands
    <3>1. UNCHANGED <<PlacedFiles, promised, install>>
      BY <1>6, <2>1 DEF FetchDone, Load, cardVars, PlacedFiles
    <3>2. PICK p \in {configured, Nil} :
            server' = [Down EXCEPT !.phase = "up", !.build = server.build, !.profile = p,
                                   !.watching = TRUE, !.due = server.due]
      BY <1>6, <2>1 DEF FetchDone, Load
    <3>3. ServerInv'
      BY <1>6, <3>2 DEF FetchDone, Honours
    <3>4. QED
      BY <1>1, <3>1, <3>3
  <2>2. CASE UninstallStands
    <3>1. promised = Nil
      BY <1>t, <2>2 DEF UninstallStands, Honours, ProvisionTypeOK, Promise
    <3>2. server.due = Nil
      BY <1>t, <1>6, <2>2 DEF FetchDone, UninstallStands, Honours, ProvisionTypeOK, Promise,
         ServerState
    <3>3. \A t \in Install : ~(install[t].at \in Writing /\ install[t].alone)
      BY <2>2 DEF UninstallStands, AttemptInv, WrittenSoFar
    <3>4. server' = [Down EXCEPT !.phase = "up", !.why = "refused", !.due = Nil]
          /\ UNCHANGED <<promised, install>>
      BY <1>6, <2>2, <3>1, <3>2 DEF FetchDone, Load, cardVars
    <3>5. ServerInv'
      BY <3>4
    <3>6. QED
      BY <3>1, <3>3, <3>4, <3>5 DEF AttemptInv
  <2>3. QED
    BY <2>1, <2>2
<1>7. CASE FetchFails
  <2>1. UNCHANGED <<PlacedFiles, promised, install>>
    BY <1>7 DEF FetchFails, diskVars, cardVars, PlacedFiles
  <2>2. ServerInv'
    BY <1>7 DEF FetchFails
  <2>3. QED
    BY <1>1, <2>1, <2>2
<1>8. CASE StopServer
  <2>1. UNCHANGED <<PlacedFiles, promised, install>>
    BY <1>8 DEF StopServer, diskVars, cardVars, PlacedFiles
  <2>2. ServerInv'
    BY <1>8 DEF StopServer
  <2>3. QED
    BY <1>1, <2>1, <2>2
<1>9. CASE NoticeUninstall
  <2>1. UNCHANGED <<PlacedFiles, promised, install>>
    BY <1>9 DEF NoticeUninstall, diskVars, cardVars, PlacedFiles
  <2>2. /\ server'.phase = server.phase /\ server'.build = server.build
        /\ server'.why = server.why /\ server'.due = server.due /\ server'.profile = Nil
    BY <1>t, <1>9 DEF NoticeUninstall, ProvisionTypeOK, ServerState
  <2>3. ServerInv'
    BY <2>1, <2>2 DEF Honours, PlacedFiles
  <2>4. QED
    BY <1>1, <2>1, <2>3
<1>10. \A s \in {Down, [server EXCEPT !.leaving = FALSE]} :
         s \in ServerState /\ (s.phase = "fetching" => s.build # Nil)
  <2>1. Down \in ServerState /\ Down.phase # "fetching"
    BY DEF ServerState
  <2>2. [server EXCEPT !.leaving = FALSE] \in ServerState
    BY <1>t DEF ProvisionTypeOK, ServerState
  <2>3. [server EXCEPT !.leaving = FALSE].phase = server.phase
        /\ [server EXCEPT !.leaving = FALSE].build = server.build
    BY <1>t DEF ProvisionTypeOK, ServerState
  <2>4. QED
    BY <2>1, <2>2, <2>3
<1>11. ASSUME NEW s \in {Down, [server EXCEPT !.leaving = FALSE]}, Disturb(s, install)
       PROVE  promised' = Nil /\ ServerInv' /\ \A t \in Install : AttemptInv(t)'
  BY <1>t, <1>10, <1>11, DisturbedHolds
<1>12. CASE Remove \/ RemoveCut
  BY <1>11, <1>12 DEF Remove, RemoveCut
<1>13. QED
  BY <1>3, <1>4, <1>5, <1>6, <1>7, <1>8, <1>9, <1>12 DEF ServerStep

LEMMA UserHolds ==
  ASSUME ProvisionIInv, UserStep
  PROVE  /\ promised' # Nil => Honours(promised)'
         /\ ServerInv'
         /\ \A t \in Install : AttemptInv(t)'
<1> USE NothingAssumption DEF ProvisionIInv
<1>t. ProvisionTypeOK
  OBVIOUS
<1>1. ASSUME UNCHANGED <<PlacedFiles, promised, server>>
      PROVE  (promised' # Nil => Honours(promised)') /\ ServerInv'
  BY <1>1 DEF PlacedFiles, Honours, ServerInv, PromiseKept
<1>2. CASE ChangeClone \/ EditYaml
  <2>1. server.phase = "fetching" => server.build # Nil
    BY DEF ServerInv
  <2>2. QED
    BY <1>t, <1>2, <2>1, DisturbedHolds DEF ChangeClone, EditYaml, ProvisionTypeOK
<1>3. CASE Select \/ SwitchOff
  <2>1. UNCHANGED <<PlacedFiles, promised, server, install>>
    BY <1>3 DEF Select, SwitchOff, diskVars, PlacedFiles
  <2>2. \A t \in Install : AttemptInv(t)'
    BY <2>1 DEF PlacedFiles, AttemptInv, WrittenSoFar
  <2>3. QED
    BY <1>1, <2>1, <2>2
<1>4. CASE SwitchProfile
  <2>1. PICK p \in {selected, Nil} : Disturb([server EXCEPT !.profile = p], install)
    BY <1>4 DEF SwitchProfile
  <2>2. /\ [server EXCEPT !.profile = p] \in ServerState
        /\ [server EXCEPT !.profile = p].phase = server.phase
        /\ [server EXCEPT !.profile = p].build = server.build
    BY <1>t DEF ProvisionTypeOK, ServerState
  <2>3. server.phase = "fetching" => server.build # Nil
    BY DEF ServerInv
  <2>4. QED
    BY <1>t, <2>1, <2>2, <2>3, DisturbedHolds
<1>5. CASE Reload
  <2>1. UNCHANGED <<PlacedFiles, promised, server>>
    BY <1>5 DEF Reload, diskVars, PlacedFiles
  <2>2. \A t \in Install : AttemptInv(t)'
    BY <1>5 DEF Reload, Resting, AttemptInv, Writing
  <2>3. QED
    BY <1>1, <2>1, <2>2
<1>6. ASSUME NEW t \in Install, SwitchOn(t)
      PROVE  UNCHANGED <<PlacedFiles, promised, server>> /\ \A u \in Install : AttemptInv(u)'
  <2>1. UNCHANGED <<PlacedFiles, promised, server>>
    BY <1>6 DEF SwitchOn, diskVars, PlacedFiles
  <2>2. ASSUME NEW u \in Install \ {t} PROVE AttemptInv(u)'
    <3>1. install'[u] = install[u]
      BY <1>t, <1>6 DEF SwitchOn, ProvisionTypeOK
    <3>2. QED
      BY <2>1, <3>1 DEF PlacedFiles, AttemptInv, WrittenSoFar
  <2>3. AttemptInv(t)'
    <3>1. install'[t] = [Resting EXCEPT !.at = "inspecting"]
      BY <1>t, <1>6 DEF SwitchOn, ProvisionTypeOK
    <3>2. QED
      BY <3>1 DEF Resting, AttemptInv, Writing
  <2>4. QED
    BY <2>1, <2>2, <2>3
<1>7. CASE \E t \in Install : SwitchOn(t)
  BY <1>1, <1>6, <1>7
<1>8. QED
  BY <1>2, <1>3, <1>4, <1>5, <1>7 DEF UserStep

(* The installation t takes a step; nothing else changes but what it       *)
(* writes.                                                                 *)
LEMMA InstallHolds ==
  ASSUME ProvisionIInv, NEW t \in Install, InstallStep(t)
  PROVE  /\ promised' # Nil => Honours(promised)'
         /\ ServerInv'
         /\ \A u \in Install : AttemptInv(u)'
<1> USE NothingAssumption DEF ProvisionIInv
<1>t. ProvisionTypeOK
  OBVIOUS
<1>i. /\ install[t].build \in Build \cup {Nil} /\ install[t].profile \in Profile \cup {Nil}
      /\ install[t].yaml \in Yaml \cup {Nil} /\ install[t].alone \in BOOLEAN
      /\ install[t] \in InstallState /\ DOMAIN install = Install
  BY <1>t DEF ProvisionTypeOK, InstallState
<1>1. ASSUME UNCHANGED <<PlacedFiles, promised, server>>
      PROVE  (promised' # Nil => Honours(promised)') /\ ServerInv'
  BY <1>1 DEF PlacedFiles, Honours, ServerInv, PromiseKept
<1>2. ASSUME NEW i, install' = [install EXCEPT ![t] = i], UNCHANGED PlacedFiles, AttemptInv(t)'
      PROVE  \A u \in Install : AttemptInv(u)'
  <2>1. ASSUME NEW u \in Install \ {t} PROVE AttemptInv(u)'
    BY <1>i, <1>2 DEF PlacedFiles, AttemptInv, WrittenSoFar
  <2>2. QED
    BY <1>2, <2>1
<1>3. ASSUME install' = [install EXCEPT ![t] = Resting] PROVE AttemptInv(t)'
  BY <1>i, <1>3 DEF Resting, AttemptInv, Writing
<1>4. ASSUME NEW phase \in {"input", "validating"}, Advance(t, phase),
             phase = "input" \/ install[t].profile # Nil,
             install[t].at \notin Writing \cup {"expecting"}
      PROVE  AttemptInv(t)'
  BY <1>i, <1>4 DEF Advance, AttemptInv, InstallState, Writing
<1>5. CASE InspectFirst(t)
  <2>1. UNCHANGED <<PlacedFiles, promised, server>>
    BY <1>5 DEF InspectFirst, diskVars, PlacedFiles
  <2>2. AttemptInv(t)'
    BY <1>3, <1>4, <1>5 DEF InspectFirst, Settle, Writing
  <2>3. QED
    BY <1>1, <1>2, <1>5, <2>1, <2>2 DEF InspectFirst, Settle, Advance
<1>6. CASE ReadInput(t)
  <2>1. UNCHANGED <<PlacedFiles, promised, server>>
    BY <1>6 DEF ReadInput, diskVars, PlacedFiles
  <2>2. AttemptInv(t)'
    BY <1>t, <1>i, <1>6 DEF ReadInput, AttemptInv, InstallState, Writing, ProvisionTypeOK
  <2>3. \A u \in Install \ {t} : install'[u] = install[u]
    BY <1>i, <1>6 DEF ReadInput
  <2>4. QED
    BY <1>1, <2>1, <2>2, <2>3 DEF PlacedFiles, AttemptInv, WrittenSoFar
<1>7. CASE Validate(t)
  <2>1. UNCHANGED <<PlacedFiles, promised, server>>
    BY <1>7 DEF Validate, diskVars, PlacedFiles
  <2>2. AttemptInv(t)'
    <3>1. CASE Settle(t)
      BY <1>3, <3>1 DEF Settle
    <3>2. CASE ~Settle(t)
      <4>1. /\ install'[t] = [install[t] EXCEPT !.at = "runtime", !.build = clone,
                                               !.yaml = yaml, !.alone = TRUE]
            /\ install[t].at = "validating" /\ clone # Nil
        BY <1>i, <1>7, <3>2 DEF Validate
      <4>2. yaml # Nil
        BY <1>t DEF ProvisionTypeOK, Yaml
      <4>3. QED
        BY <1>i, <2>1, <4>1, <4>2 DEF AttemptInv, InstallState, Writing, WrittenSoFar, PlacedFiles
    <3>3. QED
      BY <3>1, <3>2
  <2>3. \A u \in Install \ {t} : install'[u] = install[u]
    BY <1>i, <1>7 DEF Validate, Settle
  <2>4. QED
    BY <1>1, <2>1, <2>2, <2>3 DEF PlacedFiles, AttemptInv, WrittenSoFar
<1>8. ASSUME NEW phase \in Writing, Wrote(t, phase), AttemptInv(t)'
      PROVE  /\ promised' = Nil /\ ServerInv'
             /\ \A u \in Install : AttemptInv(u)'
  BY <1>t, <1>8, WroteHolds
<1>9. ASSUME NEW phase \in Writing, Wrote(t, phase)
      PROVE  /\ install'[t].at = phase /\ install'[t].build = install[t].build
             /\ install'[t].profile = install[t].profile /\ install'[t].yaml = install[t].yaml
             /\ install'[t].alone = install[t].alone
  <2>1. install'[t] = [install[t] EXCEPT !.at = phase]
    BY <1>i, <1>9 DEF Wrote
  <2>2. QED
    BY <1>i, <2>1 DEF InstallState
<1>10. CASE WriteRuntime(t)
  <2>1. "checking" \in Writing
    BY DEF Writing
  <2>2. AttemptInv(t)'
    BY <1>9, <1>10, <2>1 DEF WriteRuntime, AttemptInv, WrittenSoFar, Writing
  <2>3. QED
    BY <1>8, <1>10, <2>1, <2>2 DEF WriteRuntime
<1>11. CASE CheckYaml(t)
  <2>1. UNCHANGED <<PlacedFiles, promised, server>>
    BY <1>11 DEF CheckYaml, diskVars, PlacedFiles
  <2>2. /\ install'[t].at = "stub" /\ install'[t].build = install[t].build
        /\ install'[t].profile = install[t].profile /\ install'[t].yaml = install[t].yaml
        /\ install'[t].alone = install[t].alone
    BY <1>i, <1>11 DEF CheckYaml, Advance, InstallState
  <2>3. AttemptInv(t)'
    BY <1>11, <2>1, <2>2 DEF CheckYaml, AttemptInv, WrittenSoFar, Writing, PlacedFiles
  <2>4. \A u \in Install \ {t} : install'[u] = install[u]
    BY <1>i, <1>11 DEF CheckYaml, Advance
  <2>5. QED
    BY <1>1, <2>1, <2>3, <2>4 DEF PlacedFiles, AttemptInv, WrittenSoFar
<1>12. CASE WriteStub(t)
  <2>1. "binding" \in Writing
    BY DEF Writing
  <2>2. AttemptInv(t)'
    BY <1>9, <1>12, <2>1 DEF WriteStub, AttemptInv, WrittenSoFar, Writing
  <2>3. QED
    BY <1>8, <1>12, <2>1, <2>2 DEF WriteStub
<1>13. CASE WriteBinding(t)
  <2>1. "yaml" \in Writing
    BY DEF Writing
  <2>2. AttemptInv(t)'
    BY <1>9, <1>13, <2>1 DEF WriteBinding, AttemptInv, WrittenSoFar, Writing
  <2>3. QED
    BY <1>8, <1>13, <2>1, <2>2 DEF WriteBinding
<1>14. CASE WriteYaml(t)
  <2>1. "ending" \in Writing
    BY DEF Writing
  <2>2. yaml'.plugins
    <3>1. install[t].yaml \in Yaml
      BY <1>i, <1>14 DEF WriteYaml, AttemptInv, Writing
    <3>2. QED
      BY <1>14, <3>1 DEF WriteYaml, Yaml
  <2>3. AttemptInv(t)'
    BY <1>9, <1>14, <2>1, <2>2 DEF WriteYaml, AttemptInv, WrittenSoFar, Writing
  <2>4. QED
    BY <1>8, <1>14, <2>1, <2>3 DEF WriteYaml
<1>15. CASE Complete(t)
  <2>1. UNCHANGED <<PlacedFiles, server>>
    BY <1>15 DEF Complete, diskVars, PlacedFiles
  <2>2. promised' # Nil => Honours(promised)'
    <3>1. CASE install[t].alone
      <4>1. promised' = [build |-> install[t].build, profile |-> install[t].profile]
        BY <1>15, <3>1 DEF Complete
      <4>2. WrittenSoFar(install[t]) /\ install[t].at = "ending"
        BY <1>15, <3>1 DEF Complete, AttemptInv, Writing
      <4>3. QED
        BY <2>1, <4>1, <4>2 DEF Honours, WrittenSoFar, PlacedFiles
    <3>2. CASE ~install[t].alone
      BY <1>15, <2>1, <3>2 DEF Complete, Honours, PlacedFiles
    <3>3. QED
      BY <3>1, <3>2
  <2>3. ServerInv'
    BY <2>1 DEF PlacedFiles, Honours, ServerInv, PromiseKept
  <2>4. AttemptInv(t)'
    BY <1>i, <1>15 DEF Complete, Advance, AttemptInv, InstallState, Writing
  <2>5. \A u \in Install \ {t} : install'[u] = install[u]
    BY <1>i, <1>15 DEF Complete, Advance
  <2>6. QED
    BY <2>1, <2>2, <2>3, <2>4, <2>5 DEF PlacedFiles, AttemptInv, WrittenSoFar
<1>16. CASE FailInstall(t)
  <2>1. UNCHANGED <<PlacedFiles, promised, server>>
    BY <1>16 DEF FailInstall, diskVars, PlacedFiles
  <2>2. QED
    BY <1>1, <1>2, <1>3, <1>16, <2>1 DEF FailInstall
<1>17. CASE PollBegins(t)
  <2>1. UNCHANGED <<PlacedFiles, promised, server>>
    BY <1>17 DEF PollBegins, diskVars, PlacedFiles
  <2>2. AttemptInv(t)'
    BY <1>i, <1>17 DEF PollBegins, Resting, AttemptInv, Writing
  <2>3. QED
    BY <1>1, <1>2, <1>17, <2>1, <2>2 DEF PollBegins
<1>18. CASE PollEnds(t)
  <2>1. UNCHANGED <<PlacedFiles, promised, server>>
    BY <1>18 DEF PollEnds, diskVars, PlacedFiles
  <2>2. QED
    BY <1>1, <1>2, <1>3, <1>18, <2>1 DEF PollEnds, Settle
<1>19. QED
  BY <1>5, <1>6, <1>7, <1>10, <1>11, <1>12, <1>13, <1>14, <1>15, <1>16, <1>17, <1>18
     DEF InstallStep

LEMMA ResumeHolds ==
  ASSUME ProvisionIInv, ResumeStep
  PROVE  /\ promised' # Nil => Honours(promised)'
         /\ ServerInv'
         /\ \A t \in Install : AttemptInv(t)'
<1>1. UNCHANGED <<PlacedFiles, promised, server, install>>
  BY DEF ResumeStep, ResumeReady, ResumeNotReady, ResumePollBegins, ResumePollEnds, diskVars,
     PlacedFiles
<1>2. QED
  BY <1>1 DEF ProvisionIInv, PlacedFiles, Honours, ServerInv, PromiseKept, AttemptInv, WrittenSoFar

LEMMA ProvisionStepHolds == ProvisionIInv /\ [ProvisionNext]_provisionVars => ProvisionIInv'
<1> SUFFICES ASSUME ProvisionIInv, [ProvisionNext]_provisionVars PROVE ProvisionIInv'
  OBVIOUS
<1>1. CASE ServerStep
  <2>1. ProvisionTypeOK'
    BY <1>1, ServerTypes DEF ProvisionIInv
  <2>2. QED
    BY <1>1, <2>1, ServerHolds DEF ProvisionIInv
<1>2. CASE UserStep
  <2>1. ProvisionTypeOK'
    BY <1>2, UserTypes DEF ProvisionIInv
  <2>2. QED
    BY <1>2, <2>1, UserHolds DEF ProvisionIInv
<1>3. ASSUME NEW t \in Install, InstallStep(t) PROVE ProvisionIInv'
  <2>1. ProvisionTypeOK'
    BY <1>3, InstallTypes DEF ProvisionIInv
  <2>2. QED
    BY <1>3, <2>1, InstallHolds DEF ProvisionIInv
<1>4. CASE ResumeStep
  <2>1. ProvisionTypeOK'
    BY <1>4, ResumeTypes DEF ProvisionIInv
  <2>2. QED
    BY <1>4, <2>1, ResumeHolds DEF ProvisionIInv
<1>5. CASE UNCHANGED provisionVars
  <2>1. ProvisionTypeOK'
    BY <1>5 DEF ProvisionIInv, ProvisionTypeOK, provisionVars, diskVars, cardVars
  <2>2. QED
    BY <1>5, <2>1 DEF ProvisionIInv, ServerInv, PromiseKept, Honours, AttemptInv, WrittenSoFar,
       provisionVars, diskVars, cardVars
<1>6. QED
  BY <1>1, <1>2, <1>3, <1>4, <1>5 DEF ProvisionNext

(* An installation that nothing disturbed is what the next start of the    *)
(* server brings, or the start says why not: for every set of builds, of   *)
(* profiles and of installations, and any number of changes and faults.    *)
THEOREM PromiseHolds == ProvisionSpec => []PromiseKept
<1>1. ProvisionIInv => PromiseKept
  BY DEF ProvisionIInv, ServerInv
<1>2. QED
  BY ProvisionInitHolds, ProvisionStepHolds, <1>1, PTL DEF ProvisionSpec

(* The types of the installation.                                          *)
THEOREM ProvisionTypes == ProvisionSpec => []ProvisionTypeOK
<1>1. ProvisionIInv => ProvisionTypeOK
  BY DEF ProvisionIInv
<1>2. QED
  BY ProvisionInitHolds, ProvisionStepHolds, <1>1, PTL DEF ProvisionSpec
=============================================================================
