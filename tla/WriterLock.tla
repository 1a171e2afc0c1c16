----------------------------- MODULE WriterLock -----------------------------
(***************************************************************************)
(* The lock directory by which processes exclude each other while they     *)
(* rewrite the files of a chat save (acquireWriterLock in src/storage/     *)
(* staged-file-transaction.js; src/storage/dynamic-projection-             *)
(* transaction.js has the same function).                                  *)
(*                                                                         *)
(* A process prepares a private directory that names it as the owner and   *)
(* renames it to the lock's path.  POSIX rename replaces a directory that  *)
(* is absent or empty and fails on any other; then the process reads the   *)
(* owner, gives up if the owner's process is alive, and otherwise moves    *)
(* the lock directory away and tries again.  Each of these system calls is *)
(* one step; the private directories are not modelled.  Two requests of    *)
(* one process behave like two processes of which neither dies.            *)
(*                                                                         *)
(* A process that dies comes back with another process id: an incarnation  *)
(* of a process is alive as long as it is the current one and up.          *)
(***************************************************************************)
EXTENDS Naturals

CONSTANTS
  Process,
  NoOwner,        \* no owner metadata, or an owner that could not be read
  MaxAttempts,    \* 8 in the code
  MaxCrashes      \* bound: how often a process dies

Incarnation == 0 .. MaxCrashes

Owner == Process \X Incarnation

VARIABLES
  directory,    \* the lock directory: does it exist, and what is in owner.json
  incarnation,  \* process -> its current incarnation
  pc,           \* process -> where it is in acquireWriterLock and release
  seen,         \* process -> the owner that it read
  attempt,      \* process -> how many attempts it has used up
  takenOver     \* history: was an existing lock directory ever moved away?

lockVars == <<directory, incarnation, pc, seen, attempt, takenOver>>

Location ==
  {"idle", "rename", "read", "judge", "steal",      \* acquireWriterLock
   "holding",                                       \* the lock was granted
   "release", "unlink", "rmdir",                    \* release
   "dead"}

NoLock == [exists |-> FALSE, owner |-> NoOwner]

LockedBy(o) == [exists |-> TRUE, owner |-> o]

LockTypeOK ==
  /\ directory \in [exists : BOOLEAN, owner : Owner \cup {NoOwner}]
  /\ incarnation \in [Process -> Incarnation]
  /\ pc \in [Process -> Location]
  /\ seen \in [Process -> Owner \cup {NoOwner}]
  /\ attempt \in [Process -> 0 .. MaxAttempts]
  /\ takenOver \in BOOLEAN

LockInit ==
  /\ directory = NoLock
  /\ incarnation = [p \in Process |-> 0]
  /\ pc = [p \in Process |-> "idle"]
  /\ seen = [p \in Process |-> NoOwner]
  /\ attempt = [p \in Process |-> 0]
  /\ takenOver = FALSE

Self(p) == <<p, incarnation[p]>>

Goto(p, location) == pc' = [pc EXCEPT ![p] = location]

(* processIsAlive, of the process id that owner.json contains; without     *)
(* owner metadata there is no process id, and nobody is alive.             *)
Alive(o) == \E p \in Process : o = Self(p) /\ pc[p] # "dead"

-----------------------------------------------------------------------------

Request(p) ==
  /\ pc[p] = "idle"
  /\ Goto(p, "rename")
  /\ attempt' = [attempt EXCEPT ![p] = 0]
  /\ UNCHANGED <<directory, incarnation, seen, takenOver>>

(* Mutation of Replaceable: the lock path is overwritten whatever it holds. *)
ReplaceableAlways == TRUE

(* rename(candidate, lock) succeeds on an absent or an empty directory.    *)
Replaceable == directory.owner = NoOwner

RenameCandidate(p) ==
  /\ pc[p] = "rename"
  /\ Replaceable
  /\ directory' = LockedBy(Self(p))
  /\ Goto(p, "holding")
  /\ UNCHANGED <<incarnation, seen, attempt, takenOver>>

(* EEXIST or ENOTEMPTY.                                                    *)
RenameFails(p) ==
  /\ pc[p] = "rename"
  /\ ~ Replaceable
  /\ Goto(p, "read")
  /\ UNCHANGED <<directory, incarnation, seen, attempt, takenOver>>

(* owner.json may be gone by now; the lock may even be another one.        *)
ReadOwner(p) ==
  /\ pc[p] = "read"
  /\ seen' = [seen EXCEPT ![p] = directory.owner]
  /\ Goto(p, "judge")
  /\ UNCHANGED <<directory, incarnation, attempt, takenOver>>

OwnerIsDead(p) == ~ Alive(seen[p])

(* 'Static Lore projection already has an active writer.'                  *)
Refuse(p) ==
  /\ pc[p] = "judge"
  /\ ~ OwnerIsDead(p)
  /\ Goto(p, "idle")
  /\ seen' = [seen EXCEPT ![p] = NoOwner]
  /\ UNCHANGED <<directory, incarnation, attempt, takenOver>>

JudgeStale(p) ==
  /\ pc[p] = "judge"
  /\ OwnerIsDead(p)
  /\ Goto(p, "steal")
  /\ seen' = [seen EXCEPT ![p] = NoOwner]
  /\ UNCHANGED <<directory, incarnation, attempt, takenOver>>

(* rename(lock, stale) takes whatever is at the lock's path by then; when  *)
(* there is nothing (ENOENT) the loop just continues.  The loop ends with  *)
(* 'Static Lore writer lock could not be acquired.'                        *)
MoveStaleLock(p) ==
  /\ pc[p] = "steal"
  /\ directory' = NoLock
  /\ takenOver' = (takenOver \/ directory.exists)
  /\ attempt' = [attempt EXCEPT ![p] = @ + 1]
  /\ Goto(p, IF attempt[p] + 1 < MaxAttempts THEN "rename" ELSE "idle")
  /\ UNCHANGED <<incarnation, seen>>

Finish(p) ==
  /\ pc[p] = "holding"
  /\ Goto(p, "release")
  /\ UNCHANGED <<directory, incarnation, seen, attempt, takenOver>>

(* release: remove the lock only if it is still one's own ...              *)
CheckOwner(p) ==
  /\ pc[p] = "release"
  /\ Goto(p, IF directory.owner = Self(p) THEN "unlink" ELSE "idle")
  /\ UNCHANGED <<directory, incarnation, seen, attempt, takenOver>>

(* ... by a recursive rm: the file in the directory, then the directory,   *)
(* whosever they are by then.                                              *)
RemoveOwnerFile(p) ==
  /\ pc[p] = "unlink"
  /\ directory' = [directory EXCEPT !.owner = NoOwner]
  /\ Goto(p, "rmdir")
  /\ UNCHANGED <<incarnation, seen, attempt, takenOver>>

(* rmdir of a directory that is not empty fails.                           *)
RemoveDirectory(p) ==
  /\ pc[p] = "rmdir"
  /\ directory' = IF directory.owner = NoOwner THEN NoLock ELSE directory
  /\ Goto(p, "idle")
  /\ UNCHANGED <<incarnation, seen, attempt, takenOver>>

(* A process dies; its files stay.                                         *)
Die(p) ==
  /\ pc[p] # "dead"
  /\ incarnation[p] < MaxCrashes
  /\ Goto(p, "dead")
  /\ UNCHANGED <<directory, incarnation, seen, attempt, takenOver>>

Restart(p) ==
  /\ pc[p] = "dead"
  /\ incarnation' = [incarnation EXCEPT ![p] = @ + 1]
  /\ Goto(p, "idle")
  /\ UNCHANGED <<directory, seen, attempt, takenOver>>

Acquire(p) ==
  \/ RenameCandidate(p) \/ RenameFails(p) \/ ReadOwner(p)
  \/ Refuse(p) \/ JudgeStale(p) \/ MoveStaleLock(p)

Release(p) ==
  \/ Finish(p) \/ CheckOwner(p) \/ RemoveOwnerFile(p) \/ RemoveDirectory(p)

LockNext ==
  \E p \in Process :
    Request(p) \/ Acquire(p) \/ Release(p) \/ Die(p) \/ Restart(p)

LockSpec == LockInit /\ [][LockNext]_lockVars

-----------------------------------------------------------------------------
(* Properties.                                                             *)

Inside == {p \in Process : pc[p] = "holding"}

(* What the refusal of a second writer says of the first: there is at most *)
(* one active writer (acquireWriterLock).                                  *)
OneActiveWriter == \A p, q \in Inside : p = q

(* Without a takeover the rename alone keeps the writers apart: nobody     *)
(* enters while another is inside, and release removes no other's lock.    *)
ExclusiveUntilTakeover == ~ takenOver => OneActiveWriter
=============================================================================
