-------------------------- MODULE DynamicProjection --------------------------
(***************************************************************************)
(* How the Dynamic Story projection is replaced and read                   *)
(* (src/storage/dynamic-projection-transaction.js, rebuild of              *)
(* src/history/dynamic-story-projector.js, and loadDynamicWorld of         *)
(* src/runtime/continuity-composer.js).                                    *)
(*                                                                         *)
(* The projection is the set of concept files of the committed turns and   *)
(* derived/dynamic-world.json, which records the history it was built from *)
(* and the hash of the whole bundle of concept files.  rebuild reads the   *)
(* ledger, takes the writer lock, announces the replacement in a journal,  *)
(* stages the files, applies them one at a time with the world last, and   *)
(* removes the journal.  Readers refuse while a journal is there, but look *)
(* only once and hold no lock.                                             *)
(*                                                                         *)
(* The chat write coordinator runs one turn commit, truncation or recovery *)
(* at a time; a composer that finds a turn-zero world built against an     *)
(* older bundle rebuilds it too, outside of the coordinator.  commitTurn   *)
(* and the Static Lore intake write concept files of their own under other *)
(* locks.  A record stands for a committed turn and its concept file; a    *)
(* hash for what it is the hash of.                                        *)
(***************************************************************************)
EXTENDS Naturals, Sequences

CONSTANTS
  Canonical,    \* records whose concept file commitTurn writes itself
  Composer,     \* compose requests that can be under way together
  Hidden,       \* see AtomicProjection
  None,         \* no journal, no owner
  MaxCommits,   \* bound: turns that commit
  MaxEpoch,     \* bound: truncations
  MaxLore,      \* bound: Static Lore publications
  MaxFaults     \* bound: steps that fail and processes that die

ASSUME BoundsAssumption ==
  MaxCommits \in Nat /\ MaxEpoch \in Nat /\ MaxLore \in Nat /\ MaxFaults \in Nat

Record == 1 .. MaxCommits
Epoch == 0 .. MaxEpoch
Turn == "turn"                    \* whoever is inside the write coordinator
Builder == Composer \cup {Turn}

ASSUME NamesAssumption ==
  /\ Canonical \subseteq Record
  /\ Turn \notin Composer
  /\ None \notin Builder \cup {"dead"} /\ "dead" \notin Builder

VARIABLES
  history,   \* ledger: epoch -> the records of its turns, in turn order
  epoch,     \* ledger: the active branch epoch
  due,       \* run journals: coordinates whose projection is still pending
  concept,   \* disk: the records whose concept file exists
  lore,      \* disk: the version of the Static Lore concept files
  world,     \* disk: derived/dynamic-world.json
  journal,   \* disk: derived/dynamic-projection-transaction.json, or None
  stage,     \* disk: are all the copies of the staged journal there?
  lock,      \* disk: the builder that holds the lock, "dead", or None
  turn,      \* memory: the commit that is under way in the coordinator
  job,       \* memory: builder -> its call of rebuild
  request,   \* memory: composer -> its call of compose
  commits, faults   \* the highest record used so far; the faults so far

ledger == <<history, epoch, commits>>
files == <<concept, world>>
vars == <<ledger, due, files, lore, journal, stage, lock, turn, job, request, faults>>

-----------------------------------------------------------------------------

History == UNION {[1 .. n -> Record] : n \in 0 .. MaxCommits}
Coordinate == [epoch : Epoch, index : 0 .. MaxCommits]
Authority == [at : Coordinate, rows : History]
Bundle == [concepts : SUBSET Record, lore : 0 .. MaxLore]
World == [at : Coordinate, rows : History, bundle : Bundle]
Plan == [world : World, removals : SUBSET Record]
Journal == [state : {"planning", "staged"}, authority : Authority, plan : Plan]

(* null is no journal, and the refusal is nothing that a reader could see. *)
ASSUME NoneAssumption == None \notin Journal
ASSUME HiddenAssumption ==
  Hidden \notin [world : World, concept : SUBSET Record, lore : 0 .. MaxLore]

RecordsOf(rows) == {rows[i] : i \in DOMAIN rows}

Smaller(m, n) == IF m < n THEN m ELSE n

(* readVerifiedActiveHistory: the turns of an epoch up to an index.  An    *)
(* epoch that a truncation closed keeps its turns.                         *)
RowsOf(at) == SubSeq(history[at.epoch], 1, Smaller(at.index, Len(history[at.epoch])))

Newest == [epoch |-> epoch, index |-> Len(history[epoch])]

CurrentBundle == [concepts |-> concept, lore |-> lore]

Nowhere == [epoch |-> 0, index |-> 0]
NoPlan ==
  [world |-> [at |-> Nowhere, rows |-> << >>,
              bundle |-> [concepts |-> {}, lore |-> 0]],
   removals |-> {}]

Phase == {"idle", "lock", "open", "intent", "plan", "stage",
          "apply", "validate", "unstage", "finish", "unlock"}

Job == [phase : Phase, at : Coordinate, plan : Plan,
        writes : SUBSET Record, removals : SUBSET Record,
        again : BOOLEAN,   \* applying a journal that an earlier call staged?
        ok : BOOLEAN]

Resting == [phase |-> "idle", at |-> Nowhere, plan |-> NoPlan,
            writes |-> {}, removals |-> {},
            again |-> FALSE, ok |-> FALSE]

(* rebuild reads the ledger before it takes the lock.  What an epoch holds *)
(* up to one of its turns never changes here (swipes are left out), so the *)
(* read is no step of its own.                                             *)
Rebuild(at) == [Resting EXCEPT !.phase = "lock", !.at = at]

AuthorityOf(b) == [at |-> job[b].at, rows |-> RowsOf(job[b].at)]

Holding == {"open", "intent", "plan", "stage", "apply", "validate",
            "unstage", "finish", "unlock"}

TypeOK ==
  /\ history \in [Epoch -> History]
  /\ epoch \in Epoch
  /\ due \subseteq Coordinate
  /\ concept \subseteq Record
  /\ lore \in 0 .. MaxLore
  /\ world \in World
  /\ journal \in Journal \cup {None}
  /\ stage \in BOOLEAN
  /\ lock \in Builder \cup {"dead", None}
  /\ turn \in [phase : {"idle", "sealing", "rebuilding"},
               record : 0 .. MaxCommits, created : BOOLEAN]
  /\ job \in [Builder -> Job]
  /\ request \in [Composer ->
                    [phase : {"idle", "world", "bundle", "rebase", "accepted"},
                     at : Coordinate, world : World, rebased : BOOLEAN]]
  /\ commits \in 0 .. MaxCommits
  /\ faults \in 0 .. MaxFaults
  /\ \A b \in Builder : job[b].phase \in Holding <=> lock = b

NoTurn == [phase |-> "idle", record |-> 0, created |-> FALSE]
NoRequest == [phase |-> "idle", at |-> Nowhere, world |-> NoPlan.world,
              rebased |-> FALSE]

(* A new chat: the bootstrapped world carries the hash of an empty bundle. *)
Init ==
  /\ history = [e \in Epoch |-> << >>] /\ epoch = 0 /\ commits = 0
  /\ due = {}
  /\ concept = {} /\ lore = 0 /\ world = NoPlan.world
  /\ journal = None /\ stage = FALSE /\ lock = None
  /\ turn = NoTurn
  /\ job = [b \in Builder |-> Resting]
  /\ request = [c \in Composer |-> NoRequest]
  /\ faults = 0

-----------------------------------------------------------------------------
(* The owners of the ledger, one at a time in the write coordinator        *)

(* commitTurn: ensureCanonicalConceptFile runs before the transaction.     *)
WriteConcept(r) ==
  /\ turn.phase = "idle"
  /\ turn' = [phase |-> "sealing", record |-> r,
              created |-> r \in Canonical /\ r \notin concept]
  /\ concept' = IF r \in Canonical THEN concept \cup {r} ELSE concept
  /\ UNCHANGED <<ledger, due, world, lore, journal, stage, lock, job, request, faults>>

CommitTurn ==
  /\ turn.phase = "sealing"
  /\ history' = [history EXCEPT ![epoch] = Append(@, turn.record)]
  /\ commits' = turn.record
  /\ UNCHANGED epoch
  /\ due' = due \cup {Newest'}
  /\ turn' = [turn EXCEPT !.phase = "rebuilding"]
  /\ job' = [job EXCEPT ![Turn] = Rebuild(Newest')]
  /\ UNCHANGED <<files, lore, journal, stage, lock, request, faults>>

(* The transaction of commitTurn fails: the file it created is taken back. *)
CommitFails ==
  /\ turn.phase = "sealing"
  /\ faults < MaxFaults /\ faults' = faults + 1
  /\ concept' = IF turn.created THEN concept \ {turn.record} ELSE concept
  /\ turn' = NoTurn
  /\ UNCHANGED <<ledger, due, world, lore, journal, stage, lock, job, request>>

(* The history lifecycle service truncates after the first k turns.        *)
Truncate(k) ==
  /\ turn.phase = "idle"
  /\ epoch < MaxEpoch
  /\ epoch' = epoch + 1
  /\ history' = [history EXCEPT ![epoch + 1] = SubSeq(history[epoch], 1, k)]
  /\ due' = due \cup {Newest'}
  /\ turn' = [NoTurn EXCEPT !.phase = "rebuilding"]
  /\ job' = [job EXCEPT ![Turn] = Rebuild(Newest')]
  /\ UNCHANGED <<commits, files, lore, journal, stage, lock, request, faults>>

(* A request finds the projection of its own turn pending in its journal.  *)
Recover(at) ==
  /\ turn.phase = "idle"
  /\ at \in due
  /\ turn' = [NoTurn EXCEPT !.phase = "rebuilding"]
  /\ job' = [job EXCEPT ![Turn] = Rebuild(at)]
  /\ UNCHANGED <<ledger, due, files, lore, journal, stage, lock, request, faults>>

(* The Static Lore intake publishes another bundle under its own lock.     *)
PublishLore ==
  /\ lore < MaxLore
  /\ lore' = lore + 1
  /\ UNCHANGED <<ledger, due, files, journal, stage, lock, turn, job, request, faults>>

-----------------------------------------------------------------------------
(* rebuild and the transaction it runs.  A builder b is at job[b].phase.   *)

Goes(b, phase) == job' = [job EXCEPT ![b].phase = phase]

(* Mutant: the lock of a dead process stays.                               *)
OnlyUnowned == lock = None

(* acquireWriterLock replaces the lock of a dead process.                  *)
Available == lock \in {None, "dead"}

AcquireWriterLock(b) ==
  /\ job[b].phase = "lock"
  /\ Available
  /\ lock' = b
  /\ Goes(b, "open")
  /\ UNCHANGED <<ledger, due, files, lore, journal, stage, turn, request, faults>>

(* What the caller of rebuild makes of its end: a turn keeps its           *)
(* projection pending after a failure, a composer reads again or refuses.  *)
Return(b, ok) ==
  IF b = Turn
  THEN /\ turn' = NoTurn
       /\ due' = IF ok THEN due \ {job[b].at} ELSE due
       /\ UNCHANGED <<request>>
  ELSE /\ request' = [request EXCEPT
                        ![b] = IF ok
                               THEN [@ EXCEPT !.phase = "world",
                                              !.world = NoPlan.world,
                                              !.rebased = TRUE]
                               ELSE NoRequest]
       /\ UNCHANGED <<turn, due>>

(* dynamic_projection_write_in_progress                                    *)
RefusedByLock(b) ==
  /\ job[b].phase = "lock"
  /\ lock \in Builder
  /\ job' = [job EXCEPT ![b] = Resting]
  /\ Return(b, FALSE)
  /\ UNCHANGED <<ledger, files, lore, journal, stage, lock, faults>>

(* Mutant: any staged journal is finished.                                 *)
SomeAuthority(b) == journal # None /\ journal.state = "staged"

(* A staged journal for the same authority whose copies are all there      *)
(* (verifyStaging) is finished, any other is superseded.                   *)
SameAuthority(b) ==
  journal # None /\ journal.state = "staged"
                 /\ journal.authority = AuthorityOf(b)

Applying(b, plan, again) ==
  job' = [job EXCEPT ![b].phase = "apply",
                     ![b].plan = plan,
                     ![b].writes = RecordsOf(plan.world.rows),
                     ![b].removals = plan.removals,
                     ![b].again = again]

ReadJournal(b) ==
  /\ job[b].phase = "open"
  /\ SameAuthority(b) /\ stage
  /\ Applying(b, journal.plan, TRUE)
  /\ UNCHANGED <<ledger, due, files, lore, journal, stage, lock, turn, request, faults>>

WriteIntent(b) ==
  /\ \/ job[b].phase = "intent"
     \/ job[b].phase = "open" /\ ~ (SameAuthority(b) /\ stage)
  /\ journal' = [state |-> "planning", authority |-> AuthorityOf(b),
                 plan |-> NoPlan]
  /\ stage' = FALSE
  /\ job' = [job EXCEPT ![b].phase = "plan", ![b].again = FALSE]
  /\ UNCHANGED <<ledger, due, files, lore, lock, turn, request, faults>>

(* buildPlan: the files of the concept writers that the authority does not *)
(* name are stale; the world carries the hash of the bundle to come.       *)
BuildPlan(b) ==
  /\ job[b].phase = "plan"
  /\ LET authority == AuthorityOf(b)
         wanted == RecordsOf(authority.rows)
     IN job' = [job EXCEPT
          ![b].phase = "stage",
          ![b].plan =
            [world |-> [at |-> authority.at, rows |-> authority.rows,
                        bundle |-> [concepts |-> wanted, lore |-> lore]],
             removals |-> concept \ wanted]]
  /\ UNCHANGED <<ledger, due, files, lore, journal, stage, lock, turn, request, faults>>

StagePlan(b) ==
  /\ job[b].phase = "stage"
  /\ stage' = TRUE
  /\ journal' = [state |-> "staged", authority |-> AuthorityOf(b),
                 plan |-> job[b].plan]
  /\ Applying(b, job[b].plan, FALSE)
  /\ UNCHANGED <<ledger, due, files, lore, lock, turn, request, faults>>

(* applyProjection: the concepts, the removals, and the world at the end.  *)
ApplyWrite(b, r) ==
  /\ job[b].phase = "apply"
  /\ r \in job[b].writes
  /\ concept' = concept \cup {r}
  /\ job' = [job EXCEPT ![b].writes = @ \ {r}]
  /\ UNCHANGED <<ledger, due, world, lore, journal, stage, lock, turn, request, faults>>

ApplyRemoval(b, r) ==
  /\ job[b].phase = "apply"
  /\ job[b].writes = {}
  /\ r \in job[b].removals
  /\ concept' = concept \ {r}
  /\ job' = [job EXCEPT ![b].removals = @ \ {r}]
  /\ UNCHANGED <<ledger, due, world, lore, journal, stage, lock, turn, request, faults>>

ApplyWorld(b) ==
  /\ job[b].phase = "apply"
  /\ job[b].writes = {} /\ job[b].removals = {}
  /\ world' = job[b].plan.world
  /\ Goes(b, "validate")
  /\ UNCHANGED <<ledger, due, concept, lore, journal, stage, lock, turn, request, faults>>

(* verifyProjection and validateFiles: the entries of the journal, the     *)
(* hash of the bundle that is there, and the world.                        *)
Published(b) ==
  /\ CurrentBundle = job[b].plan.world.bundle
  /\ world = job[b].plan.world

Validate(b) ==
  /\ job[b].phase = "validate"
  /\ Published(b)
  /\ Goes(b, "unstage")
  /\ UNCHANGED <<ledger, due, files, lore, journal, stage, lock, turn, request, faults>>

(* Mutant: the error path cleans up.                                       *)
AfterErrorCleanup(b) == IF job[b].again THEN "intent" ELSE "finish"

(* An error while an earlier journal is finished leads to a new plan; any  *)
(* other leaves the journal where it is.                                   *)
AfterError(b) == IF job[b].again THEN "intent" ELSE "unlock"

ValidationFails(b) ==
  /\ job[b].phase = "validate"
  /\ ~ Published(b)
  /\ Goes(b, AfterError(b))
  /\ UNCHANGED <<ledger, due, files, lore, journal, stage, lock, turn, request, faults>>

StepFails(b) ==
  /\ job[b].phase \in {"open", "intent", "plan", "stage", "apply", "validate",
                       "unstage", "finish"}
  /\ faults < MaxFaults /\ faults' = faults + 1
  /\ Goes(b, AfterError(b))
  /\ UNCHANGED <<ledger, due, files, lore, journal, stage, lock, turn, request>>

(* cleanupJournal: the stage first, the journal last.                      *)
RemoveStage(b) ==
  /\ job[b].phase = "unstage"
  /\ stage' = FALSE
  /\ job' = [job EXCEPT ![b].phase = "finish", ![b].plan = NoPlan]
  /\ UNCHANGED <<ledger, due, files, lore, journal, lock, turn, request, faults>>

RemoveJournal(b) ==
  /\ job[b].phase = "finish"
  /\ journal' = None
  /\ job' = [job EXCEPT ![b].phase = "unlock", ![b].ok = TRUE]
  /\ UNCHANGED <<ledger, due, files, lore, stage, lock, turn, request, faults>>

Release(b) ==
  /\ job[b].phase = "unlock"
  /\ lock' = None
  /\ job' = [job EXCEPT ![b] = Resting]
  /\ Return(b, job[b].ok)
  /\ UNCHANGED <<ledger, files, lore, journal, stage, faults>>

RebuildStep(b) ==
  \/ AcquireWriterLock(b) \/ RefusedByLock(b)
  \/ ReadJournal(b) \/ WriteIntent(b) \/ BuildPlan(b) \/ StagePlan(b)
  \/ \E r \in Record : ApplyWrite(b, r) \/ ApplyRemoval(b, r)
  \/ ApplyWorld(b) \/ Validate(b) \/ ValidationFails(b)
  \/ RemoveStage(b) \/ RemoveJournal(b) \/ Release(b)

-----------------------------------------------------------------------------
(* compose: every read is a step of its own                                *)

Asks(c, phase) == request' = [request EXCEPT ![c].phase = phase]

Refuse(c) == request' = [request EXCEPT ![c] = NoRequest]

OnlyReads ==
  UNCHANGED <<ledger, due, files, lore, journal, stage, lock, turn, faults>>

(* The host asks for the epoch and the turns that it shows; without a      *)
(* journal (assertDynamicProjectionReadable) the reads begin.              *)
Compose(c) ==
  /\ request[c].phase = "idle"
  /\ journal = None
  /\ request' = [request EXCEPT ![c] = [NoRequest EXCEPT !.phase = "world",
                                                        !.at = Newest]]
  /\ UNCHANGED job /\ OnlyReads

(* dynamic_world_scope_mismatch, dynamic_world_outside_visible_boundary    *)
InScope(c) ==
  /\ world.at.epoch = request[c].at.epoch
  /\ world.at.index <= request[c].at.index

(* Otherwise dynamic_world_ledger_mismatch.  The rows up to a turn of an   *)
(* epoch never change: comparing them is part of the step that reads the   *)
(* world.                                                                  *)
MatchesLedger == RowsOf(world.at) = world.rows

ReadWorld(c) ==
  /\ request[c].phase = "world"
  /\ IF InScope(c) /\ MatchesLedger
     THEN request' = [request EXCEPT ![c].phase = "bundle", ![c].world = world]
     ELSE Refuse(c)
  /\ UNCHANGED job /\ OnlyReads

(* Mutant: the caller of loadDynamicWorld takes what it gets.              *)
NeverStale(c) == TRUE

(* dynamic_world_stale: the world trails the latest turn that the host     *)
(* shows.                                                                  *)
NotStale(c) == request[c].world.at.index >= Len(RowsOf(request[c].at))

CheckBundle(c) ==
  /\ request[c].phase = "bundle"
  /\ request[c].world.bundle = CurrentBundle
  /\ IF NotStale(c) THEN Asks(c, "accepted") ELSE Refuse(c)
  /\ UNCHANGED job /\ OnlyReads

(* A turn-zero world of another bundle is rebuilt, once, outside of the    *)
(* write coordinator.                                                      *)
Rebase(c) ==
  /\ request[c].phase = "bundle"
  /\ request[c].world.bundle # CurrentBundle
  /\ request[c].world.at.index = 0 /\ ~ request[c].rebased
  /\ Asks(c, "rebase")
  /\ job' = [job EXCEPT ![c] = Rebuild([request[c].at EXCEPT !.index = 0])]
  /\ OnlyReads

(* dynamic_world_bundle_superseded                                         *)
BundleSuperseded(c) ==
  /\ request[c].phase = "bundle"
  /\ request[c].world.bundle # CurrentBundle
  /\ request[c].world.at.index # 0 \/ request[c].rebased
  /\ Refuse(c)
  /\ UNCHANGED job /\ OnlyReads

Answer(c) ==
  /\ request[c].phase = "accepted"
  /\ Refuse(c)
  /\ UNCHANGED job /\ OnlyReads

ComposeStep(c) ==
  \/ ReadWorld(c) \/ CheckBundle(c) \/ Rebase(c) \/ BundleSuperseded(c) \/ Answer(c)

(* The companion dies: its memory is gone, its lock has a dead owner.      *)
Crash ==
  /\ faults < MaxFaults /\ faults' = faults + 1
  /\ lock' = IF lock = None THEN None ELSE "dead"
  /\ turn' = NoTurn
  /\ job' = [b \in Builder |-> Resting]
  /\ request' = [c \in Composer |-> NoRequest]
  /\ UNCHANGED <<ledger, due, files, lore, journal, stage>>

-----------------------------------------------------------------------------

TurnWork == CommitTurn \/ RebuildStep(Turn)

Next ==
  \/ \E r \in commits + 1 .. MaxCommits : WriteConcept(r)
  \/ CommitTurn \/ CommitFails
  \/ \E k \in 0 .. Newest.index - 1 : Truncate(k)
  \/ \E at \in due : Recover(at)
  \/ PublishLore
  \/ \E b \in Builder : RebuildStep(b) \/ StepFails(b)
  \/ \E c \in Composer : Compose(c) \/ ComposeStep(c)
  \/ Crash

Spec == Init /\ [][Next]_vars

(* A companion that runs makes progress, and a request whose projection is *)
(* pending is made again until it is answered.                             *)
FairSpec ==
  /\ Spec
  /\ WF_vars(TurnWork)
  /\ \A c \in Composer : WF_vars(RebuildStep(c) \/ ComposeStep(c))
  /\ SF_vars(\E at \in due : Recover(at))

-----------------------------------------------------------------------------
(* Properties                                                              *)

(* Without a journal the world and the concept files it names agree, in    *)
(* whatever order two builders, commitTurn and a crash have written them   *)
(* (the order of applyProjection and cleanupJournal).                      *)
TornIsHidden ==
  journal = None =>
    /\ world.bundle.concepts \subseteq concept
    /\ concept \ world.bundle.concepts \subseteq Canonical

(* The history that compose accepts is the one that the host asked for,    *)
(* turn by turn, though it looks for the journal, the world and the bundle *)
(* one after the other without a lock and may rebuild the projection in    *)
(* between (compose and loadDynamicWorld).                                 *)
AcceptedIsHistory ==
  \A c \in Composer :
    request[c].phase = "accepted" =>
      request[c].world.rows = RowsOf(request[c].at)

(* Readers see the projection replaced as a whole.                         *)
Atomic == INSTANCE AtomicProjection WITH
  seen <- IF journal # None THEN Hidden
          ELSE [world |-> world, concept |-> concept, lore |-> lore]

ReadersSeeWholeProjections == Atomic!Spec

(* A turn that is told that its projection is ready finds the newest       *)
(* history published with every concept file, whatever a composer rebuilt  *)
(* meanwhile (run and rebuildDynamicProjection).                           *)
PublishedIsHead ==
  [][(job[Turn].phase = "unlock" /\ job[Turn].ok /\ job[Turn].at = Newest
      /\ job'[Turn].phase = "idle" /\ due' # due)
     => /\ world.rows = history[epoch]
        /\ concept = RecordsOf(history[epoch])]_vars

(* A projection that is pending is published, or superseded by a later     *)
(* one, after any crash: the recovery that makes the chat readable again.  *)
PendingIsPublished ==
  due # {} ~> due = {}
=============================================================================
