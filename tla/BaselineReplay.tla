---------------------------- MODULE BaselineReplay ----------------------------
(***************************************************************************)
(* The portable Static Lore baseline (src/harness/static-baseline-replay,  *)
(* static-baseline-binding): the baseline of one chat save is sealed,      *)
(* exported as a package, verified, and applied to the save of the same    *)
(* chat in another store.                                                  *)
(*                                                                         *)
(* Sealing and exporting read the active snapshot, the files one by one    *)
(* and the ledger, and take no lock, while intakes of the same chat write  *)
(* the files, commit the ledger, fail, are rolled back, or die in between  *)
(* (run and recover of src/storage/staged-file-transaction).  Applying     *)
(* initialises the chat save (src/storage/chat-save-store), looks whether  *)
(* it is empty, and writes the package in a transaction of that kind.      *)
(* Once the package is verified nothing reads the source any more.         *)
(*                                                                         *)
(* The queries of one reading of the ledger are one step, but for those of *)
(* the recipe.  An intake gives every file it writes a text of its own, so *)
(* a text is named by the number of its intake.                            *)
(***************************************************************************)
EXTENDS Integers, Sequences, FiniteSets

Lists == INSTANCE SequencesExt

CONSTANTS
  Concept,       \* concept files below story-memory
  SnapshotOf,    \* intake -> its snapshot; the last one is the target's own,
                 \* the others follow one another in the source
  ConceptsOf,    \* intake -> the concept files that it publishes
  LinksOf,       \* intake -> the links between these: pairs of concepts
  Applier,       \* calls of applyBaseline with the package
  MaxFaults      \* bound: steps that fail and processes that die

Own == Len(SnapshotOf)
Intake == 1 .. Own
Absent == 0      \* no such file
Blank == -1      \* as initializeChat writes it
Torn == -2       \* created, and its text not (yet) written
Nobody == "nobody"
Self == "self"   \* an intake of the store itself

Support == {"world", "registry"}
Published == Concept \cup Support
SetupFiles == <<"manifest", "relations", "registry">>
SetupTables == <<"tables", "lore", "latest", "chat">>
File == Published \cup {"manifest", "relations", "snapshot"}
Text == {Torn, Blank, Absent} \cup Intake

ASSUME BaselineAssumption ==
  /\ SnapshotOf \in Seq(Nat) /\ Own >= 2
  /\ ConceptsOf \in [Intake -> SUBSET Concept]
  /\ IsFiniteSet(Concept)
  /\ Concept \cap (Support \cup {"manifest", "relations", "snapshot"}) = {}
  /\ {Nobody, Self} \cap Applier = {}
  /\ MaxFaults \in Nat

VARIABLES
  store,      \* "source" and "target": the files, the ledger, the transaction
  package,    \* the export: how far it is, what was sealed and what was read
  applier,    \* applier -> how far it is, and what it has read
  faults

baselineVars == <<store, package, applier, faults>>

Store == {"source", "target"}
Same(i, j) == i # 0 /\ j # 0 /\ SnapshotOf[i] = SnapshotOf[j]
Files(i) ==
  [f \in Published |-> IF f \in ConceptsOf[i] \cup Support THEN i ELSE Absent]

-----------------------------------------------------------------------------
(* Reading a baseline: inspectStaticBaseline with validateOkfBundle.       *)

LookAt(kind, set) == {[kind |-> kind, file |-> f] : f \in set}
Reads ==
  <<[kind |-> "active", file |-> "manifest"],
    [kind |-> "file", file |-> "world"], [kind |-> "file", file |-> "registry"]>>
    \o <<[kind |-> "relations", file |-> "relations"]>>
    \o Lists!SetToSeq(LookAt("list", Concept)) \o Lists!SetToSeq(LookAt("file", Concept))
    \o <<[kind |-> "ledger", file |-> "manifest"]>>
BundleFrom == 4

(* What the ledger says of the snapshot of intake i, and of the projection *)
(* whose text is w: which intakes completed it, whose rows are the         *)
(* baseline, and how that projection stands.                               *)
Evidence(s, i, w) ==
  LET current == Same(s.active, i)
  IN  [intakes    |-> {j \in s.was : Same(j, i)},
       prepared   |-> {j \in s.prepared \ s.was : Same(j, i)},
       live       |-> IF current THEN s.active ELSE 0,
       projection |-> IF w \notin s.was THEN "none"
                      ELSE IF w = s.active THEN "ready" ELSE "superseded"]
NoEvidence == [intakes |-> {}, prepared |-> {}, live |-> 0, projection |-> "none"]

Unread == [k |-> 1, active |-> 0, listed |-> {}, text |-> [f \in Published |-> Absent],
           evidence |-> NoEvidence, broken |-> FALSE]
FreshApplier == [at |-> "idle", k |-> 1, writes |-> FALSE, reader |-> Unread]

Target == store["target"]
Ready(s) == s.schema = Lists!ToSet(SetupTables)

(* A link is resolved among the files that were listed and read.           *)
Unresolved(r) ==
  \E c \in r.listed : r.text[c] \in Intake
    /\ \E l \in LinksOf[r.text[c]] : l[1] = c /\ l[2] \notin r.listed

Read(r, s) ==
  LET op == Reads[r.k]
      next == [r EXCEPT !.k = @ + 1]
  IN  CASE op.kind = "active" -> [next EXCEPT !.active = s.active]
        [] op.kind = "relations" ->
             [next EXCEPT !.broken = s.text[op.file] = Torn]
        [] op.kind = "list"   ->
             IF s.text[op.file] = Absent THEN next
             ELSE [next EXCEPT !.listed = @ \cup {op.file}]
        [] op.kind = "file"   ->
             IF op.file \in Concept \ r.listed THEN next
             ELSE [next EXCEPT !.text[op.file] = s.text[op.file],
                     !.broken = @ \/ (op.file \in Concept /\ s.text[op.file] = Absent)]
        [] op.kind = "ledger" ->
             [next EXCEPT
                !.evidence = IF r.active = 0 THEN NoEvidence
                             ELSE Evidence(s, r.active, r.text["world"]),
                !.broken = @ \/ Unresolved(r)]

WasRead(r) == r.k > Len(Reads)

(* The sealed binding: two of them are equal when their hashes are.        *)
Binding(r) ==
  [snapshot |-> IF r.active = 0 THEN 0 ELSE SnapshotOf[r.active],
   text |-> r.text, listed |-> r.listed, evidence |-> r.evidence]

-----------------------------------------------------------------------------
(* The staged transaction of a store, as far as a reader can see it: the   *)
(* lock has an owner, the journal is there unless run is "idle", and what  *)
(* a process that died left behind is "down".                              *)

Plan(by, to, order, before, after) ==
  [by |-> by, to |-> to, order |-> order, before |-> before, after |-> after]
NoPlan == Plan(Nobody, 0, <<>>, Files(1), Files(1))

Owner(x) == store[x].owner
Mine(x) == store[x].plan.by = Owner(x)
AllWritten(x) == store[x].step > Len(store[x].plan.order)
Fault == faults < MaxFaults /\ faults' = faults + 1

Answered(a, answer) ==
  IF a \in Applier
  THEN applier' = [applier EXCEPT ![a] = [FreshApplier EXCEPT !.at = answer]]
  ELSE UNCHANGED applier

BeginWrites(x, plan) ==
  store' = [store EXCEPT ![x].run = "apply", ![x].step = 1, ![x].plan = plan,
                         ![x].prepared = @ \cup {plan.to}]

(* Whoever holds the lock and finds a journal finishes it first.           *)
RecoverJournal(x) ==
  /\ Owner(x) # Nobody /\ store[x].run = "down"
  /\ store' = [store EXCEPT ![x].step = 1, ![x].plan.by = Nobody,
       ![x].run = IF Same(store[x].active, store[x].plan.to)
                  THEN "install" ELSE "restore"]
  /\ UNCHANGED <<package, applier, faults>>

WriteFile(x) ==
  /\ store[x].run \in {"apply", "restore", "install"} /\ ~ AllWritten(x)
  /\ LET p == store[x].plan
         f == p.order[store[x].step]
     IN  store' = [store EXCEPT ![x].step = @ + 1,
           ![x].text[f] = IF store[x].run = "restore" THEN p.before[f] ELSE p.after[f]]
  /\ UNCHANGED <<package, applier, faults>>

(* The ledger moves to the new baseline in one transaction.                *)
CommitLedger(x) ==
  /\ store[x].run = "apply" /\ AllWritten(x)
  /\ store' = [store EXCEPT ![x].run = "clean", ![x].active = store[x].plan.to,
                            ![x].was = @ \cup {store[x].plan.to}]
  /\ UNCHANGED <<package, applier, faults>>

(* The catch restores the files, or installs them if the ledger moved; if  *)
(* that fails too, or the recovery of another's journal, the journal stays.*)
StepFails(x) ==
  /\ Fault /\ store[x].run \notin {"idle", "down"}
  /\ IF store[x].run \in {"apply", "clean"}
     THEN /\ store' = [store EXCEPT ![x].step = 1,
                         ![x].run = IF @ = "apply" THEN "restore" ELSE "install"]
          /\ UNCHANGED applier
     ELSE /\ store' = [store EXCEPT ![x].run = "down", ![x].owner = Nobody]
          /\ Answered(Owner(x), "failed")
  /\ UNCHANGED package

(* The journal is removed; after a recovery the owner goes on.             *)
Cleanup(x) ==
  /\ \/ store[x].run = "clean"
     \/ store[x].run \in {"restore", "install"} /\ AllWritten(x)
  /\ store' = [store EXCEPT ![x].run = "idle", ![x].plan = NoPlan,
                            ![x].owner = IF Mine(x) THEN Nobody ELSE @]
  /\ IF Mine(x)
     THEN Answered(Owner(x), IF store[x].run = "restore" THEN "failed" ELSE "confirm")
     ELSE UNCHANGED applier
  /\ UNCHANGED <<package, faults>>

(* The process that holds the lock dies; the journal stays.                *)
Dies(x) ==
  /\ Fault /\ Owner(x) # Nobody
  /\ store' = [store EXCEPT ![x].owner = Nobody,
                            ![x].run = IF @ = "idle" THEN "idle" ELSE "down"]
  /\ Answered(Owner(x), "idle")
  /\ UNCHANGED package

Transaction(x) ==
  \/ RecoverJournal(x) \/ WriteFile(x) \/ CommitLedger(x)
  \/ StepFails(x) \/ Cleanup(x) \/ Dies(x)

-----------------------------------------------------------------------------
(* The intakes of a store itself.  The first one is 'initial', the others  *)
(* reconcile: concepts first, then registry and world, then what they      *)
(* retire.                                                                 *)

NextIntake(x) == IF x = "target" THEN Own ELSE Cardinality(store[x].was) + 1

(* captureStaticLore of the target's own lore comes before its intake.     *)
MayIntake(x) ==
  /\ x = "source" => NextIntake(x) < Own /\ package.at \notin {"verified", "refused"}
  /\ x = "target" => Ready(store[x]) /\ (Same(Own, 1) => store[x].captured # 0)
  /\ NextIntake(x) \notin store[x].was

TakeIntakeLock(x) ==
  /\ Owner(x) = Nobody /\ MayIntake(x)
  /\ store' = [store EXCEPT ![x].owner = Self]
  /\ UNCHANGED <<package, applier, faults>>

IntakePlan(x, i) ==
  LET active == store[x].active
      gone == IF active = 0 THEN {} ELSE ConceptsOf[active] \ ConceptsOf[i]
      now == [f \in Published |-> store[x].text[f]]
  IN  Plan(Self, i,
        Lists!SetToSeq(ConceptsOf[i]) \o <<"registry", "world">> \o Lists!SetToSeq(gone),
        now,
        [f \in Published |-> IF f \in ConceptsOf[i] \cup Support THEN i
                             ELSE IF f \in gone THEN Absent ELSE now[f]])

(* An intake of the lore that is active already is not run.                *)
BeginIntake(x) ==
  /\ Owner(x) = Self /\ store[x].run = "idle"
  /\ IF Same(NextIntake(x), store[x].active)
     THEN store' = [store EXCEPT ![x].owner = Nobody]
     ELSE BeginWrites(x, IntakePlan(x, NextIntake(x)))
  /\ UNCHANGED <<package, applier, faults>>

OwnCapture ==
  /\ Ready(Target) /\ Same(Own, 1)
  /\ Target.captured = 0 /\ Target.text["snapshot"] = Absent
  /\ store' = [store EXCEPT !["target"].captured = Own,
                            !["target"].text["snapshot"] = Own]
  /\ UNCHANGED <<package, applier, faults>>

Intakes == OwnCapture \/ \E x \in Store : TakeIntakeLock(x) \/ BeginIntake(x)

-----------------------------------------------------------------------------
(* Exporting: exportBaseline and verifyStaticBaselineReplayPackage.        *)

ExportOrder == Lists!SetToSeq(Published)
Refused == [package EXCEPT !.at = "refused"]

OpenSource ==
  /\ package.at = "open"
  /\ package' = [package EXCEPT !.at = "seal"]
  /\ store' = [store EXCEPT !["source"].schema = @ \cup {"latest"}]
  /\ UNCHANGED <<applier, faults>>

Seal ==
  /\ package.at = "seal"
  /\ package' = LET r == Read(package.reader, store["source"])
                IN  IF r.broken THEN Refused
                    ELSE [package EXCEPT !.reader = r,
                            !.at = IF WasRead(r) THEN "recipe" ELSE "seal"]
  /\ UNCHANGED <<store, applier, faults>>

(* readBaselineRecipe: one completed intake of the sealed snapshot, and    *)
(* that the initial one; its baseline rows; the sealed world's projection. *)
Recipe(s, b) ==
  LET e == Evidence(s, b.active, b.text["world"])
  IN  [found |-> b.active # 0 /\ e.intakes = {1},
       concepts |-> IF e.live = 1 THEN ConceptsOf[1] ELSE {},
       projected |-> e.projection = "ready"]

ReadRecipe ==
  /\ package.at = "recipe"
  /\ package' = LET recipe == Recipe(store["source"], package.reader)
                IN  IF ~ recipe.found THEN Refused
                    ELSE [package EXCEPT !.at = "projection", !.concepts = recipe.concepts]
  /\ UNCHANGED <<store, applier, faults>>

ReadProjection ==
  /\ package.at = "projection"
  /\ package' = IF Recipe(store["source"], package.reader).projected
                THEN [package EXCEPT !.at = "files"] ELSE Refused
  /\ UNCHANGED <<store, applier, faults>>

ReadFile ==
  /\ package.at = "files"
  /\ package' =
       LET f == ExportOrder[package.k]
           text == store["source"].text[f]
           next == [package EXCEPT !.k = @ + 1,
                      !.at = IF package.k = Len(ExportOrder) THEN "verify" ELSE "files"]
       IN  IF f \in Concept \ package.concepts THEN next
           ELSE IF text = Absent THEN Refused
           ELSE [next EXCEPT !.files[f] = text]
  /\ UNCHANGED <<store, applier, faults>>

(* The file set is that of the recipe.                                     *)
SetFits(p) ==
  {f \in Published : p.files[f] # Absent} = Support \cup p.concepts

(* Mutant of VersionsFit: concept files are not compared with the versions. *)
VersionsIgnored(p) == TRUE

VersionsFit(p) == \A c \in p.concepts : p.files[c] = 1

SupportFits(p) == \A f \in Support : p.files[f] = p.reader.text[f]

(* expectedStaticBaseline: what the recipe and the files would be sealed   *)
(* as is what was sealed.  The rows of the snapshot are sealed with their  *)
(* status, so a seal that found it superseded fits no recipe.              *)
ExpectedFits(p) ==
  /\ p.concepts = ConceptsOf[1]
  /\ p.reader.listed = p.concepts
  /\ \A c \in p.concepts : p.reader.text[c] = p.files[c]
  /\ p.reader.evidence = [intakes |-> {1}, prepared |-> {}, projection |-> "ready",
                          live |-> 1]

Fits(p) == SetFits(p) /\ VersionsFit(p) /\ SupportFits(p) /\ ExpectedFits(p)

Verify ==
  /\ package.at = "verify"
  /\ package' = IF Fits(package) THEN [package EXCEPT !.at = "verified"] ELSE Refused
  /\ UNCHANGED <<store, applier, faults>>

Export ==
  OpenSource \/ Seal \/ ReadRecipe \/ ReadProjection \/ ReadFile \/ Verify

-----------------------------------------------------------------------------
(* Applying: initializeChat, then applyBaseline.                           *)

Go(a, next) == applier' = [applier EXCEPT ![a] = next]
Reply(a, answer) == Go(a, [FreshApplier EXCEPT !.at = answer])

Apply(a) ==
  /\ package.at = "verified" /\ applier[a].at = "idle"
  /\ Go(a, [FreshApplier EXCEPT !.at = "files"])
  /\ UNCHANGED <<store, package, faults>>

(* writeOnce: creating the file and writing its text are two steps; a file *)
(* that exists is left alone, and a text comes too late for a file that a  *)
(* transaction has replaced by another meanwhile.                          *)
CreateFile(a, f) ==
  /\ Target.text[f] = Absent /\ ~ applier[a].writes
  /\ store' = [store EXCEPT !["target"].text[f] = Torn]
  /\ Go(a, [applier[a] EXCEPT !.writes = TRUE])

FillFile(a, f, text, next) ==
  /\ applier[a].writes
  /\ store' = [store EXCEPT !["target"].text[f] = IF @ = Torn THEN text ELSE @]
  /\ Go(a, [next EXCEPT !.writes = FALSE])

(* The manifest is read again after it was written; the others are not.    *)
InitializeFiles(a) ==
  LET f == SetupFiles[applier[a].k]
      next == IF applier[a].k = Len(SetupFiles)
              THEN [applier[a] EXCEPT !.k = 1, !.at = "ledger"]
              ELSE [applier[a] EXCEPT !.k = @ + 1]
  IN  /\ applier[a].at = "files"
      /\ \/ CreateFile(a, f)
         \/ FillFile(a, f, Blank, next)
         \/ /\ Target.text[f] # Absent /\ ~ applier[a].writes
            /\ IF f = "manifest" /\ Target.text[f] = Torn
               THEN Reply(a, "unreadable") ELSE Go(a, next)
            /\ UNCHANGED store
      /\ UNCHANGED <<package, faults>>

InitializeLedger(a) ==
  /\ applier[a].at = "ledger"
  /\ store' = [store EXCEPT !["target"].schema = @ \cup {SetupTables[applier[a].k]}]
  /\ Go(a, IF applier[a].k = Len(SetupTables)
           THEN [FreshApplier EXCEPT !.at = "inspect"]
           ELSE [applier[a] EXCEPT !.k = @ + 1])
  /\ UNCHANGED <<package, faults>>

(* One step of a read of the target; what follows it is decided by then.   *)
ReadNext(a) == Read(applier[a].reader, Target)

Reading(a, at, decided) ==
  LET r == ReadNext(a)
  IN  /\ applier[a].at = at
      /\ Go(a, IF r.broken THEN [FreshApplier EXCEPT !.at = "unreadable"]
               ELSE IF WasRead(r) THEN decided
               ELSE [applier[a] EXCEPT !.reader = r])
      /\ UNCHANGED <<store, package, faults>>

Sealed(r) == Binding(r) = Binding(package.reader)

Inspect(a) ==
  LET r == ReadNext(a)
  IN  Reading(a, "inspect",
        IF Sealed(r) THEN [FreshApplier EXCEPT !.at = "existing"]
        ELSE IF r.active # 0 THEN [FreshApplier EXCEPT !.at = "not_empty"]
        ELSE [FreshApplier EXCEPT !.at = "check", !.reader.k = BundleFrom])

(* The bundle is validated again, and the state of the ledger inspected.   *)
CheckEmpty(a) ==
  Reading(a, "check",
    [FreshApplier EXCEPT !.at = IF ReadNext(a).listed # {} \/ Target.active # 0
                         THEN "not_empty" ELSE "snapshot"])

(* persistStaticLoreSnapshot: the file, then its row.                      *)
RestoreSnapshot(a) ==
  LET file == Target.text["snapshot"]
  IN  /\ applier[a].at = "snapshot"
      /\ \/ /\ Target.captured # 0 /\ ~ applier[a].writes
            /\ Reply(a, IF file = 1 THEN "lock" ELSE "failed")
            /\ UNCHANGED store
         \/ Target.captured = 0 /\ CreateFile(a, "snapshot")
         \/ FillFile(a, "snapshot", 1, [FreshApplier EXCEPT !.at = "row"])
         \/ /\ Target.captured = 0 /\ file # Absent /\ ~ applier[a].writes
            /\ Reply(a, IF file = 1 THEN "row"
                         ELSE IF file = Torn THEN "unreadable" ELSE "failed")
            /\ UNCHANGED store
      /\ UNCHANGED <<package, faults>>

InsertSnapshot(a) ==
  /\ applier[a].at = "row"
  /\ IF Target.captured = 0
     THEN store' = [store EXCEPT !["target"].captured = 1] /\ Reply(a, "lock")
     ELSE Reply(a, "failed") /\ UNCHANGED store
  /\ UNCHANGED <<package, faults>>

TakeLock(a) ==
  /\ applier[a].at = "lock" /\ Owner("target") = Nobody
  /\ store' = [store EXCEPT !["target"].owner = a]
  /\ Reply(a, "locked")
  /\ UNCHANGED <<package, faults>>

(* The files of the package, in the order of their paths.                  *)
ReplayOrder ==
  <<"world", "registry">> \o Lists!SetToSeq(package.concepts)
ReplayPlan(a) ==
  LET now == [f \in Published |-> Target.text[f]]
  IN  Plan(a, 1, ReplayOrder, now,
           [f \in Published |-> IF f \in Support \cup package.concepts
                                THEN package.files[f] ELSE now[f]])

(* runStagedFileTransaction expects that no baseline became active since.  *)
BeginReplay(a) ==
  /\ applier[a].at = "locked" /\ Target.run = "idle"
  /\ IF Target.active # 0
     THEN Reply(a, "failed") /\ store' = [store EXCEPT !["target"].owner = Nobody]
     ELSE Reply(a, "replay") /\ BeginWrites("target", ReplayPlan(a))
  /\ UNCHANGED <<package, faults>>

Confirm(a) ==
  Reading(a, "confirm",
    [FreshApplier EXCEPT !.at = IF Sealed(ReadNext(a)) THEN "applied" ELSE "mismatch"])

Answers == {"applied", "existing", "not_empty", "unreadable", "failed", "mismatch"}

(* The process of an applier that holds no lock dies.                      *)
Aborts(a) ==
  /\ Fault /\ applier[a].at \notin Answers \cup {"idle"} /\ Owner("target") # a
  /\ Reply(a, "idle")
  /\ UNCHANGED <<store, package>>

Replay(a) ==
  \/ Apply(a) \/ InitializeFiles(a) \/ InitializeLedger(a) \/ Inspect(a)
  \/ CheckEmpty(a) \/ RestoreSnapshot(a) \/ InsertSnapshot(a) \/ TakeLock(a)
  \/ BeginReplay(a) \/ Confirm(a) \/ Aborts(a)

-----------------------------------------------------------------------------
NewStore(schema, captured) ==
  [text |-> [f \in File |-> IF schema # {} /\ f \in Lists!ToSet(SetupFiles)
                            THEN Blank ELSE Absent],
   active |-> 0, was |-> {}, prepared |-> {}, captured |-> captured, schema |-> schema,
   owner |-> Nobody, run |-> "idle", step |-> 1, plan |-> NoPlan]

BaselineInit ==
  /\ store = [x \in Store |->
       IF x = "source" THEN NewStore({"tables", "lore", "chat"}, 1)
       ELSE NewStore({}, 0)]
  /\ package = [at |-> "open", reader |-> Unread, concepts |-> {},
                files |-> [f \in Published |-> Absent], k |-> 1]
  /\ applier = [a \in Applier |-> FreshApplier]
  /\ faults = 0

BaselineNext ==
  \/ \E x \in Store : Transaction(x)
  \/ Intakes
  \/ Export
  \/ \E a \in Applier : Replay(a)

BaselineSpec == BaselineInit /\ [][BaselineNext]_baselineVars

-----------------------------------------------------------------------------
BaselineTypeOK ==
  /\ \A x \in Store :
       /\ store[x].text \in [File -> Text]
       /\ store[x].active \in {0} \cup Intake /\ store[x].captured \in {0, 1, Own}
       /\ store[x].was \subseteq store[x].prepared /\ store[x].prepared \subseteq Intake
       /\ store[x].run \in {"idle", "apply", "clean", "restore", "install", "down"}
       /\ store[x].owner \in {Nobody, Self} \cup Applier
  /\ package.at \in {"open", "seal", "recipe", "projection", "files", "verify",
                     "verified", "refused"}
  /\ \A a \in Applier : applier[a].at \in Answers \cup
       {"idle", "files", "ledger", "inspect", "check", "snapshot", "row", "lock",
        "locked", "replay", "confirm"}
  /\ faults \in 0 .. MaxFaults

(* What is applied is the baseline that the initial intake of the source   *)
(* published: its Concepts, no other ones, and its Runtime World, whatever *)
(* the intakes of the source wrote, restored or left behind while it was   *)
(* read without a lock; and it is applied only where no baseline was,      *)
(* whatever failed transactions of the target had left there               *)
(* (exportBaseline, verifyStaticBaselineReplayPackage, applyBaseline).     *)
AppliedIsTheBaseline ==
  [][Target.active' = 1 /\ Target.active # 1 =>
       /\ Target.active = 0
       /\ \A f \in Published \ {"registry"} : Target'.text[f] = Files(1)[f]]_baselineVars

(* The same of the attribute registry.  Not so: the text of the registry   *)
(* is sealed, and never compared with the definitions of the recipe.       *)
RegistryIsOfTheBaseline ==
  package.at = "verified" => package.files["registry"] = 1

(* An applier is refused only where a baseline is or was being made.  Not  *)
(* so: what an applier that died half way left behind (a file of a journal *)
(* that nobody finished, a file without its text) refuses every later one. *)
RefusedOnlyIfOccupied ==
  \A a \in Applier :
    applier[a].at \in {"not_empty", "unreadable"} => Own \in Target.prepared \/ 1 \in Target.was

(* A mismatch is reported only where the target is not the package.  Not   *)
(* so: the row of an intake that was prepared and failed stays.            *)
MismatchIsReal ==
  \A a \in Applier : applier[a].at = "mismatch" => Target.active # 1
=============================================================================
