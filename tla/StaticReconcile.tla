--------------------------- MODULE StaticReconcile ---------------------------
(***************************************************************************)
(* How static lore that the author has changed reaches the chat            *)
(* (static-lore-intake.js, finalizeSession of static-lore-extraction-      *)
(* service.js, chat-save-store.js, runStaticLoreIntake of index.js).       *)
(*                                                                         *)
(* A state of the sources has an intake session, whose paid batches are    *)
(* settled here (PaidIntake models them).  Compiling it, the companion     *)
(* either answers with a plan that the user has to confirm or publishes:   *)
(* it stages the files, installs them, commits the ledger.  A page carries *)
(* the last answer and compares it with the next one.                      *)
(*                                                                         *)
(* A concept is its key, which stands for its type and its slug, and so    *)
(* for its path; matching by names and by evidence is left out.            *)
(***************************************************************************)
EXTENDS Naturals, FiniteSets

CONSTANTS Lores, NoLore,  \* as in ActiveLore
          Keys,           \* concepts, numbered
          Concepts,       \* Lores -> the concepts of the extraction
          Tabs,           \* pages on the chat
          MaxEntities,    \* bound: entities that are ever created
          MaxEvents       \* bound: edits of the sources, turns that change the
                          \* memory and deaths of the companion, together

ASSUME ReconcileAssumption ==
  /\ NoLore \notin Lores
  /\ Keys \subseteq Nat /\ IsFiniteSet(Keys)
  /\ Concepts \in [Lores -> SUBSET Keys]
  /\ "nobody" \notin Tabs

VARIABLES
  sources,    \* what the author's sources are now
  ledger,     \* active projection, owner of each path, intake runs, patches
  disk,       \* derived/: runtime world, plans, sessions, journal
  lock,       \* the request that holds the writer lock, or Nobody
  op,         \* the request of each page
  page,       \* preparedIntake of each page and what its user does
  fresh,      \* the entity that is created next
  shown,      \* history: plans that some page has shown
  approved,   \* history: plans that some user has approved
  events      \* edits, changes of the memory and crashes so far

reconcileVars == <<sources, ledger, disk, lock, op, page, fresh, shown, approved, events>>

Nobody == "nobody"
NoIds == [k \in Keys |-> 0]
NoWorld == [lore |-> NoLore, from |-> NoLore, ids |-> NoIds]
NoPlan  == [lore |-> NoLore, from |-> NoLore, ids |-> NoIds, ok |-> FALSE]
NoOp    == [kind |-> "none"]
Empty   == [status |-> "none", plan |-> NoPlan]
NoJournal == [world |-> NoWorld, kept |-> Empty]

ReconcileInit ==
  /\ sources \in Lores
  /\ ledger = [active |-> NoWorld, owner |-> NoIds, completed |-> {}, patched |-> FALSE]
  /\ disk = [world |-> NoWorld,
             plan |-> [l \in Lores |-> Empty],
             session |-> [l \in Lores |-> [status |-> "none", plan |-> NoPlan, approved |-> NoPlan]],
             journal |-> NoJournal]
  /\ lock = Nobody
  /\ op = [t \in Tabs |-> NoOp]
  /\ page = [t \in Tabs |-> [answer |-> Empty, by |-> "nobody"]]
  /\ fresh = 1
  /\ shown = {} /\ approved = {}
  /\ events = 0

-----------------------------------------------------------------------------
(* The page.                                                               *)

Idle(t) == op[t] = NoOp /\ page[t].by = "nobody"

Preparation(l) == [kind |-> "prepare", lore |-> l, at |-> "load", approved |-> NoPlan, plan |-> NoPlan]
Confirmation(p) == [kind |-> "confirm", lore |-> p.lore, at |-> "load", approved |-> p, plan |-> NoPlan]

(* runStaticLoreIntake, of a send, of the button, or of the driver that    *)
(* goes on after the button.                                               *)
Run(t, by) ==
  /\ op' = [op EXCEPT ![t] = Preparation(sources)]
  /\ page' = [page EXCEPT ![t].by = by]

Send(t) ==
  /\ Idle(t)
  /\ Run(t, "send")
  /\ UNCHANGED <<sources, ledger, disk, lock, fresh, shown, approved, events>>

(* applyPendingIntakeReconcile: the button is there while a plan waits.    *)
Click(t) ==
  /\ Idle(t) /\ page[t].answer.status = "approval"
  /\ Run(t, "click")
  /\ approved' = approved \union {page[t].answer.plan}
  /\ UNCHANGED <<sources, ledger, disk, lock, fresh, shown, events>>

Drive(t) ==
  /\ op[t] = NoOp /\ page[t].by = "driver"
  /\ Run(t, "auto")
  /\ UNCHANGED <<sources, ledger, disk, lock, fresh, shown, approved, events>>

(* When a run of the button is over the driver runs once more.             *)
Over(t) == IF page[t].by = "click" THEN "driver" ELSE "nobody"

(* The request has failed: the page keeps what it had.                     *)
RequestFails(t) ==
  /\ op' = [op EXCEPT ![t] = NoOp]
  /\ page' = [page EXCEPT ![t].by = Over(t)]
  /\ UNCHANGED shown

Keeps(t, answer) ==
  /\ op' = [op EXCEPT ![t] = NoOp]
  /\ page' = [page EXCEPT ![t] = [answer |-> answer, by |-> Over(t)]]
  /\ shown' = shown \union ({answer.plan} \ {NoPlan})

(* What the page does with an answer.  The plan it had, answered again, is *)
(* confirmed.                                                              *)
Answers(t, answer) ==
  LET had == page[t].answer IN
  IF op[t].kind = "prepare" /\ answer.status = "approval" /\ answer = had
    THEN /\ op' = [op EXCEPT ![t] = Confirmation(had.plan)]
         /\ UNCHANGED <<page, shown>>
    ELSE Keeps(t, IF answer.status = "ready" THEN Empty ELSE answer)
-----------------------------------------------------------------------------
(* The companion: finalizeSession around applyExtraction.                  *)

AtStep(t, step) == op[t].kind # "none" /\ op[t].at = step
Goes(t, next) == op' = [op EXCEPT ![t] = next] /\ UNCHANGED <<page, shown>>
Goto(t, step) == Goes(t, [op[t] EXCEPT !.at = step])
SessionOf(t) == disk.session[op[t].lore]
Ready == [status |-> "ready", plan |-> NoPlan]

(* prepare, with the session it reads: what is settled is answered at      *)
(* once, anything else is compiled.                                        *)
LoadPrepared(t) ==
  /\ AtStep(t, "load") /\ op[t].kind = "prepare"
  /\ CASE SessionOf(t).status = "completed" /\ ledger.active.lore = op[t].lore -> Answers(t, Ready)
       [] SessionOf(t).status = "approval" ->
            Answers(t, [status |-> "approval", plan |-> SessionOf(t).plan])
       [] OTHER -> Goes(t, [op[t] EXCEPT !.at = "pending",
                              !.approved = IF SessionOf(t).status = "pending"
                                             THEN SessionOf(t).approved ELSE NoPlan])
  /\ UNCHANGED <<sources, ledger, disk, lock, fresh, approved, events>>

(* confirmReconcile.                                                       *)
LoadConfirmed(t) ==
  /\ AtStep(t, "load") /\ op[t].kind = "confirm"
  /\ IF SessionOf(t).status = "approval" /\ SessionOf(t).plan = op[t].approved
       THEN Goto(t, "pending") ELSE RequestFails(t)
  /\ UNCHANGED <<sources, ledger, disk, lock, fresh, approved, events>>

Persist(t, s) == disk' = [disk EXCEPT !.session[op[t].lore] = s]

(* The session is written as the request knows it.                         *)
PersistPending(t) ==
  /\ AtStep(t, "pending")
  /\ Persist(t, [status |-> "pending", plan |-> op[t].approved, approved |-> op[t].approved])
  /\ Goto(t, "recover")
  /\ UNCHANGED <<sources, ledger, lock, fresh, approved, events>>

(* What recovery makes of the files of a transaction that has stopped.     *)
Recovered ==
  IF ledger.active = disk.journal.world \/ disk.journal = NoJournal
    THEN [disk EXCEPT !.journal = NoJournal]
    ELSE [disk EXCEPT !.journal = NoJournal, !.world = ledger.active,
                      !.plan[disk.journal.world.lore] = disk.journal.kept]

(* recoverStagedFileTransaction, at the start of applyExtraction.          *)
RecoverFiles(t) ==
  /\ AtStep(t, "recover")
  /\ IF lock = Nobody THEN disk' = Recovered /\ Goto(t, "inspect")
                      ELSE RequestFails(t) /\ UNCHANGED disk
  /\ UNCHANGED <<sources, ledger, lock, fresh, approved, events>>

(* matchExistingConcepts: a concept that is there keeps its entity, any    *)
(* other gets one that never was.                                          *)
New(l) == {k \in Concepts[l] : disk.world.ids[k] = 0}
Matched(l) ==
  [k \in Keys |-> IF k \notin Concepts[l] THEN 0
                  ELSE IF disk.world.ids[k] # 0 THEN disk.world.ids[k]
                  ELSE fresh + Cardinality({j \in New(l) : j < k})]

(* inspectReconcileSafety finds a change of the memory by a turn.          *)
Conflicts == ledger.patched

(* A world without an active snapshot, or of another one: refused.         *)
Coherent == disk.world.lore = ledger.active.lore

Initial(t) ==
  /\ AtStep(t, "inspect") /\ Coherent /\ ledger.active = NoWorld
  /\ fresh + Cardinality(New(op[t].lore)) <= MaxEntities + 1
  /\ fresh' = fresh + Cardinality(New(op[t].lore))
  /\ Goes(t, [op[t] EXCEPT !.at = "lock", !.plan =
                [lore |-> op[t].lore, from |-> NoLore, ids |-> Matched(op[t].lore), ok |-> TRUE]])
  /\ UNCHANGED <<sources, ledger, disk, lock, approved, events>>

(* The snapshot is active already.                                         *)
AlreadyActive(t) ==
  /\ AtStep(t, "inspect") /\ ledger.active.lore = op[t].lore
  /\ IF disk.world = ledger.active THEN Goes(t, [op[t] EXCEPT !.at = "persist", !.plan = NoPlan])
                                   ELSE RequestFails(t)
  /\ UNCHANGED <<sources, ledger, disk, lock, fresh, approved, events>>

Reconciles(t) ==
  /\ AtStep(t, "inspect") /\ Coherent
  /\ ledger.active # NoWorld /\ ledger.active.lore # op[t].lore

(* Without approval: the plan, which is written for the user to see.       *)
MakePlan(t) ==
  /\ Reconciles(t) /\ op[t].approved = NoPlan
  /\ fresh + Cardinality(New(op[t].lore)) <= MaxEntities + 1
  /\ LET p == [lore |-> op[t].lore, from |-> ledger.active.lore,
               ids |-> Matched(op[t].lore), ok |-> ~Conflicts]
     IN  /\ disk' = [disk EXCEPT !.plan[op[t].lore] =
                       [status |-> IF p.ok THEN "approval" ELSE "blocked", plan |-> p]]
         /\ Goes(t, [op[t] EXCEPT !.at = IF p.ok THEN "ask" ELSE "block", !.plan = p])
  /\ fresh' = fresh + Cardinality(New(op[t].lore))
  /\ UNCHANGED <<sources, ledger, lock, approved, events>>

(* Mutation of ApprovedIsStored: any plan that is stored will do.          *)
SomeIsStored(t) == disk.plan[op[t].lore].plan # NoPlan

ApprovedIsStored(t) == disk.plan[op[t].lore].plan = op[t].approved

(* matchingFromApprovedPlan: it still waits, and it replaces what is       *)
(* active.                                                                 *)
StillApplies(p) == p.status = "approval" /\ p.plan.from = ledger.active.lore

(* With approval: the stored plan is the approved one and is still safe.   *)
TakePlan(t) ==
  /\ Reconciles(t) /\ op[t].approved # NoPlan
  /\ LET stored == disk.plan[op[t].lore]
     IN  CASE ~ApprovedIsStored(t) -> RequestFails(t) /\ UNCHANGED disk
           [] ApprovedIsStored(t) /\ Conflicts ->
                /\ disk' = [disk EXCEPT !.plan[op[t].lore].status = "blocked"]
                /\ Goes(t, [op[t] EXCEPT !.at = "block", !.plan = stored.plan])
           [] ApprovedIsStored(t) /\ ~Conflicts /\ ~StillApplies(stored) ->
                RequestFails(t) /\ UNCHANGED disk
           [] OTHER -> Goes(t, [op[t] EXCEPT !.at = "lock", !.plan = stored.plan]) /\ UNCHANGED disk
  /\ UNCHANGED <<sources, ledger, lock, fresh, approved, events>>

(* The world does not fit the ledger: another request is publishing.       *)
Incoherent(t) ==
  /\ AtStep(t, "inspect") /\ ~Coherent /\ ledger.active.lore # op[t].lore
  /\ RequestFails(t)
  /\ UNCHANGED <<sources, ledger, disk, lock, fresh, approved, events>>
-----------------------------------------------------------------------------
(* runStagedFileTransaction (StagedFileTransaction models its files).      *)

Target(t) == [lore |-> op[t].plan.lore, from |-> op[t].plan.from, ids |-> op[t].plan.ids]

AcquireWriterLock(t) ==
  /\ AtStep(t, "lock")
  /\ IF lock = Nobody
       THEN lock' = t /\ disk' = Recovered /\ Goto(t, "stage")
       ELSE RequestFails(t) /\ UNCHANGED <<lock, disk>>
  /\ UNCHANGED <<sources, ledger, fresh, approved, events>>

Undone(t) == lock' = Nobody /\ RequestFails(t)

(* Mutation of PreviousIsActive: nobody compares.                          *)
AnyIsActive(t) == op[t].plan # NoPlan

(* The snapshot that was active when the plan was made.                    *)
PreviousIsActive(t) == ledger.active.lore = op[t].plan.from

(* ensurePreparedStaticLoreIntake: the intake of this plan has not been    *)
(* completed before.                                                       *)
Unspent(t) == op[t].plan \notin ledger.completed

(* prepareLedger and stageJournal.                                         *)
Stage(t) ==
  /\ AtStep(t, "stage")
  /\ IF PreviousIsActive(t) /\ Unspent(t)
       THEN /\ disk' = [disk EXCEPT !.journal =
                          [world |-> Target(t), kept |-> disk.plan[op[t].lore]]]
            /\ Goto(t, "install") /\ UNCHANGED lock
       ELSE Undone(t) /\ UNCHANGED disk
  /\ UNCHANGED <<sources, ledger, fresh, approved, events>>

(* The plan is one of the files.                                           *)
Install(t) ==
  /\ AtStep(t, "install")
  /\ disk' = [disk EXCEPT !.world = Target(t), !.plan[op[t].lore] =
                IF op[t].plan.from = NoLore THEN @ ELSE [status |-> "applied", plan |-> op[t].plan]]
  /\ Goto(t, "commit")
  /\ UNCHANGED <<sources, ledger, lock, fresh, approved, events>>

(* Mutation of PathsAreFree: only the concepts of the active world count.  *)
PathsAreUnused(w) == \A k \in Keys : w.ids[k] # 0 => ledger.active.ids[k] \in {0, w.ids[k]}

(* findPathOwner: no other entity was ever at the path of a concept.       *)
PathsAreFree(w) == \A k \in Keys : w.ids[k] # 0 => ledger.owner[k] \in {0, w.ids[k]}

CommitLedger(t) ==
  /\ AtStep(t, "commit")
  /\ IF PathsAreFree(Target(t))
       THEN /\ ledger' = [ledger EXCEPT !.active = Target(t),
                            !.owner = [k \in Keys |-> IF Target(t).ids[k] # 0 THEN Target(t).ids[k] ELSE @[k]],
                            !.completed = @ \union {op[t].plan}]
            /\ Goto(t, "settle") /\ UNCHANGED <<disk, lock>>
       ELSE disk' = Recovered /\ Undone(t) /\ UNCHANGED ledger
  /\ UNCHANGED <<sources, fresh, approved, events>>

Settle(t) ==
  /\ AtStep(t, "settle")
  /\ disk' = Recovered /\ lock' = Nobody
  /\ Goes(t, [op[t] EXCEPT !.at = "persist", !.plan = NoPlan])
  /\ UNCHANGED <<sources, ledger, fresh, approved, events>>

(* finalizeSession writes what came out of it and the answer goes out.     *)
PersistResult(t) ==
  /\ AtStep(t, "persist")
  /\ Persist(t, [status |-> "completed", plan |-> op[t].approved, approved |-> op[t].approved])
  /\ Answers(t, Ready)
  /\ UNCHANGED <<sources, ledger, lock, fresh, approved, events>>

PersistPlan(t) ==
  /\ AtStep(t, "ask") \/ AtStep(t, "block")
  /\ LET status == IF AtStep(t, "ask") THEN "approval" ELSE "blocked"
     IN  /\ Persist(t, [status |-> status, plan |-> op[t].plan, approved |-> NoPlan])
         /\ Answers(t, [status |-> status, plan |-> op[t].plan])
  /\ UNCHANGED <<sources, ledger, lock, fresh, approved, events>>
-----------------------------------------------------------------------------
(* The surroundings.                                                       *)

Edit ==
  /\ events < MaxEvents /\ events' = events + 1
  /\ sources' \in Lores \ {sources}
  /\ UNCHANGED <<ledger, disk, lock, op, page, fresh, shown, approved>>

(* The first turn that changes the memory.                                 *)
Patch ==
  /\ ledger.active # NoWorld /\ ~ledger.patched
  /\ events < MaxEvents /\ events' = events + 1
  /\ ledger' = [ledger EXCEPT !.patched = TRUE]
  /\ UNCHANGED <<sources, disk, lock, op, page, fresh, shown, approved>>

(* The companion dies; its pages see failed requests.                      *)
CompanionDies ==
  /\ events < MaxEvents /\ events' = events + 1
  /\ \E t \in Tabs : op[t] # NoOp
  /\ lock' = Nobody
  /\ op' = [t \in Tabs |-> NoOp]
  /\ page' = [t \in Tabs |-> [page[t] EXCEPT !.by = IF op[t] # NoOp THEN Over(t) ELSE @]]
  /\ UNCHANGED <<sources, ledger, disk, fresh, shown, approved>>

CompileStep(t) ==
  \/ LoadPrepared(t) \/ LoadConfirmed(t) \/ PersistPending(t) \/ RecoverFiles(t)
  \/ Initial(t) \/ AlreadyActive(t) \/ MakePlan(t) \/ TakePlan(t) \/ Incoherent(t)
  \/ AcquireWriterLock(t) \/ Stage(t) \/ Install(t) \/ CommitLedger(t) \/ Settle(t)
  \/ PersistResult(t) \/ PersistPlan(t)

ReconcileNext ==
  \/ \E t \in Tabs : Send(t) \/ Click(t) \/ Drive(t) \/ CompileStep(t)
  \/ Edit \/ Patch \/ CompanionDies

ReconcileSpec == ReconcileInit /\ [][ReconcileNext]_reconcileVars

-----------------------------------------------------------------------------
ViewOf(w) == [lore |-> w.lore, from |-> w.from]
Lore == INSTANCE ActiveLore WITH
          active <- ViewOf(ledger.active), world <- ViewOf(disk.world),
          staged <- ViewOf(disk.journal.world)

(* Whatever the requests of the pages do beside each other and wherever    *)
(* the companion dies, the chat goes from one published world to the next  *)
(* as ActiveLore has it: from the one that is active when it is staged,    *)
(* installed before the ledger changes, and taken back otherwise           *)
(* (applyExtraction, runStagedFileTransaction).                            *)
PublishesWhole == Lore!LoreSpec

(* What replaces an active world is a plan that a page has shown, made     *)
(* from the world it replaces: a concept that stays keeps its entity, and  *)
(* an entity that was retired does not come back as another                *)
(* (matchingFromApprovedPlan, matchExistingConcepts, findPathOwner).       *)
AppliedWasShown ==
  [][ledger.active # NoWorld /\ ledger'.active # ledger.active =>
       /\ \E p \in shown : /\ ViewOf(p) = ViewOf(ledger'.active)
                           /\ p.ids = ledger'.active.ids
       /\ \A k \in Keys : {ledger.owner[k], ledger'.active.ids[k]} \ {0} \in
                            {{}, {ledger'.owner[k]}}]_reconcileVars

(* The button and the text of a blocked send say that the user applies a   *)
(* plan in the panel; a send never does.                                   *)
OnlyTheUserApplies ==
  [][\A t \in Tabs : op[t].kind # "confirm" /\ op'[t].kind = "confirm" =>
       op'[t].approved \in approved]_reconcileVars

(* Claims that do not hold.  A plan that was confirmed can be applied as   *)
(* long as the sources stay and no turn has changed the memory; and no     *)
(* world is replaced once a turn has changed the memory.                   *)
ConfirmedApplies ==
  \A l \in Lores :
    LET s == disk.session[l] IN
    s.status = "pending" /\ s.approved # NoPlan /\ ~ledger.patched /\ sources = l
      /\ (\A t \in Tabs : op[t] = NoOp) /\ ledger.active.lore # l =>
      /\ disk.plan[l].plan = s.approved /\ s.approved.from = ledger.active.lore
      /\ s.approved \notin ledger.completed
      /\ PathsAreFree(s.approved)
MemoryIsSafe == [][ledger.active # NoWorld /\ ledger.patched => ledger'.active = ledger.active]_reconcileVars
===============================================================================
