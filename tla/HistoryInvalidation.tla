------------------------ MODULE HistoryInvalidation ------------------------
(***************************************************************************)
(* The extension's history protocol: how edits and deletions a user makes  *)
(* in the host's chat reach the history ledger of the companion.           *)
(*                                                                         *)
(* The page compares the chat with two baselines: its own last snapshot,   *)
(* and a durable checkpoint of the messages the ledger vouches for.  A     *)
(* difference becomes a durable guard holding one truncation command; the  *)
(* command is sent until it is answered, the guard is kept until the host  *)
(* chat is cut back too, and no generation is to start before.  Handlers   *)
(* run one at a time (the coordinator's tail); while they, the gate of a   *)
(* send or a generation wait, the user goes on editing, answers are lost,  *)
(* and the page is reloaded.                                               *)
(*                                                                         *)
(* One chat, one page.  A message is its role and its text.  A turn of the *)
(* ledger is the history its reply was generated from, and the reply; its  *)
(* index is the number of messages before the reply, as in the code.       *)
(***************************************************************************)
EXTENDS Integers, FiniteSets, Sequences, SequencesExt

CONSTANTS
  Text,             \* the texts a message can have
  Greeting,         \* the text of the character card's greeting
  Said,             \* the texts the user sends (edits take any text)
  None,
  MaxLen,           \* bound: messages in the chat
  MaxEpoch,         \* bound: branch epochs
  MaxEdits,         \* bound: edits and deletions by the user
  MaxSends,         \* bound: generations started by the user
  MaxFaults,        \* bound: lost answers, lost replies and reloads
  MaxTotal          \* bound: edits, sends and faults together

ASSUME BoundsAssumption ==
  /\ MaxLen \in Nat \ {0} /\ MaxEpoch \in Nat /\ MaxEdits \in Nat
  /\ MaxSends \in Nat /\ MaxFaults \in Nat /\ MaxTotal \in Nat
ASSUME TextAssumption ==
  /\ Greeting \in Text /\ Said \subseteq Text /\ None \notin Text
\* None is no number, no event, no command, no guard and no checkpoint.
ASSUME NoneAssumption ==
  /\ None \notin Int
  /\ None \notin [kind : {"edited", "deleted", "gate", "reset", "regen", "received"},
                 at : Int]
  /\ None \notin [id : Nat, cutoff : Int, expected : Nat]
  /\ None \notin [cutoff : Int, release : Int, length : Nat, applied : Int \cup {None},
                 epoch : Nat \cup {None},
                 cmd : [id : Nat, cutoff : Int, expected : Nat] \cup {None}]
  /\ None \notin [epoch : Nat, msgs : Seq([by : {"user", "reply"}, text : Text])]

VARIABLES
  chat,     \* host: the messages shown
  ledger,   \* companion: [epoch, turns, results]
  net,      \* truncation requests sent and not yet carried out
  runs,     \* generations the companion is running
  store,    \* browser storage: [guard, checkpoint]
  mem,      \* the page's chat metadata: [guard, checkpoint, epoch]
  disk,     \* the chat metadata as last saved
  page,     \* [snap, block, suppressed]
  queue,    \* handlers waiting for the coordinator
  job,      \* the handler that holds the coordinator
  gen,      \* the generation in progress; late is a ghost, see UserMayEdit
  used,     \* bounds consumed: [edits, sends, faults, commands]
  lost      \* ghost: what is no longer known, see below

(* What lost records, for the properties to name: "cut", a regeneration    *)
(* that truncated without the page learning of it, or under a guard that   *)
(* stood; "reply", a reply committed and never shown; "edit", an edit or   *)
(* deletion that the page took into its snapshot, bound a generation to,   *)
(* or failed on, before its handler compared it; "early", a generation     *)
(* that left while a guard stood.                                          *)

world   == <<chat, ledger, net, runs>>
durable == <<store, mem, disk>>
vars    == <<chat, ledger, net, runs, store, mem, disk, page, queue, job, gen,
             used, lost>>

Opt(S) == S \cup {None}
Message == [by : {"user", "reply"}, text : Text]
History == BoundedSeq(Message, MaxLen)
Index   == 0 .. MaxLen
Epoch   == 0 .. MaxEpoch

TurnIndices(l) == {i \in Index : l.turns[i] # None}

-----------------------------------------------------------------------------
(* Comparing a recorded history with the one now shown. *)

(* The first difference, a shortened history counting as one. *)
InvalidationCutoff(old, new) ==
  LET shared == IF Len(old) < Len(new) THEN Len(old) ELSE Len(new)
      differ == {i \in 1 .. shared : old[i] # new[i]}
  IN IF differ # {} THEN Min(differ) - 1
     ELSE IF Len(new) < Len(old) THEN Len(new) ELSE None

(* findMessageEditCutoff: never later than the message said to be edited. *)
EditCutoff(old, new, i) ==
  LET first == InvalidationCutoff(old, new)
  IN IF first = None THEN None ELSE Min({first, i})

(* findMessageDeletionCutoff: the first difference or the shorter length. *)
DeletionCutoff(old, new) ==
  LET first == InvalidationCutoff(old, new)
  IN IF first = None THEN Len(old) ELSE first

(* A user message at the cutoff stays: only its tail must be regenerated. *)
ReleaseLength(cutoff, shown) ==
  IF cutoff < Len(shown) /\ shown[cutoff + 1].by = "user"
  THEN cutoff + 1 ELSE cutoff

(* classifyGovernedHistorySuffix: the first reply after the checkpoint. *)
UngovernedReply(n, shown) ==
  LET replies == {i \in n + 1 .. Len(shown) : shown[i].by = "reply"}
  IN IF replies = {} THEN None ELSE Min(replies) - 1

-----------------------------------------------------------------------------
(* The durable record: browser storage first, chat metadata second. *)

Prefer(first, second) == IF first # None THEN first ELSE second

Durable == [guard |-> Prefer(store.guard, mem.guard),
            checkpoint |-> Prefer(store.checkpoint, mem.checkpoint)]

(* reconcile refuses two records that disagree. *)
Conflict ==
  \E f \in {"guard", "checkpoint"} :
    store[f] # None /\ mem[f] # None /\ store[f] # mem[f]

(* No guard stands, and a reload brings none back.                         *)
NoGuard == store.guard = None /\ mem.guard = None /\ disk.guard = None

(* currentBranchEpoch *)
CurrentEpoch ==
  LET g == Durable.guard
  IN CASE g # None /\ g.epoch # None -> g.epoch
       [] g # None /\ g.epoch = None -> g.cmd.expected
       [] g = None /\ mem.epoch # None -> mem.epoch
       [] OTHER -> 0

(* verifiedHistoryBranchEpoch *)
VerifiedEpoch ==
  IF Durable.guard = None /\ Durable.checkpoint # None
  THEN Durable.checkpoint.epoch ELSE CurrentEpoch

NewCommand(cutoff, expected) ==
  [id |-> used.commands, cutoff |-> cutoff, expected |-> expected]

CreatedGuard(cutoff, release, length) ==
  [cutoff |-> cutoff, release |-> release, length |-> length,
   applied |-> None, epoch |-> None,
   cmd |-> NewCommand(cutoff, VerifiedEpoch)]

(* mergeHistoryInvalidationGuard: only ever earlier.                       *)
Lowers(g, cutoff, release) ==
  cutoff < g.cutoff \/ (cutoff = g.cutoff /\ release < g.release)

(* A command in flight keeps the cutoff it was sent with.                  *)
MergedGuard(g, cutoff, release, length) ==
  [g EXCEPT !.cutoff = cutoff, !.release = release,
            !.length = Max({@, length}),
            !.cmd = IF cutoff < g.cutoff /\ @ = None
                    THEN NewCommand(cutoff, g.epoch) ELSE @]

(* Mutation of AppliedGuard: the next command names the epoch of the last. *)
AppliedGuardSameEpoch(g, newEpoch) ==
  [g EXCEPT !.applied = g.cmd.cutoff, !.epoch = newEpoch,
            !.cmd = IF g.cutoff < g.cmd.cutoff
                    THEN NewCommand(g.cutoff, g.cmd.expected) ELSE None]

(* Mutation of AppliedGuard: a guard lowered in flight is taken as applied. *)
AppliedGuardOnce(g, newEpoch) ==
  [g EXCEPT !.applied = g.cutoff, !.epoch = newEpoch, !.cmd = None]

(* reconcileHistoryInvalidationGuard, one answered command. *)
AppliedGuard(g, newEpoch) ==
  [g EXCEPT !.applied = g.cmd.cutoff, !.epoch = newEpoch,
            !.cmd = IF g.cutoff < g.cmd.cutoff
                    THEN NewCommand(g.cutoff, newEpoch) ELSE None]

-----------------------------------------------------------------------------
NoJob == [ev |-> None, pc |-> "none", seen |-> <<>>, base |-> None, next |-> "none",
          then |-> "none", call |-> None]
NoGen == [pc |-> "idle", regen |-> FALSE, len |-> 0, start |-> <<>>,
          epoch |-> 0, late |-> FALSE, live |-> FALSE, scope |-> FALSE, run |-> None,
          text |-> None]
NewPage == [snap |-> None, block |-> FALSE, suppressed |-> None]

Init ==
  /\ chat = << [by |-> "reply", text |-> Greeting] >>
  /\ ledger = [epoch |-> None, turns |-> [i \in Index |-> None],
               results |-> << >>]
  /\ net = {} /\ runs = {}
  /\ store = [guard |-> None, checkpoint |-> None]
  /\ mem = [guard |-> None, checkpoint |-> None, epoch |-> None]
  /\ disk = mem
  /\ page = [NewPage EXCEPT !.snap = chat]
  /\ queue = << >> /\ job = NoJob /\ gen = NoGen
  /\ used = [edits |-> 0, sends |-> 0, faults |-> 0, commands |-> 1]
  /\ lost = {}

-----------------------------------------------------------------------------
(* The user and the host. *)

Enqueue(ev) == queue' = Append(queue, ev)

(* A handler that gets the coordinator reads the chat before it first      *)
(* waits: nothing of the host or the user comes between.                   *)
Entered == job.pc # "begin"

(* An edit or deletion whose handler has not begun.                        *)
Unseen == \E i \in DOMAIN queue : queue[i].kind \in {"edited", "deleted"}
Overtaken == lost' = IF Unseen THEN lost \cup {"edit"} ELSE lost

Quiet == queue = << >> /\ job = NoJob

Budget == used.edits + used.sends + used.faults < MaxTotal

(* At any moment, a generation under way or not.  A gate that waits, or has *)
(* just answered, does not hear of it: the generation is late for it.      *)
UserMayEdit ==
  /\ Entered
  /\ used.edits < MaxEdits /\ Budget
  /\ used' = [used EXCEPT !.edits = @ + 1]
  /\ gen' = [gen EXCEPT !.late = @ \/ gen.pc \in {"gate", "admitted"}]
  /\ UNCHANGED <<ledger, net, runs, durable, page, job, lost>>

EditMessage(i, t) ==
  /\ UserMayEdit
  /\ i \in DOMAIN chat /\ chat[i].text # t
  /\ chat' = [chat EXCEPT ![i].text = t]
  /\ Enqueue([kind |-> "edited", at |-> i - 1])

DeleteMessage(i) ==
  /\ UserMayEdit
  /\ i \in DOMAIN chat
  /\ chat' = RemoveAt(chat, i)
  /\ Enqueue([kind |-> "deleted", at |-> Len(chat) - 1])

(* The user sends, or asks for the last reply again: the history gate is   *)
(* queued behind the handlers that wait.                                   *)
Send(regen, t) ==
  /\ used.sends < MaxSends /\ Budget
  /\ gen.pc = "idle"
  /\ Entered
  /\ regen => Len(chat) > 1 /\ Last(chat).by = "reply"
  /\ Len(chat) + 2 <= MaxLen
  /\ gen' = [NoGen EXCEPT !.pc = "gate", !.regen = regen, !.len = Len(chat),
                          !.text = t]
  /\ Enqueue([kind |-> "gate", at |-> 0])
  /\ used' = [used EXCEPT !.sends = @ + 1]
  /\ UNCHANGED <<world, durable, page, job, lost>>

(* onGenerationStarted after its gates: the marker, the run scope, and the *)
(* block cleared.  An interactive send whose chat has another length is    *)
(* dropped.                                                                *)
Start ==
  /\ Entered
  /\ gen.pc = "admitted"
  /\ IF ~ gen.regen /\ Len(chat) # gen.len
     THEN gen' = NoGen /\ UNCHANGED <<page, queue>>
     ELSE /\ page' = [page EXCEPT !.block = FALSE]
          /\ gen' = [gen EXCEPT !.pc = IF gen.regen THEN "regenerating"
                                       ELSE "started",
                                !.start = chat, !.epoch = CurrentEpoch,
                                !.live = TRUE, !.scope = TRUE,
                                !.late = @ /\ ~ (Quiet /\ Durable.guard = None)]
          /\ IF gen.regen THEN Enqueue([kind |-> "regen", at |-> Len(chat) - 1])
             ELSE UNCHANGED queue
  /\ UNCHANGED <<world, durable, job, used, lost>>

(* The host appends the user's message; onHostMessageSent takes a new      *)
(* snapshot without waiting for the coordinator.                           *)
UserTurn ==
  /\ Entered
  /\ gen.pc = "started"
  /\ Len(chat) < MaxLen
  /\ chat' = Append(chat, [by |-> "user", text |-> gen.text])
  /\ page' = [page EXCEPT !.snap = chat']
  /\ gen' = [gen EXCEPT !.pc = "sent"]
  /\ Overtaken
  /\ UNCHANGED <<ledger, net, runs, durable, queue, job, used>>

(* A regeneration: the host deletes its last message, whatever became of   *)
(* the truncation.                                                         *)
RegenerationDeletes ==
  /\ Entered
  /\ gen.pc = "truncated"
  /\ chat # << >>
  /\ chat' = Front(chat)
  /\ Enqueue([kind |-> "deleted", at |-> Len(chat) - 1])
  /\ gen' = [gen EXCEPT !.pc = "sent"]
  /\ UNCHANGED <<ledger, net, runs, durable, page, job, used, lost>>

(* createStoryPromptHistoryBinding: the chat changed by exactly what this  *)
(* generation changes.                                                     *)
TransitionValid ==
  IF gen.regen
  THEN gen.start # << >> /\ chat = Front(gen.start)
       /\ Last(gen.start).by = "reply"
  ELSE /\ chat # << >>
       /\ Last(chat).by = "user" /\ Front(chat) = gen.start

(* onGenerationFinished *)
Finished == [snap |-> chat, block |-> page.block, suppressed |-> None]

(* The interceptor, onPromptReady and onSettingsReady: the run is sent with *)
(* the history it is bound to, or the generation is aborted.               *)
Bind ==
  /\ Entered
  /\ gen.pc = "sent"
  /\ IF gen.live /\ gen.scope /\ ~ page.block /\ TransitionValid
        /\ chat # << >>
     THEN LET run == [epoch |-> gen.epoch, sees |-> chat, id |-> used.sends]
          IN /\ runs' = runs \cup {run}
             /\ gen' = [gen EXCEPT !.pc = "running", !.run = run]
             /\ lost' = lost \cup (IF NoGuard THEN {} ELSE {"early"})
                            \cup (IF Unseen THEN {"edit"} ELSE {})
             /\ UNCHANGED page
     ELSE /\ gen' = NoGen
          /\ page' = [Finished EXCEPT !.block = TRUE]
          /\ UNCHANGED <<runs, lost>>
  /\ UNCHANGED <<chat, ledger, net, durable, queue, job, used>>

(* The host shows the reply and waits for onHostMessageReceived. *)
Receive ==
  /\ Entered
  /\ gen.pc = "replied"
  /\ Len(chat) < MaxLen
  /\ chat' = Append(chat, [by |-> "reply", text |-> gen.text])
  /\ Enqueue([kind |-> "received", at |-> 0])
  /\ gen' = [gen EXCEPT !.pc = "received"]
  /\ UNCHANGED <<ledger, net, runs, durable, page, job, used, lost>>

End ==
  /\ Entered
  /\ gen.pc = "ending"
  /\ page' = Finished
  /\ gen' = NoGen
  /\ UNCHANGED <<world, durable, queue, job, used, lost>>

-----------------------------------------------------------------------------
(* The coordinator: one handler at a time, in the order of the events. *)

StartHandler ==
  /\ job = NoJob /\ queue # << >>
  /\ job' = [NoJob EXCEPT !.ev = Head(queue), !.pc = "begin", !.seen = chat]
  /\ queue' = Tail(queue)
  /\ UNCHANGED <<world, durable, page, gen, used, lost>>

Goto(pc) == job' = [job EXCEPT !.pc = pc]

(* Mutation of Verdict: the gate is told and goes on.                      *)
VerdictIgnored(blocked) == [gen EXCEPT !.pc = "admitted"]

(* runGenerationAdmissionGates, its history part. *)
Verdict(blocked) ==
  IF blocked THEN NoGen ELSE [gen EXCEPT !.pc = "admitted"]

(* What ends a handler, by its kind: the verdict of the gate, the block    *)
(* reason of an edit or deletion, the fresh snapshot of a chat change.     *)
Finish(blocked) ==
  LET kind == job.ev.kind
  IN /\ job' = NoJob
     /\ page' = CASE kind \in {"edited", "deleted"} ->
                       [page EXCEPT !.block = blocked]
                  [] kind = "reset" -> [page EXCEPT !.snap = chat]
                  [] kind = "gate" /\ blocked ->
                       [page EXCEPT !.block = gen.regen \/ @]
                  [] kind = "regen" ->
                       [page EXCEPT !.suppressed = job.ev.at]
                  [] OTHER -> page
     /\ gen' = CASE kind = "edited" ->
                      [gen EXCEPT !.live = FALSE, !.scope = FALSE]
                 [] kind = "deleted" -> [gen EXCEPT !.scope = FALSE]
                 [] kind = "gate" -> Verdict(blocked)
                 [] kind = "regen" ->
                      [gen EXCEPT !.pc = "truncated", !.epoch = CurrentEpoch]
                 [] kind = "received" -> [gen EXCEPT !.pc = "ending"]
                 [] OTHER -> gen

(* An early return: nothing of the handler's end happens. *)
Return ==
  /\ job' = NoJob
  /\ gen' = IF job.ev.kind = "received"
            THEN [gen EXCEPT !.pc = "ending"] ELSE gen

(* Mutation of Fail: a gate that throws leaves the send without a verdict. *)
FailUnanswered ==
  LET kind == job.ev.kind
  IN /\ job' = NoJob
     /\ page' = [page EXCEPT !.block = TRUE]
     /\ gen' = IF kind = "regen"
               THEN [gen EXCEPT !.pc = "truncated", !.live = FALSE,
                                !.scope = FALSE]
               ELSE IF kind = "received" THEN [gen EXCEPT !.pc = "ending"]
               ELSE gen
     /\ UNCHANGED lost

(* reportHistoryLifecycleFailure, and what a throw means for a generation. *)
Fail ==
  LET kind == job.ev.kind
  IN /\ job' = NoJob
     /\ page' = [page EXCEPT !.block = kind # "gate" \/ gen.regen \/ @,
                             !.snap = IF kind = "reset" THEN chat ELSE @]
     /\ gen' = CASE kind = "gate" -> NoGen
                 [] kind = "regen" ->
                      [gen EXCEPT !.pc = "truncated", !.live = FALSE,
                                  !.scope = FALSE]
                 [] kind = "received" -> [gen EXCEPT !.pc = "ending"]
                 [] OTHER -> gen
     /\ lost' = lost
          \cup (IF kind = "regen" /\ job.call # None THEN {"cut"} ELSE {})
          \cup (IF kind \in {"edited", "deleted"} /\ job.pc = "begin"
                THEN {"edit"} ELSE {})

(* A durable write: browser storage, then metadata, then the host saves.   *)
WriteGuard(g, epoch, next) ==
  /\ store' = [guard |-> g, checkpoint |-> Durable.checkpoint]
  /\ mem' = [mem EXCEPT !.guard = g, !.epoch = epoch]
  /\ job' = [job EXCEPT !.pc = "saving", !.next = next, !.call = None]
  /\ UNCHANGED disk

WriteCheckpoint(c, epoch, next) ==
  /\ store' = [guard |-> Durable.guard, checkpoint |-> c]
  /\ mem' = [mem EXCEPT !.checkpoint = c, !.epoch = epoch]
  /\ job' = [job EXCEPT !.pc = "saving", !.next = next, !.call = None]
  /\ UNCHANGED disk

(* settlePendingHistoryInvalidation: both fields in one record. *)
WriteSettled(c, next) ==
  /\ store' = [guard |-> None, checkpoint |-> c]
  /\ mem' = [mem EXCEPT !.guard = None, !.checkpoint = c]
  /\ job' = [job EXCEPT !.pc = "saving", !.next = next, !.call = None]
  /\ UNCHANGED disk

SaveMetadata ==
  /\ job.pc = "saving"
  /\ disk' = mem
  /\ Goto(job.next)
  /\ UNCHANGED <<world, store, mem, page, queue, gen, used, lost>>

(* ensurePendingHistoryInvalidation: create the guard, or lower it.        *)
EnsureGuard(cutoff, release, length, next) ==
  LET g == Durable.guard
  IN CASE g = None ->
            /\ WriteGuard(CreatedGuard(cutoff, release, length),
                          IF Durable.checkpoint = None THEN mem.epoch
                          ELSE VerifiedEpoch, next)
            /\ used' = [used EXCEPT !.commands = @ + 1]
            /\ UNCHANGED <<page, gen, lost>>
       [] g # None /\ cutoff >= g.length ->
            Fail /\ UNCHANGED <<durable, used>>
       [] g # None /\ cutoff < g.length /\ Lowers(g, cutoff, release) ->
            /\ WriteGuard(MergedGuard(g, cutoff, release, length), mem.epoch,
                          next)
            /\ used' = [used EXCEPT !.commands = @ + 1]
            /\ UNCHANGED <<page, gen, lost>>
       [] OTHER ->
            Goto(next) /\ UNCHANGED <<durable, page, gen, used, lost>>

-----------------------------------------------------------------------------
(* The handlers, up to the point where they share their course. *)

Begin(kind) == job.pc = "begin" /\ job.ev.kind = kind

(* onMessageDeleted *)
OnMessageDeleted ==
  /\ Begin("deleted")
  /\ LET remaining == job.ev.at
         baseline == page.snap # None /\ page.snap # << >>
         cutoff == DeletionCutoff(page.snap, chat)
     IN IF page.suppressed = remaining
        THEN /\ Return
             /\ page' = [page EXCEPT !.suppressed = None]
             /\ UNCHANGED <<durable, used, lost>>
        ELSE IF ~ baseline
        THEN /\ job' = [job EXCEPT !.pc = "detect", !.then = "return"]
             /\ UNCHANGED <<durable, page, gen, used, lost>>
        ELSE IF remaining >= Len(page.snap)
        THEN Return /\ UNCHANGED <<durable, page, used, lost>>
        ELSE IF Len(chat) # remaining \/ Conflict
        THEN Fail /\ UNCHANGED <<durable, used>>
        ELSE EnsureGuard(cutoff, ReleaseLength(cutoff, chat), Len(page.snap),
                         "observed")
  /\ UNCHANGED <<world, queue>>

(* onHostMessageEdited: without a comparable snapshot everything is cut. *)
OnHostMessageEdited ==
  /\ Begin("edited")
  /\ LET at == job.ev.at
         cutoff == IF page.snap = None \/ at >= Len(chat) THEN 0
                   ELSE IF Len(page.snap) # Len(chat) THEN 0
                   ELSE EditCutoff(page.snap, chat, at)
     IN IF chat = << >>
        THEN Fail /\ UNCHANGED <<durable, used>>
        ELSE IF cutoff = None
        THEN Return /\ UNCHANGED <<durable, page, used, lost>>
        ELSE IF Conflict
        THEN Fail /\ UNCHANGED <<durable, used>>
        ELSE EnsureGuard(cutoff, ReleaseLength(cutoff, chat), Len(chat),
                         "observed")
  /\ UNCHANGED <<world, queue>>

(* Both then take the chat they compared as the new snapshot and resolve. *)
Observed ==
  /\ job.pc = "observed"
  /\ page' = [page EXCEPT !.snap = job.seen]
  /\ job' = [job EXCEPT !.pc = "detect", !.then = "resolve"]
  /\ UNCHANGED <<world, durable, queue, gen, used, lost>>

(* onChatChanged: the page's memory of the chat is dropped first. *)
OnChatChanged ==
  /\ Begin("reset")
  /\ page' = NewPage
  /\ gen' = [gen EXCEPT !.live = FALSE, !.scope = FALSE]
  /\ job' = [job EXCEPT !.pc = "detect", !.then = "finish"]
  /\ UNCHANGED <<world, durable, queue, used, lost>>

HistoryGate ==
  /\ Begin("gate")
  /\ job' = [job EXCEPT !.pc = "detect", !.then = "resolve"]
  /\ UNCHANGED <<world, durable, page, queue, gen, used, lost>>

(* onHostMessageReceived: a reply of the live run is checkpointed, with    *)
(* every message before it, unless a guard stands.                         *)
OnHostMessageReceived ==
  /\ Begin("received")
  /\ page' = [page EXCEPT !.snap = chat, !.block = @ \/ Conflict]
  /\ IF Conflict \/ Durable.guard # None \/ page.block \/ ~ gen.live
     THEN Return /\ UNCHANGED durable
     ELSE /\ WriteCheckpoint([epoch |-> VerifiedEpoch, msgs |-> chat],
                             VerifiedEpoch, "finish")
          /\ UNCHANGED gen
  /\ Overtaken
  /\ UNCHANGED <<world, queue, used>>

(* onGenerationStarted for a regeneration: truncate first, with a command  *)
(* of its own, then checkpoint what remains.                               *)
RegenerationTruncates ==
  /\ Begin("regen")
  /\ LET c == NewCommand(job.ev.at, VerifiedEpoch)
     IN IF Conflict
        THEN Fail /\ UNCHANGED <<net, used>>
        ELSE /\ net' = net \cup {c}
             /\ job' = [job EXCEPT !.pc = "called", !.call = c]
             /\ used' = [used EXCEPT !.commands = @ + 1]
             /\ lost' = IF Durable.guard # None THEN lost \cup {"cut"} ELSE lost
             /\ UNCHANGED <<page, gen>>
  /\ UNCHANGED <<chat, ledger, runs, durable, queue>>

HandlerEnds ==
  /\ job.pc = "finish" /\ Finish(FALSE)
  /\ UNCHANGED <<world, durable, queue, used, lost>>

HandlerReturns ==
  /\ job.pc = "return" /\ Return
  /\ UNCHANGED <<world, durable, page, queue, used, lost>>

-----------------------------------------------------------------------------
(* detectUnobservedHistoryInvalidation *)

(* The companion answers an inspection only for a plain chain of turns:    *)
(* greeting, then user and reply in turn.                                  *)
PlainChain ==
  TurnIndices(ledger) \subseteq {i \in Index : i >= 2 /\ i % 2 = 0}
  /\ \A i \in TurnIndices(ledger) :
       \A j \in {2 * k : k \in 1 .. MaxLen} : j < i => j \in TurnIndices(ledger)

(* recoverGovernedHistoryCheckpoint: every turn's history and reply are    *)
(* what the chat shows; the checkpoint ends with the last turn.            *)
Recoverable ==
  /\ TurnIndices(ledger) # {}
  /\ \A i \in TurnIndices(ledger) : IsPrefix(ledger.turns[i], chat)

RecoveredCheckpoint ==
  [epoch |-> ledger.epoch,
   msgs |-> SubSeq(chat, 1, Max(TurnIndices(ledger)) + 1)]

Mismatch(c, seen) == InvalidationCutoff(c.msgs, seen) \in 0 .. Len(c.msgs) - 1

(* The chat is read once; the checkpoint decides whether to ask.           *)
Detect ==
  /\ job.pc = "detect"
  /\ IF Conflict
     THEN Fail
     ELSE LET c == Durable.checkpoint
          IN /\ job' = [job EXCEPT !.seen = chat, !.base = page.snap,
                                   !.pc = IF c = None THEN "inspect"
                                          ELSE IF Mismatch(c, chat)
                                          THEN "inspect" ELSE "judge"]
             /\ UNCHANGED <<page, gen, lost>>
  /\ UNCHANGED <<world, durable, queue, used>>

(* inspectGovernedHistory, and what the observer makes of the answer. *)
Inspected ==
  /\ job.pc = "inspect"
  /\ LET c == Durable.checkpoint
     IN CASE ~ PlainChain -> Fail /\ UNCHANGED durable
          [] PlainChain /\ Recoverable ->
               /\ WriteCheckpoint(RecoveredCheckpoint, mem.epoch, "judge")
               /\ UNCHANGED <<page, gen, lost>>
          [] PlainChain /\ ~ Recoverable /\ c # None ->
               Goto("judge") /\ UNCHANGED <<durable, page, gen, lost>>
          [] PlainChain /\ ~ Recoverable /\ c = None /\ ledger.epoch = None ->
               /\ page' = [page EXCEPT !.snap = job.seen]
               /\ Goto(job.then)
               /\ UNCHANGED <<durable, gen, lost>>
          [] OTHER -> Fail /\ UNCHANGED durable
  /\ UNCHANGED <<world, queue, used>>

Appended(c) == IF Len(chat) < Len(c.msgs) THEN None
               ELSE UngovernedReply(Len(c.msgs), chat)

(* Mutation of Disagreements: only the page's own snapshot is compared.    *)
DisagreementsWithPage(c, snap, seen) ==
  {Appended(c), InvalidationCutoff(snap, seen)} \ {None}

(* What the chat disagrees with: the checkpoint, replies beyond it, and    *)
(* the page's snapshot.                                                    *)
Disagreements(c, snap, seen) ==
  {InvalidationCutoff(c.msgs, seen), Appended(c),
   InvalidationCutoff(snap, seen)} \ {None}

(* Every disagreement counts, the earliest one wins.                       *)
Judge ==
  /\ job.pc = "judge"
  /\ LET c == Durable.checkpoint
         seen == job.seen
         snap == IF job.base = None THEN seen ELSE job.base
         append == Appended(c)
         cutoffs == Disagreements(c, snap, seen)
         structural == \/ Len(chat) < Len(c.msgs)
                       \/ append # None
                       \/ Len(seen) < Len(snap)
         cutoff == Min(cutoffs)
     IN IF cutoffs = {}
        THEN /\ mem' = [mem EXCEPT !.epoch = c.epoch]
             /\ Goto(job.then)
             /\ UNCHANGED <<store, disk, page, gen, used, lost>>
        ELSE EnsureGuard(cutoff,
                         IF structural THEN cutoff
                         ELSE ReleaseLength(cutoff, chat),
                         Max({Len(seen), Len(c.msgs), Len(snap), cutoff + 1}),
                         "detected")
  /\ UNCHANGED <<world, queue>>

Detected ==
  /\ job.pc = "detected"
  /\ mem' = [mem EXCEPT !.epoch = Durable.checkpoint.epoch]
  /\ page' = [page EXCEPT !.snap = job.seen]
  /\ Goto(job.then)
  /\ UNCHANGED <<world, store, disk, queue, gen, used, lost>>

-----------------------------------------------------------------------------
(* resolvePendingHistoryEditBeforeGeneration, after detection. *)

(* planHistoryInvalidationResolution: a trimmed guard is settled.          *)
Resolve ==
  /\ job.pc = "resolve"
  /\ LET g == Durable.guard
         n == Len(chat)
     IN CASE g = None ->
               Finish(FALSE) /\ UNCHANGED <<durable, used, lost>>
          [] g # None /\ n < g.release ->
               EnsureGuard(n, n, Max({g.length, n + 1}), "reconcile")
          [] g # None /\ n >= g.release /\ g.cmd # None ->
               Goto("reconcile") /\ UNCHANGED <<durable, page, gen, used, lost>>
          [] g # None /\ n = g.release /\ g.cmd = None ->
               /\ WriteSettled([epoch |-> g.epoch,
                                msgs |-> SubSeq(chat, 1, g.release)], "settled")
               /\ Overtaken
               /\ UNCHANGED <<page, gen, used>>
          [] OTHER -> Finish(TRUE) /\ UNCHANGED <<durable, used, lost>>
  /\ UNCHANGED <<world, queue>>

Settled ==
  /\ job.pc = "settled"
  /\ LET fresh == [page EXCEPT !.snap = chat]
     IN /\ job' = NoJob
        /\ page' = IF job.ev.kind = "gate" THEN fresh
                   ELSE [fresh EXCEPT !.block = FALSE]
        /\ gen' = CASE job.ev.kind = "gate" -> [gen EXCEPT !.pc = "admitted"]
                    [] job.ev.kind = "edited" ->
                         [gen EXCEPT !.live = FALSE, !.scope = FALSE]
                    [] OTHER -> [gen EXCEPT !.scope = FALSE]
  /\ Overtaken
  /\ UNCHANGED <<world, durable, queue, used>>

(* The guard's command is sent until there is none. *)
Reconcile ==
  /\ job.pc = "reconcile"
  /\ LET g == Durable.guard
     IN IF g.cmd = None
        THEN Goto("resolve") /\ UNCHANGED net
        ELSE /\ net' = net \cup {g.cmd}
             /\ job' = [job EXCEPT !.pc = "called", !.call = g.cmd]
  /\ UNCHANGED <<chat, ledger, runs, durable, page, queue, gen, used, lost>>

(* truncateHostHistory with its answer; the guard's progress is saved      *)
(* after the ledger was cut.                                               *)
Answered(c, newEpoch) ==
  IF job.ev.kind = "regen"
  THEN /\ WriteCheckpoint([epoch |-> newEpoch,
                           msgs |-> SubSeq(chat, 1, Min({job.ev.at, Len(chat)}))],
                          newEpoch, "finish")
       /\ UNCHANGED used
  ELSE /\ WriteGuard(AppliedGuard(Durable.guard, newEpoch), newEpoch,
                     "reconcile")
       /\ used' = [used EXCEPT !.commands =
                     IF AppliedGuard(Durable.guard, newEpoch).cmd = None
                     THEN @ ELSE @ + 1]

-----------------------------------------------------------------------------
(* The companion. *)

Executed(c) == \E r \in Range(ledger.results) : r.cmd = c

(* truncateBranch: a repeated command is answered with its first result,   *)
(* a new one must name the active epoch.                                   *)
Truncate(c) ==
  /\ c \in net
  /\ net' = net \ {c}
  /\ LET waiting == job.pc = "called" /\ job.call = c
         first == IF ledger.epoch = None THEN 0 ELSE ledger.epoch
     IN CASE Executed(c) ->
               /\ IF waiting
                  THEN /\ Answered(c, (CHOOSE r \in Range(ledger.results) :
                                         r.cmd = c).epoch)
                       /\ UNCHANGED <<page, gen, lost>>
                  ELSE UNCHANGED <<durable, page, job, gen, used, lost>>
               /\ UNCHANGED ledger
          [] ~ Executed(c) /\ c.expected = first ->
               /\ first < MaxEpoch
               /\ ledger' =
                    [epoch |-> first + 1,
                     turns |-> [i \in Index |-> IF i < c.cutoff
                                                THEN ledger.turns[i] ELSE None],
                     results |-> Append(ledger.results,
                                        [cmd |-> c, epoch |-> first + 1])]
               /\ IF waiting
                  THEN Answered(c, first + 1) /\ UNCHANGED <<page, gen, lost>>
                  ELSE UNCHANGED <<durable, page, job, gen, used, lost>>
          [] OTHER ->
               /\ IF waiting THEN Fail /\ UNCHANGED <<durable, used>>
                  ELSE UNCHANGED <<durable, page, job, gen, used, lost>>
               /\ UNCHANGED ledger
  /\ UNCHANGED <<chat, runs, queue>>

(* A generation ends in commitTurn, in the epoch it was bound to; a turn   *)
(* that exists takes the reply as a candidate that is not active.          *)
CommitRun(run) ==
  LET i == Len(run.sees)
      waiting == gen.pc = "running" /\ gen.run = run
      accepted == /\ ledger.epoch \in {None, run.epoch}
                  /\ \/ ledger.turns[i] = None
                     \/ ledger.turns[i][i] = Last(run.sees)
  IN /\ run \in runs
     /\ runs' = runs \ {run}
     /\ IF accepted
        THEN \E t \in Text :
               /\ ledger' = IF ledger.turns[i] # None THEN ledger
                            ELSE [ledger EXCEPT
                                    !.epoch = run.epoch,
                                    !.turns[i] = Append(run.sees,
                                      [by |-> "reply", text |-> t])]
               /\ gen' = IF waiting
                         THEN [gen EXCEPT !.pc = "replied", !.text = t]
                         ELSE gen
        ELSE /\ gen' = IF waiting THEN [gen EXCEPT !.pc = "ending"] ELSE gen
             /\ UNCHANGED ledger
     /\ UNCHANGED <<chat, net, durable, page, queue, job, used, lost>>

-----------------------------------------------------------------------------
(* Faults. *)

Fault == used.faults < MaxFaults /\ Budget

(* An answer never comes; the request may still be carried out. *)
LoseAnswer ==
  /\ Fault
  /\ job.pc \in {"called", "inspect"}
  /\ Fail
  /\ used' = [used EXCEPT !.faults = @ + 1]
  /\ UNCHANGED <<world, durable, queue>>

(* The reply was committed and is never shown. *)
LoseReply ==
  /\ Fault
  /\ gen.pc \in {"running", "replied"}
  /\ gen' = [gen EXCEPT !.pc = "ending"]
  /\ lost' = lost \cup {"reply"}
  /\ used' = [used EXCEPT !.faults = @ + 1]
  /\ UNCHANGED <<world, durable, page, queue, job>>

(* The page is closed, or another chat is opened, and this chat is opened  *)
(* again: the metadata is what was saved, the first read merges it with    *)
(* the browser's record, and the chat change is handled.                   *)
Reload ==
  /\ Fault
  /\ page' = NewPage /\ job' = NoJob /\ gen' = NoGen
  /\ queue' = << [kind |-> "reset", at |-> 0] >>
  /\ mem' = disk
  /\ store' = IF \E f \in {"guard", "checkpoint"} :
                   store[f] # None /\ disk[f] # None /\ store[f] # disk[f]
              THEN store
              ELSE [guard |-> Prefer(store.guard, disk.guard),
                    checkpoint |-> Prefer(store.checkpoint, disk.checkpoint)]
  /\ lost' = lost
       \cup (IF job.ev # None /\ job.ev.kind = "regen"
                /\ job.pc \in {"called", "saving"} THEN {"cut"} ELSE {})
       \cup (IF gen.pc \in {"running", "replied", "received"} THEN {"reply"} ELSE {})
  /\ used' = [used EXCEPT !.faults = @ + 1]
  /\ UNCHANGED <<world, disk>>

-----------------------------------------------------------------------------
User == \/ \E i \in 1 .. MaxLen, t \in Text : EditMessage(i, t)
        \/ \E i \in 1 .. MaxLen : DeleteMessage(i)
        \/ \E t \in Said : Send(FALSE, t)
        \/ Send(TRUE, None)

Host == Start \/ UserTurn \/ RegenerationDeletes \/ Bind \/ Receive \/ End

Coordinator ==
  \/ StartHandler \/ OnMessageDeleted \/ OnHostMessageEdited \/ Observed
  \/ OnChatChanged \/ HistoryGate \/ OnHostMessageReceived
  \/ RegenerationTruncates \/ HandlerEnds \/ HandlerReturns \/ SaveMetadata
  \/ Detect \/ Inspected \/ Judge \/ Detected
  \/ Resolve \/ Settled \/ Reconcile

Companion == \/ \E c \in net : Truncate(c)
             \/ \E run \in runs : CommitRun(run)

Faults == LoseAnswer \/ LoseReply \/ Reload

Next == User \/ Host \/ Coordinator \/ Companion \/ Faults

Spec == Init /\ [][Next]_vars

(* The page's event loop, the host and the companion go on; the user and   *)
(* the faults need not.                                                    *)
FairSpec == Spec /\ WF_vars(Host \/ Coordinator \/ Companion)

-----------------------------------------------------------------------------
(* Properties. *)

CommandRecord == [id : Nat, cutoff : Index, expected : Epoch]
GuardRecord ==
  [cutoff : Index, release : Index, length : Index \cup {MaxLen + 1},
   applied : Opt(Index), epoch : Opt(Epoch), cmd : Opt(CommandRecord)]

(* Types, and the consistency the guard's validator asserts: an applied    *)
(* cutoff comes with an epoch, a guard without a command has applied the   *)
(* cutoff it asks for.                                                     *)
TypeOK ==
  /\ chat \in Seq(Message) /\ Len(chat) <= MaxLen
  /\ ledger.epoch \in Opt(Epoch)
  /\ \A i \in TurnIndices(ledger) : Len(ledger.turns[i]) = i + 1
  /\ LET g == Durable.guard
     IN g # None =>
          /\ g \in GuardRecord
          /\ g.cutoff < g.length
          /\ g.release \in {g.cutoff, g.cutoff + 1}
          /\ (g.applied = None) <=> (g.epoch = None)
          /\ g.cmd = None => g.applied = g.cutoff
          /\ g.cmd # None => g.cmd.cutoff >= g.cutoff
                             /\ g.epoch \in {None, g.cmd.expected}

(* Where the checkpoint and the ledger speak of the same epoch, every turn *)
(* the ledger holds below the checkpoint's length was generated from       *)
(* exactly the messages the checkpoint records, through lost answers,      *)
(* reloads and edits made while handlers wait.  The exceptions are a reply *)
(* committed and never shown, and an edit that onHostMessageSent,          *)
(* onHostMessageReceived, the settling of a guard or a new generation took *)
(* in, or that failed, before its own handler had compared it.             *)
CheckpointVouches ==
  LET c == Durable.checkpoint
  IN c # None /\ lost \cap {"reply", "edit"} = {} => (ledger.epoch = c.epoch =>
       \A i \in TurnIndices(ledger) :
         i < Len(c.msgs) => IsPrefix(ledger.turns[i], c.msgs))

(* A guard is dropped only when the ledger holds no turn beyond the        *)
(* messages the host still shows.  A generation that left while a guard    *)
(* stood is the exception: its reply may be committed behind the cut.      *)
SettledMeansTrimmed ==
  [][store.guard # None /\ store'.guard = None /\ "early" \notin lost =>
       \A i \in TurnIndices(ledger) : i < Len(store'.checkpoint.msgs)]_vars

(* The guard's command can still be carried out: unless it already was, it *)
(* names the ledger's active epoch, so no retry ends in an epoch conflict. *)
(* A regeneration whose own answer was lost, or that truncated although a  *)
(* guard stood, is the exception.                                          *)
CommandStillApplies ==
  LET g == Durable.guard
  IN "cut" \notin lost /\ g # None => (g.cmd # None =>
       \/ Executed(g.cmd)
       \/ g.cmd.expected = IF ledger.epoch = None THEN 0 ELSE ledger.epoch)

(* No generation leaves while a guard stands, the tail must be regenerated *)
(* first: an edit after the gate revokes the generation or is refused as a *)
(* changed history.  Two windows remain: an edit made while the gate waits *)
(* or has just answered, whose revocation onGenerationStarted overwrites,  *)
(* and the handler of an edit that has written its guard and not yet       *)
(* revoked the generation.                                                 *)
NoGenerationUnderGuard ==
  [][gen.pc = "sent" /\ gen'.pc = "running" =>
      Durable.guard = None \/ gen.late \/ (job # NoJob /\ job.ev.kind = "edited")]_vars

(* A send is admitted or refused: the handlers before it never hold the    *)
(* coordinator for good.                                                   *)
SendsAreAnswered == (gen.pc = "gate") ~> (gen.pc # "gate")

=============================================================================
