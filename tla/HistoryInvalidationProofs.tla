----------------------- MODULE HistoryInvalidationProofs -----------------------
(* A generation leaves under a guard only if an edit was made behind its   *)
(* gate or is being recorded, the command that a guard keeps can still be  *)
(* carried out, and no guard is dropped before the ledger is cut and the   *)
(* checkpoint is the chat: for any texts, any length of the chat, any      *)
(* numbers of edits, sends, lost answers and reloads, the user editing at  *)
(* every await of the handlers, the gate and the generations.              *)
(*                                                                         *)
(* The host, the page and the companion know the same history at different *)
(* times; the invariant says what each may assume of the others: where the *)
(* copies of the records agree (SyncInv), which events still wait for      *)
(* their handlers (EventsInv), what a generation that can still leave may  *)
(* meet (AdmissionInv), what a guard says of the ledger (GuardInv) and     *)
(* which epochs and commands the page can name (PageKnows).                *)
EXTENDS HistoryInvalidation, SequenceTheorems, WellFoundedInduction, TLAPS

(* The records; None is none of them.                                      *)
HandlerEvent ==
  [kind : {"edited", "deleted", "gate", "reset", "regen", "received"}, at : Int]
CommandState == [id : Nat, cutoff : Int, expected : Nat]
GuardState ==
  [cutoff : Int, release : Int, length : Nat, applied : Opt(Int), epoch : Opt(Nat),
   cmd : Opt(CommandState)]
CheckpointState == [epoch : Nat, msgs : Seq(Message)]
LedgerStates ==
  [epoch : Opt(Nat), turns : [Index -> Opt(Seq(Message))],
   results : Seq([cmd : CommandState, epoch : Nat])]
StoreState == [guard : Opt(GuardState), checkpoint : Opt(CheckpointState)]
MemState == [guard : Opt(GuardState), checkpoint : Opt(CheckpointState), epoch : Opt(Nat)]
HandlerPlaces ==
  {"none", "begin", "saving", "observed", "detect", "inspect", "judge", "detected", "resolve",
   "settled", "reconcile", "called", "return", "finish"}
JobState ==
  [ev : Opt(HandlerEvent), pc : HandlerPlaces, seen : Seq(Message), base : Opt(Seq(Message)),
   next : HandlerPlaces, then : HandlerPlaces, call : Opt(CommandState)]
RunState == [epoch : Nat, sees : Seq(Message), id : Nat]
GenPlaces ==
  {"idle", "gate", "admitted", "started", "regenerating", "truncated", "sent", "running",
   "replied", "received", "ending"}
GenState ==
  [pc : GenPlaces, regen : BOOLEAN, len : Nat, start : Seq(Message), epoch : Nat,
   late : BOOLEAN, live : BOOLEAN, scope : BOOLEAN, run : Opt(RunState), text : Opt(Text)]
ShownState == [snap : Opt(Seq(Message)), block : BOOLEAN, suppressed : Opt(Int)]
UsedState == [edits : Nat, sends : Nat, faults : Nat, commands : Nat]

HistoryTypes ==
  /\ chat \in Seq(Message) /\ ledger \in LedgerStates
  /\ net \subseteq CommandState /\ runs \subseteq RunState
  /\ store \in StoreState /\ mem \in MemState /\ disk \in MemState
  /\ page \in ShownState /\ queue \in Seq(HandlerEvent) /\ job \in JobState
  /\ gen \in GenState /\ used \in UsedState
  /\ Len(chat) <= MaxLen /\ \A run \in runs : Len(run.sees) <= MaxLen
  /\ \A i \in TurnIndices(ledger) : Len(ledger.turns[i]) = i + 1

(* Where the handler of an event can be.                                   *)
Detecting == {"detect", "inspect", "judge", "detected"}
Settling == {"edited", "deleted", "gate"}

Reaches(kind, pc) ==
  \/ pc = "begin"
  \/ pc \in Detecting /\ kind \in Settling \cup {"reset"}
  \/ pc \in {"resolve", "settled", "reconcile"} /\ kind \in Settling
  \/ pc = "called" /\ kind \in Settling \cup {"regen"}
  \/ pc = "observed" /\ kind \in {"edited", "deleted"}
  \/ pc = "return" /\ kind = "deleted"
  \/ pc = "finish" /\ kind \in {"reset", "regen", "received"}

(* Where it is, or will be when the metadata is saved.                     *)
Place == IF job.pc = "saving" THEN job.next ELSE job.pc

JobInv ==
  job # NoJob =>
    /\ job.ev \in HandlerEvent /\ Reaches(job.ev.kind, Place)
    /\ Place \in Detecting =>
         job.then \in {"resolve", "return", "finish"} /\ Reaches(job.ev.kind, job.then)
    /\ Place \in {"judge", "detected"} => Durable.checkpoint # None
    /\ Place = "reconcile" => Durable.guard # None
    /\ job.pc = "saving" =>
         job.next \in {"observed", "detected", "judge", "reconcile", "settled", "finish"}

(* The records agree once they have been compared, and what is saved is    *)
(* what the page has.                                                      *)
SyncInv ==
  /\ job.pc \notin {"none", "begin", "detect", "finish", "return"} => ~ Conflict
  /\ job.pc # "saving" => disk.guard = mem.guard /\ disk.checkpoint = mem.checkpoint
  /\ store.checkpoint = None => mem.checkpoint = None /\ disk.checkpoint = None
  /\ job # NoJob /\ Place = "settled" => store.guard = None /\ mem.guard = None
  /\ disk.guard # None =>
       store.guard # None \/ mem.guard # None \/ (job.pc = "saving" /\ job.next = "settled")
  /\ job.pc = "saving" => store.guard # None \/ mem.guard = None
  /\ store.guard = None /\ store.checkpoint = None => mem.epoch = None /\ disk.epoch = None

(* At most one event of a kind waits or is at work.                        *)
Once(kind) ==
  /\ \A i, j \in 1 .. Len(queue) :
       queue[i].kind = kind /\ queue[j].kind = kind => i = j
  /\ job # NoJob /\ job.ev.kind = kind => \A i \in 1 .. Len(queue) : queue[i].kind # kind

(* The generation that waits for the handler of an event.                  *)
Expects(e) ==
  /\ e.kind = "gate" => gen.pc = "gate"
  /\ e.kind = "regen" => gen.pc = "regenerating"
  /\ e.kind = "received" => gen.pc = "received"

EventsInv ==
  /\ \A i \in 1 .. Len(queue) : Expects(queue[i])
  /\ job # NoJob => Expects(job.ev)
  /\ Once("gate") /\ Once("regen") /\ Once("received")

(* A generation under way, nothing revoked, that the gate admitted with no *)
(* edit behind it, in a chat of the length that the generation gives it:   *)
(* only such a one can leave.                                              *)
Leaving == {"started", "regenerating", "truncated", "sent"}
Unrevoked == gen.live /\ gen.scope /\ ~ page.block
ExpectedLength ==
  IF gen.pc # "sent" THEN Len(gen.start)
  ELSE IF gen.regen THEN Len(gen.start) - 1 ELSE Len(gen.start) + 1
Clear == gen.pc \in Leaving /\ Unrevoked /\ ~ gen.late /\ Len(chat) = ExpectedLength

(* What such a generation can meet: edits made since it started, its own   *)
(* truncation, and the deletion of the reply that it regenerates.          *)
Meets(e) ==
  \/ e.kind = "edited"
  \/ e.kind = "regen" /\ e.at = Len(gen.start) - 1
  \/ e.kind = "deleted" /\ gen.regen /\ gen.pc = "sent" /\ e.at = page.suppressed

ClearInv ==
  /\ \A i \in 1 .. Len(queue) : Meets(queue[i])
  /\ job # NoJob => Meets(job.ev) /\ (job.ev.kind = "deleted" => job.pc = "begin")
  /\ Once("deleted")
  /\ gen.pc = "truncated" => page.suppressed = Len(gen.start) - 1
  /\ Durable.guard # None => job # NoJob /\ job.ev.kind = "edited" /\ job.pc # "begin"

(* What the gate has seen to while no edit is behind it.                   *)
AdmissionInv ==
  /\ gen.pc = "gate" /\ ~ gen.late =>
       /\ \A i \in 1 .. Len(queue) : queue[i].kind = "gate" => i = Len(queue)
       /\ job # NoJob /\ job.ev.kind = "gate" => queue = << >>
  /\ gen.pc = "admitted" /\ ~ gen.late => Quiet /\ Durable.guard = None
  /\ gen.pc = "started" => ~ gen.regen
  /\ gen.pc \in {"regenerating", "truncated"} => gen.regen
  /\ gen.pc \in Leaving => Len(chat) <= ExpectedLength
  /\ Clear => ClearInv

(* What is known of the epochs is not later than the ledger.               *)
Now == IF ledger.epoch = None THEN 0 ELSE ledger.epoch
Upto(e) == e = None \/ e <= Now

EpochsOf(d) ==
  /\ d.guard # None => /\ Upto(d.guard.epoch)
                       /\ d.guard.cmd # None => Upto(d.guard.cmd.expected)
  /\ d.checkpoint # None => Upto(d.checkpoint.epoch)

EpochsInv ==
  /\ EpochsOf(store) /\ EpochsOf(mem) /\ EpochsOf(disk)
  /\ Upto(mem.epoch) /\ Upto(disk.epoch) /\ Upto(gen.epoch)
  /\ \A run \in runs : Upto(run.epoch)
  /\ \A r \in Range(ledger.results) : Upto(r.epoch)
  /\ ledger.epoch = None => TurnIndices(ledger) = {}

(* Commands are numbered.                                                  *)
CommandsInv ==
  /\ \A c \in net : c.id < used.commands
  /\ \A r \in Range(ledger.results) : r.cmd.id < used.commands
  /\ job.pc = "called" =>
       /\ job.call # None /\ job.call.id < used.commands
       /\ job.ev.kind = "regen" => ~ Executed(job.call)
       /\ job.ev.kind # "regen" => Durable.guard # None /\ Durable.guard.cmd = job.call

(* The ledger was cut, and nothing that runs can add to it.                *)
Cut(n) ==
  /\ ledger.epoch # None
  /\ \A i \in TurnIndices(ledger) : i < n
  /\ \A run \in runs : run.epoch # ledger.epoch

GuardInv(g) ==
  g # None =>
    /\ g.cutoff <= g.release
    /\ g.cmd = None => g.epoch # None
    /\ g.cmd # None => g.cmd.id < used.commands
    /\ "early" \notin lost =>
         /\ g.cmd = None => Cut(g.cutoff)
         /\ g.cmd # None /\ Executed(g.cmd) => Cut(g.cmd.cutoff)

(* The page knows the epoch of the ledger, unless an answer was lost.      *)
UpToDate(g) ==
  IF g.cmd = None THEN g.epoch = Now
  ELSE IF Executed(g.cmd) THEN \A r \in Range(ledger.results) : r.cmd = g.cmd => r.epoch = Now
  ELSE g.cmd.expected = Now

PageKnows ==
  /\ \A c \in net : Executed(c) \/ (Durable.guard # None /\ c = Durable.guard.cmd)
                    \/ (job.pc = "called" /\ job.ev.kind = "regen" /\ c = job.call)
  /\ job.pc = "called" /\ job.ev.kind = "regen" => Durable.guard = None
  /\ Durable.guard # None => UpToDate(Durable.guard)
  /\ Durable.guard = None => VerifiedEpoch = Now
  /\ disk.guard # None /\ Durable.guard = None => disk.guard.cmd = None /\ UpToDate(disk.guard)

LedgerInv ==
  /\ EpochsInv /\ CommandsInv
  /\ GuardInv(store.guard) /\ GuardInv(mem.guard) /\ GuardInv(disk.guard)
  /\ "cut" \notin lost => PageKnows

HistoryIInv ==
  HistoryTypes /\ JobInv /\ SyncInv /\ AdmissionInv /\ EventsInv /\ LedgerInv

USE BoundsAssumption, TextAssumption

(* What counts is the record of the browser, or else that of the chat.     *)
LEMMA DurableIs ==
  ASSUME HistoryTypes
  PROVE  /\ Durable.guard = None <=> store.guard = None /\ mem.guard = None
         /\ Durable.guard \in {store.guard, mem.guard}
         /\ store.guard # None => Durable.guard = store.guard
         /\ Durable.checkpoint = None <=> store.checkpoint = None /\ mem.checkpoint = None
         /\ Durable.checkpoint \in {store.checkpoint, mem.checkpoint}
         /\ store.checkpoint # None => Durable.checkpoint = store.checkpoint
         /\ Durable.guard # None => Durable.guard \in GuardState
         /\ Durable.checkpoint # None => Durable.checkpoint \in CheckpointState
<1>1. store \in StoreState /\ mem \in MemState BY DEF HistoryTypes
<1>2. /\ store.guard \in Opt(GuardState) /\ mem.guard \in Opt(GuardState)
      /\ store.checkpoint \in Opt(CheckpointState) /\ mem.checkpoint \in Opt(CheckpointState)
  BY <1>1 DEF StoreState, MemState
<1>3. /\ Durable.guard = IF store.guard # None THEN store.guard ELSE mem.guard
      /\ Durable.checkpoint = IF store.checkpoint # None THEN store.checkpoint ELSE mem.checkpoint
  BY DEF Durable, Prefer
<1> QED BY <1>2, <1>3 DEF Opt

(* What the ledger remembers of the commands it carried out.               *)
LEMMA ResultsAre ==
  ASSUME HistoryTypes
  PROVE  \A r \in Range(ledger.results) : r.cmd \in CommandState /\ r.epoch \in Nat
<1> DEFINE s == ledger.results
           R == [cmd : CommandState, epoch : Nat]
<1>1. s \in Seq(R) BY DEF HistoryTypes, LedgerStates
<1> HIDE DEF s, R
<1>2. \A i \in DOMAIN s : s[i] \in R BY <1>1
<1>3. \A r \in Range(s) : r \in R BY <1>2 DEF Range
<1> QED BY <1>3 DEF s, R

LEMMA SameDurable ==
  ASSUME store' = store, mem'.guard = mem.guard, mem'.checkpoint = mem.checkpoint
  PROVE  Durable' = Durable /\ (Conflict' <=> Conflict)
<1>1. Durable' = Durable BY DEF Durable, Prefer
<1>2. Conflict' <=> Conflict
  <2>1. \A f \in {"guard", "checkpoint"} : mem'[f] = mem[f]
    <3>1. mem'["guard"] = mem["guard"] /\ mem'["checkpoint"] = mem["checkpoint"] OBVIOUS
    <3> QED BY <3>1
  <2> QED BY <2>1 DEF Conflict
<1> QED BY <1>1, <1>2

(* None is none of the records and none of the numbers.                    *)
LEMMA NoneApart ==
  /\ None \notin GuardState /\ None \notin CommandState /\ None \notin CheckpointState
  /\ None \notin HandlerEvent /\ None \notin Nat /\ None \notin Int
<1>1. None \notin CommandState BY NoneAssumption DEF CommandState
<1>2. None \notin GuardState BY NoneAssumption DEF GuardState, CommandState, Opt
<1>3. None \notin CheckpointState BY NoneAssumption DEF CheckpointState, Message
<1>4. None \notin HandlerEvent BY NoneAssumption DEF HandlerEvent
<1>5. None \notin Nat /\ None \notin Int BY NoneAssumption
<1> QED BY <1>1, <1>2, <1>3, <1>4, <1>5

(* The epoch that the page names is a number the ledger has reached.       *)
LEMMA EpochsNamed ==
  ASSUME HistoryIInv
  PROVE  /\ Now \in Nat
         /\ CurrentEpoch \in Nat /\ CurrentEpoch <= Now
         /\ VerifiedEpoch \in Nat /\ VerifiedEpoch <= Now
<1>1. HistoryTypes /\ EpochsInv /\ GuardInv(store.guard) /\ GuardInv(mem.guard)
  BY DEF HistoryIInv, LedgerInv
<1>2. Now \in Nat BY <1>1 DEF HistoryTypes, LedgerStates, Opt, Now
<1> DEFINE g == Durable.guard
           c == Durable.checkpoint
<1>3. mem.epoch \in Opt(Nat) /\ Upto(mem.epoch)
  BY <1>1 DEF HistoryTypes, MemState, EpochsInv
<1>4. g # None => /\ g \in GuardState /\ Upto(g.epoch)
                  /\ g.cmd # None => Upto(g.cmd.expected)
                  /\ g.cmd = None => g.epoch # None
  <2>1. g # None => g \in {store.guard, mem.guard} /\ g \in GuardState BY <1>1, DurableIs
  <2>2. \A d \in {store.guard, mem.guard} : d # None =>
          /\ Upto(d.epoch) /\ (d.cmd # None => Upto(d.cmd.expected))
          /\ d.cmd = None => d.epoch # None
    BY <1>1 DEF EpochsInv, EpochsOf, GuardInv
  <2> QED BY <2>1, <2>2
<1>5. c # None => c \in CheckpointState /\ Upto(c.epoch)
  <2>1. c # None => c \in {store.checkpoint, mem.checkpoint} /\ c \in CheckpointState
    BY <1>1, DurableIs
  <2>2. \A d \in {store.checkpoint, mem.checkpoint} : d # None => Upto(d.epoch)
    BY <1>1 DEF EpochsInv, EpochsOf
  <2> QED BY <2>1, <2>2
<1> HIDE DEF g, c
<1>6. CurrentEpoch \in Nat /\ CurrentEpoch <= Now
  <2>1. CurrentEpoch = CASE g # None /\ g.epoch # None -> g.epoch
                         [] g # None /\ g.epoch = None -> g.cmd.expected
                         [] g = None /\ mem.epoch # None -> mem.epoch
                         [] OTHER -> 0
    BY DEF CurrentEpoch, g
  <2>2. CASE g # None /\ g.epoch # None
    <3>1. CurrentEpoch = g.epoch BY <2>1, <2>2
    <3> QED BY <1>2, <1>4, <2>2, <3>1 DEF Upto, GuardState, Opt
  <2>3. CASE g # None /\ g.epoch = None
    <3>1. CurrentEpoch = g.cmd.expected BY <2>1, <2>3
    <3>2. g.cmd \in CommandState /\ g.cmd # None BY <1>4, <2>3 DEF GuardState, Opt
    <3>3. g.cmd.expected \in Nat /\ Upto(g.cmd.expected) BY <1>4, <2>3, <3>2 DEF CommandState
    <3> QED BY <3>1, <3>3, NoneApart DEF Upto
  <2>4. CASE g = None /\ mem.epoch # None
    <3>1. CurrentEpoch = mem.epoch BY <2>1, <2>4
    <3> QED BY <1>3, <2>4, <3>1 DEF Upto, Opt
  <2>5. CASE g = None /\ mem.epoch = None
    <3>1. CurrentEpoch = 0 BY <2>1, <2>5
    <3> QED BY <1>2, <3>1
  <2> QED BY <2>2, <2>3, <2>4, <2>5
<1>7. VerifiedEpoch \in Nat /\ VerifiedEpoch <= Now
  <2>1. VerifiedEpoch = IF g = None /\ c # None THEN c.epoch ELSE CurrentEpoch
    BY DEF VerifiedEpoch, g, c
  <2>2. c # None => c.epoch \in Nat /\ c.epoch <= Now
    BY <1>5, NoneApart DEF CheckpointState, Upto
  <2> QED BY <1>6, <2>1, <2>2
<1> QED BY <1>2, <1>6, <1>7

(* What a step that leaves the ledger and the records alone keeps.         *)
LEMMA LedgerStays ==
  ASSUME HistoryIInv, UNCHANGED <<ledger, runs, store, disk>>, net' \subseteq net,
         mem'.guard = mem.guard, mem'.checkpoint = mem.checkpoint,
         mem'.epoch = mem.epoch \/ (Durable.checkpoint # None /\ Upto(mem'.epoch)),
         used'.commands = used.commands, Upto(gen'.epoch),
         job' = job \/ job'.pc # "called",
         lost \subseteq lost',
         job.pc = "called" /\ job.ev.kind = "regen" /\ job' # job => "cut" \in lost'
  PROVE  LedgerInv'
<1>1. /\ HistoryTypes /\ EpochsInv /\ CommandsInv
      /\ GuardInv(store.guard) /\ GuardInv(mem.guard) /\ GuardInv(disk.guard)
      /\ "cut" \notin lost => PageKnows
  BY DEF HistoryIInv, LedgerInv
<1>2. Durable' = Durable /\ Now' = Now BY SameDurable DEF Now
<1>3. EpochsInv'
  <2>1. \A e : Upto(e)' <=> Upto(e) BY <1>2 DEF Upto
  <2>2. Upto(mem.epoch)' BY <1>1, <1>2 DEF EpochsInv, Upto
  <2>3. TurnIndices(ledger)' = TurnIndices(ledger) BY DEF TurnIndices
  <2>5. EpochsOf(store)' /\ EpochsOf(mem)' /\ EpochsOf(disk)'
    BY <1>1, <1>2 DEF EpochsInv, EpochsOf, Upto
  <2>6. Upto(disk.epoch)' /\ Upto(gen.epoch)' BY <1>1, <1>2 DEF EpochsInv, Upto
  <2>7. /\ \A run \in runs' : Upto(run.epoch)'
        /\ \A r \in Range(ledger'.results) : Upto(r.epoch)'
        /\ ledger'.epoch = None => TurnIndices(ledger') = {}
    BY <1>1, <2>1, <2>3 DEF EpochsInv
  <2> QED BY <2>2, <2>5, <2>6, <2>7 DEF EpochsInv
<1>4. \A c : Executed(c)' <=> Executed(c) BY DEF Executed
<1>5. CommandsInv'
  <2>1. CASE job' = job BY <1>1, <1>2, <2>1 DEF CommandsInv, Executed
  <2>2. CASE job'.pc # "called" BY <1>1, <2>2 DEF CommandsInv
  <2> QED BY <2>1, <2>2
<1>6. /\ GuardInv(store.guard)' /\ GuardInv(mem.guard)' /\ GuardInv(disk.guard)'
  BY <1>1 DEF GuardInv, Cut, Executed, TurnIndices
<1>7. ASSUME "cut" \notin lost' PROVE PageKnows'
  <2>1. PageKnows BY <1>1, <1>7
  <2>2. VerifiedEpoch' = VerifiedEpoch
    <3>1. CASE mem'.epoch = mem.epoch BY <1>2, <3>1 DEF VerifiedEpoch, CurrentEpoch
    <3>2. CASE Durable.guard # None BY <1>2, <3>2 DEF VerifiedEpoch, CurrentEpoch
    <3>3. CASE Durable.guard = None /\ Durable.checkpoint # None BY <1>2, <3>3 DEF VerifiedEpoch
    <3> QED BY <3>1, <3>2, <3>3
  <2>3. \A g : UpToDate(g)' <=> UpToDate(g) BY <1>2 DEF UpToDate, Executed
  <2>4. ASSUME NEW c \in net', ~ Executed(c)', ~ (Durable'.guard # None /\ c = Durable'.guard.cmd)
        PROVE  job'.pc = "called" /\ job'.ev.kind = "regen" /\ c = job'.call
    <3>1. job.pc = "called" /\ job.ev.kind = "regen" /\ c = job.call
      BY <1>2, <1>4, <2>1, <2>4 DEF PageKnows
    <3>2. job' = job BY <1>7, <3>1
    <3> QED BY <3>1, <3>2
  <2>5. /\ Durable'.guard # None => UpToDate(Durable.guard)'
        /\ Durable'.guard = None => VerifiedEpoch' = Now'
    BY <1>2, <2>1, <2>2, <2>3 DEF PageKnows
  <2>6. disk'.guard # None /\ Durable'.guard = None =>
          disk'.guard.cmd = None /\ UpToDate(disk.guard)'
    BY <1>2, <2>1, <2>3 DEF PageKnows
  <2>7. job'.pc = "called" /\ job'.ev.kind = "regen" => Durable'.guard = None
    BY <1>2, <2>1 DEF PageKnows
  <2> QED BY <2>4, <2>5, <2>6, <2>7 DEF PageKnows
<1> QED BY <1>3, <1>5, <1>6, <1>7 DEF LedgerInv

LEMMA JobIsThere ==
  ASSUME HistoryIInv
  PROVE  /\ job # NoJob <=> job.pc # "none"
         /\ job # NoJob => job.ev \in HandlerEvent /\ job.ev # None
         /\ job \in JobState
         /\ job # NoJob /\ job.pc # "saving" => Place = job.pc /\ Reaches(job.ev.kind, job.pc)
<1>1. HistoryTypes /\ JobInv BY DEF HistoryIInv
<1>2. NoJob.pc = "none" BY DEF NoJob
<1>3. job # NoJob => job.ev \in HandlerEvent /\ Reaches(job.ev.kind, Place) BY <1>1 DEF JobInv
<1>4. None \notin HandlerEvent BY NoneApart
<1>5. job # NoJob => job.pc # "none" BY <1>3 DEF Reaches, Place, Detecting
<1>6. job # NoJob /\ job.pc # "saving" => Place = job.pc BY DEF Place
<1> QED BY <1>1, <1>2, <1>3, <1>4, <1>5, <1>6 DEF HistoryTypes

(* A handler that goes on, leaving the generation where it was.            *)
LEMMA GoesOnAdmits ==
  ASSUME HistoryIInv, job # NoJob, job'.ev = job.ev, job'.pc \notin {"none", "begin"},
         UNCHANGED <<chat, queue>>, page'.suppressed = page.suppressed \/ gen'.live = FALSE,
         gen'.pc = gen.pc, gen'.late = gen.late, gen'.regen = gen.regen, gen'.start = gen.start,
         Unrevoked' => Unrevoked,
         job.ev.kind = "deleted" /\ job.pc = "begin" => ~ Clear,
         job.ev.kind = "regen" => (Durable'.guard # None => Durable.guard # None)
  PROVE  AdmissionInv' /\ EventsInv'
<1>1. job' # NoJob BY DEF NoJob
<1>2. EventsInv /\ AdmissionInv BY DEF HistoryIInv
<1>3. \A kind : Once(kind)' <=> Once(kind) BY <1>1 DEF Once
<1>4. EventsInv' BY <1>1, <1>2, <1>3 DEF EventsInv, Expects
<1>5. ExpectedLength' = ExpectedLength BY DEF ExpectedLength
<1>6. Clear' => Clear BY <1>5 DEF Clear
<1>7. ASSUME Clear' PROVE ClearInv'
  <2>1. Clear /\ ClearInv BY <1>2, <1>6, <1>7 DEF AdmissionInv
  <2>2. page'.suppressed = page.suppressed BY <1>7 DEF Clear, Unrevoked
  <2>3. Once("deleted")' BY <1>3, <2>1 DEF ClearInv
  <2>4. Meets(job.ev) /\ job.ev.kind # "deleted" BY <2>1 DEF ClearInv
  <2>5. Durable'.guard # None => job.ev.kind = "edited" BY <2>1, <2>4 DEF ClearInv, Meets
  <2>6. \A i \in 1 .. Len(queue') : Meets(queue[i])' BY <2>1, <2>2 DEF ClearInv, Meets
  <2>7. Meets(job.ev)' BY <2>2, <2>4 DEF Meets
  <2> QED BY <1>1, <2>1, <2>2, <2>3, <2>4, <2>5, <2>6, <2>7 DEF ClearInv
<1>8. ~ Quiet BY DEF Quiet
<1>9. gen'.pc = "admitted" => gen'.late BY <1>2, <1>8 DEF AdmissionInv
<1> QED BY <1>1, <1>2, <1>4, <1>5, <1>7, <1>9 DEF AdmissionInv

(* A handler that ends.                                                    *)
LEMMA EndsAdmits ==
  ASSUME HistoryIInv, job # NoJob, UNCHANGED <<chat, queue>>, job' = NoJob,
         job.ev.kind = "gate" =>
           gen' = NoGen \/ (gen'.pc = "admitted" /\ gen'.late = gen.late /\ Durable'.guard = None),
         job.ev.kind = "regen" =>
           /\ gen'.pc = "truncated" /\ gen'.late = gen.late
           /\ gen'.regen = gen.regen /\ gen'.start = gen.start
           /\ Unrevoked' => /\ Unrevoked /\ page'.suppressed = job.ev.at
                            /\ Durable'.guard # None => Durable.guard # None,
         job.ev.kind = "received" => gen'.pc = "ending",
         job.ev.kind \notin {"gate", "regen", "received"} =>
           /\ gen'.pc = gen.pc /\ gen'.late = gen.late
           /\ gen'.regen = gen.regen /\ gen'.start = gen.start
           /\ Unrevoked' =>
                /\ Unrevoked /\ (Durable'.guard # None => Durable.guard # None)
                /\ job.ev.kind = "edited" => job.pc = "begin"
                /\ job.ev.kind # "deleted" => page'.suppressed = page.suppressed
  PROVE  AdmissionInv' /\ EventsInv'
<1>1. EventsInv /\ AdmissionInv BY DEF HistoryIInv
<1>2. job'.pc = "none" BY DEF NoJob
<1>3. EventsInv'
  <2>1. Once("gate")' /\ Once("regen")' /\ Once("received")' BY <1>1 DEF EventsInv, Once
  <2>2. ASSUME NEW i \in 1 .. Len(queue) PROVE Expects(queue[i])'
    <3>1. Expects(queue[i]) /\ Expects(job.ev) BY <1>1 DEF EventsInv
    <3>2. job.ev.kind \in {"gate", "regen", "received"} => queue[i].kind # job.ev.kind
      BY <1>1 DEF EventsInv, Once
    <3> QED BY <3>1, <3>2 DEF Expects
  <2> QED BY <2>1, <2>2 DEF EventsInv
<1>4. CASE job.ev.kind = "gate"
  <2>1. gen.pc = "gate" BY <1>1, <1>4 DEF EventsInv, Expects
  <2>2. CASE gen' = NoGen
    <3>1. gen'.pc = "idle" BY <2>2 DEF NoGen
    <3> QED BY <1>3, <3>1 DEF AdmissionInv, Clear, Leaving
  <2>3. CASE gen'.pc = "admitted" /\ gen'.late = gen.late /\ Durable'.guard = None
    <3>1. ~ gen'.late => queue = << >> BY <1>1, <1>4, <2>1, <2>3 DEF AdmissionInv
    <3> QED BY <1>3, <2>3, <3>1 DEF AdmissionInv, Clear, Leaving, Quiet
  <2> QED BY <1>4, <2>2, <2>3
<1>5. CASE job.ev.kind = "regen"
  <2>1. gen.pc = "regenerating" BY <1>1, <1>5 DEF EventsInv, Expects
  <2>2. ExpectedLength' = ExpectedLength BY <1>5, <2>1 DEF ExpectedLength
  <2>3. ASSUME Clear' PROVE ClearInv'
    <3>1. Clear /\ Unrevoked' BY <1>5, <2>1, <2>2, <2>3 DEF Clear, Leaving
    <3>2. ClearInv BY <1>1, <3>1 DEF AdmissionInv
    <3>3. Meets(job.ev) /\ \A i \in 1 .. Len(queue) : Meets(queue[i]) /\ queue[i].kind # "deleted"
      BY <2>1, <3>2 DEF ClearInv, Meets
    <3>4. \A i \in 1 .. Len(queue') : Meets(queue[i])' BY <1>5, <3>3 DEF Meets
    <3>5. page'.suppressed = Len(gen'.start) - 1 BY <1>5, <3>1, <3>3 DEF Meets
    <3>6. Durable'.guard = None BY <1>5, <3>1, <3>2 DEF ClearInv
    <3>7. Once("deleted")' BY <3>2 DEF ClearInv, Once
    <3> QED BY <3>4, <3>5, <3>6, <3>7 DEF ClearInv
  <2> QED BY <1>1, <1>3, <1>5, <2>1, <2>2, <2>3 DEF AdmissionInv, Leaving
<1>6. CASE job.ev.kind = "received" BY <1>3, <1>6 DEF AdmissionInv, Clear, Leaving
<1>7. CASE job.ev.kind \notin {"gate", "regen", "received"}
  <2>1. ExpectedLength' = ExpectedLength BY <1>7 DEF ExpectedLength
  <2>2. ASSUME Clear' PROVE ClearInv'
    <3>1. Clear /\ Unrevoked' BY <1>7, <2>1, <2>2 DEF Clear
    <3>2. ClearInv BY <1>1, <3>1 DEF AdmissionInv
    <3>3. \A i \in 1 .. Len(queue) :
            Meets(queue[i]) /\ (job.ev.kind = "deleted" => queue[i].kind # "deleted")
      BY <3>2 DEF ClearInv, Once
    <3>4. \A i \in 1 .. Len(queue') : Meets(queue[i])' BY <1>7, <3>1, <3>3 DEF Meets
    <3>5. Durable'.guard = None BY <1>7, <3>1, <3>2 DEF ClearInv
    <3>6. Once("deleted")' BY <3>2 DEF ClearInv, Once
    <3>7. gen'.pc = "truncated" => page'.suppressed = Len(gen'.start) - 1
      BY <1>7, <3>1, <3>2 DEF ClearInv, Meets
    <3> QED BY <3>4, <3>5, <3>6, <3>7 DEF ClearInv
  <2>3. ~ Quiet BY DEF Quiet
  <2> QED BY <1>1, <1>3, <1>7, <2>1, <2>2, <2>3 DEF AdmissionInv
<1> QED BY <1>4, <1>5, <1>6, <1>7

(* A generation that can still leave meets no deletion but its own.        *)
LEMMA OwnDeletion ==
  ASSUME HistoryIInv, job # NoJob, job.ev.kind = "deleted", page.suppressed # job.ev.at
  PROVE  ~ Clear
BY DEF HistoryIInv, AdmissionInv, ClearInv, Meets

(* What the coordinator's records keep when it does nothing.               *)
LEMMA RecordsStay ==
  ASSUME HistoryIInv, UNCHANGED <<store, mem, disk, job>>
  PROVE  JobInv' /\ SyncInv'
<1>1. JobInv /\ SyncInv BY DEF HistoryIInv
<1>2. Durable' = Durable /\ (Conflict' <=> Conflict) /\ Place' = Place BY SameDurable DEF Place
<1>3. JobInv' BY <1>1, <1>2 DEF JobInv
<1>4. SyncInv' BY <1>1, <1>2 DEF SyncInv
<1> QED BY <1>3, <1>4

(* A handler that ends without touching the records leaves them agreeing.  *)
LEMMA RecordsIdle ==
  ASSUME HistoryIInv, UNCHANGED <<store, mem, disk>>, job' = NoJob, job.pc # "saving"
  PROVE  JobInv' /\ SyncInv'
<1>1. SyncInv BY DEF HistoryIInv
<1>2. job'.pc = "none" BY DEF NoJob
<1>3. JobInv' BY DEF JobInv
<1>4. SyncInv' BY <1>1, <1>2 DEF SyncInv
<1> QED BY <1>3, <1>4

(* The handler moves to a place it can reach.                              *)
LEMMA RecordsGoOn ==
  ASSUME HistoryIInv, job # NoJob, UNCHANGED <<store, disk>>,
         mem'.guard = mem.guard, mem'.checkpoint = mem.checkpoint,
         mem'.epoch = mem.epoch \/ store.checkpoint # None,
         job.pc # "saving", job'.pc \notin {"saving", "settled"}, job'.ev = job.ev,
         Reaches(job.ev.kind, job'.pc),
         job'.pc \in Detecting =>
           job'.then \in {"resolve", "return", "finish"} /\ Reaches(job.ev.kind, job'.then),
         job'.pc \in {"judge", "detected"} => Durable.checkpoint # None,
         job'.pc = "reconcile" => Durable.guard # None,
         job'.pc \in {"none", "begin", "detect", "finish", "return"} \/ ~ Conflict
  PROVE  JobInv' /\ SyncInv'
<1>1. JobInv /\ SyncInv BY DEF HistoryIInv
<1>3. Durable' = Durable /\ (Conflict' <=> Conflict) BY SameDurable
<1>4. Place' = job'.pc BY DEF Place
<1>5. JobInv' BY <1>1, <1>3, <1>4, JobIsThere DEF JobInv
<1>6. SyncInv' BY <1>1, <1>3, <1>4 DEF SyncInv
<1> QED BY <1>5, <1>6

(* What a page starts with.                                                *)
LEMMA EmptyTypes == NoJob \in JobState /\ NoGen \in GenState /\ NewPage \in ShownState
<1>1. NoJob \in JobState BY DEF NoJob, JobState, Opt, HandlerPlaces
<1>2. NoGen \in GenState BY DEF NoGen, GenState, GenPlaces, Opt
<1>3. NewPage \in ShownState BY DEF NewPage, ShownState, Opt
<1> QED BY <1>1, <1>2, <1>3

(* The epoch of a generation changes to one the page knows, if at all.     *)
LEMMA GenEpoch ==
  ASSUME HistoryIInv
  PROVE  Upto(gen.epoch) /\ Upto(NoGen.epoch) /\ Upto(CurrentEpoch)
<1>1. Upto(gen.epoch) BY DEF HistoryIInv, LedgerInv, EpochsInv
<1>2. NoGen.epoch = 0 BY DEF NoGen
<1> QED BY <1>1, <1>2, EpochsNamed DEF Upto

(* A handler that fails: the records stay, and a send that waits for it is *)
(* refused.                                                                *)
LEMMA FailSteady ==
  ASSUME HistoryIInv, job # NoJob, job.pc # "saving", Fail,
         UNCHANGED <<chat, ledger, runs, store, mem, disk, queue>>, net' \subseteq net,
         used'.commands = used.commands, used' \in UsedState
  PROVE  HistoryIInv'
<1> DEFINE kind == job.ev.kind
<1>1. HistoryTypes BY DEF HistoryIInv
<1>2. page \in ShownState /\ gen \in GenState /\ chat \in Seq(Message) BY <1>1 DEF HistoryTypes
<1>3. /\ job' = NoJob
      /\ page' = [page EXCEPT !.block = kind # "gate" \/ gen.regen \/ page.block,
                              !.snap = IF kind = "reset" THEN chat ELSE page.snap]
      /\ kind = "gate" => gen' = NoGen
      /\ kind = "regen" => gen' = [gen EXCEPT !.pc = "truncated", !.live = FALSE, !.scope = FALSE]
      /\ kind = "received" => gen' = [gen EXCEPT !.pc = "ending"]
      /\ kind \notin {"gate", "regen", "received"} => gen' = gen
      /\ lost \subseteq lost' /\ (kind = "regen" /\ job.call # None => "cut" \in lost')
  BY DEF Fail
<1> HIDE DEF Fail, kind
<1>4. page' \in ShownState
  <2>1. (kind # "gate" \/ gen.regen \/ page.block) \in BOOLEAN BY <1>2 DEF ShownState, GenState
  <2>2. (IF kind = "reset" THEN chat ELSE page.snap) \in Opt(Seq(Message)) BY <1>2 DEF ShownState, Opt
  <2> QED BY <1>2, <1>3, <2>1, <2>2 DEF ShownState
<1>5. gen' \in GenState /\ Upto(gen'.epoch)
  <2>1. CASE kind = "gate" BY <1>3, <2>1, EmptyTypes, GenEpoch
  <2>2. CASE kind = "regen"
    <3>1. gen' \in GenState /\ gen'.epoch = gen.epoch BY <1>2, <1>3, <2>2 DEF GenState, GenPlaces
    <3> QED BY <3>1, GenEpoch
  <2>3. CASE kind = "received"
    <3>1. gen' \in GenState /\ gen'.epoch = gen.epoch BY <1>2, <1>3, <2>3 DEF GenState, GenPlaces
    <3> QED BY <3>1, GenEpoch
  <2>4. CASE kind \notin {"gate", "regen", "received"} BY <1>2, <1>3, <2>4, GenEpoch
  <2> QED BY <2>1, <2>2, <2>3, <2>4
<1>6. HistoryTypes' BY <1>1, <1>3, <1>4, <1>5, EmptyTypes DEF HistoryTypes
<1>7. JobInv' /\ SyncInv' BY <1>3, RecordsIdle
<1>8. AdmissionInv' /\ EventsInv'
  <2>1. /\ kind = "regen" => /\ gen'.pc = "truncated" /\ ~ gen'.live /\ gen'.late = gen.late
                             /\ gen'.regen = gen.regen /\ gen'.start = gen.start
        /\ kind = "received" => gen'.pc = "ending"
        /\ kind # "gate" => page'.block
    BY <1>2, <1>3 DEF GenState, ShownState
  <2> QED BY <1>3, <2>1, EndsAdmits DEF kind, Unrevoked
<1>9. LedgerInv'
  <2>1. job'.pc = "none" BY <1>3 DEF NoJob
  <2>2. job.pc = "called" => job.call # None BY DEF HistoryIInv, LedgerInv, CommandsInv
  <2> QED BY <1>3, <1>5, <2>1, <2>2, LedgerStays DEF kind
<1> QED BY <1>6, <1>7, <1>8, <1>9 DEF HistoryIInv

LEMMA ReturnSteady ==
  ASSUME HistoryIInv, job # NoJob, job.pc \in {"begin", "return"}, Return,
         UNCHANGED <<world, durable, queue, used>>, lost \subseteq lost', page' \in ShownState,
         job.ev.kind \notin {"gate", "regen"},
         job.ev.kind = "edited" => job.pc = "begin",
         Unrevoked' => Unrevoked,
         job.ev.kind # "deleted" => page'.suppressed = page.suppressed
  PROVE  HistoryIInv'
<1>1. HistoryTypes BY DEF HistoryIInv
<1>2. gen \in GenState BY <1>1 DEF HistoryTypes
<1>3. job' = NoJob /\ gen' = IF job.ev.kind = "received" THEN [gen EXCEPT !.pc = "ending"] ELSE gen
  BY DEF Return
<1>4. /\ gen' \in GenState /\ gen'.epoch = gen.epoch
      /\ job.ev.kind = "received" => gen'.pc = "ending"
      /\ job.ev.kind # "received" => gen' = gen
  BY <1>2, <1>3 DEF GenState, GenPlaces
<1>5. HistoryTypes' BY <1>1, <1>3, <1>4, EmptyTypes DEF HistoryTypes, world, durable
<1>6. JobInv' /\ SyncInv' BY <1>3, RecordsIdle DEF durable
<1>7. AdmissionInv' /\ EventsInv'
  <2>1. UNCHANGED <<store, mem, disk, chat, queue>> /\ Durable' = Durable
    BY DEF world, durable, Durable
  <2> QED BY <1>3, <1>4, <2>1, EndsAdmits
<1>8. LedgerInv'
  <2>1. job'.pc = "none" BY <1>3 DEF NoJob
  <2> QED BY <1>4, <2>1, GenEpoch, LedgerStays DEF world, durable
<1> QED BY <1>5, <1>6, <1>7, <1>8 DEF HistoryIInv

(* A gate lets its send pass only while there is no guard.                 *)
LEMMA FinishSteady ==
  ASSUME HistoryIInv, job # NoJob, job.pc \in {"finish", "resolve"}, NEW b \in BOOLEAN, Finish(b),
         UNCHANGED <<world, durable, queue, used, lost>>,
         job.ev.kind = "gate" /\ ~ b => Durable.guard = None
  PROVE  HistoryIInv'
<1> DEFINE kind == job.ev.kind
           SameSend == gen'.late = gen.late /\ gen'.regen = gen.regen /\ gen'.start = gen.start
<1>1. HistoryTypes BY DEF HistoryIInv
<1>2. page \in ShownState /\ gen \in GenState /\ chat \in Seq(Message) BY <1>1 DEF HistoryTypes
<1>a. job.ev \in HandlerEvent BY JobIsThere
<1>3. /\ job' = NoJob
      /\ kind \in {"edited", "deleted"} => page' = [page EXCEPT !.block = b]
      /\ kind = "reset" => page' = [page EXCEPT !.snap = chat]
      /\ kind = "gate" => page' = IF b THEN [page EXCEPT !.block = gen.regen \/ page.block] ELSE page
      /\ kind = "regen" => page' = [page EXCEPT !.suppressed = job.ev.at]
      /\ kind = "received" => page' = page
      /\ kind = "edited" => gen' = [gen EXCEPT !.live = FALSE, !.scope = FALSE]
      /\ kind = "deleted" => gen' = [gen EXCEPT !.scope = FALSE]
      /\ kind = "gate" => gen' = IF b THEN NoGen ELSE [gen EXCEPT !.pc = "admitted"]
      /\ kind = "regen" => gen' = [gen EXCEPT !.pc = "truncated", !.epoch = CurrentEpoch]
      /\ kind = "received" => gen' = [gen EXCEPT !.pc = "ending"]
      /\ kind = "reset" => gen' = gen
  BY DEF Finish, Verdict
<1> HIDE DEF Finish, kind
<1>4. kind \in {"edited", "deleted", "gate", "reset", "regen", "received"} /\ job.ev.at \in Int
  BY <1>a DEF kind, HandlerEvent
<1>5. /\ page' \in ShownState
      /\ kind = "regen" => page'.suppressed = job.ev.at /\ page'.block = page.block
      /\ kind = "reset" => page'.suppressed = page.suppressed /\ page'.block = page.block
  <2>1. (gen.regen \/ page.block) \in BOOLEAN BY <1>2 DEF ShownState, GenState
  <2> QED BY <1>2, <1>3, <1>4, <2>1 DEF ShownState, Opt
<1>6. /\ gen' \in GenState /\ Upto(gen'.epoch)
      /\ kind = "gate" => gen' = NoGen \/ (gen'.pc = "admitted" /\ gen'.late = gen.late /\ ~ b)
      /\ kind = "regen" => gen'.pc = "truncated" /\ SameSend /\ gen'.live = gen.live /\ gen'.scope = gen.scope
      /\ kind = "received" => gen'.pc = "ending"
      /\ kind \in {"edited", "deleted", "reset"} => gen'.pc = gen.pc /\ SameSend
      /\ kind \in {"edited", "deleted"} => ~ gen'.scope
      /\ kind = "reset" => gen' = gen
  <2>1. CASE kind = "edited"
    <3>1. gen' \in GenState /\ gen'.epoch = gen.epoch /\ gen'.pc = gen.pc /\ SameSend /\ ~ gen'.scope
      BY <1>2, <1>3, <2>1 DEF GenState
    <3> QED BY <2>1, <3>1, GenEpoch
  <2>2. CASE kind = "deleted"
    <3>1. gen' \in GenState /\ gen'.epoch = gen.epoch /\ gen'.pc = gen.pc /\ SameSend /\ ~ gen'.scope
      BY <1>2, <1>3, <2>2 DEF GenState
    <3> QED BY <2>2, <3>1, GenEpoch
  <2>3. CASE kind = "gate" /\ b BY <1>3, <2>3, EmptyTypes, GenEpoch
  <2>4. CASE kind = "gate" /\ ~ b
    <3>1. gen' \in GenState /\ gen'.epoch = gen.epoch /\ gen'.pc = "admitted" /\ gen'.late = gen.late
      BY <1>2, <1>3, <2>4 DEF GenState, GenPlaces
    <3> QED BY <2>4, <3>1, GenEpoch
  <2>5. CASE kind = "regen"
    <3>1. CurrentEpoch \in Nat /\ Upto(CurrentEpoch) BY EpochsNamed, GenEpoch
    <3>2. gen' = [[gen EXCEPT !.pc = "truncated"] EXCEPT !.epoch = CurrentEpoch] BY <1>3, <2>5
    <3>3. /\ gen' \in GenState /\ gen'.epoch = CurrentEpoch
          /\ gen'.pc = "truncated" /\ SameSend /\ gen'.live = gen.live /\ gen'.scope = gen.scope
      BY <1>2, <3>1, <3>2 DEF GenState, GenPlaces
    <3> QED BY <2>5, <3>1, <3>3
  <2>6. CASE kind = "received"
    <3>1. gen' \in GenState /\ gen'.epoch = gen.epoch /\ gen'.pc = "ending"
      BY <1>2, <1>3, <2>6 DEF GenState, GenPlaces
    <3> QED BY <2>6, <3>1, GenEpoch
  <2>7. CASE kind = "reset" BY <1>2, <1>3, <2>7, GenEpoch
  <2> QED BY <1>4, <2>1, <2>2, <2>3, <2>4, <2>5, <2>6, <2>7
<1>7. HistoryTypes' BY <1>1, <1>3, <1>5, <1>6, EmptyTypes DEF HistoryTypes, world, durable
<1>8. JobInv' /\ SyncInv' BY <1>3, RecordsIdle DEF durable
<1>9. AdmissionInv' /\ EventsInv'
  <2>1. UNCHANGED <<store, mem, disk, chat, queue>> BY DEF world, durable
  <2>2. Durable' = Durable BY <2>1 DEF Durable
  <2> QED BY <1>3, <1>4, <1>5, <1>6, <2>1, <2>2, EndsAdmits DEF kind, Unrevoked
<1>10. LedgerInv'
  <2>1. job'.pc = "none" BY <1>3 DEF NoJob
  <2> QED BY <1>6, <2>1, LedgerStays DEF world, durable
<1> QED BY <1>7, <1>8, <1>9, <1>10 DEF HistoryIInv

(* A handler that moves on and writes nothing durable.                     *)
LEMMA GoOnSteady ==
  ASSUME HistoryIInv, job # NoJob, job.pc \notin {"called", "saving"},
         UNCHANGED <<chat, ledger, net, runs, store, disk, queue, used, lost>>,
         mem' \in MemState, mem'.guard = mem.guard, mem'.checkpoint = mem.checkpoint,
         mem'.epoch = mem.epoch \/ (Durable.checkpoint # None /\ Upto(mem'.epoch)),
         page' \in ShownState, gen' \in GenState, gen'.pc = gen.pc, gen'.epoch = gen.epoch,
         gen'.late = gen.late, gen'.regen = gen.regen, gen'.start = gen.start,
         Unrevoked' => Unrevoked, page'.suppressed = page.suppressed \/ gen'.live = FALSE,
         job.ev.kind = "deleted" /\ job.pc = "begin" => ~ Clear,
         job' \in JobState, job'.ev = job.ev,
         job'.pc \notin {"none", "begin", "called", "saving", "settled"},
         Reaches(job.ev.kind, job'.pc),
         job'.pc \in Detecting =>
           job'.then \in {"resolve", "return", "finish"} /\ Reaches(job.ev.kind, job'.then),
         job'.pc \in {"judge", "detected"} => Durable.checkpoint # None,
         job'.pc = "reconcile" => Durable.guard # None,
         job'.pc \in {"detect", "finish", "return"} \/ ~ Conflict
  PROVE  HistoryIInv'
<1>1. HistoryTypes BY DEF HistoryIInv
<1>2. HistoryTypes' BY <1>1 DEF HistoryTypes
<1>3. mem'.epoch = mem.epoch \/ store.checkpoint # None
  <2>1. SyncInv BY DEF HistoryIInv
  <2> QED BY <1>1, <2>1, DurableIs DEF SyncInv
<1>4. JobInv' /\ SyncInv' BY <1>3, RecordsGoOn
<1>5. AdmissionInv' /\ EventsInv'
  <2>1. Durable'.guard = Durable.guard BY DEF Durable
  <2> QED BY <2>1, GoesOnAdmits
<1>6. LedgerInv' BY GenEpoch, LedgerStays
<1> QED BY <1>2, <1>4, <1>5, <1>6 DEF HistoryIInv

(* A durable write brings the two records together.                        *)
LEMMA RecordsWritten ==
  ASSUME HistoryIInv, job # NoJob, job.pc # "saving", ~ Conflict, disk' = disk,
         job'.ev = job.ev, job'.then = job.then, job'.pc = "saving",
         job'.next \in {"observed", "detected", "judge", "reconcile", "settled", "finish"},
         Reaches(job.ev.kind, job'.next),
         job'.next \in Detecting => job.pc \in Detecting,
         job'.next \in {"judge", "detected"} => store'.checkpoint # None,
         job'.next = "reconcile" => store'.guard # None,
         mem'.guard \in {None, store'.guard}, mem'.checkpoint \in {None, store'.checkpoint},
         store'.checkpoint = None => Durable.checkpoint = None,
         store'.guard # None \/ store'.checkpoint # None,
         IF job'.next = "settled" THEN store'.guard = None
         ELSE store'.guard # None \/ Durable.guard = None
  PROVE  JobInv' /\ SyncInv'
<1>1. HistoryTypes /\ JobInv /\ SyncInv BY DEF HistoryIInv
<1>2. Place' = job'.next BY DEF Place
<1>3. Place = job.pc BY DEF Place
<1>4. /\ store'.checkpoint # None => Durable'.checkpoint # None
      /\ store'.guard # None => Durable'.guard # None
  BY DEF Durable, Prefer
<1>5. JobInv' BY <1>1, <1>2, <1>3, <1>4, JobIsThere DEF JobInv
<1>6. ~ Conflict'
  <2>1. \A f \in {"guard", "checkpoint"} : mem'[f] \in {None, store'[f]}
    <3>1. mem'["guard"] \in {None, store'["guard"]} OBVIOUS
    <3>2. mem'["checkpoint"] \in {None, store'["checkpoint"]} OBVIOUS
    <3> QED BY <3>1, <3>2
  <2> QED BY <2>1 DEF Conflict
<1>7. store'.checkpoint = None => mem'.checkpoint = None /\ disk.checkpoint = None
  <2>1. store'.checkpoint = None => store.checkpoint = None BY <1>1, DurableIs
  <2> QED BY <1>1, <2>1 DEF SyncInv
<1>8. Durable.guard = None => disk.guard = None BY <1>1, DurableIs DEF SyncInv
<1>9. SyncInv' BY <1>2, <1>6, <1>7, <1>8 DEF SyncInv
<1> QED BY <1>5, <1>9

(* The three ways in which the records are written, before saveMetadata: a *)
(* guard, a checkpoint, and a guard dropped for the checkpoint that        *)
(* settles it.                                                             *)
LEMMA GuardRecorded ==
  ASSUME HistoryIInv, job # NoJob, job.pc # "saving", ~ Conflict,
         NEW g \in GuardState, NEW e \in Opt(Nat), NEW next \in {"observed", "detected", "reconcile"},
         WriteGuard(g, e, next), Reaches(job.ev.kind, next),
         next = "detected" => job.pc \in Detecting /\ Durable.checkpoint # None
  PROVE  /\ JobInv' /\ SyncInv'
         /\ store' \in StoreState /\ mem' \in MemState /\ job' \in JobState /\ disk' = disk
         /\ job'.ev = job.ev /\ job'.pc = "saving"
         /\ store'.guard = g /\ mem'.guard = g /\ Durable'.guard = g /\ g # None
         /\ store'.checkpoint = Durable.checkpoint /\ mem'.checkpoint = mem.checkpoint
         /\ mem'.epoch = e
<1>1. HistoryTypes BY DEF HistoryIInv
<1>2. store \in StoreState /\ mem \in MemState /\ job \in JobState BY <1>1 DEF HistoryTypes
<1>3. /\ store' = [guard |-> g, checkpoint |-> Durable.checkpoint]
      /\ mem' = [[mem EXCEPT !.guard = g] EXCEPT !.epoch = e]
      /\ job' = [[[job EXCEPT !.pc = "saving"] EXCEPT !.next = next] EXCEPT !.call = None]
      /\ disk' = disk
  BY DEF WriteGuard
<1>4. g # None BY NoneApart
<1>5. Durable.checkpoint \in Opt(CheckpointState) BY <1>1, DurableIs DEF Opt
<1>6. store' \in StoreState /\ store'.guard = g /\ store'.checkpoint = Durable.checkpoint
  BY <1>3, <1>5 DEF StoreState, Opt
<1>7. /\ mem' \in MemState /\ mem'.guard = g /\ mem'.epoch = e
      /\ mem'.checkpoint = mem.checkpoint
  BY <1>2, <1>3 DEF MemState, Opt
<1>8. /\ job' \in JobState /\ job'.ev = job.ev /\ job'.pc = "saving" /\ job'.next = next
      /\ job'.then = job.then
  BY <1>2, <1>3 DEF JobState, HandlerPlaces, Opt
<1>9. mem.checkpoint \in {None, Durable.checkpoint}
  <2>1. store.checkpoint # None /\ mem.checkpoint # None => store.checkpoint = mem.checkpoint
    BY DEF Conflict
  <2> QED BY <1>1, <2>1, DurableIs
<1>10. JobInv' /\ SyncInv'
  BY <1>3, <1>4, <1>6, <1>7, <1>8, <1>9, RecordsWritten DEF Detecting
<1>11. Durable'.guard = g BY <1>4, <1>6 DEF Durable, Prefer
<1> QED BY <1>3, <1>4, <1>6, <1>7, <1>8, <1>10, <1>11

LEMMA CheckpointRecorded ==
  ASSUME HistoryIInv, job # NoJob, job.pc # "saving", ~ Conflict,
         NEW c \in CheckpointState, NEW e \in Opt(Nat), NEW next \in {"judge", "finish"},
         WriteCheckpoint(c, e, next), Reaches(job.ev.kind, next),
         next = "judge" => job.pc \in Detecting
  PROVE  /\ JobInv' /\ SyncInv'
         /\ store' \in StoreState /\ mem' \in MemState /\ job' \in JobState /\ disk' = disk
         /\ job'.ev = job.ev /\ job'.pc = "saving"
         /\ store'.guard = Durable.guard /\ mem'.guard = mem.guard
         /\ Durable'.guard = Durable.guard /\ Durable'.checkpoint = c /\ c # None
         /\ store'.checkpoint = c /\ mem'.checkpoint = c
         /\ mem'.epoch = e
<1>1. HistoryTypes BY DEF HistoryIInv
<1>2. store \in StoreState /\ mem \in MemState /\ job \in JobState BY <1>1 DEF HistoryTypes
<1>3. /\ store' = [guard |-> Durable.guard, checkpoint |-> c]
      /\ mem' = [[mem EXCEPT !.checkpoint = c] EXCEPT !.epoch = e]
      /\ job' = [[[job EXCEPT !.pc = "saving"] EXCEPT !.next = next] EXCEPT !.call = None]
      /\ disk' = disk
  BY DEF WriteCheckpoint
<1>4. c # None BY NoneApart
<1>5. Durable.guard \in Opt(GuardState) BY <1>1, DurableIs DEF Opt
<1>6. store' \in StoreState /\ store'.guard = Durable.guard /\ store'.checkpoint = c
  BY <1>3, <1>5 DEF StoreState, Opt
<1>7. /\ mem' \in MemState /\ mem'.guard = mem.guard /\ mem'.epoch = e
      /\ mem'.checkpoint = c
  BY <1>2, <1>3 DEF MemState, Opt
<1>8. /\ job' \in JobState /\ job'.ev = job.ev /\ job'.pc = "saving" /\ job'.next = next
      /\ job'.then = job.then
  BY <1>2, <1>3 DEF JobState, HandlerPlaces, Opt
<1>9. mem.guard \in {None, Durable.guard}
  <2>1. store.guard # None /\ mem.guard # None => store.guard = mem.guard BY DEF Conflict
  <2> QED BY <1>1, <2>1, DurableIs
<1>10. JobInv' /\ SyncInv'
  BY <1>3, <1>4, <1>6, <1>7, <1>8, <1>9, RecordsWritten DEF Detecting
<1>11. Durable'.guard = Durable.guard /\ Durable'.checkpoint = c
  <2>1. Durable'.guard = IF store'.guard # None THEN store'.guard ELSE mem'.guard
    BY DEF Durable, Prefer
  <2>2. Durable'.checkpoint = IF store'.checkpoint # None THEN store'.checkpoint ELSE mem'.checkpoint
    BY DEF Durable, Prefer
  <2> QED BY <1>4, <1>6, <1>7, <1>9, <2>1, <2>2
<1> QED BY <1>3, <1>4, <1>6, <1>7, <1>8, <1>10, <1>11

LEMMA SettledRecorded ==
  ASSUME HistoryIInv, job # NoJob, job.pc = "resolve",
         NEW c \in CheckpointState, WriteSettled(c, "settled")
  PROVE  /\ JobInv' /\ SyncInv'
         /\ store' \in StoreState /\ mem' \in MemState /\ job' \in JobState /\ disk' = disk
         /\ job'.ev = job.ev /\ job'.pc = "saving" /\ job'.next = "settled"
         /\ store'.guard = None /\ mem'.guard = None
         /\ Durable'.guard = None /\ Durable'.checkpoint = c /\ c # None
         /\ store'.checkpoint = c /\ mem'.checkpoint = c
         /\ mem'.epoch = mem.epoch
<1>1. HistoryTypes /\ SyncInv BY DEF HistoryIInv
<1>2. store \in StoreState /\ mem \in MemState /\ job \in JobState BY <1>1 DEF HistoryTypes
<1>3. /\ store' = [guard |-> None, checkpoint |-> c]
      /\ mem' = [[mem EXCEPT !.guard = None] EXCEPT !.checkpoint = c]
      /\ job' = [[[job EXCEPT !.pc = "saving"] EXCEPT !.next = "settled"] EXCEPT !.call = None]
      /\ disk' = disk
  BY DEF WriteSettled
<1>4. c # None /\ ~ Conflict BY <1>1, NoneApart DEF SyncInv
<1>6. store' \in StoreState /\ store'.guard = None /\ store'.checkpoint = c
  BY <1>3 DEF StoreState, Opt
<1>7. /\ mem' \in MemState /\ mem'.guard = None /\ mem'.epoch = mem.epoch
      /\ mem'.checkpoint = c
  BY <1>2, <1>3 DEF MemState, Opt
<1>8. /\ job' \in JobState /\ job'.ev = job.ev /\ job'.pc = "saving" /\ job'.next = "settled"
      /\ job'.then = job.then
  BY <1>2, <1>3 DEF JobState, HandlerPlaces, Opt
<1>9. Reaches(job.ev.kind, "settled") BY JobIsThere DEF Reaches, Detecting, Settling
<1>10. JobInv' /\ SyncInv'
  BY <1>3, <1>4, <1>6, <1>7, <1>8, <1>9, RecordsWritten DEF Detecting
<1>11. Durable'.guard = None /\ Durable'.checkpoint = c BY <1>4, <1>6, <1>7 DEF Durable, Prefer
<1> QED BY <1>3, <1>4, <1>6, <1>7, <1>8, <1>10, <1>11

(* Numbers: the least and the greatest of what is compared.                *)
Smaller == OpToRel(<, Nat)

(* The minimum and the maximum of a set of numbers are in it.              *)
LEMMA LeastIs ==
  ASSUME NEW S, S \subseteq Nat, S # {}
  PROVE  Min(S) \in S
<1>1. IsWellFoundedOn(Smaller, Nat) BY NatLessThanWellFounded, Zenon DEF Smaller
<1>2. \E x \in S : \A y \in S : ~ (<<y, x>> \in Smaller) BY <1>1, WFMin, Zenon
<1>3. PICK m \in S : \A n \in S : <<n, m>> \notin Smaller BY <1>2, Zenon
<1>4. \A m1, n1 \in Nat : m1 < n1 => <<m1, n1>> \in Smaller BY SMT DEF Smaller, OpToRel
<1>5. ASSUME NEW n \in S PROVE m <= n
  <2>1. ~ (n < m) BY <1>3, <1>4
  <2> QED BY <2>1
<1> QED BY <1>5 DEF Min

LEMMA GreatestIs ==
  ASSUME NEW n \in Nat, NEW S, S \subseteq 0 .. n, S # {}
  PROVE  Max(S) \in S
<1> DEFINE T == {n - x : x \in S}
<1>1. T \subseteq Nat /\ T # {}
  <2>1. \A x \in S : x \in Nat /\ x <= n OBVIOUS
  <2>2. \A x \in S : n - x \in Nat BY <2>1
  <2>3. \A y \in T : \E x \in S : y = n - x BY Zenon
  <2>4. PICK x \in S : TRUE BY Zenon
  <2>5. n - x \in T BY <2>4, Zenon
  <2> HIDE DEF T
  <2> QED BY <2>2, <2>3, <2>5, Zenon
<1>2. IsWellFoundedOn(Smaller, Nat) BY NatLessThanWellFounded, Zenon DEF Smaller
<1> HIDE DEF T
<1>3. \E x \in T : \A y \in T : ~ (<<y, x>> \in Smaller) BY <1>1, <1>2, WFMin, Zenon
<1>4. PICK m \in T : \A y \in T : <<y, m>> \notin Smaller BY <1>3, Zenon
<1>5. \A m1, n1 \in Nat : m1 < n1 => <<m1, n1>> \in Smaller BY SMT DEF Smaller, OpToRel
<1>6. ASSUME NEW y \in T PROVE m <= y
  <2>1. ~ (y < m) BY <1>1, <1>4, <1>5
  <2> QED BY <1>1, <2>1
<1>7. PICK g \in S : m = n - g BY DEF T
<1>8. ASSUME NEW y \in S PROVE g >= y
  <2>1. n - y \in T BY DEF T
  <2>2. m <= n - y BY <1>6, <2>1
  <2> QED BY <1>7, <2>2
<1> QED BY <1>8 DEF Max

LEMMA PairMin ==
  ASSUME NEW a \in Int, NEW b \in Int
  PROVE  Min({a, b}) \in {a, b} /\ Min({a, b}) <= a /\ Min({a, b}) <= b
<1>1. \E x \in {a, b} : \A y \in {a, b} : x <= y
  <2>1. CASE a <= b BY <2>1
  <2>2. CASE b <= a BY <2>2
  <2> QED BY <2>1, <2>2
<1> QED BY <1>1 DEF Min

(* What the comparisons of two histories return.                           *)
LEMMA CutoffsAreNumbers ==
  ASSUME NEW old \in Seq(Message), NEW new \in Seq(Message)
  PROVE  /\ InvalidationCutoff(old, new) \in Opt(Nat)
         /\ DeletionCutoff(old, new) \in Nat
         /\ \A i \in Int : EditCutoff(old, new, i) \in Opt(Int)
<1> DEFINE shared == IF Len(old) < Len(new) THEN Len(old) ELSE Len(new)
           differ == {i \in 1 .. shared : old[i] # new[i]}
<1>1. Len(old) \in Nat /\ Len(new) \in Nat OBVIOUS
<1>2. shared \in Nat BY <1>1
<1>3. differ # {} => Min(differ) - 1 \in Nat
  <2>1. differ \subseteq 1 .. shared OBVIOUS
  <2> HIDE DEF differ, shared
  <2>2. differ \subseteq Nat BY <1>2, <2>1
  <2>3. differ # {} => Min(differ) \in differ BY <2>2, LeastIs
  <2>4. \A i \in differ : i - 1 \in Nat BY <1>2, <2>1
  <2> QED BY <2>3, <2>4
<1> DEFINE cut(d) == IF d # {} THEN Min(d) - 1
                     ELSE IF Len(new) < Len(old) THEN Len(new) ELSE None
<1>4. InvalidationCutoff(old, new) = cut(differ) BY DEF InvalidationCutoff
<1> HIDE DEF differ, shared
<1>5. InvalidationCutoff(old, new) \in Opt(Nat) BY <1>1, <1>3, <1>4 DEF Opt
<1>6. DeletionCutoff(old, new) \in Nat BY <1>1, <1>5 DEF DeletionCutoff, Opt
<1>7. ASSUME NEW i \in Int PROVE EditCutoff(old, new, i) \in Opt(Int)
  <2> DEFINE first == InvalidationCutoff(old, new)
  <2>1. EditCutoff(old, new, i) = IF first = None THEN None ELSE Min({first, i}) BY DEF EditCutoff
  <2>2. first = None \/ first \in Int BY <1>5 DEF Opt
  <2> HIDE DEF first
  <2> QED BY <2>1, <2>2, PairMin DEF Opt
<1> QED BY <1>5, <1>6, <1>7

LEMMA ReplyIsNumber ==
  ASSUME NEW n \in Nat, NEW shown \in Seq(Message)
  PROVE  UngovernedReply(n, shown) \in Opt(Nat)
<1> DEFINE replies == {i \in n + 1 .. Len(shown) : shown[i].by = "reply"}
<1>1. replies \subseteq Nat /\ \A i \in replies : i - 1 \in Nat OBVIOUS
<1>2. UngovernedReply(n, shown) = IF replies = {} THEN None ELSE Min(replies) - 1
  BY DEF UngovernedReply
<1> HIDE DEF replies
<1>3. replies # {} => Min(replies) \in replies BY <1>1, LeastIs
<1> QED BY <1>1, <1>2, <1>3 DEF Opt

LEMMA ReleaseIs ==
  ASSUME NEW n \in Int, NEW shown
  PROVE  ReleaseLength(n, shown) \in Int /\ n <= ReleaseLength(n, shown)
BY DEF ReleaseLength

(* A new or lowered guard: the ledger and what is sent stay as they are.   *)
LEMMA GuardLedger ==
  ASSUME HistoryIInv, UNCHANGED <<ledger, net, runs, disk, lost>>, gen'.epoch = gen.epoch,
         job.pc # "called", job'.pc # "called",
         used.commands <= used'.commands, used'.commands \in Nat,
         NEW g \in GuardState, store'.guard = g, mem'.guard = g, Durable'.guard = g, g # None,
         store'.checkpoint = Durable.checkpoint, mem'.checkpoint = mem.checkpoint,
         Upto(mem'.epoch), Upto(g.epoch), g.cmd # None => Upto(g.cmd.expected),
         GuardInv(g)', "cut" \notin lost => UpToDate(g),
         Durable.guard # None /\ Durable.guard.cmd # None => g.cmd = Durable.guard.cmd
  PROVE  LedgerInv'
<1>1. /\ HistoryTypes /\ EpochsInv /\ CommandsInv
      /\ GuardInv(store.guard) /\ GuardInv(mem.guard) /\ GuardInv(disk.guard)
      /\ "cut" \notin lost => PageKnows
  BY DEF HistoryIInv, LedgerInv
<1>2. Now' = Now BY DEF Now
<1>3. \A e : Upto(e)' <=> Upto(e) BY <1>2 DEF Upto
<1>4. \A c : Executed(c)' <=> Executed(c) BY DEF Executed
<1>5. \A n : Cut(n)' <=> Cut(n) BY DEF Cut, TurnIndices
<1>6. EpochsInv'
  <2>1. TurnIndices(ledger)' = TurnIndices(ledger) BY DEF TurnIndices
  <2>2. Durable.checkpoint # None => Upto(Durable.checkpoint.epoch)
    BY <1>1, DurableIs DEF EpochsInv, EpochsOf
  <2>3. EpochsOf(store)' BY <1>3, <2>2 DEF EpochsOf
  <2>4. EpochsOf(mem)' BY <1>1, <1>3 DEF EpochsOf, EpochsInv
  <2>5. EpochsOf(disk)' BY <1>1, <1>3 DEF EpochsOf, EpochsInv
  <2>6. Upto(mem.epoch)' /\ Upto(disk.epoch)' /\ Upto(gen.epoch)' BY <1>1, <1>3 DEF EpochsInv
  <2>7. /\ \A run \in runs' : Upto(run.epoch)'
        /\ \A r \in Range(ledger'.results) : Upto(r.epoch)'
        /\ ledger'.epoch = None => TurnIndices(ledger') = {}
    BY <1>1, <1>3, <2>1 DEF EpochsInv
  <2> QED BY <2>3, <2>4, <2>5, <2>6, <2>7 DEF EpochsInv
<1>7. CommandsInv'
  <2>1. \A c \in net : c.id \in Nat /\ c.id < used.commands
    BY <1>1 DEF CommandsInv, HistoryTypes, CommandState
  <2>2. \A r \in Range(ledger.results) : r.cmd.id \in Nat /\ r.cmd.id < used.commands
    BY <1>1, ResultsAre DEF CommandsInv, CommandState
  <2>3. used.commands \in Nat BY <1>1 DEF HistoryTypes, UsedState
  <2>4. \A c \in net' : c.id < used'.commands BY <2>1, <2>3
  <2>5. \A r \in Range(ledger'.results) : r.cmd.id < used'.commands BY <2>2, <2>3
  <2> QED BY <2>4, <2>5 DEF CommandsInv
<1>8. GuardInv(disk.guard)'
  <2>1. disk.guard # None => disk.guard \in GuardState
    BY <1>1 DEF HistoryTypes, MemState, Opt
  <2>2. disk.guard # None /\ disk.guard.cmd # None => disk.guard.cmd.id \in Nat
    BY <2>1 DEF GuardState, CommandState, Opt
  <2>3. used.commands \in Nat BY <1>1 DEF HistoryTypes, UsedState
  <2> QED BY <1>1, <1>4, <1>5, <2>2, <2>3 DEF GuardInv
<1>9. ASSUME "cut" \notin lost' PROVE PageKnows'
  <2>1. PageKnows BY <1>1, <1>9
  <2>2. \A c \in net' : Executed(c)' \/ c = g.cmd
    <3> SUFFICES ASSUME NEW c \in net, ~ Executed(c) PROVE c = g.cmd BY <1>4
    <3>1. Durable.guard # None /\ c = Durable.guard.cmd BY <2>1 DEF PageKnows
    <3>2. c # None BY <1>1, NoneApart DEF HistoryTypes
    <3> QED BY <3>1, <3>2
  <2>3. UpToDate(g)' BY <1>2, <1>4, <1>9 DEF UpToDate
  <2> QED BY <2>2, <2>3 DEF PageKnows
<1>10. GuardInv(store.guard)' /\ GuardInv(mem.guard)' OBVIOUS
<1> QED BY <1>6, <1>7, <1>8, <1>9, <1>10 DEF LedgerInv

(* No guard is dropped.                                                    *)
GuardKept == store.guard # None => store'.guard # None

(* A guard is created, lowered or left as it is                            *)
(* (ensurePendingHistoryInvalidation).                                     *)
LEMMA EnsureGuardSteady ==
  ASSUME HistoryIInv, job # NoJob, job.pc \in {"begin", "judge", "resolve"}, ~ Conflict,
         NEW cutoff \in Int, NEW release \in Int, NEW length \in Nat,
         NEW next \in {"observed", "detected", "reconcile"}, cutoff <= release,
         EnsureGuard(cutoff, release, length, next), UNCHANGED <<world, queue>>,
         Reaches(job.ev.kind, next),
         next = "detected" => job.pc \in Detecting /\ Durable.checkpoint # None,
         job.ev.kind = "deleted" /\ job.pc = "begin" => ~ Clear, job.ev.kind # "regen"
  PROVE  HistoryIInv' /\ GuardKept
<1> DEFINE g == Durable.guard
           created == CreatedGuard(cutoff, release, length)
           merged == MergedGuard(g, cutoff, release, length)
<1>1. HistoryTypes /\ GuardInv(store.guard) /\ GuardInv(mem.guard) /\ CommandsInv /\ JobInv
      /\ EpochsInv /\ ("cut" \notin lost => PageKnows)
  BY DEF HistoryIInv, LedgerInv
<1>2. g # None => g \in GuardState /\ GuardInv(g) /\ EpochsOf([guard |-> g, checkpoint |-> None])
  BY <1>1, DurableIs DEF EpochsInv, EpochsOf
<1>3. used \in UsedState /\ job \in JobState /\ page \in ShownState /\ gen \in GenState /\ mem \in MemState
  BY <1>1 DEF HistoryTypes
<1>4. \A r \in Range(ledger.results) : r.cmd.id < used.commands BY <1>1 DEF CommandsInv
<1>5. UNCHANGED <<chat, ledger, net, runs, queue>> BY DEF world
<1>6. page' = page /\ gen' = gen =>
        /\ Unrevoked' => Unrevoked
        /\ gen'.pc = gen.pc /\ gen'.late = gen.late /\ gen'.regen = gen.regen
        /\ gen'.start = gen.start /\ page'.suppressed = page.suppressed
  BY DEF Unrevoked
<1>7. CASE /\ g = None
           /\ WriteGuard(created, IF Durable.checkpoint = None THEN mem.epoch ELSE VerifiedEpoch, next)
           /\ used' = [used EXCEPT !.commands = @ + 1]
           /\ UNCHANGED <<page, gen, lost>>
  <2> DEFINE e == IF Durable.checkpoint = None THEN mem.epoch ELSE VerifiedEpoch
  <2>0. PICK k : k = created OBVIOUS
  <2>1. /\ k.cutoff = cutoff /\ k.release = release /\ k.length = length
        /\ k.applied = None /\ k.epoch = None /\ k.cmd \in CommandState
        /\ k.cmd.id = used.commands /\ k.cmd.cutoff = cutoff
        /\ k.cmd.expected = VerifiedEpoch /\ k \in GuardState
    BY <1>3, <2>0, EpochsNamed DEF CreatedGuard, NewCommand, GuardState, CommandState, UsedState, Opt
  <2>2. e \in Opt(Nat) /\ Upto(e)
    BY <1>1, <1>3, EpochsNamed DEF MemState, EpochsInv, Upto, Opt
  <2>3. used' \in UsedState /\ used'.commands = used.commands + 1 /\ used.commands \in Nat
    BY <1>3, <1>7 DEF UsedState
  <2>4. WriteGuard(k, e, next) /\ g = None /\ UNCHANGED <<page, gen, lost>> BY <1>7, <2>0
  <2> HIDE DEF created, e
  <2>5. /\ JobInv' /\ SyncInv'
        /\ store' \in StoreState /\ mem' \in MemState /\ job' \in JobState /\ disk' = disk
        /\ job'.ev = job.ev /\ job'.pc = "saving"
        /\ store'.guard = k /\ mem'.guard = k /\ Durable'.guard = k
        /\ k # None
        /\ store'.checkpoint = Durable.checkpoint /\ mem'.checkpoint = mem.checkpoint
        /\ mem'.epoch = e
    BY <2>1, <2>2, <2>4, GuardRecorded
  <2>6. HistoryTypes' BY <1>1, <1>5, <2>3, <2>4, <2>5 DEF HistoryTypes
  <2>7. ~ Executed(k.cmd) BY <1>3, <1>4, <2>1 DEF Executed, UsedState
  <2>8. k.cmd # None BY <2>1, NoneApart
  <2>9. ~ Executed(k.cmd)' BY <1>5, <2>7 DEF Executed
  <2>10. GuardInv(k)' BY <2>1, <2>3, <2>8, <2>9 DEF GuardInv
  <2>11. "cut" \notin lost => UpToDate(k)
    BY <1>1, <2>1, <2>4, <2>7, <2>8 DEF PageKnows, UpToDate
  <2>12. Upto(k.epoch) /\ Upto(k.cmd.expected) BY <2>1, EpochsNamed DEF Upto
  <2>13. LedgerInv'
    BY <1>5, <2>1, <2>2, <2>3, <2>4, <2>5, <2>10, <2>11, <2>12, GuardLedger
  <2>14. AdmissionInv' /\ EventsInv' BY <1>5, <1>6, <2>4, <2>5, GoesOnAdmits
  <2> QED BY <2>5, <2>6, <2>13, <2>14 DEF HistoryIInv, GuardKept
<1>8. CASE g # None /\ cutoff >= g.length /\ Fail /\ UNCHANGED <<durable, used>>
  <2> QED BY <1>3, <1>5, <1>8, FailSteady DEF durable, GuardKept
<1>9. CASE /\ g # None /\ cutoff < g.length /\ Lowers(g, cutoff, release)
           /\ WriteGuard(merged, mem.epoch, next)
           /\ used' = [used EXCEPT !.commands = @ + 1]
           /\ UNCHANGED <<page, gen, lost>>
  <2> DEFINE kept == IF cutoff < g.cutoff /\ g.cmd = None
                     THEN NewCommand(cutoff, g.epoch) ELSE g.cmd
             longest == Max({g.length, length})
  <2>0. PICK k : k = merged OBVIOUS
  <2>1. g \in GuardState /\ GuardInv(g) BY <1>2, <1>9
  <2>2. longest \in Nat
    <3>1. g.length \in Nat BY <2>1 DEF GuardState
    <3>2. {g.length, length} \subseteq 0 .. g.length + length BY <3>1
    <3>3. longest \in {g.length, length} BY <3>1, <3>2, GreatestIs
    <3> QED BY <3>1, <3>3
  <2>3. merged = [[[[g EXCEPT !.cutoff = cutoff] EXCEPT !.release = release]
                  EXCEPT !.length = longest] EXCEPT !.cmd = kept]
    BY DEF MergedGuard
  <2>4. g.cmd = None => g.epoch \in Nat
    <3>1. g.epoch \in Opt(Nat) BY <2>1 DEF GuardState
    <3> QED BY <1>9, <2>1, <3>1 DEF GuardInv, Opt
  <2>5. kept \in Opt(CommandState)
    BY <1>3, <2>1, <2>4 DEF NewCommand, CommandState, GuardState, UsedState, Opt
  <2>6. g.cmd # None => kept = g.cmd OBVIOUS
  <2>7. g.cmd = None /\ kept # None =>
          /\ kept.id = used.commands /\ kept.expected = g.epoch /\ kept.cutoff = cutoff
    BY DEF NewCommand
  <2>8. kept = None => g.cmd = None /\ cutoff = g.cutoff
    <3>1. NewCommand(cutoff, g.epoch) # None \/ ~ (g.cmd = None)
      BY <1>3, <2>4, NoneApart DEF NewCommand, CommandState, UsedState
    <3>2. kept = None => g.cmd = None /\ ~ (cutoff < g.cutoff) BY <3>1
    <3> QED BY <1>9, <3>2 DEF Lowers
  <2> HIDE DEF kept, longest
  <2>9. /\ k \in GuardState /\ k.cutoff = cutoff /\ k.release = release
        /\ k.epoch = g.epoch /\ k.cmd = kept
    BY <2>1, <2>2, <2>3, <2>5, <2>0 DEF GuardState
  <2>10. used' \in UsedState /\ used'.commands = used.commands + 1 /\ used.commands \in Nat
    BY <1>3, <1>9 DEF UsedState
  <2>11. WriteGuard(k, mem.epoch, next) /\ g # None /\ UNCHANGED <<page, gen, lost>> BY <1>9, <2>0
  <2> HIDE DEF merged
  <2>12. mem.epoch \in Opt(Nat) /\ Upto(mem.epoch) BY <1>1, <1>3 DEF MemState, EpochsInv
  <2>13. /\ JobInv' /\ SyncInv'
         /\ store' \in StoreState /\ mem' \in MemState /\ job' \in JobState /\ disk' = disk
         /\ job'.ev = job.ev /\ job'.pc = "saving"
         /\ store'.guard = k /\ mem'.guard = k /\ Durable'.guard = k
         /\ k # None
         /\ store'.checkpoint = Durable.checkpoint /\ mem'.checkpoint = mem.checkpoint
         /\ mem'.epoch = mem.epoch
    BY <2>9, <2>11, <2>12, GuardRecorded
  <2>14. HistoryTypes' BY <1>1, <1>5, <2>10, <2>11, <2>13 DEF HistoryTypes
  <2>15. g.cmd = None /\ kept # None => ~ Executed(kept)
    BY <1>4, <2>7, <2>10 DEF Executed
  <2>16. (\A c : Executed(c)' <=> Executed(c)) /\ (\A n : Cut(n)' <=> Cut(n))
    BY <1>5 DEF Executed, Cut, TurnIndices
  <2>17. GuardInv(k)'
    <3>1. /\ k.cmd = None => k.epoch # None
          /\ k.cmd = None /\ "early" \notin lost' => Cut(k.cutoff)'
      BY <2>1, <2>8, <2>9, <2>11, <2>16 DEF GuardInv
    <3>2. ASSUME k.cmd # None
          PROVE  /\ k.cmd.id < used'.commands
                 /\ Executed(k.cmd)' /\ "early" \notin lost' => Cut(k.cmd.cutoff)'
      <4>1. CASE g.cmd = None
        <5>1. k.cmd = kept /\ kept # None BY <2>9, <3>2
        <5>2. ~ Executed(k.cmd) BY <2>15, <4>1, <5>1
        <5>3. ~ Executed(k.cmd)' BY <2>16, <5>2
        <5>4. k.cmd.id = used.commands BY <2>7, <4>1, <5>1
        <5> QED BY <2>10, <5>3, <5>4
      <4>2. CASE g.cmd # None
        <5>1. kept = g.cmd /\ kept \in CommandState BY <2>5, <2>6, <2>9, <3>2, <4>2 DEF Opt
        <5>2. /\ kept.id < used.commands
              /\ Executed(kept) /\ "early" \notin lost => Cut(kept.cutoff)
          BY <2>1, <2>11, <4>2, <5>1 DEF GuardInv
        <5>3. kept.id \in Nat BY <5>1 DEF CommandState
        <5> QED BY <2>9, <2>10, <2>11, <2>16, <5>2, <5>3
      <4> QED BY <4>1, <4>2
    <3> QED BY <2>9, <3>1, <3>2 DEF GuardInv
  <2>18. "cut" \notin lost => UpToDate(k)
    <3>1. "cut" \notin lost => UpToDate(g) BY <1>1, <2>11 DEF PageKnows
    <3>2. CASE g.cmd = None BY <2>7, <2>9, <2>15, <3>1, <3>2 DEF UpToDate
    <3>3. CASE g.cmd # None BY <2>6, <2>9, <3>1, <3>3 DEF UpToDate
    <3> QED BY <3>2, <3>3
  <2>19. Upto(k.epoch) /\ (k.cmd # None => Upto(k.cmd.expected))
    <3>1. Upto(g.epoch) /\ (g.cmd # None => Upto(g.cmd.expected)) BY <1>2, <2>11 DEF EpochsOf
    <3> QED BY <2>6, <2>7, <2>9, <3>1
  <2>20. LedgerInv'
    BY <1>5, <2>6, <2>9, <2>10, <2>11, <2>12, <2>13, <2>17, <2>18, <2>19, GuardLedger
  <2>21. AdmissionInv' /\ EventsInv' BY <1>5, <1>6, <2>11, <2>13, GoesOnAdmits
  <2> QED BY <2>13, <2>14, <2>20, <2>21 DEF HistoryIInv, GuardKept
<1>10. CASE g # None /\ Goto(next) /\ UNCHANGED <<durable, page, gen, used, lost>>
  <2>1. job' = [job EXCEPT !.pc = next] BY <1>10 DEF Goto
  <2>2. job' \in JobState /\ job'.ev = job.ev /\ job'.pc = next /\ job'.then = job.then
    BY <1>3, <2>1 DEF JobState, HandlerPlaces
  <2>3. next = "detected" => job.then \in {"resolve", "return", "finish"} /\ Reaches(job.ev.kind, job.then)
    <3>1. Place = job.pc BY DEF Place
    <3> QED BY <1>1, <3>1 DEF JobInv
  <2>4. next \in Detecting => next = "detected" BY DEF Detecting
  <2> QED BY <1>3, <1>5, <1>6, <1>10, <2>2, <2>3, <2>4, GoOnSteady DEF durable, GuardKept
<1> QED BY <1>7, <1>8, <1>9, <1>10 DEF EnsureGuard

(* The handlers.                                                           *)
LEMMA DeletedSteady == HistoryIInv /\ OnMessageDeleted => HistoryIInv' /\ GuardKept
<1> SUFFICES ASSUME HistoryIInv, OnMessageDeleted PROVE HistoryIInv' /\ GuardKept OBVIOUS
<1> DEFINE remaining == job.ev.at
           baseline == page.snap # None /\ page.snap # << >>
           cutoff == DeletionCutoff(page.snap, chat)
<1>1. job.pc = "begin" /\ job.ev.kind = "deleted" /\ UNCHANGED <<world, queue>>
  BY DEF OnMessageDeleted, Begin
<1>2. job # NoJob BY <1>1, JobIsThere
<1>3. HistoryTypes BY DEF HistoryIInv
<1>4. page \in ShownState /\ used \in UsedState /\ job \in JobState /\ chat \in Seq(Message)
      /\ gen \in GenState /\ mem \in MemState
  BY <1>3 DEF HistoryTypes
<1>5. UNCHANGED <<chat, ledger, net, runs, queue>> BY <1>1 DEF world
<1>6. CASE /\ page.suppressed = remaining /\ Return
           /\ page' = [page EXCEPT !.suppressed = None] /\ UNCHANGED <<durable, used, lost>>
  <2>1. page' \in ShownState /\ page'.block = page.block BY <1>4, <1>6 DEF ShownState, Opt
  <2>2. gen' = gen BY <1>1, <1>6 DEF Return
  <2>3. Unrevoked' => Unrevoked BY <2>1, <2>2 DEF Unrevoked
  <2> QED BY <1>1, <1>2, <1>6, <2>1, <2>3, ReturnSteady DEF durable, GuardKept
<1>7. page.suppressed # remaining => ~ Clear BY <1>1, <1>2, OwnDeletion
<1>8. CASE /\ page.suppressed # remaining
           /\ job' = [job EXCEPT !.pc = "detect", !.then = "return"]
           /\ UNCHANGED <<durable, page, gen, used, lost>>
  <2>1. job' = [[job EXCEPT !.pc = "detect"] EXCEPT !.then = "return"] BY <1>8
  <2>2. job' \in JobState /\ job'.ev = job.ev /\ job'.pc = "detect" /\ job'.then = "return"
    BY <1>4, <2>1 DEF JobState, HandlerPlaces
  <2>3. Reaches(job.ev.kind, "detect") /\ Reaches(job.ev.kind, "return")
    BY <1>1 DEF Reaches, Detecting, Settling
  <2>4. Unrevoked' => Unrevoked BY <1>8 DEF Unrevoked
  <2> QED
    BY <1>1, <1>2, <1>4, <1>5, <1>7, <1>8, <2>2, <2>3, <2>4, GoOnSteady DEF durable, GuardKept
<1>9. CASE Return /\ UNCHANGED <<durable, page, used, lost>>
  <2>1. Unrevoked' => Unrevoked BY <1>1, <1>9 DEF Return, Unrevoked
  <2> QED BY <1>1, <1>2, <1>4, <1>9, <2>1, ReturnSteady DEF durable, GuardKept
<1>10. CASE Fail /\ UNCHANGED <<durable, used>>
  BY <1>1, <1>2, <1>4, <1>5, <1>10, FailSteady DEF durable, GuardKept
<1>11. CASE /\ page.suppressed # remaining /\ baseline /\ ~ Conflict
            /\ EnsureGuard(cutoff, ReleaseLength(cutoff, chat), Len(page.snap), "observed")
  <2>1. page.snap \in Seq(Message) BY <1>4, <1>11 DEF ShownState, Opt
  <2>2. cutoff \in Int /\ Len(page.snap) \in Nat BY <1>4, <2>1, CutoffsAreNumbers
  <2>3. Reaches(job.ev.kind, "observed") BY <1>1 DEF Reaches
  <2> HIDE DEF cutoff
  <2>4. ReleaseLength(cutoff, chat) \in Int /\ cutoff <= ReleaseLength(cutoff, chat)
    BY <2>2, ReleaseIs
  <2> QED BY <1>1, <1>2, <1>7, <1>11, <2>2, <2>3, <2>4, EnsureGuardSteady
<1> QED BY <1>6, <1>8, <1>9, <1>10, <1>11 DEF OnMessageDeleted

(* The handlers that wait in the queue of the page, one by one.            *)
LEMMA EditedSteady == HistoryIInv /\ OnHostMessageEdited => HistoryIInv' /\ GuardKept
<1> SUFFICES ASSUME HistoryIInv, OnHostMessageEdited PROVE HistoryIInv' /\ GuardKept OBVIOUS
<1> DEFINE at == job.ev.at
           cutoff == IF page.snap = None \/ at >= Len(chat) THEN 0
                     ELSE IF Len(page.snap) # Len(chat) THEN 0
                     ELSE EditCutoff(page.snap, chat, at)
<1>1. job.pc = "begin" /\ job.ev.kind = "edited" /\ UNCHANGED <<world, queue>>
  BY DEF OnHostMessageEdited, Begin
<1>2. job # NoJob BY <1>1, JobIsThere
<1>3. HistoryTypes BY DEF HistoryIInv
<1>4. page \in ShownState /\ used \in UsedState /\ chat \in Seq(Message)
  BY <1>3 DEF HistoryTypes
<1>5. UNCHANGED <<chat, ledger, net, runs, queue>> BY <1>1 DEF world
<1>7. CASE Fail /\ UNCHANGED <<durable, used>>
  BY <1>1, <1>2, <1>4, <1>5, <1>7, FailSteady DEF durable, GuardKept
<1>8. CASE Return /\ UNCHANGED <<durable, page, used, lost>>
  <2>1. Unrevoked' => Unrevoked BY <1>1, <1>8 DEF Return, Unrevoked
  <2> QED BY <1>1, <1>2, <1>4, <1>8, <2>1, ReturnSteady DEF durable, GuardKept
<1>9. CASE /\ cutoff # None /\ ~ Conflict
           /\ EnsureGuard(cutoff, ReleaseLength(cutoff, chat), Len(chat), "observed")
  <2>1. at \in Int BY <1>2, JobIsThere DEF HandlerEvent
  <2>2. cutoff \in Int
    <3>1. page.snap # None => page.snap \in Seq(Message) BY <1>4 DEF ShownState, Opt
    <3>2. page.snap # None => EditCutoff(page.snap, chat, at) \in Opt(Int)
      BY <1>4, <2>1, <3>1, CutoffsAreNumbers
    <3> QED BY <1>9, <3>2 DEF Opt
  <2>3. Reaches(job.ev.kind, "observed") /\ Len(chat) \in Nat BY <1>1, <1>4 DEF Reaches
  <2> HIDE DEF cutoff
  <2>4. ReleaseLength(cutoff, chat) \in Int /\ cutoff <= ReleaseLength(cutoff, chat)
    BY <2>2, ReleaseIs
  <2> QED BY <1>1, <1>2, <1>9, <2>2, <2>3, <2>4, EnsureGuardSteady
<1> QED BY <1>7, <1>8, <1>9 DEF OnHostMessageEdited

LEMMA ObservedSteady == HistoryIInv /\ Observed => HistoryIInv'
<1> SUFFICES ASSUME HistoryIInv, Observed PROVE HistoryIInv' OBVIOUS
<1>1. /\ job.pc = "observed" /\ page' = [page EXCEPT !.snap = job.seen]
      /\ job' = [[job EXCEPT !.pc = "detect"] EXCEPT !.then = "resolve"]
      /\ UNCHANGED <<chat, ledger, net, runs, store, mem, disk, queue, gen, used, lost>>
  BY DEF Observed, world, durable
<1>2. job # NoJob BY <1>1, JobIsThere
<1>3. HistoryTypes BY DEF HistoryIInv
<1>4. page \in ShownState /\ job \in JobState /\ gen \in GenState /\ mem \in MemState
  BY <1>3 DEF HistoryTypes
<1>5. page' \in ShownState /\ page'.block = page.block /\ page'.suppressed = page.suppressed
  BY <1>1, <1>4 DEF ShownState, JobState, Opt
<1>6. job' \in JobState /\ job'.ev = job.ev /\ job'.pc = "detect" /\ job'.then = "resolve"
  BY <1>1, <1>4 DEF JobState, HandlerPlaces
<1>7. Reaches(job.ev.kind, "observed") BY <1>1, <1>2, JobIsThere
<1>8. Reaches(job.ev.kind, "detect") /\ Reaches(job.ev.kind, "resolve")
  BY <1>7 DEF Reaches, Detecting, Settling
<1>9. Unrevoked' => Unrevoked BY <1>1, <1>5 DEF Unrevoked
<1> QED BY <1>1, <1>2, <1>4, <1>5, <1>6, <1>8, <1>9, GoOnSteady

LEMMA ChatChangedSteady == HistoryIInv /\ OnChatChanged => HistoryIInv'
<1> SUFFICES ASSUME HistoryIInv, OnChatChanged PROVE HistoryIInv' OBVIOUS
<1>1. /\ job.pc = "begin" /\ job.ev.kind = "reset" /\ page' = NewPage
      /\ gen' = [[gen EXCEPT !.live = FALSE] EXCEPT !.scope = FALSE]
      /\ job' = [[job EXCEPT !.pc = "detect"] EXCEPT !.then = "finish"]
      /\ UNCHANGED <<chat, ledger, net, runs, store, mem, disk, queue, used, lost>>
  BY DEF OnChatChanged, Begin, world, durable
<1>2. job # NoJob BY <1>1, JobIsThere
<1>3. HistoryTypes BY DEF HistoryIInv
<1>4. job \in JobState /\ gen \in GenState /\ mem \in MemState
  BY <1>3 DEF HistoryTypes
<1>5. /\ gen' \in GenState /\ gen'.pc = gen.pc /\ gen'.epoch = gen.epoch /\ gen'.late = gen.late
      /\ gen'.regen = gen.regen /\ gen'.start = gen.start /\ gen'.live = FALSE
  BY <1>1, <1>4 DEF GenState
<1>6. job' \in JobState /\ job'.ev = job.ev /\ job'.pc = "detect" /\ job'.then = "finish"
  BY <1>1, <1>4 DEF JobState, HandlerPlaces
<1>8. Reaches(job.ev.kind, "detect") /\ Reaches(job.ev.kind, "finish")
  BY <1>1 DEF Reaches, Detecting, Settling
<1>9. ~ Unrevoked' BY <1>5 DEF Unrevoked
<1> QED BY <1>1, <1>2, <1>4, <1>5, <1>6, <1>8, <1>9, EmptyTypes, GoOnSteady

LEMMA GateSteady == HistoryIInv /\ HistoryGate => HistoryIInv'
<1> SUFFICES ASSUME HistoryIInv, HistoryGate PROVE HistoryIInv' OBVIOUS
<1>1. /\ job.pc = "begin" /\ job.ev.kind = "gate"
      /\ job' = [[job EXCEPT !.pc = "detect"] EXCEPT !.then = "resolve"]
      /\ UNCHANGED <<chat, ledger, net, runs, store, mem, disk, page, queue, gen, used, lost>>
  BY DEF HistoryGate, Begin, world, durable
<1>2. job # NoJob BY <1>1, JobIsThere
<1>3. HistoryTypes BY DEF HistoryIInv
<1>4. page \in ShownState /\ job \in JobState /\ gen \in GenState /\ mem \in MemState
  BY <1>3 DEF HistoryTypes
<1>6. job' \in JobState /\ job'.ev = job.ev /\ job'.pc = "detect" /\ job'.then = "resolve"
  BY <1>1, <1>4 DEF JobState, HandlerPlaces
<1>8. Reaches(job.ev.kind, "detect") /\ Reaches(job.ev.kind, "resolve")
  BY <1>1 DEF Reaches, Detecting, Settling
<1>9. Unrevoked' => Unrevoked BY <1>1 DEF Unrevoked
<1> QED BY <1>1, <1>2, <1>4, <1>6, <1>8, <1>9, GoOnSteady

LEMMA DetectSteady == HistoryIInv /\ Detect => HistoryIInv'
<1> SUFFICES ASSUME HistoryIInv, Detect PROVE HistoryIInv' OBVIOUS
<1> DEFINE c == Durable.checkpoint
           to == IF c = None THEN "inspect" ELSE IF Mismatch(c, chat) THEN "inspect" ELSE "judge"
<1>1. job.pc = "detect"
      /\ UNCHANGED <<chat, ledger, net, runs, store, mem, disk, queue, used>>
  BY DEF Detect, world, durable
<1>2. job # NoJob BY <1>1, JobIsThere
<1>3. HistoryTypes /\ JobInv BY DEF HistoryIInv
<1>4. page \in ShownState /\ job \in JobState /\ gen \in GenState /\ mem \in MemState
      /\ chat \in Seq(Message) /\ used \in UsedState
  BY <1>3 DEF HistoryTypes
<1>5. CASE Conflict
  <2>1. Fail BY <1>5 DEF Detect
  <2> QED BY <1>1, <1>2, <1>4, <2>1, FailSteady
<1>6. CASE ~ Conflict
  <2>1. /\ job' = [[[job EXCEPT !.seen = chat] EXCEPT !.base = page.snap] EXCEPT !.pc = to]
        /\ UNCHANGED <<page, gen, lost>>
    BY <1>6 DEF Detect
  <2>2. to \in {"inspect", "judge"} /\ (to = "judge" => c # None) OBVIOUS
  <2> HIDE DEF to
  <2>3. job' \in JobState /\ job'.ev = job.ev /\ job'.pc = to /\ job'.then = job.then
    BY <1>4, <2>1, <2>2 DEF JobState, ShownState, HandlerPlaces
  <2>4. Reaches(job.ev.kind, "detect") /\ Place = "detect" BY <1>1, <1>2, JobIsThere DEF Place
  <2>5. Reaches(job.ev.kind, to) BY <2>2, <2>4 DEF Reaches, Detecting, Settling
  <2>6. job.then \in {"resolve", "return", "finish"} /\ Reaches(job.ev.kind, job.then)
    BY <1>2, <1>3, <2>4 DEF JobInv, Detecting
  <2>7. Unrevoked' => Unrevoked BY <2>1 DEF Unrevoked
  <2> QED BY <1>1, <1>2, <1>4, <1>6, <2>1, <2>2, <2>3, <2>5, <2>6, <2>7, GoOnSteady
<1> QED BY <1>5, <1>6

LEMMA DetectedSteady == HistoryIInv /\ Detected => HistoryIInv'
<1> SUFFICES ASSUME HistoryIInv, Detected PROVE HistoryIInv' OBVIOUS
<1>1. /\ job.pc = "detected" /\ mem' = [mem EXCEPT !.epoch = Durable.checkpoint.epoch]
      /\ page' = [page EXCEPT !.snap = job.seen] /\ job' = [job EXCEPT !.pc = job.then]
      /\ UNCHANGED <<chat, ledger, net, runs, store, disk, queue, gen, used, lost>>
  BY DEF Detected, world, Goto
<1>2. job # NoJob BY <1>1, JobIsThere
<1>3. HistoryTypes /\ JobInv /\ SyncInv /\ EpochsInv BY DEF HistoryIInv, LedgerInv
<1>4. page \in ShownState /\ job \in JobState /\ gen \in GenState /\ mem \in MemState
  BY <1>3 DEF HistoryTypes
<1>5. Durable.checkpoint # None /\ Place = "detected" BY <1>1, <1>2, <1>3 DEF JobInv, Place
<1>6. Durable.checkpoint \in CheckpointState /\ Upto(Durable.checkpoint.epoch)
  BY <1>3, <1>5, DurableIs DEF EpochsInv, EpochsOf
<1>7. /\ mem' \in MemState /\ mem'.guard = mem.guard /\ mem'.checkpoint = mem.checkpoint
      /\ mem'.epoch = Durable.checkpoint.epoch
  BY <1>1, <1>4, <1>6 DEF MemState, CheckpointState, Opt
<1>8. page' \in ShownState /\ page'.block = page.block /\ page'.suppressed = page.suppressed
  BY <1>1, <1>4 DEF ShownState, JobState, Opt
<1>9. job.then \in {"resolve", "return", "finish"} /\ Reaches(job.ev.kind, job.then)
  BY <1>2, <1>3, <1>5 DEF JobInv, Detecting
<1>10. job' \in JobState /\ job'.ev = job.ev /\ job'.pc = job.then
  BY <1>1, <1>4, <1>9 DEF JobState, HandlerPlaces
<1>11. job'.pc \notin Detecting BY <1>9, <1>10 DEF Detecting
<1>12. Unrevoked' => Unrevoked BY <1>1, <1>8 DEF Unrevoked
<1>13. ~ Conflict BY <1>1, <1>3 DEF SyncInv
<1>14. UNCHANGED <<chat, ledger, net, runs, store, disk, queue, gen, used, lost>> BY <1>1
<1> QED
  BY <1>1, <1>2, <1>4, <1>5, <1>6, <1>7, <1>8, <1>9, <1>10, <1>11, <1>12, <1>13, <1>14, GoOnSteady

(* A new checkpoint: of the ledger's own epoch, unless a guard stands.     *)
LEMMA EpochsKept ==
  ASSUME HistoryIInv, UNCHANGED <<ledger, runs, disk>>, gen'.epoch = gen.epoch,
         Upto(mem'.epoch),
         store'.guard \in {None, store.guard, mem.guard}, mem'.guard \in {None, mem.guard},
         NEW c, store'.checkpoint = c, mem'.checkpoint = c, Upto(c.epoch)
  PROVE  EpochsInv'
<1>1. EpochsInv BY DEF HistoryIInv, LedgerInv
<1>2. Now' = Now BY DEF Now
<1>3. \A e : Upto(e)' <=> Upto(e) BY <1>2 DEF Upto
<1>4. TurnIndices(ledger)' = TurnIndices(ledger) BY DEF TurnIndices
<1>5. EpochsOf(store)' BY <1>1, <1>3 DEF EpochsOf, EpochsInv
<1>6. EpochsOf(mem)' BY <1>1, <1>3 DEF EpochsOf, EpochsInv
<1>7. EpochsOf(disk)' BY <1>1, <1>3 DEF EpochsOf, EpochsInv
<1>8. Upto(mem.epoch)' /\ Upto(disk.epoch)' /\ Upto(gen.epoch)' BY <1>1, <1>3 DEF EpochsInv
<1>9. /\ \A run \in runs' : Upto(run.epoch)'
      /\ \A r \in Range(ledger'.results) : Upto(r.epoch)'
      /\ ledger'.epoch = None => TurnIndices(ledger') = {}
  BY <1>1, <1>3, <1>4 DEF EpochsInv
<1> QED BY <1>5, <1>6, <1>7, <1>8, <1>9 DEF EpochsInv

(* A new checkpoint has the epoch that the page knows; one that settles a  *)
(* guard has the epoch of the answer.                                      *)
LEMMA CheckpointLedger ==
  ASSUME HistoryIInv, UNCHANGED <<ledger, net, runs, disk, used>>, gen'.epoch = gen.epoch,
         lost \subseteq lost', job.pc # "called", job'.pc # "called",
         NEW c \in CheckpointState, Upto(c.epoch),
         "cut" \notin lost /\ Durable.guard = None => c.epoch = Now,
         store'.guard = Durable.guard, mem'.guard = mem.guard,
         Durable'.guard = Durable.guard, Durable'.checkpoint = c, c # None,
         store'.checkpoint = c, mem'.checkpoint = c, Upto(mem'.epoch),
         ~ (job.pc = "saving")
  PROVE  LedgerInv'
<1>1. /\ HistoryTypes /\ CommandsInv /\ SyncInv
      /\ GuardInv(store.guard) /\ GuardInv(mem.guard) /\ GuardInv(disk.guard)
      /\ "cut" \notin lost => PageKnows
  BY DEF HistoryIInv, LedgerInv
<1>2. Now' = Now BY DEF Now
<1>3. (\A x : Executed(x)' <=> Executed(x)) /\ (\A n : Cut(n)' <=> Cut(n))
  BY DEF Executed, Cut, TurnIndices
<1>4. EpochsInv'
  <2>1. Durable.guard \in {store.guard, mem.guard} BY <1>1, DurableIs
  <2> QED BY <2>1, EpochsKept
<1>5. CommandsInv' BY <1>1, <1>3 DEF CommandsInv
<1>7. GuardInv(store.guard)' /\ GuardInv(mem.guard)' /\ GuardInv(disk.guard)'
  <2>1. Durable.guard \in {store.guard, mem.guard} BY <1>1, DurableIs
  <2>2. GuardInv(Durable.guard) BY <1>1, <2>1
  <2>3. GuardInv(store.guard)' BY <2>2, <1>3 DEF GuardInv
  <2>4. GuardInv(mem.guard)' BY <1>1, <1>3 DEF GuardInv
  <2>5. GuardInv(disk.guard)' BY <1>1, <1>3 DEF GuardInv
  <2> QED BY <2>3, <2>4, <2>5
<1>8. ASSUME "cut" \notin lost' PROVE PageKnows'
  <2>1. PageKnows BY <1>1, <1>8
  <2>2. \A x \in net' : Executed(x)' \/ (Durable'.guard # None /\ x = Durable'.guard.cmd)
    BY <1>3, <2>1 DEF PageKnows
  <2>3. Durable'.guard # None => UpToDate(Durable.guard)'
    BY <1>2, <1>3, <2>1 DEF PageKnows, UpToDate
  <2>4. Durable'.guard = None => VerifiedEpoch' = Now'
    BY <1>2, <1>8 DEF VerifiedEpoch
  <2>5. ~ (disk'.guard # None /\ Durable'.guard = None)
    BY <1>1, DurableIs DEF SyncInv
  <2> QED BY <2>2, <2>3, <2>4, <2>5 DEF PageKnows
<1> QED BY <1>4, <1>5, <1>7, <1>8 DEF LedgerInv

LEMMA SettledLedger ==
  ASSUME HistoryIInv, UNCHANGED <<ledger, net, runs, disk, used>>, gen'.epoch = gen.epoch,
         lost \subseteq lost', job.pc = "resolve", job'.pc # "called",
         Durable.guard # None, Durable.guard.cmd = None,
         NEW c \in CheckpointState, c.epoch = Durable.guard.epoch,
         store'.guard = None, mem'.guard = None,
         Durable'.guard = None, Durable'.checkpoint = c, c # None,
         store'.checkpoint = c, mem'.checkpoint = c, mem'.epoch = mem.epoch
  PROVE  LedgerInv'
<1> DEFINE g == Durable.guard
<1>1. /\ HistoryTypes /\ CommandsInv /\ SyncInv /\ EpochsInv
      /\ GuardInv(store.guard) /\ GuardInv(mem.guard) /\ GuardInv(disk.guard)
      /\ "cut" \notin lost => PageKnows
  BY DEF HistoryIInv, LedgerInv
<1>2. Now' = Now BY DEF Now
<1>3. (\A x : Executed(x)' <=> Executed(x)) /\ (\A n : Cut(n)' <=> Cut(n))
  BY DEF Executed, Cut, TurnIndices
<1>4. g \in {store.guard, mem.guard} BY <1>1, DurableIs
<1>5. Upto(c.epoch) /\ Upto(mem.epoch) BY <1>1, <1>4 DEF EpochsInv, EpochsOf
<1>6. EpochsInv' BY <1>5, EpochsKept
<1>7. CommandsInv' BY <1>1, <1>3 DEF CommandsInv
<1>8. GuardInv(store.guard)' /\ GuardInv(mem.guard)' BY DEF GuardInv
<1>9. GuardInv(disk.guard)' BY <1>1, <1>3 DEF GuardInv
<1>10. ASSUME "cut" \notin lost' PROVE PageKnows'
  <2>1. PageKnows /\ UpToDate(g) BY <1>1, <1>10 DEF PageKnows
  <2>2. c.epoch = Now BY <2>1 DEF UpToDate
  <2>3. \A x \in net' : Executed(x)'
    <3> SUFFICES ASSUME NEW x \in net, ~ Executed(x) PROVE FALSE BY <1>3
    <3>1. x = None BY <2>1 DEF PageKnows
    <3> QED BY <1>1, <3>1, NoneApart DEF HistoryTypes
  <2>4. VerifiedEpoch' = Now' BY <1>2, <2>2 DEF VerifiedEpoch
  <2>5. ASSUME disk.guard # None PROVE disk.guard.cmd = None /\ UpToDate(disk.guard)'
    <3>1. disk.guard = mem.guard BY <1>1 DEF SyncInv
    <3>2. ~ Conflict BY <1>1 DEF SyncInv
    <3>3. disk.guard = g BY <1>1, <2>5, <3>1, <3>2, DurableIs DEF Conflict
    <3>4. disk.guard.cmd = None /\ disk.guard.epoch = Now BY <2>2, <3>3
    <3> QED BY <1>2, <3>4 DEF UpToDate
  <2> QED BY <2>3, <2>4, <2>5 DEF PageKnows
<1> QED BY <1>6, <1>7, <1>8, <1>9, <1>10 DEF LedgerInv

LEMMA JudgeSteady == HistoryIInv /\ Judge => HistoryIInv' /\ GuardKept
<1> SUFFICES ASSUME HistoryIInv, Judge PROVE HistoryIInv' /\ GuardKept OBVIOUS
<1> DEFINE c == Durable.checkpoint
           seen == job.seen
           snap == IF job.base = None THEN seen ELSE job.base
           append == Appended(c)
           cutoffs == Disagreements(c, snap, seen)
           structural == \/ Len(chat) < Len(c.msgs)
                         \/ append # None
                         \/ Len(seen) < Len(snap)
           cutoff == Min(cutoffs)
           release == IF structural THEN cutoff ELSE ReleaseLength(cutoff, chat)
           length == Max({Len(seen), Len(c.msgs), Len(snap), cutoff + 1})
<1>1. job.pc = "judge" /\ UNCHANGED <<chat, ledger, net, runs, queue>> BY DEF Judge, world
<1>2. job # NoJob BY <1>1, JobIsThere
<1>3. HistoryTypes /\ JobInv /\ SyncInv /\ EpochsInv BY DEF HistoryIInv, LedgerInv
<1>4. page \in ShownState /\ job \in JobState /\ gen \in GenState /\ mem \in MemState
      /\ chat \in Seq(Message)
  BY <1>3 DEF HistoryTypes
<1>5. c # None /\ Place = "judge" BY <1>1, <1>2, <1>3 DEF JobInv, Place
<1>6. c \in CheckpointState /\ Upto(c.epoch)
  BY <1>3, <1>5, DurableIs DEF EpochsInv, EpochsOf
<1>7. c.msgs \in Seq(Message) /\ c.epoch \in Nat BY <1>6 DEF CheckpointState
<1>8. seen \in Seq(Message) /\ snap \in Seq(Message) BY <1>4 DEF JobState, Opt
<1>9. job.then \in {"resolve", "return", "finish"} /\ Reaches(job.ev.kind, job.then)
  BY <1>2, <1>3, <1>5 DEF JobInv, Detecting
<1>11. ~ Conflict BY <1>1, <1>3 DEF SyncInv
<1>12. CASE /\ mem' = [mem EXCEPT !.epoch = c.epoch] /\ Goto(job.then)
            /\ UNCHANGED <<store, disk, page, gen, used, lost>>
  <2>1. /\ mem' \in MemState /\ mem'.guard = mem.guard /\ mem'.checkpoint = mem.checkpoint
        /\ mem'.epoch = c.epoch
    BY <1>4, <1>7, <1>12 DEF MemState, Opt
  <2>2. job' \in JobState /\ job'.ev = job.ev /\ job'.pc = job.then
    BY <1>4, <1>9, <1>12 DEF JobState, HandlerPlaces, Goto
  <2>3. job'.pc \notin Detecting BY <1>9, <2>2 DEF Detecting
  <2>4. Unrevoked' => Unrevoked BY <1>12 DEF Unrevoked
  <2> QED
    BY <1>1, <1>2, <1>4, <1>5, <1>6, <1>9, <1>11, <1>12, <2>1, <2>2, <2>3, <2>4, GoOnSteady
    DEF GuardKept
<1>13. CASE cutoffs # {} /\ EnsureGuard(cutoff, release, length, "detected")
  <2>1. cutoffs \subseteq Nat
    <3>1. InvalidationCutoff(c.msgs, seen) \in Opt(Nat) /\ InvalidationCutoff(snap, seen) \in Opt(Nat)
      BY <1>7, <1>8, CutoffsAreNumbers
    <3>2. append \in Opt(Nat)
      <4>1. Len(c.msgs) \in Nat BY <1>7
      <4>2. UngovernedReply(Len(c.msgs), chat) \in Opt(Nat) BY <1>4, <4>1, ReplyIsNumber
      <4> QED BY <4>2 DEF Appended, Opt
    <3> HIDE DEF c, seen, snap
    <3> QED BY <3>1, <3>2 DEF Disagreements, Opt
  <2> HIDE DEF cutoffs
  <2>2. cutoff \in Nat BY <1>13, <2>1, LeastIs
  <2>3. release \in Int /\ cutoff <= release
    <3>1. ReleaseLength(cutoff, chat) \in Int /\ cutoff <= ReleaseLength(cutoff, chat)
      BY <2>2, ReleaseIs
    <3> HIDE DEF structural, cutoff
    <3> QED BY <2>2, <3>1
  <2> HIDE DEF cutoff, release
  <2>4. length \in Nat
    <3> DEFINE a == Len(seen)
               b == Len(c.msgs)
               d == Len(snap)
               S == {a, b, d, cutoff + 1}
    <3>1. a \in Nat /\ b \in Nat /\ d \in Nat BY <1>7, <1>8
    <3> HIDE DEF a, b, d
    <3>2. S \subseteq 0 .. a + b + d + cutoff + 1 /\ a + b + d + cutoff + 1 \in Nat /\ S # {}
      BY <2>2, <3>1
    <3>3. Max(S) \in S BY <3>2, GreatestIs
    <3>4. Max(S) \in Nat BY <2>2, <3>1, <3>3
    <3> QED BY <3>4 DEF a, b, d
  <2> HIDE DEF length
  <2>5. Reaches(job.ev.kind, "detected") /\ job.pc \in Detecting /\ job.ev.kind # "regen"
    <3>1. Reaches(job.ev.kind, "judge") BY <1>1, <1>2, JobIsThere
    <3> QED BY <1>1, <3>1 DEF Reaches, Detecting, Settling
  <2>6. UNCHANGED <<world, queue>> BY <1>1 DEF world
  <2> QED BY <1>1, <1>2, <1>5, <1>11, <1>13, <2>2, <2>3, <2>4, <2>5, <2>6, EnsureGuardSteady
<1> QED BY <1>12, <1>13 DEF Judge

LEMMA RecoveredIs ==
  ASSUME HistoryTypes, Recoverable
  PROVE  RecoveredCheckpoint.msgs \in Seq(Message)
<1> DEFINE n == Max(TurnIndices(ledger))
<1>1. TurnIndices(ledger) \subseteq 0 .. MaxLen /\ TurnIndices(ledger) # {}
  BY DEF Recoverable, TurnIndices, Index
<1>2. n \in TurnIndices(ledger) BY <1>1, GreatestIs
<1> HIDE DEF n
<1>3. n \in Nat /\ n + 1 <= Len(chat)
  BY <1>1, <1>2 DEF Recoverable, HistoryTypes, IsPrefix
<1>4. chat \in Seq(Message) BY DEF HistoryTypes
<1>5. SubSeq(chat, 1, n + 1) \in Seq(Message) BY <1>3, <1>4
<1> QED BY <1>5 DEF RecoveredCheckpoint, n

LEMMA InspectedSteady == HistoryIInv /\ Inspected => HistoryIInv'
<1> SUFFICES ASSUME HistoryIInv, Inspected PROVE HistoryIInv' OBVIOUS
<1>1. job.pc = "inspect" /\ UNCHANGED <<chat, ledger, net, runs, queue, used>>
  BY DEF Inspected, world
<1>2. job # NoJob BY <1>1, JobIsThere
<1>3. HistoryTypes /\ JobInv /\ SyncInv /\ EpochsInv BY DEF HistoryIInv, LedgerInv
<1>4. page \in ShownState /\ job \in JobState /\ gen \in GenState /\ mem \in MemState
      /\ chat \in Seq(Message) /\ used \in UsedState /\ ledger \in LedgerStates
  BY <1>3 DEF HistoryTypes
<1>5. Reaches(job.ev.kind, "inspect") /\ Place = "inspect" BY <1>1, <1>2, JobIsThere DEF Place
<1>6. job.then \in {"resolve", "return", "finish"} /\ Reaches(job.ev.kind, job.then)
  BY <1>2, <1>3, <1>5 DEF JobInv, Detecting
<1>7. UNCHANGED <<gen, page>> => (Unrevoked' => Unrevoked) BY DEF Unrevoked
<1>8. ~ Conflict BY <1>1, <1>3 DEF SyncInv
<1>9. Reaches(job.ev.kind, "judge") BY <1>5 DEF Reaches, Detecting, Settling
<1>10. CASE Fail /\ UNCHANGED durable
  BY <1>1, <1>2, <1>4, <1>10, FailSteady DEF durable
<1>11. CASE /\ Recoverable /\ WriteCheckpoint(RecoveredCheckpoint, mem.epoch, "judge")
            /\ UNCHANGED <<page, gen, lost>>
  <2> PICK c : c = RecoveredCheckpoint OBVIOUS
  <2>1. ledger.epoch # None BY <1>3, <1>11 DEF EpochsInv, Recoverable
  <2>2. c.epoch = Now /\ c \in CheckpointState /\ Upto(c.epoch)
    <3>1. ledger.epoch \in Nat BY <1>4, <2>1 DEF LedgerStates, Opt
    <3>2. c.epoch = ledger.epoch BY DEF RecoveredCheckpoint
    <3>3. c.msgs \in Seq(Message) BY <1>3, <1>11, RecoveredIs
    <3>4. c = [epoch |-> c.epoch, msgs |-> c.msgs] BY DEF RecoveredCheckpoint
    <3>5. c \in CheckpointState BY <3>1, <3>2, <3>3, <3>4 DEF CheckpointState
    <3> QED BY <2>1, <3>1, <3>2, <3>5 DEF Now, Upto
  <2>3. mem.epoch \in Opt(Nat) /\ Upto(mem.epoch) BY <1>3, <1>4 DEF MemState, EpochsInv
  <2>4. WriteCheckpoint(c, mem.epoch, "judge") BY <1>11
  <2>5. /\ JobInv' /\ SyncInv'
        /\ store' \in StoreState /\ mem' \in MemState /\ job' \in JobState /\ disk' = disk
        /\ job'.ev = job.ev /\ job'.pc = "saving"
        /\ store'.guard = Durable.guard /\ mem'.guard = mem.guard
        /\ Durable'.guard = Durable.guard /\ Durable'.checkpoint = c /\ c # None
        /\ store'.checkpoint = c /\ mem'.checkpoint = c
        /\ mem'.epoch = mem.epoch
    BY <1>1, <1>2, <1>8, <1>9, <2>2, <2>3, <2>4, CheckpointRecorded DEF Detecting
  <2>6. HistoryTypes' BY <1>1, <1>3, <1>11, <2>5 DEF HistoryTypes
  <2>7. job.ev.kind # "regen" BY <1>5 DEF Reaches, Detecting, Settling
  <2>8. AdmissionInv' /\ EventsInv' BY <1>1, <1>2, <1>7, <1>11, <2>5, <2>7, GoesOnAdmits
  <2>9. LedgerInv' BY <1>1, <1>11, <2>2, <2>3, <2>5, CheckpointLedger
  <2> QED BY <2>5, <2>6, <2>8, <2>9 DEF HistoryIInv
<1>12. CASE /\ Durable.checkpoint # None
            /\ Goto("judge") /\ UNCHANGED <<durable, page, gen, lost>>
  <2>1. job' \in JobState /\ job'.ev = job.ev /\ job'.pc = "judge" /\ job'.then = job.then
    BY <1>4, <1>12 DEF JobState, HandlerPlaces, Goto
  <2> QED BY <1>1, <1>2, <1>4, <1>6, <1>7, <1>8, <1>9, <1>12, <2>1, GoOnSteady DEF durable
<1>13. CASE /\ page' = [page EXCEPT !.snap = job.seen] /\ Goto(job.then)
            /\ UNCHANGED <<durable, gen, lost>>
  <2>1. /\ page' \in ShownState /\ page'.suppressed = page.suppressed
        /\ Unrevoked' => Unrevoked
    BY <1>4, <1>13 DEF ShownState, JobState, Opt, Unrevoked
  <2>2. job' \in JobState /\ job'.ev = job.ev /\ job'.pc = job.then
    BY <1>4, <1>6, <1>13 DEF JobState, HandlerPlaces, Goto
  <2>3. job'.pc \notin Detecting BY <1>6, <2>2 DEF Detecting
  <2> QED
    BY <1>1, <1>2, <1>4, <1>6, <1>7, <1>8, <1>13, <2>1, <2>2, <2>3, GoOnSteady DEF durable, Detecting
<1> QED BY <1>10, <1>11, <1>12, <1>13 DEF Inspected

LEMMA ResolveSteady == HistoryIInv /\ Resolve => HistoryIInv'
<1> SUFFICES ASSUME HistoryIInv, Resolve PROVE HistoryIInv' OBVIOUS
<1> DEFINE g == Durable.guard
           n == Len(chat)
           length == Max({g.length, n + 1})
<1>1. job.pc = "resolve" /\ UNCHANGED <<chat, ledger, net, runs, queue>> /\ UNCHANGED <<world, queue>>
  BY DEF Resolve, world
<1>2. job # NoJob BY <1>1, JobIsThere
<1>3. /\ HistoryTypes /\ JobInv /\ SyncInv /\ EpochsInv
      /\ GuardInv(store.guard) /\ GuardInv(mem.guard)
  BY DEF HistoryIInv, LedgerInv
<1>4. page \in ShownState /\ job \in JobState /\ gen \in GenState /\ mem \in MemState
      /\ chat \in Seq(Message) /\ used \in UsedState
  BY <1>3 DEF HistoryTypes
<1>5. g # None => g \in GuardState /\ GuardInv(g) BY <1>3, DurableIs
<1>6. job.ev.kind \in Settling
  <2>1. Reaches(job.ev.kind, "resolve") BY <1>1, <1>2, JobIsThere
  <2> QED BY <2>1 DEF Reaches, Detecting
<1>7. UNCHANGED <<gen, page>> => (Unrevoked' => Unrevoked) BY DEF Unrevoked
<1>8. ~ Conflict BY <1>1, <1>3 DEF SyncInv
<1>9. Reaches(job.ev.kind, "reconcile") /\ job.ev.kind # "regen"
  BY <1>6 DEF Reaches, Settling
<1>10. CASE g = None /\ Finish(FALSE) /\ UNCHANGED <<durable, used, lost>>
  <2>1. UNCHANGED <<world, durable, queue, used, lost>> BY <1>1, <1>10
  <2> QED BY <1>1, <1>2, <1>10, <2>1, FinishSteady
<1>11. CASE g # None /\ EnsureGuard(n, n, length, "reconcile")
  <2>1. n \in Nat /\ g.length \in Nat BY <1>4, <1>5, <1>11 DEF GuardState
  <2>2. length \in Nat
    <3> HIDE DEF g, n
    <3>1. {g.length, n + 1} \subseteq 0 .. g.length + n + 1 /\ g.length + n + 1 \in Nat BY <2>1
    <3>2. length \in {g.length, n + 1} BY <3>1, GreatestIs
    <3> QED BY <2>1, <3>2
  <2> HIDE DEF length, n
  <2>3. EnsureGuard(n, n, length, "reconcile") BY <1>11
  <2> QED BY <1>1, <1>2, <1>8, <1>9, <2>1, <2>2, <2>3, EnsureGuardSteady
<1>12. CASE g # None /\ Goto("reconcile") /\ UNCHANGED <<durable, page, gen, used, lost>>
  <2>1. job' \in JobState /\ job'.ev = job.ev /\ job'.pc = "reconcile" /\ job'.then = job.then
    BY <1>4, <1>12 DEF JobState, HandlerPlaces, Goto
  <2> QED BY <1>1, <1>2, <1>4, <1>7, <1>8, <1>9, <1>12, <2>1, GoOnSteady DEF durable, Detecting
<1>13. CASE /\ g # None /\ n = g.release /\ g.cmd = None
            /\ WriteSettled([epoch |-> g.epoch, msgs |-> SubSeq(chat, 1, g.release)], "settled")
            /\ lost \subseteq lost' /\ UNCHANGED <<page, gen, used>>
  <2> PICK c : c = [epoch |-> g.epoch, msgs |-> SubSeq(chat, 1, g.release)] OBVIOUS
  <2>1. c \in CheckpointState /\ c.epoch = g.epoch
    <3>1. g.epoch \in Nat BY <1>5, <1>13 DEF GuardInv, GuardState, Opt
    <3>2. SubSeq(chat, 1, g.release) \in Seq(Message) BY <1>4, <1>13
    <3> QED BY <3>1, <3>2 DEF CheckpointState
  <2>2. WriteSettled(c, "settled") BY <1>13
  <2>3. /\ JobInv' /\ SyncInv'
        /\ store' \in StoreState /\ mem' \in MemState /\ job' \in JobState /\ disk' = disk
        /\ job'.ev = job.ev /\ job'.pc = "saving" /\ job'.next = "settled"
        /\ store'.guard = None /\ mem'.guard = None
        /\ Durable'.guard = None /\ Durable'.checkpoint = c /\ c # None
        /\ store'.checkpoint = c /\ mem'.checkpoint = c
        /\ mem'.epoch = mem.epoch
    BY <1>1, <1>2, <2>1, <2>2, SettledRecorded
  <2>4. HistoryTypes' BY <1>1, <1>3, <1>13, <2>3 DEF HistoryTypes
  <2>6. AdmissionInv' /\ EventsInv' BY <1>1, <1>2, <1>7, <1>9, <1>13, <2>3, GoesOnAdmits
  <2>7. LedgerInv' BY <1>1, <1>13, <2>1, <2>3, SettledLedger
  <2> QED BY <2>3, <2>4, <2>6, <2>7 DEF HistoryIInv
<1>14. CASE Finish(TRUE) /\ UNCHANGED <<durable, used, lost>>
  <2>1. UNCHANGED <<world, durable, queue, used, lost>> BY <1>1, <1>14
  <2> QED BY <1>1, <1>2, <1>14, <2>1, FinishSteady
<1> QED BY <1>10, <1>11, <1>12, <1>13, <1>14 DEF Resolve, Overtaken

LEMMA SettledSteady == HistoryIInv /\ Settled => HistoryIInv'
<1> SUFFICES ASSUME HistoryIInv, Settled PROVE HistoryIInv' OBVIOUS
<1> DEFINE kind == job.ev.kind
           fresh == [page EXCEPT !.snap = chat]
<1>1. /\ job.pc = "settled" /\ job' = NoJob
      /\ page' = (IF kind = "gate" THEN fresh ELSE [fresh EXCEPT !.block = FALSE])
      /\ kind = "gate" => gen' = [gen EXCEPT !.pc = "admitted"]
      /\ kind = "edited" => gen' = [[gen EXCEPT !.live = FALSE] EXCEPT !.scope = FALSE]
      /\ kind \notin {"gate", "edited"} => gen' = [gen EXCEPT !.scope = FALSE]
      /\ lost \subseteq lost'
      /\ UNCHANGED <<chat, ledger, net, runs, store, mem, disk, queue, used>>
  BY DEF Settled, Overtaken, world, durable
<1>2. job # NoJob BY <1>1, JobIsThere
<1>3. HistoryTypes /\ SyncInv BY DEF HistoryIInv
<1>4. page \in ShownState /\ gen \in GenState /\ chat \in Seq(Message) BY <1>3 DEF HistoryTypes
<1>5. kind \in Settling /\ Place = "settled"
  <2>1. Reaches(kind, "settled") /\ Place = "settled" BY <1>1, <1>2, JobIsThere DEF Place
  <2> QED BY <2>1 DEF Reaches, Detecting
<1>6. page' \in ShownState
  <2>1. fresh \in ShownState BY <1>4 DEF ShownState, Opt
  <2> HIDE DEF fresh
  <2> QED BY <1>1, <2>1 DEF ShownState
<1>7. /\ gen' \in GenState /\ gen'.epoch = gen.epoch
      /\ kind = "gate" => gen'.pc = "admitted" /\ gen'.late = gen.late
      /\ kind # "gate" => /\ gen'.pc = gen.pc /\ gen'.late = gen.late
                          /\ gen'.regen = gen.regen /\ gen'.start = gen.start /\ ~ gen'.scope
  <2>1. CASE kind = "gate" BY <1>1, <1>4, <2>1 DEF GenState, GenPlaces
  <2>2. CASE kind = "edited" BY <1>1, <1>4, <2>2 DEF GenState
  <2>3. CASE kind \notin {"gate", "edited"} BY <1>1, <1>4, <2>3 DEF GenState
  <2> QED BY <2>1, <2>2, <2>3
<1>8. HistoryTypes' BY <1>1, <1>3, <1>6, <1>7, EmptyTypes DEF HistoryTypes
<1>9. JobInv' /\ SyncInv' BY <1>1, RecordsIdle
<1>10. AdmissionInv' /\ EventsInv'
  <2>1. Durable'.guard = None BY <1>1, <1>2, <1>3, <1>5 DEF Durable, Prefer, SyncInv
  <2> QED BY <1>1, <1>2, <1>5, <1>7, <2>1, EndsAdmits DEF Settling, Unrevoked
<1>11. LedgerInv'
  <2>1. job'.pc = "none" BY <1>1 DEF NoJob
  <2> QED BY <1>1, <1>7, <2>1, GenEpoch, LedgerStays
<1> QED BY <1>8, <1>9, <1>10, <1>11 DEF HistoryIInv

(* A command is sent: the ledger and the records stay as they are.         *)
LEMMA SentLedger ==
  ASSUME HistoryIInv, UNCHANGED <<ledger, runs, store, mem, disk>>, gen'.epoch = gen.epoch,
         lost \subseteq lost', NEW c \in CommandState, net' = net \cup {c},
         used'.commands \in Nat, used.commands <= used'.commands, c.id < used'.commands,
         job'.pc = "called", job'.call = c, job'.ev = job.ev, job.pc # "called",
         job.ev.kind = "regen" => ~ Executed(c) /\ (Durable.guard = None \/ "cut" \in lost'),
         job.ev.kind # "regen" => Durable.guard # None /\ Durable.guard.cmd = c
  PROVE  LedgerInv'
<1>1. /\ HistoryTypes /\ EpochsInv /\ CommandsInv
      /\ GuardInv(store.guard) /\ GuardInv(mem.guard) /\ GuardInv(disk.guard)
      /\ "cut" \notin lost => PageKnows
  BY DEF HistoryIInv, LedgerInv
<1>2. Durable' = Durable /\ Now' = Now BY SameDurable DEF Now
<1>3. \A e : Upto(e)' <=> Upto(e) BY <1>2 DEF Upto
<1>4. (\A x : Executed(x)' <=> Executed(x)) /\ (\A n : Cut(n)' <=> Cut(n))
  BY DEF Executed, Cut, TurnIndices
<1>5. EpochsInv'
  <2>1. TurnIndices(ledger)' = TurnIndices(ledger) BY DEF TurnIndices
  <2>2. EpochsOf(store)' BY <1>1, <1>3 DEF EpochsOf, EpochsInv
  <2>3. EpochsOf(mem)' BY <1>1, <1>3 DEF EpochsOf, EpochsInv
  <2>4. EpochsOf(disk)' BY <1>1, <1>3 DEF EpochsOf, EpochsInv
  <2>5. Upto(mem.epoch)' /\ Upto(disk.epoch)' /\ Upto(gen.epoch)' BY <1>1, <1>3 DEF EpochsInv
  <2>6. /\ \A run \in runs' : Upto(run.epoch)'
        /\ \A r \in Range(ledger'.results) : Upto(r.epoch)'
        /\ ledger'.epoch = None => TurnIndices(ledger') = {}
    BY <1>1, <1>3, <2>1 DEF EpochsInv
  <2> QED BY <2>2, <2>3, <2>4, <2>5, <2>6 DEF EpochsInv
<1>6. used.commands \in Nat BY <1>1 DEF HistoryTypes, UsedState
<1>7. CommandsInv'
  <2>1. \A x \in net : x.id \in Nat /\ x.id < used.commands
    BY <1>1 DEF CommandsInv, HistoryTypes, CommandState
  <2>2. \A r \in Range(ledger.results) : r.cmd.id \in Nat /\ r.cmd.id < used.commands
    BY <1>1, ResultsAre DEF CommandsInv, CommandState
  <2>3. \A x \in net' : x.id < used'.commands BY <1>6, <2>1
  <2>4. \A r \in Range(ledger'.results) : r.cmd.id < used'.commands BY <1>6, <2>2
  <2>5. job'.call # None BY NoneApart
  <2>6. job'.ev.kind = "regen" => ~ Executed(job.call)' BY <1>4 DEF Executed
  <2>7. job'.ev.kind # "regen" => Durable'.guard # None /\ Durable'.guard.cmd = job'.call BY <1>2
  <2> QED BY <2>3, <2>4, <2>5, <2>6, <2>7 DEF CommandsInv
<1>8. ASSUME NEW g, g # None => g \in GuardState, GuardInv(g) PROVE GuardInv(g)'
  <2>1. g # None /\ g.cmd # None => g.cmd.id \in Nat BY <1>8 DEF GuardState, CommandState, Opt
  <2> QED BY <1>4, <1>6, <1>8, <2>1 DEF GuardInv
<1>9. /\ store.guard # None => store.guard \in GuardState
      /\ mem.guard # None => mem.guard \in GuardState
      /\ disk.guard # None => disk.guard \in GuardState
  BY <1>1 DEF HistoryTypes, StoreState, MemState, Opt
<1>10. GuardInv(store.guard)' /\ GuardInv(mem.guard)' /\ GuardInv(disk.guard)'
  <2>1. GuardInv(store.guard)' BY <1>1, <1>8, <1>9
  <2>2. GuardInv(mem.guard)' BY <1>1, <1>8, <1>9
  <2>3. GuardInv(disk.guard)' BY <1>1, <1>8, <1>9
  <2> QED BY <2>1, <2>2, <2>3
<1>11. ASSUME "cut" \notin lost' PROVE PageKnows'
  <2>1. PageKnows BY <1>1, <1>11
  <2>2. ASSUME NEW x \in net', ~ Executed(x)', ~ (Durable'.guard # None /\ x = Durable'.guard.cmd)
        PROVE  job'.pc = "called" /\ job'.ev.kind = "regen" /\ x = job'.call
    <3>1. x \notin net BY <1>2, <1>4, <2>1, <2>2 DEF PageKnows
    <3>2. x = c BY <3>1, <2>2
    <3> QED BY <1>2, <2>2, <3>2
  <2>3. VerifiedEpoch' = VerifiedEpoch BY <1>2 DEF VerifiedEpoch, CurrentEpoch
  <2>4. \A g : UpToDate(g)' <=> UpToDate(g) BY <1>2 DEF UpToDate, Executed
  <2>5. /\ Durable'.guard # None => UpToDate(Durable.guard)'
        /\ Durable'.guard = None => VerifiedEpoch' = Now'
    BY <1>2, <2>1, <2>3, <2>4 DEF PageKnows
  <2>6. disk'.guard # None /\ Durable'.guard = None =>
          disk'.guard.cmd = None /\ UpToDate(disk.guard)'
    BY <1>2, <2>1, <2>4 DEF PageKnows
  <2>7. job'.ev.kind = "regen" => Durable'.guard = None BY <1>2, <1>11
  <2> QED BY <2>2, <2>5, <2>6, <2>7 DEF PageKnows
<1> QED BY <1>5, <1>7, <1>10, <1>11 DEF LedgerInv

LEMMA ReconcileSteady == HistoryIInv /\ Reconcile => HistoryIInv'
<1> SUFFICES ASSUME HistoryIInv, Reconcile PROVE HistoryIInv' OBVIOUS
<1> DEFINE g == Durable.guard
<1>1. /\ job.pc = "reconcile"
      /\ UNCHANGED <<chat, ledger, runs, store, mem, disk, page, queue, gen, used, lost>>
  BY DEF Reconcile, durable
<1>2. job # NoJob BY <1>1, JobIsThere
<1>3. /\ HistoryTypes /\ JobInv /\ SyncInv /\ GuardInv(store.guard) /\ GuardInv(mem.guard)
  BY DEF HistoryIInv, LedgerInv
<1>4. page \in ShownState /\ job \in JobState /\ gen \in GenState /\ mem \in MemState
      /\ net \subseteq CommandState /\ used \in UsedState
  BY <1>3 DEF HistoryTypes
<1>5. job.ev.kind \in Settling /\ Place = "reconcile"
  <2>1. Reaches(job.ev.kind, "reconcile") /\ Place = "reconcile" BY <1>1, <1>2, JobIsThere DEF Place
  <2> QED BY <2>1 DEF Reaches, Detecting
<1>6. g # None BY <1>2, <1>3, <1>5 DEF JobInv
<1>7. g \in GuardState /\ GuardInv(g) BY <1>3, <1>6, DurableIs
<1>8. Unrevoked' => Unrevoked BY <1>1 DEF Unrevoked
<1>9. ~ Conflict BY <1>1, <1>3 DEF SyncInv
<1>10. CASE g.cmd = None
  <2>1. Goto("resolve") /\ UNCHANGED net BY <1>10 DEF Reconcile
  <2>2. job' \in JobState /\ job'.ev = job.ev /\ job'.pc = "resolve"
    BY <1>4, <2>1 DEF JobState, HandlerPlaces, Goto
  <2>3. Reaches(job.ev.kind, "resolve") BY <1>5 DEF Reaches
  <2> QED BY <1>1, <1>2, <1>4, <1>8, <1>9, <2>1, <2>2, <2>3, GoOnSteady DEF Detecting
<1>11. CASE g.cmd # None
  <2> PICK c : c = g.cmd OBVIOUS
  <2>1. net' = net \cup {c} /\ job' = [[job EXCEPT !.pc = "called"] EXCEPT !.call = c]
    BY <1>11 DEF Reconcile
  <2>2. c \in CommandState /\ c.id < used.commands BY <1>6, <1>7, <1>11 DEF GuardState, GuardInv, Opt
  <2>3. /\ job' \in JobState /\ job'.ev = job.ev /\ job'.pc = "called" /\ job'.call = c
    BY <1>4, <2>1, <2>2 DEF JobState, HandlerPlaces, Opt
  <2>4. HistoryTypes' BY <1>1, <1>3, <1>4, <2>1, <2>2, <2>3 DEF HistoryTypes
  <2>5. Reaches(job.ev.kind, "called") /\ job.ev.kind # "regen" BY <1>5 DEF Reaches, Settling
  <2>6. JobInv' /\ SyncInv' BY <1>1, <1>2, <1>9, <2>3, <2>5, RecordsGoOn DEF Detecting
  <2>8. AdmissionInv' /\ EventsInv' BY <1>1, <1>2, <1>8, <2>3, <2>5, GoesOnAdmits
  <2>9. used.commands \in Nat BY <1>4 DEF UsedState
  <2>10. LedgerInv' BY <1>1, <1>6, <2>1, <2>2, <2>3, <2>5, <2>9, SentLedger
  <2> QED BY <2>4, <2>6, <2>8, <2>10 DEF HistoryIInv
<1> QED BY <1>10, <1>11

LEMMA ReceivedSteady == HistoryIInv /\ OnHostMessageReceived => HistoryIInv'
<1> SUFFICES ASSUME HistoryIInv, OnHostMessageReceived PROVE HistoryIInv' OBVIOUS
<1>1. /\ job.pc = "begin" /\ job.ev.kind = "received"
      /\ page' = [[page EXCEPT !.snap = chat] EXCEPT !.block = page.block \/ Conflict]
      /\ lost \subseteq lost'
      /\ UNCHANGED <<chat, ledger, net, runs, queue, used>> /\ UNCHANGED world
  BY DEF OnHostMessageReceived, Begin, Overtaken, world
<1>2. job # NoJob BY <1>1, JobIsThere
<1>3. HistoryTypes /\ EpochsInv BY DEF HistoryIInv, LedgerInv
<1>4. page \in ShownState /\ gen \in GenState /\ chat \in Seq(Message) BY <1>3 DEF HistoryTypes
<1>5. page' \in ShownState /\ page'.suppressed = page.suppressed /\ (page.block => page'.block)
  <2>1. (page.block \/ Conflict) \in BOOLEAN BY <1>4 DEF ShownState, Conflict
  <2> QED BY <1>1, <1>4, <2>1 DEF ShownState, Opt
<1>6. CASE Return /\ UNCHANGED durable
  <2>1. UNCHANGED <<world, durable, queue, used>> BY <1>1, <1>6
  <2>2. gen'.live = gen.live /\ gen'.scope = gen.scope
    BY <1>1, <1>4, <1>6 DEF Return, GenState
  <2>3. Unrevoked' => Unrevoked BY <1>5, <2>2 DEF Unrevoked
  <2> QED BY <1>1, <1>2, <1>5, <1>6, <2>1, <2>3, ReturnSteady
<1>7. CASE /\ ~ Conflict /\ Durable.guard = None
           /\ WriteCheckpoint([epoch |-> VerifiedEpoch, msgs |-> chat], VerifiedEpoch, "finish")
           /\ UNCHANGED gen
  <2> PICK c : c = [epoch |-> VerifiedEpoch, msgs |-> chat] OBVIOUS
  <2>1. VerifiedEpoch \in Nat /\ Upto(VerifiedEpoch) BY EpochsNamed DEF Upto
  <2>2. c \in CheckpointState /\ c.epoch = VerifiedEpoch BY <1>4, <2>1 DEF CheckpointState
  <2>3. Reaches(job.ev.kind, "finish") BY <1>1 DEF Reaches
  <2>4. VerifiedEpoch \in Opt(Nat) BY <2>1 DEF Opt
  <2>5. WriteCheckpoint(c, VerifiedEpoch, "finish") BY <1>7
  <2>6. /\ JobInv' /\ SyncInv'
        /\ store' \in StoreState /\ mem' \in MemState /\ job' \in JobState /\ disk' = disk
        /\ job'.ev = job.ev /\ job'.pc = "saving"
        /\ store'.guard = Durable.guard /\ mem'.guard = mem.guard
        /\ Durable'.guard = Durable.guard /\ Durable'.checkpoint = c /\ c # None
        /\ store'.checkpoint = c /\ mem'.checkpoint = c
        /\ mem'.epoch = VerifiedEpoch
    BY <1>1, <1>2, <1>7, <2>2, <2>3, <2>4, <2>5, CheckpointRecorded
  <2>7. HistoryTypes' BY <1>1, <1>3, <1>5, <1>7, <2>6 DEF HistoryTypes
  <2>8. Unrevoked' => Unrevoked BY <1>5, <1>7 DEF Unrevoked
  <2>9. AdmissionInv' /\ EventsInv' BY <1>1, <1>2, <1>7, <2>6, <2>8, GoesOnAdmits
  <2>10. "cut" \notin lost => VerifiedEpoch = Now BY <1>7 DEF HistoryIInv, LedgerInv, PageKnows
  <2>11. LedgerInv' BY <1>1, <1>7, <2>1, <2>2, <2>6, <2>10, CheckpointLedger
  <2> QED BY <2>6, <2>7, <2>9, <2>11 DEF HistoryIInv
<1> QED BY <1>6, <1>7 DEF OnHostMessageReceived

LEMMA RegenerationSteady == HistoryIInv /\ RegenerationTruncates => HistoryIInv'
<1> SUFFICES ASSUME HistoryIInv, RegenerationTruncates PROVE HistoryIInv' OBVIOUS
<1>1. /\ job.pc = "begin" /\ job.ev.kind = "regen"
      /\ UNCHANGED <<chat, ledger, runs, store, mem, disk, queue>>
  BY DEF RegenerationTruncates, Begin, durable
<1>2. job # NoJob BY <1>1, JobIsThere
<1>3. HistoryTypes /\ CommandsInv BY DEF HistoryIInv, LedgerInv
<1>4. /\ page \in ShownState /\ gen \in GenState /\ job \in JobState /\ used \in UsedState
      /\ net \subseteq CommandState /\ mem \in MemState
  BY <1>3 DEF HistoryTypes
<1>5. CASE Conflict
  <2>1. Fail /\ UNCHANGED <<net, used>> BY <1>5 DEF RegenerationTruncates
  <2> QED BY <1>1, <1>2, <1>4, <2>1, FailSteady
<1>6. CASE ~ Conflict
  <2> PICK c : c = NewCommand(job.ev.at, VerifiedEpoch) OBVIOUS
  <2>1. /\ net' = net \cup {c} /\ job' = [[job EXCEPT !.pc = "called"] EXCEPT !.call = c]
        /\ used' = [used EXCEPT !.commands = @ + 1] /\ UNCHANGED <<page, gen>>
        /\ lost \subseteq lost' /\ (Durable.guard = None \/ "cut" \in lost')
    BY <1>6 DEF RegenerationTruncates
  <2>2. used.commands \in Nat /\ job.ev.at \in Int
    BY <1>2, <1>4, JobIsThere DEF UsedState, HandlerEvent
  <2>3. c \in CommandState /\ c.id = used.commands
    BY <2>2, EpochsNamed DEF NewCommand, CommandState
  <2>4. used' \in UsedState /\ used'.commands = used.commands + 1 BY <1>4, <2>1 DEF UsedState
  <2>5. /\ job' \in JobState /\ job'.ev = job.ev /\ job'.pc = "called" /\ job'.call = c
    BY <1>4, <2>1, <2>3 DEF JobState, HandlerPlaces, Opt
  <2>6. HistoryTypes' BY <1>1, <1>3, <1>4, <2>1, <2>3, <2>4, <2>5 DEF HistoryTypes
  <2>7. Reaches(job.ev.kind, "called") BY <1>1 DEF Reaches, Settling
  <2>8. JobInv' /\ SyncInv' BY <1>1, <1>2, <1>6, <2>5, <2>7, RecordsGoOn DEF Detecting
  <2>9. Unrevoked' => Unrevoked BY <2>1 DEF Unrevoked
  <2>10. Durable' = Durable BY <1>1 DEF Durable
  <2>11. AdmissionInv' /\ EventsInv' BY <1>1, <1>2, <2>1, <2>5, <2>9, <2>10, GoesOnAdmits
  <2>12. ~ Executed(c) BY <1>3, <2>2, <2>3 DEF CommandsInv, Executed
  <2>13. LedgerInv' BY <1>1, <2>1, <2>2, <2>3, <2>4, <2>5, <2>12, SentLedger
  <2> QED BY <2>6, <2>8, <2>11, <2>13 DEF HistoryIInv
<1> QED BY <1>5, <1>6

LEMMA EndsSteady == HistoryIInv /\ (HandlerEnds \/ HandlerReturns) => HistoryIInv'
<1> SUFFICES ASSUME HistoryIInv, HandlerEnds \/ HandlerReturns PROVE HistoryIInv' OBVIOUS
<1>1. CASE HandlerEnds
  <2>1. job.pc = "finish" /\ Finish(FALSE) /\ UNCHANGED <<world, durable, queue, used, lost>>
    BY <1>1 DEF HandlerEnds
  <2>2. job # NoJob BY <2>1, JobIsThere
  <2>3. Reaches(job.ev.kind, "finish") BY <2>1, <2>2, JobIsThere
  <2>4. job.ev.kind # "gate" BY <2>3 DEF Reaches, Detecting
  <2> QED BY <2>1, <2>2, <2>4, FinishSteady
<1>2. CASE HandlerReturns
  <2>1. job.pc = "return" /\ Return /\ UNCHANGED <<world, durable, page, queue, used, lost>>
    BY <1>2 DEF HandlerReturns
  <2>2. job # NoJob BY <2>1, JobIsThere
  <2>3. Reaches(job.ev.kind, "return") BY <2>1, <2>2, JobIsThere
  <2>4. job.ev.kind = "deleted" BY <2>3 DEF Reaches, Detecting
  <2>5. page' \in ShownState BY <2>1 DEF HistoryIInv, HistoryTypes
  <2>6. Unrevoked' => Unrevoked BY <2>1, <2>4 DEF Return, Unrevoked
  <2> QED BY <2>1, <2>2, <2>4, <2>5, <2>6, ReturnSteady
<1> QED BY <1>1, <1>2

LEMMA SavedSteady == HistoryIInv /\ SaveMetadata => HistoryIInv'
<1> SUFFICES ASSUME HistoryIInv, SaveMetadata PROVE HistoryIInv' OBVIOUS
<1>1. /\ job.pc = "saving" /\ disk' = mem /\ job' = [job EXCEPT !.pc = job.next]
      /\ UNCHANGED <<chat, ledger, net, runs, store, mem, page, queue, gen, used, lost>>
  BY DEF SaveMetadata, Goto, world
<1>2. job # NoJob BY <1>1, JobIsThere
<1>3. /\ HistoryTypes /\ JobInv /\ SyncInv /\ EpochsInv /\ CommandsInv
      /\ GuardInv(store.guard) /\ GuardInv(mem.guard)
      /\ "cut" \notin lost => PageKnows
  BY DEF HistoryIInv, LedgerInv
<1>4. job \in JobState /\ mem \in MemState BY <1>3 DEF HistoryTypes
<1>5. /\ job' \in JobState /\ job'.ev = job.ev /\ job'.pc = job.next /\ job'.then = job.then
  BY <1>1, <1>4 DEF JobState, HandlerPlaces
<1>6. job.next \in {"observed", "detected", "judge", "reconcile", "settled", "finish"}
  BY <1>1, <1>2, <1>3 DEF JobInv
<1>7. Durable' = Durable /\ (Conflict' <=> Conflict) BY <1>1, SameDurable
<1>8. Place' = Place /\ Place = job.next BY <1>1, <1>5, <1>6 DEF Place
<1>9. HistoryTypes' BY <1>1, <1>3, <1>5 DEF HistoryTypes
<1>10. JobInv' BY <1>2, <1>3, <1>5, <1>6, <1>7, <1>8 DEF JobInv
<1>11. ~ Conflict BY <1>1, <1>3 DEF SyncInv
<1>12. SyncInv'
  <2>1. store.checkpoint = None => mem.checkpoint = None BY <1>3 DEF SyncInv
  <2>2. Place = "settled" => store.guard = None /\ mem.guard = None BY <1>2, <1>3 DEF SyncInv
  <2>3. store.guard = None /\ store.checkpoint = None => mem.epoch = None BY <1>3 DEF SyncInv
  <2> QED BY <1>1, <1>5, <1>6, <1>7, <1>8, <1>11, <2>1, <2>2, <2>3 DEF SyncInv
<1>13. AdmissionInv' /\ EventsInv'
  <2>1. Unrevoked' => Unrevoked BY <1>1 DEF Unrevoked
  <2> QED BY <1>1, <1>2, <1>5, <1>6, <1>7, <2>1, GoesOnAdmits
<1>14. Now' = Now BY <1>1 DEF Now
<1>15. (\A x : Executed(x)' <=> Executed(x)) /\ (\A n : Cut(n)' <=> Cut(n))
  BY <1>1 DEF Executed, Cut, TurnIndices
<1>16. EpochsInv'
  <2>1. \A e : Upto(e)' <=> Upto(e) BY <1>14 DEF Upto
  <2>2. EpochsOf(store)' BY <1>1, <1>3, <2>1 DEF EpochsOf, EpochsInv
  <2>3. EpochsOf(mem)' BY <1>1, <1>3, <2>1 DEF EpochsOf, EpochsInv
  <2>4. EpochsOf(disk)' BY <1>1, <1>3, <2>1 DEF EpochsOf, EpochsInv
  <2>5. Upto(mem.epoch)' /\ Upto(disk.epoch)' /\ Upto(gen.epoch)' BY <1>1, <1>3, <2>1 DEF EpochsInv
  <2>6. /\ \A run \in runs' : Upto(run.epoch)'
        /\ \A r \in Range(ledger'.results) : Upto(r.epoch)'
        /\ ledger'.epoch = None => TurnIndices(ledger') = {}
    BY <1>1, <1>3, <2>1 DEF EpochsInv, TurnIndices
  <2> QED BY <2>2, <2>3, <2>4, <2>5, <2>6 DEF EpochsInv
<1>17. CommandsInv' BY <1>1, <1>3, <1>5, <1>6, <1>15 DEF CommandsInv
<1>18. GuardInv(store.guard)' /\ GuardInv(mem.guard)' /\ GuardInv(disk.guard)'
  <2>1. GuardInv(store.guard)' BY <1>1, <1>3, <1>15 DEF GuardInv
  <2>2. GuardInv(mem.guard)' BY <1>1, <1>3, <1>15 DEF GuardInv
  <2>3. GuardInv(disk.guard)' BY <1>1, <1>3, <1>15 DEF GuardInv
  <2> QED BY <2>1, <2>2, <2>3
<1>19. ASSUME "cut" \notin lost' PROVE PageKnows'
  <2>1. PageKnows BY <1>1, <1>3, <1>19
  <2>2. \A x \in net' : Executed(x)' \/ (Durable'.guard # None /\ x = Durable'.guard.cmd)
    BY <1>1, <1>7, <1>15, <2>1 DEF PageKnows
  <2>3. VerifiedEpoch' = VerifiedEpoch BY <1>1, <1>7 DEF VerifiedEpoch, CurrentEpoch
  <2>4. /\ Durable'.guard # None => UpToDate(Durable.guard)'
        /\ Durable'.guard = None => VerifiedEpoch' = Now'
    BY <1>1, <1>7, <1>14, <1>15, <2>1, <2>3 DEF PageKnows, UpToDate
  <2>5. ~ (disk'.guard # None /\ Durable'.guard = None) BY <1>1, <1>3, <1>7, DurableIs
  <2> QED BY <1>5, <1>6, <2>2, <2>4, <2>5 DEF PageKnows
<1>20. LedgerInv' BY <1>16, <1>17, <1>18, <1>19 DEF LedgerInv
<1> QED BY <1>9, <1>10, <1>12, <1>13, <1>20 DEF HistoryIInv

LEMMA StartedSteady == HistoryIInv /\ StartHandler => HistoryIInv'
<1> SUFFICES ASSUME HistoryIInv, StartHandler PROVE HistoryIInv' OBVIOUS
<1>1. /\ job = NoJob /\ queue # << >> /\ queue' = Tail(queue)
      /\ job' = [[[NoJob EXCEPT !.ev = Head(queue)] EXCEPT !.pc = "begin"] EXCEPT !.seen = chat]
      /\ UNCHANGED <<chat, ledger, net, runs, store, mem, disk, page, gen, used, lost>>
  BY DEF StartHandler, world, durable
<1>2. HistoryTypes /\ SyncInv /\ AdmissionInv /\ EventsInv BY DEF HistoryIInv
<1>3. queue \in Seq(HandlerEvent) /\ chat \in Seq(Message) BY <1>2 DEF HistoryTypes
<1>4. /\ Head(queue) \in HandlerEvent /\ Tail(queue) \in Seq(HandlerEvent)
      /\ Head(queue) = queue[1] /\ Len(Tail(queue)) = Len(queue) - 1 /\ Len(queue) >= 1
      /\ \A i \in 1 .. Len(Tail(queue)) : Tail(queue)[i] = queue[i + 1]
  BY <1>1, <1>3
<1>5. job' \in JobState /\ job'.ev = queue[1] /\ job'.pc = "begin"
  BY <1>1, <1>3, <1>4, EmptyTypes DEF JobState, HandlerPlaces, Opt
<1>6. job' # NoJob BY <1>5 DEF NoJob
<1>7. HistoryTypes' BY <1>1, <1>2, <1>4, <1>5 DEF HistoryTypes
<1>8. Durable' = Durable /\ (Conflict' <=> Conflict) BY <1>1, SameDurable
<1>9. Place' = "begin" /\ job.pc = "none" BY <1>1, <1>5 DEF Place, NoJob
<1>10. JobInv' BY <1>4, <1>5, <1>9 DEF JobInv, Reaches, Detecting
<1>11. SyncInv' BY <1>1, <1>2, <1>5, <1>9 DEF SyncInv
<1>q. /\ Len(queue') \in Nat /\ Len(queue') + 1 = Len(queue) /\ 1 \in 1 .. Len(queue)
      /\ \A i \in 1 .. Len(queue') : i + 1 \in 1 .. Len(queue) /\ queue'[i] = queue[i + 1]
      /\ Len(queue') = 0 => queue' = << >>
  <2>1. Len(queue) \in Nat /\ queue' \in Seq(HandlerEvent) BY <1>1, <1>3, <1>4
  <2>2. Len(queue') = Len(queue) - 1 BY <1>1, <1>4
  <2>3. Len(queue') \in Nat /\ Len(queue') + 1 = Len(queue) /\ 1 \in 1 .. Len(queue)
    BY <1>4, <2>1, <2>2
  <2>4. ASSUME NEW i \in 1 .. Len(queue') PROVE i + 1 \in 1 .. Len(queue) /\ queue'[i] = queue[i + 1]
    <3>1. i + 1 \in 1 .. Len(queue) BY <2>3
    <3>2. i \in 1 .. Len(Tail(queue)) BY <1>1
    <3>3. Tail(queue)[i] = queue[i + 1] BY <1>4, <3>2
    <3> QED BY <1>1, <3>1, <3>3
  <2>5. Len(queue') = 0 => queue' = << >> BY <2>1
  <2> QED BY <2>3, <2>4, <2>5
<1>o. ASSUME NEW kind, Once(kind) PROVE Once(kind)'
  <2>1. /\ \A i, j \in 1 .. Len(queue) :
             queue[i].kind = kind /\ queue[j].kind = kind => i = j
        /\ 1 \in 1 .. Len(queue)
        /\ \A i \in 1 .. Len(queue') : i + 1 \in 1 .. Len(queue) /\ queue'[i] = queue[i + 1]
    BY <1>o, <1>q DEF Once
  <2>2. ASSUME NEW i \in 1 .. Len(queue'), NEW j \in 1 .. Len(queue'),
               queue'[i].kind = kind, queue'[j].kind = kind
        PROVE  i = j
    <3>1. i + 1 = j + 1 BY <2>1, <2>2
    <3> QED BY <3>1
  <2>3. ASSUME queue[1].kind = kind, NEW i \in 1 .. Len(queue') PROVE queue'[i].kind # kind
    <3>1. i + 1 # 1 OBVIOUS
    <3> QED BY <2>1, <2>3, <3>1
  <2> QED BY <1>5, <2>2, <2>3 DEF Once
<1>12. EventsInv'
  <2>1. \A i \in 1 .. Len(queue) : Expects(queue[i]) BY <1>2 DEF EventsInv
  <2>2. Expects(queue[1]) BY <1>4, <2>1
  <2>3. Expects(job.ev)' BY <1>1, <1>5, <2>2 DEF Expects
  <2>4. \A i \in 1 .. Len(queue') : Expects(queue'[i]) BY <1>1, <1>4, <2>1
  <2>5. \A i \in 1 .. Len(queue') : Expects(queue[i])' BY <1>1, <2>4 DEF Expects
  <2>6. Once("gate")' /\ Once("regen")' /\ Once("received")' BY <1>2, <1>o DEF EventsInv
  <2> QED BY <2>3, <2>5, <2>6 DEF EventsInv
<1>13. AdmissionInv'
  <2>1. ~ Quiet BY <1>1 DEF Quiet
  <2>2. ASSUME gen.pc = "gate", ~ gen.late
        PROVE  /\ \A i \in 1 .. Len(queue') : queue'[i].kind = "gate" => i = Len(queue')
               /\ queue[1].kind = "gate" => queue' = << >>
    <3>1. \A i \in 1 .. Len(queue) : queue[i].kind = "gate" => i = Len(queue)
      BY <1>2, <2>2 DEF AdmissionInv
    <3>2. ASSUME NEW i \in 1 .. Len(queue'), queue'[i].kind = "gate" PROVE i = Len(queue')
      <4>1. i + 1 \in 1 .. Len(queue) /\ queue[i + 1].kind = "gate" BY <1>q, <3>2
      <4>2. i + 1 = Len(queue') + 1 BY <1>q, <3>1, <4>1
      <4> QED BY <1>q, <4>2
    <3>3. queue[1].kind = "gate" => Len(queue') = 0
      <4> DEFINE n == Len(queue')
      <4>1. queue[1].kind = "gate" => Len(queue) = 1 BY <1>q, <3>1
      <4>2. n \in Nat /\ n + 1 = Len(queue) BY <1>q
      <4> HIDE DEF n
      <4>3. Len(queue) = 1 => n = 0 BY <4>2
      <4> QED BY <4>1, <4>3 DEF n
    <3> QED BY <1>q, <3>2, <3>3
  <2>3. ExpectedLength' = ExpectedLength /\ (Clear' <=> Clear)
    BY <1>1 DEF ExpectedLength, Clear, Unrevoked
  <2>4. ASSUME Clear PROVE ClearInv'
    <3>1. ClearInv BY <1>2, <2>4 DEF AdmissionInv
    <3>2. \A e : Meets(e)' <=> Meets(e) BY <1>1 DEF Meets
    <3>3. Meets(job'.ev) /\ \A i \in 1 .. Len(queue') : Meets(queue'[i])
      BY <1>1, <1>4, <1>5, <3>1 DEF ClearInv
    <3>4. Meets(job.ev)' /\ \A i \in 1 .. Len(queue') : Meets(queue[i])'
      BY <1>1, <3>3 DEF Meets
    <3>5. Once("deleted")' BY <1>o, <3>1 DEF ClearInv
    <3> QED BY <1>1, <1>5, <1>8, <3>1, <3>4, <3>5 DEF ClearInv
  <2> QED BY <1>1, <1>2, <1>5, <2>1, <2>2, <2>3, <2>4 DEF AdmissionInv
<1>14. LedgerInv' BY <1>1, <1>5, <1>9, GenEpoch, LedgerStays
<1> QED BY <1>7, <1>10, <1>11, <1>12, <1>13, <1>14 DEF HistoryIInv

(* The user, the host and what goes wrong.                                 *)
LEMMA NoneExpected ==
  ASSUME HistoryIInv, gen.pc \notin {"gate", "regenerating", "received"}
  PROVE  /\ \A i \in 1 .. Len(queue) : queue[i].kind \notin {"gate", "regen", "received"}
         /\ job # NoJob => job.ev.kind \notin {"gate", "regen", "received"}
<1>1. EventsInv BY DEF HistoryIInv
<1> QED BY <1>1 DEF EventsInv, Expects

(* Another event waits.                                                    *)
LEMMA OneMore ==
  ASSUME HistoryIInv, NEW e \in HandlerEvent, queue' = Append(queue, e), job' = job
  PROVE  /\ queue' \in Seq(HandlerEvent) /\ Len(queue') = Len(queue) + 1
         /\ Len(queue) \in Nat /\ queue'[Len(queue')] = e
         /\ \A i \in 1 .. Len(queue') : i # Len(queue') =>
              i \in 1 .. Len(queue) /\ queue'[i] = queue[i]
         /\ \A kind : Once(kind) /\ e.kind # kind => Once(kind)'
         /\ \A kind : /\ \A i \in 1 .. Len(queue) : queue[i].kind # kind
                      /\ job # NoJob => job.ev.kind # kind
                      => Once(kind)'
<1>1. queue \in Seq(HandlerEvent) BY DEF HistoryIInv, HistoryTypes
<1>2. /\ queue' \in Seq(HandlerEvent) /\ Len(queue') = Len(queue) + 1
      /\ Len(queue) \in Nat /\ queue'[Len(queue')] = e
      /\ \A i \in 1 .. Len(queue') : i # Len(queue') =>
           i \in 1 .. Len(queue) /\ queue'[i] = queue[i]
  BY <1>1
<1>3. ASSUME NEW kind, Once(kind), e.kind # kind PROVE Once(kind)'
  <2>1. \A i \in 1 .. Len(queue') : queue'[i].kind = kind =>
          i \in 1 .. Len(queue) /\ queue[i].kind = kind
    BY <1>2, <1>3
  <2> QED BY <1>3, <2>1 DEF Once
<1>4. ASSUME NEW kind, \A i \in 1 .. Len(queue) : queue[i].kind # kind,
             job # NoJob => job.ev.kind # kind
      PROVE  Once(kind)'
  <2>1. \A i \in 1 .. Len(queue') : queue'[i].kind = kind => i = Len(queue') BY <1>2, <1>4
  <2> QED BY <1>4, <2>1 DEF Once
<1> QED BY <1>2, <1>3, <1>4

LEMMA Enqueued ==
  ASSUME HistoryIInv, NEW e \in HandlerEvent, queue' = Append(queue, e), job' = job,
         \/ e.kind \notin {"gate", "regen", "received"} /\ gen'.pc = gen.pc
         \/ gen.pc \notin {"gate", "regenerating", "received"} /\ Expects(e)'
  PROVE  queue' \in Seq(HandlerEvent) /\ EventsInv'
<1>1. EventsInv BY DEF HistoryIInv
<1>2. /\ queue' \in Seq(HandlerEvent)
      /\ \A i \in 1 .. Len(queue') : queue'[i] = e \/ (i \in 1 .. Len(queue) /\ queue'[i] = queue[i])
  BY OneMore
<1>3. CASE e.kind \notin {"gate", "regen", "received"} /\ gen'.pc = gen.pc
  <2>1. \A i \in 1 .. Len(queue') : Expects(queue[i])'
    BY <1>1, <1>2, <1>3 DEF EventsInv, Expects
  <2>2. job' # NoJob => Expects(job.ev)' BY <1>1, <1>3 DEF EventsInv, Expects
  <2>3. Once("gate")' /\ Once("regen")' /\ Once("received")' BY <1>1, <1>3, OneMore DEF EventsInv
  <2> QED BY <1>2, <2>1, <2>2, <2>3 DEF EventsInv
<1>4. CASE gen.pc \notin {"gate", "regenerating", "received"} /\ Expects(e)'
  <2>1. \A i \in 1 .. Len(queue') : Expects(queue[i])'
    BY <1>2, <1>4, NoneExpected DEF Expects
  <2>2. job' # NoJob => Expects(job.ev)' BY <1>4, NoneExpected DEF Expects
  <2>3. Once("gate")' /\ Once("regen")' /\ Once("received")' BY <1>4, NoneExpected, OneMore
  <2> QED BY <1>2, <2>1, <2>2, <2>3 DEF EventsInv
<1> QED BY <1>3, <1>4

(* No event more.                                                          *)
LEMMA NoneEnqueued ==
  ASSUME HistoryIInv, UNCHANGED <<queue, job>>, gen.pc \notin {"gate", "regenerating", "received"}
  PROVE  EventsInv'
<1>1. EventsInv BY DEF HistoryIInv
<1>2. Once("gate")' /\ Once("regen")' /\ Once("received")' BY <1>1 DEF EventsInv, Once
<1> QED BY <1>2, NoneExpected DEF EventsInv, Expects

LEMMA EditsSteady ==
  ASSUME HistoryIInv, NEW i \in 1 .. MaxLen,
         DeleteMessage(i) \/ \E t \in Text : EditMessage(i, t)
  PROVE  HistoryIInv'
<1>1. /\ i \in DOMAIN chat /\ UNCHANGED <<ledger, net, runs, store, mem, disk, page, job, lost>>
      /\ gen' = [gen EXCEPT !.late = gen.late \/ gen.pc \in {"gate", "admitted"}]
      /\ used' = [used EXCEPT !.edits = @ + 1]
  BY DEF DeleteMessage, EditMessage, UserMayEdit, durable
<1>2. HistoryTypes /\ AdmissionInv BY DEF HistoryIInv
<1>3. chat \in Seq(Message) /\ Len(chat) <= MaxLen /\ used \in UsedState BY <1>2 DEF HistoryTypes
<1>4. /\ gen' \in GenState /\ gen'.late = (gen.late \/ gen.pc \in {"gate", "admitted"})
      /\ gen'.pc = gen.pc /\ gen'.regen = gen.regen /\ gen'.start = gen.start
      /\ gen'.epoch = gen.epoch /\ gen'.live = gen.live /\ gen'.scope = gen.scope
  <2>1. gen \in GenState BY <1>2 DEF HistoryTypes
  <2>2. (gen.late \/ gen.pc \in {"gate", "admitted"}) \in BOOLEAN BY <2>1 DEF GenState
  <2> QED BY <1>1, <2>1, <2>2 DEF GenState
<1>5. i \in 1 .. Len(chat) BY <1>1, <1>3
<1>6. used' \in UsedState /\ used'.commands = used.commands
  <2>1. used' = [used EXCEPT !.edits = @ + 1] BY <1>1
  <2> QED BY <1>3, <2>1 DEF UsedState
<1>7. /\ chat' \in Seq(Message) /\ Len(chat') <= MaxLen
      /\ \E e \in HandlerEvent :
           /\ queue' = Append(queue, e)
           /\ \/ e.kind = "edited" /\ Len(chat') = Len(chat)
              \/ e.kind = "deleted" /\ Len(chat') = Len(chat) - 1
  <2>1. CASE DeleteMessage(i)
    <3>1. chat' = SubSeq(chat, 1, i - 1) \o SubSeq(chat, i + 1, Len(chat))
      BY <2>1 DEF DeleteMessage, RemoveAt
    <3>2. SubSeq(chat, 1, i - 1) \in Seq(Message) /\ SubSeq(chat, i + 1, Len(chat)) \in Seq(Message)
      BY <1>3, <1>5
    <3>3. Len(SubSeq(chat, 1, i - 1)) = i - 1 /\ Len(SubSeq(chat, i + 1, Len(chat))) = Len(chat) - i
      BY <1>3, <1>5
    <3>4. chat' \in Seq(Message) /\ Len(chat') = Len(chat) - 1
      <4> DEFINE a == SubSeq(chat, 1, i - 1)
                 b == SubSeq(chat, i + 1, Len(chat))
      <4>0. Len(chat) \in Nat /\ i \in Nat BY <1>3
      <4>1. a \in Seq(Message) /\ b \in Seq(Message) /\ Len(a) = i - 1 /\ Len(b) = Len(chat) - i
        BY <3>2, <3>3
      <4>2. chat' = a \o b BY <3>1
      <4> HIDE DEF a, b
      <4>3. chat' \in Seq(Message) /\ Len(chat') = Len(a) + Len(b) BY <4>1, <4>2, ConcatProperties
      <4> QED BY <4>0, <4>1, <4>3
    <3> DEFINE e == [kind |-> "deleted", at |-> Len(chat) - 1]
    <3>5. e \in HandlerEvent /\ e.kind = "deleted" BY <1>3 DEF HandlerEvent
    <3>6. queue' = Append(queue, e) BY <2>1 DEF DeleteMessage, Enqueue
    <3>7. Len(chat') <= MaxLen
      <4>1. Len(chat) \in Nat BY <1>3
      <4> QED BY <1>3, <3>4, <4>1
    <3> HIDE DEF e
    <3> QED BY <3>4, <3>5, <3>6, <3>7
  <2>2. CASE \E t \in Text : EditMessage(i, t)
    <3> PICK t \in Text : EditMessage(i, t) BY <2>2
    <3> DEFINE m == [chat[i] EXCEPT !.text = t]
               e == [kind |-> "edited", at |-> i - 1]
    <3>1. chat' = [chat EXCEPT ![i] = m] BY DEF EditMessage
    <3>2. m \in Message
      <4>1. chat[i] \in Message BY <1>3, <1>5
      <4> QED BY <4>1 DEF Message
    <3> HIDE DEF m
    <3>3. chat' \in Seq(Message) /\ Len(chat') = Len(chat) BY <1>3, <1>5, <3>1, <3>2
    <3>4. e \in HandlerEvent /\ e.kind = "edited" BY DEF HandlerEvent
    <3>5. queue' = Append(queue, e) BY DEF EditMessage, Enqueue
    <3> QED BY <1>3, <3>3, <3>4, <3>5
  <2> QED BY <2>1, <2>2
<1>8. PICK e \in HandlerEvent : /\ queue' = Append(queue, e)
                                /\ \/ e.kind = "edited" /\ Len(chat') = Len(chat)
                                   \/ e.kind = "deleted" /\ Len(chat') = Len(chat) - 1
  BY <1>7
<1>9. queue' \in Seq(HandlerEvent) /\ EventsInv' BY <1>1, <1>4, <1>8, Enqueued
<1>10. HistoryTypes' BY <1>1, <1>2, <1>4, <1>6, <1>7, <1>9 DEF HistoryTypes
<1>11. JobInv' /\ SyncInv' BY <1>1, RecordsStay
<1>12. AdmissionInv'
  <2>1. ExpectedLength' = ExpectedLength /\ (Unrevoked' <=> Unrevoked)
    BY <1>1, <1>4 DEF ExpectedLength, Unrevoked
  <2>2. Len(chat) \in Nat /\ Len(chat') \in Nat /\ Len(chat') <= Len(chat) BY <1>3, <1>7, <1>8
  <2>3. gen'.pc \in Leaving => Len(chat') <= ExpectedLength'
    <3>1. CASE gen.pc \in Leaving
      <4>1. Len(chat) <= ExpectedLength BY <1>2, <3>1 DEF AdmissionInv
      <4>2. ExpectedLength \in Int
        <5>1. Len(gen.start) \in Nat BY <1>2 DEF HistoryTypes, GenState
        <5> QED BY <5>1 DEF ExpectedLength
      <4> QED BY <2>1, <2>2, <4>1, <4>2
    <3> QED BY <1>4, <3>1
  <2>4. ASSUME Clear' PROVE ClearInv'
    <3>1. gen.pc \in Leaving /\ ~ gen.late /\ Len(chat') = ExpectedLength /\ Unrevoked
      BY <1>4, <2>1, <2>4 DEF Clear
    <3>2. Len(chat) <= ExpectedLength BY <1>2, <3>1 DEF AdmissionInv
    <3>3. e.kind = "edited" /\ Clear BY <1>8, <2>2, <3>1, <3>2 DEF Clear
    <3>4. ClearInv BY <1>2, <3>3 DEF AdmissionInv
    <3>5. \A x : Meets(x)' <=> Meets(x) BY <1>1, <1>4 DEF Meets
    <3>6. Meets(e) BY <3>3 DEF Meets
    <3>7. \A k \in 1 .. Len(queue') : Meets(queue'[k])
      <4> SUFFICES ASSUME NEW k \in 1 .. Len(queue') PROVE Meets(queue'[k]) OBVIOUS
      <4>1. k = Len(queue') => queue'[k] = e BY <1>1, <1>8, OneMore
      <4>2. k # Len(queue') => k \in 1 .. Len(queue) /\ queue'[k] = queue[k]
        BY <1>1, <1>8, OneMore
      <4> QED BY <3>4, <3>6, <4>1, <4>2 DEF ClearInv
    <3>8. \A k \in 1 .. Len(queue') : Meets(queue[k])' BY <1>1, <1>4, <3>7 DEF Meets
    <3>9. Once("deleted")' BY <1>1, <1>8, <3>3, <3>4, OneMore DEF ClearInv
    <3>10. job # NoJob => Meets(job.ev)' BY <1>1, <1>4, <3>4 DEF ClearInv, Meets
    <3>11. Durable' = Durable BY <1>1 DEF Durable
    <3> QED BY <1>1, <1>4, <3>4, <3>8, <3>9, <3>10, <3>11 DEF ClearInv
  <2> QED BY <1>2, <1>4, <2>3, <2>4 DEF AdmissionInv
<1>13. LedgerInv' BY <1>1, <1>4, <1>6, GenEpoch, LedgerStays
<1> QED BY <1>9, <1>10, <1>11, <1>12, <1>13 DEF HistoryIInv

(* What the host does: a send, the events of a generation, its end.        *)
LEMMA SendSteady ==
  ASSUME HistoryIInv, NEW regen \in BOOLEAN, NEW t \in Opt(Text), Send(regen, t)
  PROVE  HistoryIInv'
<1> DEFINE e == [kind |-> "gate", at |-> 0]
           n == Len(chat)
<1>1. /\ gen.pc = "idle" /\ queue' = Append(queue, e)
      /\ gen' = [[[[NoGen EXCEPT !.pc = "gate"] EXCEPT !.regen = regen] EXCEPT !.len = n]
                 EXCEPT !.text = t]
      /\ used' = [used EXCEPT !.sends = @ + 1]
      /\ UNCHANGED <<chat, ledger, net, runs, store, mem, disk, page, job, lost>>
  BY DEF Send, Enqueue, world, durable
<1>2. HistoryTypes BY DEF HistoryIInv
<1>3. n \in Nat /\ used \in UsedState BY <1>2 DEF HistoryTypes
<1> HIDE DEF n
<1>4. gen' \in GenState /\ gen'.pc = "gate" /\ gen'.epoch = NoGen.epoch
  BY <1>1, <1>3, EmptyTypes DEF GenState, GenPlaces
<1>5. used' \in UsedState /\ used'.commands = used.commands
  <2>1. used' = [used EXCEPT !.sends = @ + 1] BY <1>1
  <2> QED BY <1>3, <2>1 DEF UsedState
<1>6. e \in HandlerEvent BY DEF HandlerEvent
<1>7. queue' \in Seq(HandlerEvent) /\ EventsInv'
  <2>1. Expects(e)' BY <1>4 DEF Expects
  <2> HIDE DEF e
  <2> QED BY <1>1, <1>6, <2>1, Enqueued
<1>8. HistoryTypes' BY <1>1, <1>2, <1>4, <1>5, <1>7 DEF HistoryTypes
<1>9. JobInv' /\ SyncInv' BY <1>1, RecordsStay
<1>10. AdmissionInv'
  <2>1. job # NoJob => job.ev.kind # "gate" BY <1>1, NoneExpected
  <2>2. ASSUME NEW i \in 1 .. Len(queue'), queue'[i].kind = "gate" PROVE i = Len(queue')
    <3> HIDE DEF e
    <3>1. i # Len(queue') => i \in 1 .. Len(queue) /\ queue'[i] = queue[i] BY <1>1, <1>6, OneMore
    <3> QED BY <1>1, <2>2, <3>1, NoneExpected
  <2> QED BY <1>1, <1>4, <2>1, <2>2 DEF AdmissionInv, Clear, Leaving
<1>11. LedgerInv' BY <1>1, <1>4, <1>5, GenEpoch, LedgerStays
<1> QED BY <1>7, <1>8, <1>9, <1>10, <1>11 DEF HistoryIInv

LEMMA StartSteady == HistoryIInv /\ Start => HistoryIInv'
<1> SUFFICES ASSUME HistoryIInv, Start PROVE HistoryIInv' OBVIOUS
<1>1. gen.pc = "admitted" /\ UNCHANGED <<chat, ledger, net, runs, store, mem, disk, job, used, lost>>
  BY DEF Start, world, durable
<1>2. HistoryTypes /\ AdmissionInv BY DEF HistoryIInv
<1>3. ~ gen.late => Quiet /\ Durable.guard = None BY <1>1, <1>2 DEF AdmissionInv
<1>4. gen \in GenState /\ page \in ShownState /\ chat \in Seq(Message) BY <1>2 DEF HistoryTypes
<1>5. JobInv' /\ SyncInv' BY <1>1, RecordsStay
<1>6. CASE gen' = NoGen /\ UNCHANGED <<page, queue>>
  <2>1. HistoryTypes' BY <1>1, <1>2, <1>6, EmptyTypes DEF HistoryTypes
  <2>2. gen'.pc = "idle" BY <1>6 DEF NoGen
  <2>3. AdmissionInv' BY <2>2 DEF AdmissionInv, Clear, Leaving
  <2>4. EventsInv' BY <1>1, <1>6, NoneEnqueued
  <2>5. LedgerInv' BY <1>1, <1>6, GenEpoch, LedgerStays
  <2> QED BY <1>5, <2>1, <2>3, <2>4, <2>5 DEF HistoryIInv
<1>7. CASE /\ page' = [page EXCEPT !.block = FALSE]
           /\ gen' = [gen EXCEPT !.pc = IF gen.regen THEN "regenerating" ELSE "started",
                                 !.start = chat, !.epoch = CurrentEpoch,
                                 !.live = TRUE, !.scope = TRUE,
                                 !.late = gen.late /\ ~ (Quiet /\ Durable.guard = None)]
           /\ IF gen.regen THEN Enqueue([kind |-> "regen", at |-> Len(chat) - 1])
              ELSE UNCHANGED queue
  <2> DEFINE to == IF gen.regen THEN "regenerating" ELSE "started"
  <2> PICK e : e = [kind |-> "regen", at |-> Len(chat) - 1] OBVIOUS
  <2>1. page' \in ShownState BY <1>4, <1>7 DEF ShownState
  <2>2. CurrentEpoch \in Nat /\ Upto(CurrentEpoch) BY EpochsNamed, GenEpoch
  <2> DEFINE late == gen.late /\ ~ (Quiet /\ Durable.guard = None)
  <2>3. gen' = [[[[[[gen EXCEPT !.pc = to] EXCEPT !.start = chat] EXCEPT !.epoch = CurrentEpoch]
                EXCEPT !.live = TRUE] EXCEPT !.scope = TRUE] EXCEPT !.late = late]
    BY <1>7
  <2>4. /\ gen' \in GenState /\ gen'.pc = to /\ gen'.epoch = CurrentEpoch
        /\ gen'.late = late /\ gen'.start = chat /\ gen'.regen = gen.regen
    <3>1. to \in GenPlaces /\ late \in BOOLEAN BY <1>4 DEF GenPlaces, GenState
    <3> HIDE DEF to, late
    <3> QED BY <1>4, <2>2, <2>3, <3>1 DEF GenState
  <2>5. ~ gen'.late => Quiet /\ Durable.guard = None BY <1>3, <2>4
  <2>6. LedgerInv' BY <1>1, <2>2, <2>4, LedgerStays
  <2>12. queue' \in Seq(HandlerEvent) /\ EventsInv'
    <3>1. CASE gen.regen
      <4>1. queue' = Append(queue, e) BY <1>7, <3>1 DEF Enqueue
      <4>2. e \in HandlerEvent /\ Len(chat) - 1 = e.at /\ e.kind = "regen" BY <1>4 DEF HandlerEvent
      <4>3. Expects(e)' BY <2>4, <3>1, <4>2 DEF Expects
      <4> QED BY <1>1, <4>1, <4>2, <4>3, Enqueued
    <3>2. CASE ~ gen.regen
      <4>1. queue' = queue BY <1>7, <3>2
      <4>2. EventsInv' BY <1>1, <4>1, NoneEnqueued
      <4> QED BY <1>2, <4>1, <4>2 DEF HistoryTypes
    <3> QED BY <3>1, <3>2
  <2>b. ExpectedLength' = Len(chat) BY <2>4 DEF ExpectedLength
  <2>c. ASSUME ~ gen'.late PROVE ClearInv'
    <3>1. queue = << >> /\ job' = NoJob /\ Durable'.guard = None
      BY <1>1, <2>5, <2>c DEF Quiet, Durable
    <3>2. \A i \in 1 .. Len(queue') : queue'[i] = e
      <4>1. CASE gen.regen
        <5>1. queue' = <<e>> BY <1>7, <3>1, <4>1 DEF Enqueue
        <5> QED BY <5>1
      <4>2. CASE ~ gen.regen BY <1>7, <3>1, <4>2
      <4> QED BY <4>1, <4>2
    <3>3. \A i \in 1 .. Len(queue') : Meets(queue[i])' BY <2>4, <3>2 DEF Meets
    <3>4. Once("deleted")' BY <3>1, <3>2 DEF Once
    <3> QED BY <2>4, <3>1, <3>3, <3>4 DEF ClearInv
  <2>d. AdmissionInv'
    <3>1. Len(chat) <= Len(chat)
      <4>1. Len(chat) \in Nat BY <1>4
      <4> QED BY <4>1
    <3> QED BY <1>1, <2>4, <2>b, <2>c, <3>1 DEF AdmissionInv, Clear
  <2>7. queue' \in Seq(HandlerEvent) /\ AdmissionInv' /\ EventsInv' BY <2>12, <2>d
  <2>8. HistoryTypes' BY <1>1, <1>2, <2>1, <2>4, <2>7 DEF HistoryTypes
  <2> QED BY <1>5, <2>6, <2>7, <2>8 DEF HistoryIInv
<1> QED BY <1>6, <1>7 DEF Start

(* A message the host shows has a text.                                    *)
TextInv ==
  /\ gen.pc \in {"gate", "admitted"} /\ ~ gen.regen => gen.text \in Text
  /\ gen.pc \in {"started", "replied"} => gen.text \in Text

LEMMA UserTurnSteady == HistoryIInv /\ TextInv /\ UserTurn => HistoryIInv'
<1> SUFFICES ASSUME HistoryIInv, TextInv, UserTurn PROVE HistoryIInv' OBVIOUS
<1> DEFINE m == [by |-> "user", text |-> gen.text]
<1>1. /\ gen.pc = "started" /\ Len(chat) < MaxLen
      /\ chat' = Append(chat, m) /\ page' = [page EXCEPT !.snap = chat']
      /\ gen' = [gen EXCEPT !.pc = "sent"] /\ lost \subseteq lost'
      /\ UNCHANGED <<ledger, net, runs, store, mem, disk, queue, job, used>>
  BY DEF UserTurn, Overtaken, durable
<1>2. HistoryTypes /\ AdmissionInv BY DEF HistoryIInv
<1>3. /\ chat \in Seq(Message) /\ page \in ShownState /\ gen \in GenState
  BY <1>2 DEF HistoryTypes
<1>4. m \in Message BY <1>1 DEF TextInv, Message
<1> HIDE DEF m
<1>5. chat' \in Seq(Message) /\ Len(chat') <= MaxLen
  <2>1. chat' \in Seq(Message) /\ Len(chat') = Len(chat) + 1 BY <1>1, <1>3, <1>4
  <2>2. Len(chat) \in Nat /\ MaxLen \in Nat BY <1>3, BoundsAssumption
  <2> QED BY <1>1, <2>1, <2>2
<1>6. page' \in ShownState /\ page'.block = page.block /\ page'.suppressed = page.suppressed
  BY <1>1, <1>3, <1>5 DEF ShownState, Opt
<1>7. /\ gen' \in GenState /\ gen'.pc = "sent" /\ gen'.epoch = gen.epoch /\ gen'.late = gen.late
      /\ gen'.regen = gen.regen /\ gen'.start = gen.start
      /\ gen'.live = gen.live /\ gen'.scope = gen.scope
  BY <1>1, <1>3 DEF GenState, GenPlaces
<1>8. HistoryTypes' BY <1>1, <1>2, <1>5, <1>6, <1>7 DEF HistoryTypes
<1>9. JobInv' /\ SyncInv' BY <1>1, RecordsStay
<1>10. EventsInv' BY <1>1, NoneEnqueued
<1>11. AdmissionInv'
  <2>1. ~ gen.regen /\ Len(chat) <= ExpectedLength BY <1>1, <1>2 DEF AdmissionInv, Leaving
  <2>2. ExpectedLength = Len(gen.start) /\ ExpectedLength' = Len(gen.start) + 1
    BY <1>1, <1>7, <2>1 DEF ExpectedLength
  <2>3. Len(chat') = Len(chat) + 1 /\ Len(chat) \in Nat /\ Len(gen.start) \in Nat
    BY <1>1, <1>3, <1>4 DEF GenState
  <2>4. ASSUME Clear' PROVE ClearInv'
    <3>1. Len(chat) = ExpectedLength /\ Unrevoked /\ ~ gen.late
      BY <1>6, <1>7, <2>2, <2>3, <2>4 DEF Clear, Unrevoked
    <3>2. ClearInv BY <1>1, <1>2, <3>1 DEF AdmissionInv, Clear, Leaving
    <3>3. \A i \in 1 .. Len(queue') : Meets(queue[i])'
      BY <1>1, <1>7, <3>2 DEF ClearInv, Meets
    <3>4. job # NoJob => Meets(job.ev)' BY <1>1, <1>7, <3>2 DEF ClearInv, Meets
    <3>5. Once("deleted")' /\ Durable' = Durable BY <1>1, <3>2 DEF ClearInv, Once, Durable
    <3> QED BY <1>1, <1>7, <3>2, <3>3, <3>4, <3>5 DEF ClearInv
  <2> QED BY <1>7, <2>1, <2>2, <2>3, <2>4 DEF AdmissionInv
<1>12. LedgerInv' BY <1>1, <1>7, GenEpoch, LedgerStays
<1> QED BY <1>8, <1>9, <1>10, <1>11, <1>12 DEF HistoryIInv

LEMMA RegenerationDeletesSteady == HistoryIInv /\ RegenerationDeletes => HistoryIInv'
<1> SUFFICES ASSUME HistoryIInv, RegenerationDeletes PROVE HistoryIInv' OBVIOUS
<1> PICK e : e = [kind |-> "deleted", at |-> Len(chat) - 1] OBVIOUS
<1>1. /\ gen.pc = "truncated" /\ chat # << >> /\ chat' = Front(chat)
      /\ queue' = Append(queue, e) /\ gen' = [gen EXCEPT !.pc = "sent"]
      /\ UNCHANGED <<ledger, net, runs, store, mem, disk, page, job, used, lost>>
  BY DEF RegenerationDeletes, Enqueue, durable
<1>2. HistoryTypes /\ AdmissionInv BY DEF HistoryIInv
<1>3. chat \in Seq(Message) /\ Len(chat) <= MaxLen /\ gen \in GenState BY <1>2 DEF HistoryTypes
<1>4. e \in HandlerEvent /\ e.kind = "deleted" /\ e.at = Len(chat) - 1 BY <1>3 DEF HandlerEvent
<1>5. /\ chat' \in Seq(Message) /\ Len(chat') <= MaxLen
      /\ Len(chat') = Len(chat) - 1 /\ Len(chat) \in Nat
  <2> DEFINE n == Len(chat)
  <2>1. n \in Nat /\ n # 0 BY <1>1, <1>3
  <2>2. chat' = SubSeq(chat, 1, n - 1) BY <1>1 DEF Front
  <2>3. SubSeq(chat, 1, n - 1) \in Seq(Message) /\ Len(SubSeq(chat, 1, n - 1)) = n - 1
    <3>1. n - 1 \in 0 .. Len(chat) BY <2>1
    <3>2. n - 1 - 1 + 1 = n - 1 BY <2>1
    <3> HIDE DEF n
    <3> QED BY <1>3, <3>1, <3>2, SubSeqProperties
  <2>4. MaxLen \in Nat BY BoundsAssumption
  <2> HIDE DEF n
  <2> QED BY <1>3, <2>1, <2>2, <2>3, <2>4 DEF n
<1>6. /\ gen' \in GenState /\ gen'.pc = "sent" /\ gen'.epoch = gen.epoch /\ gen'.late = gen.late
      /\ gen'.regen = gen.regen /\ gen'.start = gen.start
      /\ gen'.live = gen.live /\ gen'.scope = gen.scope
  BY <1>1, <1>3 DEF GenState, GenPlaces
<1>7. queue' \in Seq(HandlerEvent) /\ EventsInv'
  <2>1. Expects(e)' BY <1>4 DEF Expects
  <2> QED BY <1>1, <1>4, <2>1, Enqueued
<1>8. HistoryTypes' BY <1>1, <1>2, <1>5, <1>6, <1>7 DEF HistoryTypes
<1>9. JobInv' /\ SyncInv' BY <1>1, RecordsStay
<1>10. AdmissionInv'
  <2>1. gen.regen /\ Len(chat) <= ExpectedLength BY <1>1, <1>2 DEF AdmissionInv, Leaving
  <2>2. ExpectedLength = Len(gen.start) /\ ExpectedLength' = Len(gen.start) - 1
    BY <1>1, <1>6, <2>1 DEF ExpectedLength
  <2>3. Len(gen.start) \in Nat BY <1>3 DEF GenState
  <2>4. ASSUME Clear' PROVE ClearInv'
    <3>0. Len(chat) - 1 = Len(gen.start) - 1 BY <1>5, <2>2, <2>4 DEF Clear
    <3>1. Len(chat) = Len(gen.start) /\ Unrevoked /\ ~ gen.late
      <4>1. Len(chat) = Len(gen.start) BY <1>5, <2>3, <3>0
      <4> QED BY <1>1, <1>6, <2>4, <4>1 DEF Clear, Unrevoked
    <3>2. ClearInv BY <1>1, <1>2, <2>2, <3>1 DEF AdmissionInv, Clear, Leaving
    <3>3. Meets(e)' BY <1>1, <1>4, <1>6, <2>1, <3>1, <3>2 DEF ClearInv, Meets
    <3>4. /\ \A i \in 1 .. Len(queue) : Meets(queue[i]) /\ queue[i].kind # "deleted"
          /\ job # NoJob => Meets(job.ev) /\ job.ev.kind # "deleted"
      BY <1>1, <3>2 DEF ClearInv, Meets
    <3>5. \A i \in 1 .. Len(queue') : Meets(queue[i])'
      <4> SUFFICES ASSUME NEW i \in 1 .. Len(queue') PROVE Meets(queue[i])' OBVIOUS
      <4>1. i = Len(queue') => queue'[i] = e BY <1>1, <1>4, OneMore
      <4>2. i # Len(queue') => i \in 1 .. Len(queue) /\ queue'[i] = queue[i]
        BY <1>1, <1>4, OneMore
      <4>3. CASE i = Len(queue') BY <3>3, <4>1, <4>3 DEF Meets
      <4>4. CASE i # Len(queue') BY <1>1, <1>6, <3>4, <4>2, <4>4 DEF Meets
      <4> QED BY <4>3, <4>4
    <3>6. job # NoJob => Meets(job.ev)' BY <1>1, <1>6, <3>4 DEF Meets
    <3>7. Once("deleted")' BY <1>1, <1>4, <3>4, OneMore
    <3>8. Durable' = Durable BY <1>1 DEF Durable
    <3> QED BY <1>1, <1>6, <3>2, <3>4, <3>5, <3>6, <3>7, <3>8 DEF ClearInv
  <2> QED BY <1>5, <1>6, <2>1, <2>2, <2>3, <2>4 DEF AdmissionInv
<1>11. LedgerInv' BY <1>1, <1>6, GenEpoch, LedgerStays
<1> QED BY <1>7, <1>8, <1>9, <1>10, <1>11 DEF HistoryIInv

LEMMA BindSteady == HistoryIInv /\ Bind => HistoryIInv'
<1> SUFFICES ASSUME HistoryIInv, Bind PROVE HistoryIInv' OBVIOUS
<1>1. gen.pc = "sent" /\ UNCHANGED <<chat, ledger, net, store, mem, disk, queue, job, used>>
  BY DEF Bind, durable
<1>2. HistoryTypes /\ AdmissionInv BY DEF HistoryIInv
<1>3. chat \in Seq(Message) /\ Len(chat) <= MaxLen /\ gen \in GenState /\ used \in UsedState
      /\ page \in ShownState
  BY <1>2 DEF HistoryTypes
<1>4. JobInv' /\ SyncInv' BY <1>1, RecordsStay
<1>5. EventsInv' BY <1>1, NoneEnqueued
<1>6. CASE gen' = NoGen /\ page' = [Finished EXCEPT !.block = TRUE] /\ UNCHANGED <<runs, lost>>
  <2>1. page' \in ShownState BY <1>3, <1>6 DEF Finished, ShownState, Opt
  <2>2. HistoryTypes' BY <1>1, <1>2, <1>6, <2>1, EmptyTypes DEF HistoryTypes
  <2>3. AdmissionInv' BY <1>6 DEF AdmissionInv, NoGen, Clear, Leaving
  <2>4. LedgerInv' BY <1>1, <1>6, GenEpoch, LedgerStays
  <2> QED BY <1>4, <1>5, <2>2, <2>3, <2>4 DEF HistoryIInv
<1>7. CASE gen.live /\ gen.scope /\ ~ page.block /\ TransitionValid /\ chat # << >>
  <2> PICK run : run = [epoch |-> gen.epoch, sees |-> chat, id |-> used.sends] OBVIOUS
  <2>16. /\ runs' = runs \cup {run} /\ UNCHANGED page
        /\ gen' = [[gen EXCEPT !.pc = "running"] EXCEPT !.run = run]
        /\ lost' = (lost \cup (IF NoGuard THEN {} ELSE {"early"}))
                    \cup (IF Unseen THEN {"edit"} ELSE {})
    BY <1>7 DEF Bind
  <2>17. lost \subseteq lost' /\ (NoGuard \/ "early" \in lost') BY <2>16
  <2>1. run \in RunState /\ run.epoch = gen.epoch /\ run.sees = chat
    BY <1>3, <2>16, <2>17 DEF GenState, UsedState, RunState
  <2>2. gen' \in GenState /\ gen'.pc = "running" /\ gen'.epoch = gen.epoch
    BY <1>3, <2>16, <2>17, <2>1 DEF GenState, GenPlaces, Opt
  <2>3. \A r \in runs' : Len(r.sees) <= MaxLen BY <1>2, <1>3, <2>16, <2>17, <2>1 DEF HistoryTypes
  <2>4. HistoryTypes' BY <1>1, <1>2, <2>16, <2>17, <2>1, <2>2, <2>3 DEF HistoryTypes
  <2>5. AdmissionInv' BY <2>2 DEF AdmissionInv, Clear, Leaving
  <2>7. /\ EpochsInv /\ CommandsInv /\ ("cut" \notin lost => PageKnows)
        /\ GuardInv(store.guard) /\ GuardInv(mem.guard) /\ GuardInv(disk.guard)
    BY DEF HistoryIInv, LedgerInv
  <2>8. Durable' = Durable /\ Now' = Now BY <1>1, SameDurable DEF Now
  <2>9. \A e : Upto(e)' <=> Upto(e) BY <2>8 DEF Upto
  <2>10. EpochsInv'
    <3>1. EpochsOf(store)' /\ EpochsOf(mem)' /\ EpochsOf(disk)'
      BY <1>1, <2>7, <2>9 DEF EpochsInv, EpochsOf
    <3>2. \A r \in runs' : Upto(r.epoch)' BY <2>16, <2>17, <2>1, <2>7, <2>9 DEF EpochsInv
    <3>3. Upto(mem.epoch)' /\ Upto(disk.epoch)' /\ Upto(gen.epoch)'
      BY <1>1, <2>2, <2>7, <2>9 DEF EpochsInv
    <3>4. /\ \A r \in Range(ledger'.results) : Upto(r.epoch)'
          /\ ledger'.epoch = None => TurnIndices(ledger') = {}
      BY <1>1, <2>7, <2>9 DEF EpochsInv, TurnIndices
    <3> QED BY <3>1, <3>2, <3>3, <3>4 DEF EpochsInv
  <2>11. \A x : Executed(x)' <=> Executed(x) BY <1>1 DEF Executed
  <2>12. CommandsInv' BY <1>1, <2>7, <2>8, <2>11 DEF CommandsInv
  <2>13. GuardInv(store.guard)' /\ GuardInv(mem.guard)' /\ GuardInv(disk.guard)'
    BY <1>1, <2>16, <2>17, <2>7 DEF NoGuard, GuardInv
  <2>14. ASSUME "cut" \notin lost' PROVE PageKnows'
    <3>1. PageKnows BY <2>16, <2>17, <2>7, <2>14
    <3>3. VerifiedEpoch' = VerifiedEpoch BY <1>1, <2>8 DEF VerifiedEpoch, CurrentEpoch
    <3>4. \A g : UpToDate(g)' <=> UpToDate(g) BY <1>1, <2>8, <2>11 DEF UpToDate
    <3>5. \A c \in net' : Executed(c)' \/ (Durable'.guard # None /\ c = Durable'.guard.cmd)
                          \/ (job'.pc = "called" /\ job'.ev.kind = "regen" /\ c = job'.call)
      BY <1>1, <2>8, <2>11, <3>1 DEF PageKnows
    <3>6. /\ Durable'.guard # None => UpToDate(Durable.guard)'
          /\ Durable'.guard = None => VerifiedEpoch' = Now'
          /\ job'.pc = "called" /\ job'.ev.kind = "regen" => Durable'.guard = None
      BY <1>1, <2>8, <3>1, <3>3, <3>4 DEF PageKnows
    <3>7. disk'.guard # None /\ Durable'.guard = None =>
            disk'.guard.cmd = None /\ UpToDate(disk.guard)'
      BY <1>1, <2>8, <3>1, <3>4 DEF PageKnows
    <3> QED BY <3>5, <3>6, <3>7 DEF PageKnows
  <2>15. LedgerInv' BY <2>10, <2>12, <2>13, <2>14 DEF LedgerInv
  <2> QED BY <1>4, <1>5, <2>4, <2>5, <2>15 DEF HistoryIInv
<1>8. CASE ~ (gen.live /\ gen.scope /\ ~ page.block /\ TransitionValid /\ chat # << >>)
  BY <1>6, <1>8 DEF Bind
<1> QED BY <1>7, <1>8

LEMMA ReceiveSteady == HistoryIInv /\ TextInv /\ Receive => HistoryIInv'
<1> SUFFICES ASSUME HistoryIInv, TextInv, Receive PROVE HistoryIInv' OBVIOUS
<1> DEFINE m == [by |-> "reply", text |-> gen.text]
<1> PICK e : e = [kind |-> "received", at |-> 0] OBVIOUS
<1>1. /\ gen.pc = "replied" /\ Len(chat) < MaxLen
      /\ chat' = Append(chat, m) /\ queue' = Append(queue, e)
      /\ gen' = [gen EXCEPT !.pc = "received"]
      /\ UNCHANGED <<ledger, net, runs, store, mem, disk, page, job, used, lost>>
  BY DEF Receive, Enqueue, durable
<1>2. HistoryTypes BY DEF HistoryIInv
<1>3. chat \in Seq(Message) /\ gen \in GenState BY <1>2 DEF HistoryTypes
<1>4. m \in Message BY <1>1 DEF TextInv, Message
<1> HIDE DEF m
<1>5. chat' \in Seq(Message) /\ Len(chat') <= MaxLen
  <2>1. chat' \in Seq(Message) /\ Len(chat') = Len(chat) + 1 BY <1>1, <1>3, <1>4
  <2>2. Len(chat) \in Nat /\ MaxLen \in Nat BY <1>3, BoundsAssumption
  <2> QED BY <1>1, <2>1, <2>2
<1>6. gen' \in GenState /\ gen'.pc = "received" /\ gen'.epoch = gen.epoch
  BY <1>1, <1>3 DEF GenState, GenPlaces
<1>7. queue' \in Seq(HandlerEvent) /\ EventsInv'
  <2>1. e \in HandlerEvent /\ e.kind = "received" BY DEF HandlerEvent
  <2>2. Expects(e)' BY <1>6, <2>1 DEF Expects
  <2> QED BY <1>1, <2>1, <2>2, Enqueued
<1>8. HistoryTypes' BY <1>1, <1>2, <1>5, <1>6, <1>7 DEF HistoryTypes
<1>9. JobInv' /\ SyncInv' BY <1>1, RecordsStay
<1>10. AdmissionInv' BY <1>6 DEF AdmissionInv, Clear, Leaving
<1>11. LedgerInv' BY <1>1, <1>6, GenEpoch, LedgerStays
<1> QED BY <1>7, <1>8, <1>9, <1>10, <1>11 DEF HistoryIInv

LEMMA EndSteady == HistoryIInv /\ (End \/ LoseReply) => HistoryIInv'
<1> SUFFICES ASSUME HistoryIInv, End \/ LoseReply PROVE HistoryIInv' OBVIOUS
<1>1. HistoryTypes BY DEF HistoryIInv
<1>2. chat \in Seq(Message) /\ page \in ShownState /\ gen \in GenState /\ used \in UsedState
  BY <1>1 DEF HistoryTypes
<1>3. /\ gen.pc \in {"ending", "running", "replied"} /\ gen'.pc \in {"idle", "ending"}
      /\ gen' \in GenState /\ gen'.epoch \in {gen.epoch, NoGen.epoch}
      /\ page' \in ShownState /\ lost \subseteq lost'
      /\ used' \in UsedState /\ used'.commands = used.commands
      /\ UNCHANGED <<chat, ledger, net, runs, store, mem, disk, queue, job>>
  <2>1. CASE End
    <3>1. /\ gen.pc = "ending" /\ page' = Finished /\ gen' = NoGen
          /\ UNCHANGED <<chat, ledger, net, runs, store, mem, disk, queue, job, used, lost>>
      BY <2>1 DEF End, world, durable
    <3>2. Finished \in ShownState BY <1>2 DEF Finished, ShownState, Opt
    <3>3. NoGen.pc = "idle" /\ NoGen \in GenState BY EmptyTypes DEF NoGen
    <3> QED BY <1>2, <3>1, <3>2, <3>3
  <2>2. CASE LoseReply
    <3>1. /\ gen.pc \in {"running", "replied"} /\ gen' = [gen EXCEPT !.pc = "ending"]
          /\ lost \subseteq lost' /\ used' = [used EXCEPT !.faults = @ + 1]
          /\ UNCHANGED <<chat, ledger, net, runs, store, mem, disk, page, queue, job>>
      BY <2>2 DEF LoseReply, world, durable
    <3>2. gen' \in GenState /\ gen'.pc = "ending" /\ gen'.epoch = gen.epoch
      BY <1>2, <3>1 DEF GenState, GenPlaces
    <3>3. used' \in UsedState /\ used'.commands = used.commands BY <1>2, <3>1 DEF UsedState
    <3> QED BY <1>2, <3>1, <3>2, <3>3
  <2> QED BY <2>1, <2>2
<1>4. HistoryTypes' BY <1>1, <1>3 DEF HistoryTypes
<1>5. JobInv' /\ SyncInv' BY <1>3, RecordsStay
<1>6. EventsInv' BY <1>3, NoneEnqueued
<1>7. AdmissionInv' BY <1>3 DEF AdmissionInv, Clear, Leaving
<1>8. Upto(gen'.epoch) BY <1>3, GenEpoch
<1>9. LedgerInv' BY <1>3, <1>8, LedgerStays
<1> QED BY <1>4, <1>5, <1>6, <1>7, <1>9 DEF HistoryIInv

LEMMA LoseAnswerSteady == HistoryIInv /\ LoseAnswer => HistoryIInv'
<1> SUFFICES ASSUME HistoryIInv, LoseAnswer PROVE HistoryIInv' OBVIOUS
<1>1. /\ job.pc \in {"called", "inspect"} /\ Fail /\ used' = [used EXCEPT !.faults = @ + 1]
      /\ UNCHANGED <<chat, ledger, net, runs, store, mem, disk, queue>>
  BY DEF LoseAnswer, world, durable
<1>2. job # NoJob BY <1>1, JobIsThere
<1>3. used \in UsedState BY DEF HistoryIInv, HistoryTypes
<1>4. used' \in UsedState /\ used'.commands = used.commands BY <1>1, <1>3 DEF UsedState
<1> QED BY <1>1, <1>2, <1>4, FailSteady

(* The page is opened again: what it knows of the guard and the checkpoint *)
(* is what it knew, or what a settled guard that was not saved still says. *)
LEMMA ReloadSteady == HistoryIInv /\ Reload => HistoryIInv'
<1> SUFFICES ASSUME HistoryIInv, Reload PROVE HistoryIInv' OBVIOUS
<1> PICK e : e = [kind |-> "reset", at |-> 0] OBVIOUS
<1> DEFINE differ == \E f \in {"guard", "checkpoint"} :
                       store[f] # None /\ disk[f] # None /\ store[f] # disk[f]
           merged == [guard |-> Prefer(store.guard, disk.guard),
                      checkpoint |-> Prefer(store.checkpoint, disk.checkpoint)]
           cut == job.ev # None /\ job.ev.kind = "regen" /\ job.pc \in {"called", "saving"}
<1>1. /\ page' = NewPage /\ job' = NoJob /\ gen' = NoGen /\ queue' = <<e>>
      /\ mem' = disk /\ store' = IF differ THEN store ELSE merged
      /\ lost \subseteq lost' /\ (cut => "cut" \in lost')
      /\ used' = [used EXCEPT !.faults = @ + 1]
      /\ UNCHANGED <<chat, ledger, net, runs, disk>>
  BY DEF Reload, world
<1>2. HistoryTypes /\ SyncInv BY DEF HistoryIInv
<1>3. /\ store \in StoreState /\ mem \in MemState /\ disk \in MemState /\ used \in UsedState
  BY <1>2 DEF HistoryTypes
<1>4. /\ store'.guard \in {store.guard, disk.guard}
      /\ store'.checkpoint \in {store.checkpoint, disk.checkpoint}
      /\ store.guard # None => store'.guard = store.guard
      /\ store.checkpoint # None => store'.checkpoint = store.checkpoint
      /\ store' \in StoreState
  <2>1. CASE differ BY <1>1, <1>3, <2>1
  <2>2. CASE ~ differ
    <3> HIDE DEF differ
    <3>1. store' = merged BY <1>1, <2>2
    <3> QED BY <1>3, <3>1 DEF Prefer, StoreState, MemState
  <2> QED BY <2>1, <2>2
<1> HIDE DEF differ, merged
<1>5. used' \in UsedState /\ used'.commands = used.commands BY <1>1, <1>3 DEF UsedState
<1>6. HistoryTypes'
  <2>1. e \in HandlerEvent BY DEF HandlerEvent
  <2>2. <<e>> \in Seq(HandlerEvent) BY <2>1
  <2> QED BY <1>1, <1>2, <1>4, <1>5, <2>2, EmptyTypes DEF HistoryTypes
<1>7. job'.pc = "none" /\ gen'.pc = "idle" /\ gen'.epoch = NoGen.epoch BY <1>1 DEF NoJob, NoGen
<1>8. JobInv' BY <1>1 DEF JobInv
<1>9. store.checkpoint = None => mem.checkpoint = None /\ disk.checkpoint = None
  BY <1>2 DEF SyncInv
<1>10. SyncInv'
  <2>1. store'.checkpoint = None => mem'.checkpoint = None /\ disk'.checkpoint = None
    BY <1>1, <1>4, <1>9
  <2>2. store'.guard = None /\ store'.checkpoint = None => mem'.epoch = None /\ disk'.epoch = None
    <3> SUFFICES ASSUME store'.guard = None, store'.checkpoint = None
                 PROVE  disk.epoch = None
      BY <1>1
    <3>1. store.guard = None /\ store.checkpoint = None BY <1>4
    <3> QED BY <1>2, <3>1 DEF SyncInv
  <2> QED BY <1>1, <1>7, <2>1, <2>2 DEF SyncInv
<1>11. AdmissionInv' BY <1>7 DEF AdmissionInv, Clear, Leaving
<1>12. EventsInv'
  <2>1. e.kind = "reset" OBVIOUS
  <2>2. Expects(e)' BY <2>1 DEF Expects
  <2>3. Len(queue') = 1 /\ queue'[1] = e BY <1>1
  <2>4. \A kind : Once(kind)' BY <1>1, <2>3 DEF Once
  <2> QED BY <1>1, <2>2, <2>3, <2>4 DEF EventsInv
<1>13. /\ EpochsInv /\ CommandsInv /\ GuardInv(store.guard) /\ GuardInv(mem.guard)
       /\ GuardInv(disk.guard) /\ ("cut" \notin lost => PageKnows)
  BY DEF HistoryIInv, LedgerInv
<1>14. Now' = Now BY <1>1 DEF Now
<1>15. (\A x : Executed(x)' <=> Executed(x)) /\ (\A n : Cut(n)' <=> Cut(n))
       /\ (\A x : Upto(x)' <=> Upto(x))
  BY <1>1, <1>14 DEF Executed, Cut, TurnIndices, Upto
<1>16. EpochsInv'
  <2>1. EpochsOf(disk)' /\ EpochsOf(mem)' BY <1>1, <1>13, <1>15 DEF EpochsInv, EpochsOf
  <2>2. EpochsOf(store)'
    <3>1. EpochsOf(store) /\ EpochsOf(disk) BY <1>13 DEF EpochsInv
    <3>2. PICK g : g = store'.guard OBVIOUS
    <3>3. PICK c : c = store'.checkpoint OBVIOUS
    <3>4. g # None => Upto(g.epoch) /\ (g.cmd # None => Upto(g.cmd.expected))
      BY <1>4, <3>1, <3>2 DEF EpochsOf
    <3>5. c # None => Upto(c.epoch) BY <1>4, <3>1, <3>3 DEF EpochsOf
    <3>6. g # None => Upto(g.epoch)' /\ (g.cmd # None => Upto(g.cmd.expected)') BY <1>15, <3>4
    <3>7. c # None => Upto(c.epoch)' BY <1>15, <3>5
    <3> QED BY <3>2, <3>3, <3>6, <3>7 DEF EpochsOf
  <2>3. Upto(gen'.epoch) BY <1>7, GenEpoch
  <2>4. Upto(mem.epoch)' /\ Upto(disk.epoch)' /\ Upto(gen.epoch)'
    BY <1>1, <1>13, <1>14, <2>3 DEF EpochsInv, Upto
  <2>5. /\ \A run \in runs' : Upto(run.epoch)'
        /\ \A r \in Range(ledger'.results) : Upto(r.epoch)'
        /\ ledger'.epoch = None => TurnIndices(ledger') = {}
    BY <1>1, <1>13, <1>15 DEF EpochsInv, TurnIndices
  <2> QED BY <2>1, <2>2, <2>4, <2>5 DEF EpochsInv
<1>17. CommandsInv' BY <1>1, <1>5, <1>7, <1>13 DEF CommandsInv
<1>18. GuardInv(store.guard)' /\ GuardInv(mem.guard)' /\ GuardInv(disk.guard)'
  <2>1. \A g : GuardInv(g) => GuardInv(g)' BY <1>1, <1>5, <1>15 DEF GuardInv
  <2>2. PICK g : g = store'.guard OBVIOUS
  <2>3. GuardInv(g)' BY <1>4, <1>13, <2>1, <2>2
  <2>4. PICK d : d = disk.guard OBVIOUS
  <2>5. GuardInv(d)' BY <1>13, <2>1, <2>4
  <2>6. mem'.guard = d /\ disk'.guard = d BY <1>1, <2>4
  <2>7. GuardInv(store.guard)' BY <2>2, <2>3 DEF GuardInv
  <2>8. GuardInv(mem.guard)' /\ GuardInv(disk.guard)' BY <2>5, <2>6 DEF GuardInv
  <2> QED BY <2>7, <2>8
<1>19. ASSUME "cut" \notin lost' PROVE PageKnows'
  <2>1. PageKnows /\ ~ cut BY <1>1, <1>13, <1>19
  <2> HIDE DEF cut
  <2>2. Durable'.checkpoint = Durable.checkpoint
    BY <1>1, <1>4, <1>9 DEF Durable, Prefer
  <2>3. \/ Durable'.guard = Durable.guard
        \/ Durable.guard = None /\ Durable'.guard = disk.guard
    <3>1. CASE store.guard # None BY <1>4, <3>1 DEF Durable, Prefer
    <3>2. CASE store.guard = None
      <4>1. Durable.guard = mem.guard BY <3>2 DEF Durable, Prefer
      <4>2. Durable'.guard = disk.guard BY <1>1, <1>4, <3>2 DEF Durable, Prefer
      <4>3. job.pc = "saving" => mem.guard = None BY <1>2, <3>2 DEF SyncInv
      <4>4. job.pc # "saving" => disk.guard = mem.guard BY <1>2 DEF SyncInv
      <4> QED BY <4>1, <4>2, <4>3, <4>4
    <3> QED BY <3>1, <3>2
  <2>4. \A c \in net' : Executed(c)' \/ (Durable'.guard # None /\ c = Durable'.guard.cmd)
    <3>1. ~ (job.pc = "called" /\ job.ev.kind = "regen")
      <4>1. job.pc = "called" => job.ev # None BY JobIsThere
      <4> QED BY <2>1, <4>1 DEF cut
    <3>2. \A c \in net : Executed(c) \/ (Durable.guard # None /\ c = Durable.guard.cmd)
      BY <2>1, <3>1 DEF PageKnows
    <3> QED BY <1>1, <1>15, <2>3, <3>2
  <2>5. PICK g : g = Durable'.guard OBVIOUS
  <2>6. g # None => UpToDate(g)
    <3>1. CASE g = Durable.guard BY <2>1, <3>1 DEF PageKnows
    <3>2. CASE Durable.guard = None /\ g = disk.guard BY <2>1, <3>2 DEF PageKnows
    <3> QED BY <2>3, <2>5, <3>1, <3>2
  <2>7. g # None => UpToDate(g)' BY <1>1, <1>14, <1>15, <2>6 DEF UpToDate
  <2>8. Durable'.guard # None => UpToDate(Durable.guard)' BY <2>5, <2>7 DEF UpToDate
  <2>9. ASSUME Durable'.guard = None PROVE VerifiedEpoch' = Now'
    <3>1. Durable.guard = None BY <2>3, <2>9
    <3>2. VerifiedEpoch = Now BY <2>1, <3>1 DEF PageKnows
    <3>3. CASE Durable.checkpoint # None
      BY <1>14, <2>2, <2>9, <3>1, <3>2, <3>3 DEF VerifiedEpoch
    <3>4. CASE Durable.checkpoint = None
      <4>1. store.guard = None /\ store.checkpoint = None
        BY <1>2, <3>1, <3>4, DurableIs DEF Durable, Prefer
      <4>2. mem.epoch = None /\ disk.epoch = None BY <1>2, <4>1 DEF SyncInv
      <4>3. VerifiedEpoch = 0 /\ VerifiedEpoch' = 0
        BY <1>1, <2>2, <2>9, <3>1, <3>4, <4>2 DEF VerifiedEpoch, CurrentEpoch
      <4> QED BY <1>14, <3>2, <4>3
    <3> QED BY <3>3, <3>4
  <2>10. disk'.guard # None => Durable'.guard # None BY <1>1 DEF Durable, Prefer
  <2> QED BY <1>7, <2>4, <2>8, <2>9, <2>10 DEF PageKnows
<1>20. LedgerInv' BY <1>16, <1>17, <1>18, <1>19 DEF LedgerInv
<1> QED BY <1>6, <1>8, <1>10, <1>11, <1>12, <1>20 DEF HistoryIInv

(* A run ends: the ledger keeps its epoch, and takes a turn only while it  *)
(* is not cut for the run.                                                 *)
LEMMA CommitSteady ==
  ASSUME HistoryIInv, NEW run \in runs, CommitRun(run)
  PROVE  HistoryIInv'
<1> DEFINE i == Len(run.sees)
           accepted == /\ ledger.epoch \in {None, run.epoch}
                       /\ ledger.turns[i] = None \/ ledger.turns[i][i] = Last(run.sees)
<1>1. /\ runs' = runs \ {run}
      /\ UNCHANGED <<chat, net, store, mem, disk, page, queue, job, used, lost>>
  BY Zenon DEF CommitRun, durable
<1>2. HistoryTypes /\ EpochsInv BY DEF HistoryIInv, LedgerInv
<1>3. /\ gen \in GenState /\ ledger \in LedgerStates /\ run \in RunState /\ Len(run.sees) <= MaxLen
      /\ used \in UsedState
  BY <1>2 DEF HistoryTypes
<1>4. run.sees \in Seq(Message) /\ run.epoch \in Nat BY <1>3 DEF RunState
<1>5. i \in Index /\ i \in Nat
  <2>1. i \in Nat /\ MaxLen \in Nat BY <1>4, BoundsAssumption
  <2> QED BY <1>3, <2>1 DEF Index
<1> HIDE DEF i
<1>6. /\ gen' \in GenState /\ gen'.epoch = gen.epoch
      /\ gen' = gen \/ (gen.pc = "running" /\ gen'.pc \in {"replied", "ending"})
  <2>1. CASE gen' = gen BY <1>3, <2>1
  <2>2. CASE gen.pc = "running" /\ \E t \in Text : gen' = [[gen EXCEPT !.pc = "replied"] EXCEPT !.text = t]
    BY <1>3, <2>2 DEF GenState, GenPlaces, Opt
  <2>3. CASE gen.pc = "running" /\ gen' = [gen EXCEPT !.pc = "ending"]
    BY <1>3, <2>3 DEF GenState, GenPlaces
  <2> QED BY <2>1, <2>2, <2>3, Zenon DEF CommitRun
<1>7. \/ UNCHANGED ledger
      \/ /\ accepted /\ ledger.turns[i] = None
         /\ \E t \in Text :
              ledger' = [ledger EXCEPT !.epoch = run.epoch,
                           !.turns[i] = Append(run.sees, [by |-> "reply", text |-> t])]
  <2>1. CASE accepted
    <3>1. PICK t \in Text :
            ledger' = IF ledger.turns[i] # None THEN ledger
                      ELSE [ledger EXCEPT !.epoch = run.epoch,
                             !.turns[i] = Append(run.sees, [by |-> "reply", text |-> t])]
      BY <2>1, Zenon DEF CommitRun, i
    <3>2. CASE ledger.turns[i] # None BY <3>1, <3>2, Zenon
    <3>3. CASE ledger.turns[i] = None BY <2>1, <3>1, <3>3, Zenon
    <3> QED BY <3>2, <3>3, Zenon
  <2>2. CASE ~ accepted BY <2>2, Zenon DEF CommitRun, i
  <2> QED BY <2>1, <2>2, Zenon
<1>8. \/ UNCHANGED ledger
      \/ /\ \A n : ~ Cut(n)
         /\ ledger' \in LedgerStates /\ Now' = Now /\ ledger'.results = ledger.results
         /\ \A j \in TurnIndices(ledger') : Len(ledger'.turns[j]) = j + 1
         /\ ledger'.epoch # None
  <2> SUFFICES ASSUME accepted, NEW t \in Text,
                      ledger' = [ledger EXCEPT !.epoch = run.epoch,
                                   !.turns[i] = Append(run.sees, [by |-> "reply", text |-> t])]
               PROVE  /\ \A n : ~ Cut(n)
                      /\ ledger' \in LedgerStates /\ Now' = Now
                      /\ ledger'.results = ledger.results
                      /\ \A j \in TurnIndices(ledger') : Len(ledger'.turns[j]) = j + 1
                      /\ ledger'.epoch # None
    BY <1>7, Zenon
  <2> DEFINE turn == Append(run.sees, [by |-> "reply", text |-> t])
  <2>1. turn \in Seq(Message) /\ Len(turn) = i + 1
    <3>1. [by |-> "reply", text |-> t] \in Message BY DEF Message
    <3> QED BY <1>4, <3>1 DEF i
  <2> HIDE DEF turn
  <2>2. /\ ledger'.epoch = run.epoch /\ ledger'.results = ledger.results
        /\ ledger'.turns = [ledger.turns EXCEPT ![i] = turn]
        /\ ledger' = [epoch |-> ledger'.epoch, turns |-> ledger'.turns, results |-> ledger'.results]
    BY <1>3 DEF LedgerStates, turn
  <2>3. ledger.turns \in [Index -> Opt(Seq(Message))] BY <1>3 DEF LedgerStates
  <2>4. ledger'.turns \in [Index -> Opt(Seq(Message))]
    BY <1>5, <2>1, <2>2, <2>3 DEF Opt
  <2>5. ledger' \in LedgerStates BY <1>3, <1>4, <2>2, <2>4 DEF LedgerStates, Opt
  <2>6. \A n : ~ Cut(n) BY DEF Cut
  <2>7. Now' = Now
    <3>1. Upto(run.epoch) BY <1>2 DEF EpochsInv
    <3>2. run.epoch # None BY <1>4, NoneApart
    <3>3. ledger.epoch = None => run.epoch = 0 BY <1>4, <3>1, <3>2 DEF Upto, Now
    <3> QED BY <2>2, <3>2, <3>3 DEF Now
  <2>8. \A j \in TurnIndices(ledger') : Len(ledger'.turns[j]) = j + 1
    <3> SUFFICES ASSUME NEW j \in Index, ledger'.turns[j] # None
                 PROVE  Len(ledger'.turns[j]) = j + 1
      BY DEF TurnIndices
    <3>1. CASE j = i BY <2>1, <2>2, <2>3, <3>1
    <3>2. CASE j # i
      <4>1. ledger'.turns[j] = ledger.turns[j] BY <2>2, <2>3, <3>2
      <4> QED BY <1>2, <4>1 DEF HistoryTypes, TurnIndices
    <3> QED BY <3>1, <3>2
  <2>9. ledger'.epoch # None BY <1>4, <2>2, NoneApart
  <2> QED BY <2>2, <2>5, <2>6, <2>7, <2>8, <2>9
<1>9. /\ ledger' \in LedgerStates /\ Now' = Now /\ ledger'.results = ledger.results
      /\ \A j \in TurnIndices(ledger') : Len(ledger'.turns[j]) = j + 1
      /\ ledger'.epoch = None => TurnIndices(ledger') = {}
  <2>1. CASE UNCHANGED ledger
    BY <1>2, <1>3, <2>1 DEF HistoryTypes, EpochsInv, TurnIndices, Now
  <2> QED BY <1>8, <2>1
<1>10. runs' \subseteq runs BY <1>1
<1>11. HistoryTypes' BY <1>1, <1>2, <1>6, <1>9, <1>10 DEF HistoryTypes
<1>12. JobInv' /\ SyncInv' BY <1>1, RecordsStay
<1>13. AdmissionInv' /\ EventsInv'
  <2>1. CASE gen' = gen
    <3>1. AdmissionInv /\ EventsInv BY DEF HistoryIInv
    <3>2. Durable' = Durable BY <1>1, SameDurable
    <3>3. EventsInv' BY <1>1, <2>1, <3>1 DEF EventsInv, Expects, Once
    <3>4. (Clear' <=> Clear) /\ ExpectedLength' = ExpectedLength /\ (Quiet' <=> Quiet)
      BY <1>1, <2>1 DEF Clear, Unrevoked, ExpectedLength, Quiet
    <3>5. ClearInv => ClearInv' BY <1>1, <2>1, <3>2 DEF ClearInv, Meets, Once
    <3> QED BY <1>1, <2>1, <3>1, <3>2, <3>3, <3>4, <3>5 DEF AdmissionInv
  <2>2. CASE gen.pc = "running" /\ gen'.pc \in {"replied", "ending"}
    <3>1. EventsInv' BY <1>1, <2>2, NoneEnqueued
    <3> QED BY <2>2, <3>1 DEF AdmissionInv, Clear, Leaving
  <2> QED BY <1>6, <2>1, <2>2
<1>14. /\ CommandsInv /\ GuardInv(store.guard) /\ GuardInv(mem.guard)
       /\ GuardInv(disk.guard) /\ ("cut" \notin lost => PageKnows)
  BY DEF HistoryIInv, LedgerInv
<1>15. Durable' = Durable BY <1>1, SameDurable
<1>16. (\A x : Executed(x)' <=> Executed(x)) /\ (\A x : Upto(x)' <=> Upto(x))
  BY <1>9 DEF Executed, Upto
<1>17. \A n : Cut(n) => Cut(n)'
  <2>1. CASE UNCHANGED ledger BY <1>10, <2>1 DEF Cut, TurnIndices
  <2> QED BY <1>8, <2>1
<1>18. EpochsInv'
  <2>1. EpochsOf(store)' /\ EpochsOf(mem)' /\ EpochsOf(disk)'
    BY <1>1, <1>2, <1>16 DEF EpochsInv, EpochsOf
  <2>2. Upto(mem.epoch)' /\ Upto(disk.epoch)' /\ Upto(gen.epoch)'
    BY <1>1, <1>2, <1>6, <1>16 DEF EpochsInv
  <2>3. \A r \in runs' : Upto(r.epoch)' BY <1>2, <1>10, <1>16 DEF EpochsInv
  <2>4. \A r \in Range(ledger'.results) : Upto(r.epoch)' BY <1>2, <1>9, <1>16 DEF EpochsInv
  <2> QED BY <1>9, <2>1, <2>2, <2>3, <2>4 DEF EpochsInv
<1>19. CommandsInv' BY <1>1, <1>9, <1>14, <1>15, <1>16 DEF CommandsInv
<1>20. GuardInv(store.guard)' /\ GuardInv(mem.guard)' /\ GuardInv(disk.guard)'
  <2>1. \A g : GuardInv(g) => GuardInv(g)' BY <1>1, <1>16, <1>17 DEF GuardInv
  <2>2. PICK g, d, h : g = store.guard /\ d = mem.guard /\ h = disk.guard OBVIOUS
  <2>3. GuardInv(g)' /\ GuardInv(d)' /\ GuardInv(h)' BY <1>14, <2>1, <2>2
  <2>4. store'.guard = g /\ mem'.guard = d /\ disk'.guard = h BY <1>1, <2>2
  <2> QED BY <2>3, <2>4 DEF GuardInv
<1>21. ASSUME "cut" \notin lost' PROVE PageKnows'
  <2>1. PageKnows BY <1>1, <1>14, <1>21
  <2>2. \A g : UpToDate(g) => UpToDate(g)' BY <1>9, <1>16 DEF UpToDate
  <2>3. VerifiedEpoch' = VerifiedEpoch BY <1>1, <1>15 DEF VerifiedEpoch, CurrentEpoch
  <2>4. PICK g, d : g = Durable.guard /\ d = disk.guard OBVIOUS
  <2>5. (g # None => UpToDate(g)') /\ (d # None /\ g = None => d.cmd = None /\ UpToDate(d)')
    BY <2>1, <2>2, <2>4 DEF PageKnows
  <2>6. Durable'.guard = g /\ disk'.guard = d BY <1>1, <1>15, <2>4
  <2>7. \A c \in net' : Executed(c)' \/ (Durable'.guard # None /\ c = Durable'.guard.cmd)
                        \/ (job'.pc = "called" /\ job'.ev.kind = "regen" /\ c = job'.call)
    BY <1>1, <1>15, <1>16, <2>1 DEF PageKnows
  <2>8. Durable'.guard # None => UpToDate(Durable.guard)' BY <2>5, <2>6 DEF UpToDate
  <2>9. Durable'.guard = None => VerifiedEpoch' = Now'
    BY <1>9, <1>15, <2>1, <2>3 DEF PageKnows
  <2>10. disk'.guard # None /\ Durable'.guard = None => disk'.guard.cmd = None /\ UpToDate(disk.guard)'
    BY <2>5, <2>6 DEF UpToDate
  <2>11. job'.pc = "called" /\ job'.ev.kind = "regen" => Durable'.guard = None
    BY <1>1, <1>15, <2>1 DEF PageKnows
  <2> QED BY <2>7, <2>8, <2>9, <2>10, <2>11 DEF PageKnows
<1>22. LedgerInv' BY <1>18, <1>19, <1>20, <1>21 DEF LedgerInv
<1> QED BY <1>11, <1>12, <1>13, <1>22 DEF HistoryIInv

(* A truncation was carried out: the ledger has moved to a later epoch, or *)
(* had already, and holds nothing from the cutoff on, unless a generation  *)
(* left while the guard of an edit stood.                                  *)
CarriedOut(c) ==
  /\ ledger' \in LedgerStates
  /\ \A i \in TurnIndices(ledger') : Len(ledger'.turns[i]) = i + 1
  /\ ledger'.epoch = None => TurnIndices(ledger') = {}
  /\ Now' \in Nat /\ Now <= Now'
  /\ \A n : Cut(n) => Cut(n)'
  /\ "early" \notin lost => Cut(c.cutoff)'
  /\ \A x : Executed(x)' <=> Executed(x) \/ x = c
  /\ \A r \in Range(ledger'.results) : r.cmd.id < used.commands /\ Upto(r.epoch)'

(* The elements of a sequence that grows.                                  *)
LEMMA AppendedRange ==
  ASSUME NEW S, NEW s \in Seq(S), NEW x \in S
  PROVE  Append(s, x) \in Seq(S) /\ Range(Append(s, x)) = Range(s) \cup {x}
<1> DEFINE t == Append(s, x)
<1>1. /\ t \in Seq(S) /\ Len(s) \in Nat /\ DOMAIN s = 1 .. Len(s)
      /\ DOMAIN t = 1 .. Len(s) + 1 /\ t[Len(s) + 1] = x
      /\ \A i \in 1 .. Len(s) : t[i] = s[i]
  OBVIOUS
<1> HIDE DEF t
<1>2. ASSUME NEW y \in Range(s) PROVE y \in Range(t)
  <2>1. PICK i \in 1 .. Len(s) : s[i] = y BY <1>1, <1>2 DEF Range
  <2>2. i \in DOMAIN t /\ t[i] = y BY <1>1, <2>1
  <2> QED BY <2>2 DEF Range
<1>3. x \in Range(t)
  <2>1. Len(s) + 1 \in DOMAIN t BY <1>1
  <2> QED BY <1>1, <2>1 DEF Range
<1>4. ASSUME NEW y \in Range(t), y # x PROVE y \in Range(s)
  <2>1. PICK i \in DOMAIN t : t[i] = y BY <1>4 DEF Range
  <2>2. i \in DOMAIN s /\ s[i] = y
    <3>1. i # Len(s) + 1 BY <1>1, <1>4, <2>1
    <3>2. i \in 1 .. Len(s) BY <1>1, <2>1, <3>1
    <3> QED BY <1>1, <2>1, <3>2
  <2> QED BY <2>2 DEF Range
<1>5. Range(t) = Range(s) \cup {x} BY <1>2, <1>3, <1>4
<1> QED BY <1>1, <1>5 DEF t

(* truncateBranch opens the next epoch and keeps the rows below the        *)
(* cutoff.                                                                 *)
LEMMA LedgerCuts ==
  ASSUME HistoryIInv, NEW c \in net, UNCHANGED runs, ~ Executed(c),
         ledger' = [epoch |-> Now + 1,
                    turns |-> [i \in Index |-> IF i < c.cutoff THEN ledger.turns[i] ELSE None],
                    results |-> Append(ledger.results, [cmd |-> c, epoch |-> Now + 1])]
  PROVE  /\ CarriedOut(c) /\ Now' = Now + 1
         /\ \A r \in Range(ledger'.results) : r.cmd = c => r.epoch = Now'
<1> DEFINE kept == [i \in Index |-> IF i < c.cutoff THEN ledger.turns[i] ELSE None]
           new == [cmd |-> c, epoch |-> Now + 1]
           s == ledger.results
           R == [cmd : CommandState, epoch : Nat]
<1>1. HistoryTypes /\ EpochsInv /\ CommandsInv BY DEF HistoryIInv, LedgerInv
<1>2. ledger \in LedgerStates /\ c \in CommandState /\ c.cutoff \in Int /\ runs \subseteq RunState
  BY <1>1 DEF HistoryTypes, CommandState
<1>3. Now \in Nat /\ Now + 1 # None
  <2>1. Now \in Nat BY EpochsNamed
  <2>2. Now + 1 \in Nat BY <2>1
  <2> QED BY <2>1, <2>2, NoneApart
<1>4. /\ ledger'.epoch = Now + 1 /\ ledger'.turns = kept /\ ledger'.results = Append(s, new)
      /\ ledger' = [epoch |-> Now + 1, turns |-> kept, results |-> Append(s, new)]
  OBVIOUS
<1>5. kept \in [Index -> Opt(Seq(Message))]
      /\ \A i \in Index : kept[i] # None => i < c.cutoff /\ kept[i] = ledger.turns[i]
  BY <1>2 DEF LedgerStates, Opt
<1>6. s \in Seq(R) BY <1>2 DEF LedgerStates
<1>7. new \in R /\ new.cmd = c /\ new.epoch = Now + 1
  BY <1>2, <1>3
<1> HIDE DEF kept, new, s, R
<1>8. Append(s, new) \in Seq(R)
      /\ Range(Append(s, new)) = Range(s) \cup {new}
  BY <1>6, <1>7, AppendedRange
<1>9. Range(ledger'.results) = Range(ledger.results) \cup {new}
  <2>1. s = ledger.results BY DEF s
  <2> QED BY <1>4, <1>8, <2>1
<1>10. ledger' \in LedgerStates
  <2>1. Append(s, new) \in Seq([cmd : CommandState, epoch : Nat]) BY <1>8 DEF R
  <2>2. Now + 1 \in Opt(Nat) BY <1>3 DEF Opt
  <2>3. [epoch |-> Now + 1, turns |-> kept, results |-> Append(s, new)] \in LedgerStates
    BY <1>5, <2>1, <2>2 DEF LedgerStates
  <2> QED BY <1>4, <2>3
<1>11. Now' = Now + 1 /\ ledger'.epoch # None BY <1>3, <1>4 DEF Now
<1>12. TurnIndices(ledger') \subseteq TurnIndices(ledger)
       /\ \A i \in TurnIndices(ledger') : i < c.cutoff /\ ledger'.turns[i] = ledger.turns[i]
  BY <1>4, <1>5 DEF TurnIndices
<1>13. \A i \in TurnIndices(ledger') : Len(ledger'.turns[i]) = i + 1
  BY <1>1, <1>12 DEF HistoryTypes
<1>14. \A run \in runs' : run.epoch # ledger'.epoch
  <2> SUFFICES ASSUME NEW run \in runs PROVE run.epoch # Now + 1 BY <1>4
  <2>1. run.epoch \in Nat BY <1>2 DEF RunState
  <2>2. Upto(run.epoch) BY <1>1 DEF EpochsInv
  <2>3. run.epoch # None BY <2>1, NoneApart
  <2> QED BY <1>3, <2>1, <2>2, <2>3 DEF Upto
<1>15. (\A n : Cut(n) => Cut(n)') /\ Cut(c.cutoff)' BY <1>11, <1>12, <1>14 DEF Cut
<1>16. \A x : Executed(x)' <=> Executed(x) \/ x = c BY <1>7, <1>9 DEF Executed
<1>17. \A r \in Range(ledger'.results) : r.cmd.id < used.commands /\ Upto(r.epoch)'
  <2> SUFFICES ASSUME NEW r \in Range(ledger'.results)
               PROVE  r.cmd.id < used.commands /\ Upto(r.epoch)'
    OBVIOUS
  <2>1. CASE r \in Range(ledger.results)
    <3>1. r.epoch \in Nat /\ Upto(r.epoch) /\ r.cmd.id < used.commands
      BY <1>1, <2>1, ResultsAre DEF EpochsInv, CommandsInv
    <3>2. r.epoch # None BY <3>1, NoneApart
    <3>3. r.epoch <= Now' BY <1>3, <1>11, <3>1, <3>2 DEF Upto
    <3> QED BY <3>1, <3>3 DEF Upto
  <2>2. CASE r = new
    <3>1. r.cmd.id < used.commands BY <1>1, <1>7, <2>2 DEF CommandsInv
    <3>2. r.epoch <= Now' BY <1>3, <1>7, <1>11, <2>2
    <3> QED BY <3>1, <3>2 DEF Upto
  <2> QED BY <1>9, <2>1, <2>2
<1>18. \A r \in Range(ledger'.results) : r.cmd = c => r.epoch = Now'
  BY <1>7, <1>9, <1>11 DEF Executed
<1>19. Now' \in Nat /\ Now <= Now' BY <1>3, <1>11
<1> QED BY <1>10, <1>11, <1>13, <1>15, <1>16, <1>17, <1>18, <1>19 DEF CarriedOut

(* A repeated command finds the ledger as it left it.                      *)
LEMMA LedgerWasCut ==
  ASSUME HistoryIInv, NEW c, UNCHANGED <<ledger, runs>>, Executed(c),
         "early" \notin lost => Cut(c.cutoff)
  PROVE  CarriedOut(c)
<1>1. HistoryTypes /\ EpochsInv /\ CommandsInv BY DEF HistoryIInv, LedgerInv
<1>2. Now' = Now /\ Now \in Nat BY EpochsNamed DEF Now
<1>3. (\A n : Cut(n)' <=> Cut(n)) /\ (\A x : Executed(x)' <=> Executed(x))
      /\ (\A x : Upto(x)' <=> Upto(x))
  BY <1>2 DEF Cut, TurnIndices, Executed, Upto
<1>4. ledger' \in LedgerStates /\ (ledger'.epoch = None => TurnIndices(ledger') = {})
      /\ \A i \in TurnIndices(ledger') : Len(ledger'.turns[i]) = i + 1
  BY <1>1 DEF HistoryTypes, EpochsInv, TurnIndices
<1>5. \A r \in Range(ledger'.results) : r.cmd.id < used.commands /\ Upto(r.epoch)'
  BY <1>1, <1>3 DEF EpochsInv, CommandsInv
<1>6. Now' \in Nat /\ Now <= Now' BY <1>2
<1>7. "early" \notin lost => Cut(c.cutoff)' BY <1>3
<1>8. \A x : Executed(x)' <=> Executed(x) \/ x = c BY <1>3
<1> QED BY <1>3, <1>4, <1>5, <1>6, <1>7, <1>8 DEF CarriedOut

(* What was known before is still known.                                   *)
LEMMA StillKnown ==
  ASSUME HistoryIInv, NEW c, CarriedOut(c), UNCHANGED runs
  PROVE  /\ \A e \in Opt(Nat) : Upto(e) => Upto(e)'
         /\ \A d \in StoreState \cup MemState : EpochsOf(d) => EpochsOf(d)'
         /\ \A run \in runs' : Upto(run.epoch)'
<1>1. HistoryTypes /\ EpochsInv BY DEF HistoryIInv, LedgerInv
<1>2. Now \in Nat /\ Now' \in Nat /\ Now <= Now' BY EpochsNamed DEF CarriedOut
<1>3. \A e \in Opt(Nat) : Upto(e) => Upto(e)' BY <1>2 DEF Upto, Opt
<1>4. \A run \in runs' : Upto(run.epoch)'
  <2> SUFFICES ASSUME NEW run \in runs PROVE Upto(run.epoch)' OBVIOUS
  <2>1. run.epoch \in Opt(Nat) /\ Upto(run.epoch)
    BY <1>1 DEF HistoryTypes, RunState, EpochsInv, Opt
  <2>2. PICK e : e = run.epoch OBVIOUS
  <2>3. Upto(e)' BY <1>3, <2>1, <2>2
  <2> QED BY <2>2, <2>3 DEF Upto
<1>5. \A d \in StoreState \cup MemState : EpochsOf(d) => EpochsOf(d)'
  <2> SUFFICES ASSUME NEW d \in StoreState \cup MemState, EpochsOf(d) PROVE EpochsOf(d)' OBVIOUS
  <2>1. d.guard \in Opt(GuardState) /\ d.checkpoint \in Opt(CheckpointState)
    BY DEF StoreState, MemState
  <2>2. d.guard # None => d.guard.epoch \in Opt(Nat) /\ d.guard.cmd \in Opt(CommandState)
    BY <2>1 DEF GuardState, Opt
  <2>3. d.guard # None /\ d.guard.cmd # None => d.guard.cmd.expected \in Opt(Nat)
    BY <2>2 DEF CommandState, Opt
  <2>4. d.checkpoint # None => d.checkpoint.epoch \in Opt(Nat)
    BY <2>1 DEF CheckpointState, Opt
  <2>5. d.guard # None => Upto(d.guard.epoch)' BY <1>3, <2>2 DEF EpochsOf
  <2>6. d.guard # None /\ d.guard.cmd # None => Upto(d.guard.cmd.expected)'
    BY <1>3, <2>3 DEF EpochsOf
  <2>7. d.checkpoint # None => Upto(d.checkpoint.epoch)' BY <1>3, <2>4 DEF EpochsOf
  <2> QED BY <2>5, <2>6, <2>7 DEF EpochsOf
<1> QED BY <1>3, <1>4, <1>5

(* What a guard says of the ledger stays true when a command is carried    *)
(* out.                                                                    *)
LEMMA GuardStands ==
  ASSUME HistoryIInv, NEW c, CarriedOut(c), used.commands <= used'.commands, used'.commands \in Nat,
         lost' = lost, NEW g, GuardInv(g), g \in Opt(GuardState)
  PROVE  GuardInv(g)'
<1> SUFFICES ASSUME g # None PROVE GuardInv(g)' BY DEF GuardInv
<1>1. g.cutoff <= g.release /\ (g.cmd = None => g.epoch # None) BY DEF GuardInv
<1>2. g.cmd # None => g.cmd.id < used'.commands
  <2> SUFFICES ASSUME g.cmd # None PROVE g.cmd.id < used'.commands OBVIOUS
  <2>1. g.cmd.id < used.commands /\ g.cmd.id \in Nat /\ used.commands \in Nat
    BY DEF GuardInv, GuardState, CommandState, Opt, HistoryIInv, HistoryTypes, UsedState
  <2> QED BY <2>1
<1>3. "early" \notin lost /\ g.cmd = None => Cut(g.cutoff)' BY DEF GuardInv, CarriedOut
<1>4. ASSUME "early" \notin lost, g.cmd # None, Executed(g.cmd)' PROVE Cut(g.cmd.cutoff)'
  <2>1. CASE g.cmd = c BY <1>4, <2>1 DEF CarriedOut
  <2>2. CASE Executed(g.cmd) BY <1>4, <2>2 DEF GuardInv, CarriedOut
  <2>3. PICK x : x = g.cmd OBVIOUS
  <2>4. Executed(x)' BY <1>4, <2>3 DEF Executed
  <2> QED BY <2>1, <2>2, <2>3, <2>4 DEF CarriedOut
<1> QED BY <1>1, <1>2, <1>3, <1>4 DEF GuardInv

(* The answer is the one the guard of the handler waits for.               *)
LEMMA GuardAnswered ==
  ASSUME HistoryIInv, NEW c \in CommandState, CarriedOut(c),
         job.pc = "called", job.call = c, job.ev.kind # "regen",
         NEW e \in Nat, Upto(e)', "cut" \notin lost => e = Now',
         Answered(c, e), net' = net \ {c}, UNCHANGED <<chat, runs, queue, page, gen, lost>>
  PROVE  HistoryIInv'
<1>1. /\ HistoryTypes /\ EpochsInv /\ CommandsInv /\ SyncInv
      /\ GuardInv(store.guard) /\ GuardInv(mem.guard) /\ GuardInv(disk.guard)
      /\ "cut" \notin lost => PageKnows
  BY DEF HistoryIInv, LedgerInv
<1>2. job # NoJob BY JobIsThere DEF NoJob
<1> PICK g : g = Durable.guard OBVIOUS
<1>3. g # None /\ g.cmd = c /\ g \in {store.guard, mem.guard} BY <1>1, DurableIs DEF CommandsInv
<1>4. /\ g \in GuardState /\ GuardInv(g) /\ c.cutoff \in Int /\ g.cutoff \in Int
      /\ used \in UsedState /\ used.commands \in Nat
  <2>1. g \in GuardState BY <1>1, <1>3, DurableIs
  <2> QED BY <1>1, <1>3, <2>1 DEF GuardState, CommandState, HistoryTypes, UsedState
<1> DEFINE n == NewCommand(g.cutoff, e)
           next == IF g.cutoff < c.cutoff THEN n ELSE None
<1> PICK a : a = AppliedGuard(g, e) OBVIOUS
<1>5. n \in CommandState /\ n.id = used.commands /\ n.expected = e
  BY <1>4 DEF NewCommand, CommandState
<1> HIDE DEF n
<1>6. next \in Opt(CommandState) BY <1>5 DEF Opt
<1>7. /\ a \in GuardState /\ a.cutoff = g.cutoff /\ a.release = g.release /\ a.epoch = e
      /\ a.cmd = next
  <2>1. next = IF g.cutoff < g.cmd.cutoff THEN NewCommand(g.cutoff, e) ELSE None
    BY <1>3 DEF n
  <2> HIDE DEF next
  <2>2. a = [[[g EXCEPT !.applied = g.cmd.cutoff] EXCEPT !.epoch = e] EXCEPT !.cmd = next]
    BY <2>1 DEF AppliedGuard
  <2> QED BY <1>3, <1>4, <1>6, <2>2 DEF GuardState, Opt
<1>8. /\ WriteGuard(a, e, "reconcile")
      /\ used' = [used EXCEPT !.commands = IF a.cmd = None THEN @ ELSE @ + 1]
  BY DEF Answered
<1>9. /\ used' \in UsedState /\ used'.commands \in Nat /\ used.commands <= used'.commands
      /\ a.cmd # None => used.commands < used'.commands
  <2>1. CASE a.cmd = None
    <3>1. used' = [used EXCEPT !.commands = used.commands] BY <1>8, <2>1
    <3> QED BY <1>4, <2>1, <3>1 DEF UsedState
  <2>2. CASE a.cmd # None
    <3>1. used' = [used EXCEPT !.commands = used.commands + 1] BY <1>8, <2>2
    <3> QED BY <1>4, <3>1 DEF UsedState
  <2> QED BY <2>1, <2>2
<1>10. Reaches(job.ev.kind, "reconcile")
  <2>1. Reaches(job.ev.kind, "called") BY <1>2, JobIsThere
  <2> QED BY <2>1 DEF Reaches, Detecting
<1>11. ~ Conflict BY <1>1 DEF SyncInv
<1>12. /\ JobInv' /\ SyncInv'
       /\ store' \in StoreState /\ mem' \in MemState /\ job' \in JobState /\ disk' = disk
       /\ job'.ev = job.ev /\ job'.pc = "saving"
       /\ store'.guard = a /\ mem'.guard = a /\ Durable'.guard = a /\ a # None
       /\ store'.checkpoint = Durable.checkpoint /\ mem'.checkpoint = mem.checkpoint
       /\ mem'.epoch = e
  <2>1. e \in Opt(Nat) BY DEF Opt
  <2> QED BY <1>2, <1>7, <1>8, <1>10, <1>11, <2>1, GuardRecorded
<1>13. HistoryTypes'
  <2>1. ledger' \in LedgerStates /\ \A i \in TurnIndices(ledger') : Len(ledger'.turns[i]) = i + 1
    BY DEF CarriedOut
  <2>2. net' \subseteq CommandState BY <1>1 DEF HistoryTypes
  <2> QED BY <1>1, <1>9, <1>12, <2>1, <2>2 DEF HistoryTypes
<1>14. AdmissionInv' /\ EventsInv'
  <2>1. Unrevoked' <=> Unrevoked BY DEF Unrevoked
  <2> QED BY <1>2, <1>12, <2>1, GoesOnAdmits
<1>15. ASSUME a.cmd # None PROVE a.cmd = n /\ g.cutoff < c.cutoff /\ ~ Executed(a.cmd)'
  <2>1. a.cmd = n /\ g.cutoff < c.cutoff BY <1>7, <1>15
  <2>2. ASSUME NEW r \in Range(ledger'.results), r.cmd = n PROVE FALSE
    <3>1. r.cmd.id < used.commands BY DEF CarriedOut
    <3> QED BY <1>4, <1>5, <2>2, <3>1
  <2> QED BY <2>1, <2>2 DEF Executed
<1>16. GuardInv(a)'
  <2>1. a.cutoff <= a.release BY <1>3, <1>4, <1>7 DEF GuardInv
  <2>2. ASSUME a.cmd = None, "early" \notin lost PROVE Cut(a.cutoff)'
    <3>1. ~ (g.cutoff < c.cutoff) BY <1>5, <1>7, <2>2, NoneApart
    <3>2. Cut(c.cutoff)' BY <2>2 DEF CarriedOut
    <3>3. \A i \in TurnIndices(ledger') : i \in Int BY DEF TurnIndices, Index
    <3> QED BY <1>4, <1>7, <3>1, <3>2, <3>3 DEF Cut
  <2>4. a.epoch # None BY <1>7, NoneApart
  <2>3. ASSUME a.cmd # None PROVE a.cmd.id < used'.commands /\ ~ Executed(a.cmd)'
    BY <1>5, <1>9, <1>15, <2>3
  <2> QED BY <2>1, <2>2, <2>3, <2>4 DEF GuardInv
<1>17. EpochsInv'
  <2>1. EpochsOf(store)'
    <3>1. Upto(a.epoch)' /\ (a.cmd # None => Upto(a.cmd.expected)')
      BY <1>5, <1>7, <1>15 DEF Upto
    <3>2. PICK k : k = Durable.checkpoint OBVIOUS
    <3>3. EpochsOf(store) /\ EpochsOf(mem) /\ store \in StoreState /\ mem \in MemState
      BY <1>1 DEF EpochsInv, HistoryTypes
    <3>4. k # None => Upto(k.epoch) /\ k.epoch \in Opt(Nat)
      BY <3>2, <3>3 DEF Durable, Prefer, EpochsOf, StoreState, MemState, CheckpointState, Opt
    <3>5. k # None => Upto(k.epoch)' BY <3>4, StillKnown
    <3> QED BY <1>12, <3>1, <3>2, <3>5 DEF EpochsOf
  <2>2. EpochsOf(mem)'
    <3>1. Upto(a.epoch)' /\ (a.cmd # None => Upto(a.cmd.expected)')
      BY <1>5, <1>7, <1>15 DEF Upto
    <3>2. EpochsOf(mem)
      BY <1>1 DEF EpochsInv
    <3>3. PICK k : k = mem.checkpoint OBVIOUS
    <3>4. k # None => Upto(k.epoch) /\ k.epoch \in Opt(Nat)
      BY <1>1, <3>2, <3>3 DEF EpochsOf, HistoryTypes, MemState, CheckpointState, Opt
    <3>5. k # None => Upto(k.epoch)' BY <3>4, StillKnown
    <3> QED BY <1>12, <3>1, <3>3, <3>5 DEF EpochsOf
  <2>3. EpochsOf(disk)'
    <3>1. PICK d : d = disk OBVIOUS
    <3>2. d \in MemState /\ EpochsOf(d) BY <1>1, <3>1 DEF EpochsInv, HistoryTypes
    <3>3. EpochsOf(d)' BY <3>2, StillKnown
    <3>4. disk' = d BY <1>12, <3>1
    <3> QED BY <3>3, <3>4 DEF EpochsOf
  <2>4. Upto(mem.epoch)' BY <1>12 DEF Upto
  <2>5. Upto(disk.epoch)' /\ Upto(gen.epoch)'
    <3>1. PICK d, b : d = disk.epoch /\ b = gen.epoch OBVIOUS
    <3>2. d \in Opt(Nat) /\ b \in Opt(Nat) /\ Upto(d) /\ Upto(b)
      BY <1>1, <3>1 DEF EpochsInv, HistoryTypes, MemState, GenState, Opt
    <3>3. Upto(d)' /\ Upto(b)' BY <3>2, StillKnown
    <3>4. disk'.epoch = d /\ gen'.epoch = b BY <1>12, <3>1
    <3> QED BY <3>3, <3>4 DEF Upto
  <2>6. \A run \in runs' : Upto(run.epoch)' BY StillKnown
  <2>7. (\A r \in Range(ledger'.results) : Upto(r.epoch)')
        /\ (ledger'.epoch = None => TurnIndices(ledger') = {})
    BY DEF CarriedOut
  <2> QED BY <2>1, <2>2, <2>3, <2>4, <2>5, <2>6, <2>7 DEF EpochsInv
<1>18. CommandsInv'
  <2>1. \A x \in net' : x.id < used'.commands
    <3> SUFFICES ASSUME NEW x \in net PROVE x.id < used'.commands OBVIOUS
    <3>1. x.id \in Nat /\ x.id < used.commands
      BY <1>1 DEF HistoryTypes, CommandState, CommandsInv
    <3> QED BY <1>4, <1>9, <3>1
  <2>2. \A r \in Range(ledger'.results) : r.cmd.id < used'.commands
    <3> SUFFICES ASSUME NEW r \in Range(ledger'.results) PROVE r.cmd.id < used'.commands OBVIOUS
    <3>1. r.cmd.id < used.commands BY DEF CarriedOut
    <3>2. r.cmd \in CommandState
      <4>1. Executed(r.cmd)' BY DEF Executed
      <4>2. Executed(r.cmd) \/ r.cmd = c BY <4>1 DEF CarriedOut
      <4> QED BY <1>1, <4>2, ResultsAre DEF Executed
    <3> QED BY <1>4, <1>9, <3>1, <3>2 DEF CommandState
  <2> QED BY <1>12, <2>1, <2>2 DEF CommandsInv
<1>19. GuardInv(store.guard)' /\ GuardInv(mem.guard)' /\ GuardInv(disk.guard)'
  <2>1. GuardInv(store.guard)' /\ GuardInv(mem.guard)' BY <1>12, <1>16 DEF GuardInv
  <2>2. PICK d : d = disk.guard OBVIOUS
  <2>3. d \in Opt(GuardState) /\ GuardInv(d) BY <1>1, <2>2 DEF HistoryTypes, MemState
  <2>4. GuardInv(d)' BY <1>9, <2>3, GuardStands
  <2>5. disk'.guard = d BY <1>12, <2>2
  <2> QED BY <2>1, <2>4, <2>5 DEF GuardInv
<1>20. ASSUME "cut" \notin lost' PROVE PageKnows'
  <2>1. PageKnows /\ e = Now' BY <1>1, <1>20
  <2>2. \A x \in net' : Executed(x)'
    <3> SUFFICES ASSUME NEW x \in net, x # c PROVE Executed(x)' OBVIOUS
    <3>1. Executed(x) BY <1>3, <2>1 DEF PageKnows
    <3> QED BY <3>1 DEF CarriedOut
  <2>3. UpToDate(a)' BY <1>5, <1>7, <1>15, <2>1 DEF UpToDate
  <2>4. Durable'.guard # None => UpToDate(Durable.guard)' BY <1>12, <2>3 DEF UpToDate
  <2> QED BY <1>12, <2>2, <2>4 DEF PageKnows
<1>21. LedgerInv' BY <1>17, <1>18, <1>19, <1>20 DEF LedgerInv
<1> QED BY <1>12, <1>13, <1>14, <1>21 DEF HistoryIInv

(* The answer is the one a regeneration waits for.                         *)
LEMMA RegenerationAnswered ==
  ASSUME HistoryIInv, NEW c \in net, ~ Executed(c), CarriedOut(c),
         job.pc = "called", job.call = c, job.ev.kind = "regen",
         NEW e \in Nat, e = Now', Answered(c, e),
         net' = net \ {c}, UNCHANGED <<chat, runs, queue, page, gen, lost>>
  PROVE  HistoryIInv'
<1>1. /\ HistoryTypes /\ EpochsInv /\ CommandsInv /\ SyncInv
      /\ GuardInv(store.guard) /\ GuardInv(mem.guard) /\ GuardInv(disk.guard)
      /\ "cut" \notin lost => PageKnows
  BY DEF HistoryIInv, LedgerInv
<1>2. job # NoJob BY JobIsThere DEF NoJob
<1>3. job.ev \in HandlerEvent BY <1>2, JobIsThere
<1> PICK g, m, d : g = Durable.guard /\ m = mem.guard /\ d = disk.guard OBVIOUS
<1>4. /\ g \in Opt(GuardState) /\ m \in Opt(GuardState) /\ d \in Opt(GuardState)
      /\ GuardInv(g) /\ GuardInv(m) /\ GuardInv(d)
  BY <1>1, DurableIs DEF HistoryTypes, StoreState, MemState
<1> PICK k : k = [epoch |-> e, msgs |-> SubSeq(chat, 1, Min({job.ev.at, Len(chat)}))] OBVIOUS
<1>5. k \in CheckpointState /\ k.epoch = e
  <2>1. chat \in Seq(Message) /\ Len(chat) \in Nat BY <1>1 DEF HistoryTypes
  <2>2. job.ev.at \in Int BY <1>3 DEF HandlerEvent
  <2> PICK n : n = Min({job.ev.at, Len(chat)}) OBVIOUS
  <2>3. Len(chat) \in Int BY <2>1
  <2>4. n \in Int /\ n <= Len(chat) BY <2>2, <2>3, PairMin
  <2>5. SubSeq(chat, 1, n) \in Seq(Message)
    <3>1. \A i \in 1 .. n : chat[i] \in Message BY <2>1, <2>4
    <3>2. 1 \in Int OBVIOUS
    <3> QED BY ONLY <2>4, <3>1, <3>2, SubSeqProperties
  <2> QED BY <2>5 DEF CheckpointState
<1>6. WriteCheckpoint(k, e, "finish") /\ UNCHANGED used BY DEF Answered
<1>7. Reaches(job.ev.kind, "finish") BY DEF Reaches
<1>8. ~ Conflict BY <1>1 DEF SyncInv
<1>9. /\ JobInv' /\ SyncInv'
      /\ store' \in StoreState /\ mem' \in MemState /\ job' \in JobState /\ disk' = disk
      /\ job'.ev = job.ev /\ job'.pc = "saving"
      /\ store'.guard = g /\ mem'.guard = m /\ Durable'.guard = g
      /\ Durable'.checkpoint = k /\ k # None
      /\ store'.checkpoint = k /\ mem'.checkpoint = k /\ mem'.epoch = e
  <2>1. e \in Opt(Nat) BY DEF Opt
  <2> QED BY <1>2, <1>5, <1>6, <1>7, <1>8, <2>1, CheckpointRecorded
<1>10. HistoryTypes'
  <2>1. ledger' \in LedgerStates /\ \A i \in TurnIndices(ledger') : Len(ledger'.turns[i]) = i + 1
    BY DEF CarriedOut
  <2>2. net' \subseteq CommandState BY <1>1 DEF HistoryTypes
  <2> QED BY <1>1, <1>6, <1>9, <2>1, <2>2 DEF HistoryTypes
<1>11. AdmissionInv' /\ EventsInv'
  <2>1. Unrevoked' <=> Unrevoked BY DEF Unrevoked
  <2> QED BY <1>2, <1>9, <2>1, GoesOnAdmits
<1>12. Upto(e)' BY DEF Upto
<1>13. EpochsInv'
  <2>1. EpochsOf(store)' /\ EpochsOf(mem)'
    <3>1. PICK x, y : x = store /\ y = mem OBVIOUS
    <3>2. x \in StoreState /\ y \in MemState /\ EpochsOf(x) /\ EpochsOf(y)
      BY <1>1, <3>1 DEF EpochsInv, HistoryTypes
    <3>3. EpochsOf(x)' /\ EpochsOf(y)' BY <3>2, StillKnown
    <3>4. g \in {x.guard, y.guard} /\ m = y.guard BY <1>1, <3>1, DurableIs
    <3>5. /\ g # None => Upto(g.epoch)' /\ (g.cmd # None => Upto(g.cmd.expected)')
          /\ m # None => Upto(m.epoch)' /\ (m.cmd # None => Upto(m.cmd.expected)')
      BY <3>3, <3>4 DEF EpochsOf
    <3> QED BY <1>5, <1>9, <1>12, <3>5 DEF EpochsOf, Upto
  <2>2. EpochsOf(disk)'
    <3>1. PICK x : x = disk OBVIOUS
    <3>2. x \in MemState /\ EpochsOf(x) BY <1>1, <3>1 DEF EpochsInv, HistoryTypes
    <3>3. EpochsOf(x)' BY <3>2, StillKnown
    <3>4. disk' = x BY <1>9, <3>1
    <3> QED BY <3>3, <3>4 DEF EpochsOf
  <2>3. Upto(mem.epoch)' BY <1>9, <1>12 DEF Upto
  <2>4. Upto(disk.epoch)' /\ Upto(gen.epoch)'
    <3>1. PICK x, b : x = disk.epoch /\ b = gen.epoch OBVIOUS
    <3>2. x \in Opt(Nat) /\ b \in Opt(Nat) /\ Upto(x) /\ Upto(b)
      BY <1>1, <3>1 DEF EpochsInv, HistoryTypes, MemState, GenState, Opt
    <3>3. Upto(x)' /\ Upto(b)' BY <3>2, StillKnown
    <3>4. disk'.epoch = x /\ gen'.epoch = b BY <1>9, <3>1
    <3> QED BY <3>3, <3>4 DEF Upto
  <2>5. \A run \in runs' : Upto(run.epoch)' BY StillKnown
  <2>6. (\A r \in Range(ledger'.results) : Upto(r.epoch)')
        /\ (ledger'.epoch = None => TurnIndices(ledger') = {})
    BY DEF CarriedOut
  <2> QED BY <2>1, <2>2, <2>3, <2>4, <2>5, <2>6 DEF EpochsInv
<1>14. CommandsInv'
  <2>1. \A x \in net' : x.id < used'.commands BY <1>1, <1>6 DEF CommandsInv
  <2>2. \A r \in Range(ledger'.results) : r.cmd.id < used'.commands BY <1>6 DEF CarriedOut
  <2> QED BY <1>9, <2>1, <2>2 DEF CommandsInv
<1>15. GuardInv(store.guard)' /\ GuardInv(mem.guard)' /\ GuardInv(disk.guard)'
  <2>1. used.commands <= used'.commands /\ used'.commands \in Nat
    BY <1>1, <1>6 DEF HistoryTypes, UsedState
  <2>2. GuardInv(g)' /\ GuardInv(m)' /\ GuardInv(d)' BY <1>4, <2>1, GuardStands
  <2>3. store'.guard = g /\ mem'.guard = m /\ disk'.guard = d BY <1>9
  <2> QED BY <2>2, <2>3 DEF GuardInv
<1>16. ASSUME "cut" \notin lost' PROVE PageKnows'
  <2>1. PageKnows /\ g = None BY <1>1, <1>16 DEF PageKnows
  <2>2. \A x \in net' : Executed(x)'
    <3> SUFFICES ASSUME NEW x \in net, x # c PROVE Executed(x)' OBVIOUS
    <3>1. Executed(x) BY <2>1 DEF PageKnows
    <3> QED BY <3>1 DEF CarriedOut
  <2>3. VerifiedEpoch' = e BY <1>5, <1>9, <2>1 DEF VerifiedEpoch
  <2>4. disk'.guard = None
    <3>1. mem.guard = None BY <1>1, <2>1, DurableIs
    <3>2. disk.guard = mem.guard BY <1>1 DEF SyncInv
    <3> QED BY <1>9, <3>1, <3>2
  <2> QED BY <1>9, <2>1, <2>2, <2>3, <2>4 DEF PageKnows
<1>17. LedgerInv' BY <1>13, <1>14, <1>15, <1>16 DEF LedgerInv
<1> QED BY <1>9, <1>10, <1>11, <1>17 DEF HistoryIInv

(* Nothing on the page changes.                                            *)
LEMMA AdmissionStays ==
  ASSUME HistoryIInv, UNCHANGED <<chat, queue, store, mem, disk, page, job, gen>>
  PROVE  AdmissionInv' /\ EventsInv'
<1>1. AdmissionInv /\ EventsInv BY DEF HistoryIInv
<1>2. Durable' = Durable BY SameDurable
<1>3. EventsInv' BY <1>1 DEF EventsInv, Expects, Once
<1>4. (Clear' <=> Clear) /\ ExpectedLength' = ExpectedLength /\ (Quiet' <=> Quiet)
  BY DEF Clear, Unrevoked, ExpectedLength, Quiet
<1>5. ClearInv => ClearInv' BY <1>2 DEF ClearInv, Meets, Once
<1> QED BY <1>1, <1>2, <1>3, <1>4, <1>5 DEF AdmissionInv

(* A command is carried out when no handler waits for it any more.         *)
LEMMA CarriedOutUnawaited ==
  ASSUME HistoryIInv, NEW c \in net, ~ Executed(c), CarriedOut(c),
         \A r \in Range(ledger'.results) : r.cmd = c => r.epoch = Now',
         ~ (job.pc = "called" /\ job.call = c), net' = net \ {c},
         UNCHANGED <<chat, runs, queue, store, mem, disk, page, job, gen, used, lost>>
  PROVE  HistoryIInv'
<1>1. /\ HistoryTypes /\ EpochsInv /\ CommandsInv
      /\ GuardInv(store.guard) /\ GuardInv(mem.guard) /\ GuardInv(disk.guard)
      /\ "cut" \notin lost => PageKnows
  BY DEF HistoryIInv, LedgerInv
<1>2. Durable' = Durable BY SameDurable
<1>3. HistoryTypes'
  <2>1. ledger' \in LedgerStates /\ \A i \in TurnIndices(ledger') : Len(ledger'.turns[i]) = i + 1
    BY DEF CarriedOut
  <2>2. net' \subseteq CommandState BY <1>1 DEF HistoryTypes
  <2> QED BY <1>1, <2>1, <2>2 DEF HistoryTypes
<1>4. JobInv' /\ SyncInv' BY RecordsStay
<1>5. AdmissionInv' /\ EventsInv' BY AdmissionStays
<1>6. EpochsInv'
  <2>1. PICK x, m, d : x = store /\ m = mem /\ d = disk OBVIOUS
  <2>2. /\ x \in StoreState /\ m \in MemState /\ d \in MemState
        /\ EpochsOf(x) /\ EpochsOf(m) /\ EpochsOf(d)
    BY <1>1, <2>1 DEF EpochsInv, HistoryTypes
  <2>3. EpochsOf(x)' /\ EpochsOf(m)' /\ EpochsOf(d)' BY <2>2, StillKnown
  <2>4. store' = x /\ mem' = m /\ disk' = d BY <2>1
  <2>5. EpochsOf(store)' /\ EpochsOf(mem)' /\ EpochsOf(disk)' BY <2>3, <2>4 DEF EpochsOf
  <2>6. PICK b : b = gen.epoch OBVIOUS
  <2>7. m.epoch \in Opt(Nat) /\ d.epoch \in Opt(Nat) /\ b \in Opt(Nat)
    BY <1>1, <2>2, <2>6 DEF HistoryTypes, MemState, GenState, Opt
  <2>8. Upto(m.epoch) /\ Upto(d.epoch) /\ Upto(b) BY <1>1, <2>1, <2>6 DEF EpochsInv
  <2>9. Upto(m.epoch)' /\ Upto(d.epoch)' /\ Upto(b)' BY <2>7, <2>8, StillKnown
  <2>10. gen'.epoch = b BY <2>6
  <2>11. Upto(mem.epoch)' /\ Upto(disk.epoch)' /\ Upto(gen.epoch)'
    BY <2>4, <2>9, <2>10 DEF Upto
  <2>12. \A run \in runs' : Upto(run.epoch)' BY StillKnown
  <2>13. (\A r \in Range(ledger'.results) : Upto(r.epoch)')
         /\ (ledger'.epoch = None => TurnIndices(ledger') = {})
    BY DEF CarriedOut
  <2> QED BY <2>5, <2>11, <2>12, <2>13 DEF EpochsInv
<1>7. CommandsInv'
  <2>1. \A r \in Range(ledger'.results) : r.cmd.id < used'.commands BY DEF CarriedOut
  <2>2. ASSUME job.pc = "called", job.ev.kind = "regen" PROVE ~ Executed(job.call)'
    <3>1. PICK x : x = job.call OBVIOUS
    <3>2. x # c /\ ~ Executed(x) BY <1>1, <2>2, <3>1 DEF CommandsInv
    <3>3. ~ Executed(x)' BY <3>2 DEF CarriedOut
    <3> QED BY <3>1, <3>3 DEF Executed
  <2> QED BY <1>1, <1>2, <2>1, <2>2 DEF CommandsInv
<1>8. GuardInv(store.guard)' /\ GuardInv(mem.guard)' /\ GuardInv(disk.guard)'
  <2>1. PICK x, m, d : x = store.guard /\ m = mem.guard /\ d = disk.guard OBVIOUS
  <2>2. /\ x \in Opt(GuardState) /\ m \in Opt(GuardState) /\ d \in Opt(GuardState)
        /\ GuardInv(x) /\ GuardInv(m) /\ GuardInv(d)
        /\ used.commands <= used'.commands /\ used'.commands \in Nat
    BY <1>1, <2>1 DEF HistoryTypes, StoreState, MemState, UsedState
  <2>3. GuardInv(x)' /\ GuardInv(m)' /\ GuardInv(d)' BY <2>2, GuardStands
  <2>4. store'.guard = x /\ mem'.guard = m /\ disk'.guard = d BY <2>1
  <2> QED BY <2>3, <2>4 DEF GuardInv
<1>9. ASSUME "cut" \notin lost' PROVE PageKnows'
  <2>1. PageKnows BY <1>1, <1>9
  <2>2. PICK g : g = Durable.guard OBVIOUS
  <2>3. g # None /\ g.cmd = c BY <2>1, <2>2 DEF PageKnows
  <2>10. ~ (job'.pc = "called" /\ job'.ev.kind = "regen") BY <2>1, <2>2, <2>3 DEF PageKnows
  <2>4. \A x \in net' : Executed(x)' \/ (job'.pc = "called" /\ job'.ev.kind = "regen" /\ x = job'.call)
    <3> SUFFICES ASSUME NEW x \in net, x # c
                 PROVE  Executed(x)' \/ (job.pc = "called" /\ job.ev.kind = "regen" /\ x = job.call)
      OBVIOUS
    <3>1. Executed(x) \/ (job.pc = "called" /\ job.ev.kind = "regen" /\ x = job.call)
      BY <2>1, <2>2, <2>3 DEF PageKnows
    <3> QED BY <3>1 DEF CarriedOut
  <2>5. c # None BY <1>1, NoneApart DEF HistoryTypes
  <2>6. Executed(c)' BY DEF CarriedOut
  <2>7. UpToDate(g)' BY <2>3, <2>5, <2>6 DEF UpToDate
  <2>8. Durable'.guard = g BY <1>2, <2>2
  <2>9. Durable'.guard # None => UpToDate(Durable.guard)' BY <2>7, <2>8 DEF UpToDate
  <2> QED BY <2>3, <2>4, <2>8, <2>9, <2>10 DEF PageKnows
<1>10. LedgerInv' BY <1>6, <1>7, <1>8, <1>9 DEF LedgerInv
<1> QED BY <1>3, <1>4, <1>5, <1>10 DEF HistoryIInv

LEMMA TruncateSteady ==
  ASSUME HistoryIInv, NEW c \in net, Truncate(c)
  PROVE  HistoryIInv'
<1> DEFINE waiting == job.pc = "called" /\ job.call = c
<1>1. net' = net \ {c} /\ UNCHANGED <<chat, runs, queue>> BY DEF Truncate
<1>2. /\ HistoryTypes /\ EpochsInv /\ CommandsInv
      /\ GuardInv(store.guard) /\ GuardInv(mem.guard)
      /\ ("cut" \notin lost => PageKnows)
  BY DEF HistoryIInv, LedgerInv
<1>3. c \in CommandState /\ used \in UsedState BY <1>2 DEF HistoryTypes
<1>4. ASSUME waiting, job.ev.kind # "regen"
      PROVE  Durable.guard # None /\ Durable.guard.cmd = c
             /\ GuardInv(Durable.guard)
  BY <1>2, <1>4, DurableIs DEF CommandsInv
<1>5. CASE /\ ~ waiting
           /\ UNCHANGED <<ledger, store, mem, disk, page, job, gen, used, lost>>
  <2>1. JobInv' /\ SyncInv' BY <1>5, RecordsStay
  <2>2. AdmissionInv' /\ EventsInv' BY <1>1, <1>5, AdmissionStays
  <2>3. LedgerInv' BY <1>1, <1>5, GenEpoch, LedgerStays
  <2>4. HistoryTypes' BY <1>1, <1>2, <1>5 DEF HistoryTypes
  <2> QED BY <2>1, <2>2, <2>3, <2>4 DEF HistoryIInv
<1>6. CASE waiting /\ Fail /\ UNCHANGED <<ledger, store, mem, disk, used>>
  <2>1. job # NoJob BY <1>6, JobIsThere DEF NoJob
  <2> QED BY <1>1, <1>3, <1>6, <2>1, FailSteady
<1>7. CASE /\ waiting /\ Executed(c) /\ UNCHANGED <<ledger, page, gen, lost>>
           /\ Answered(c, (CHOOSE r \in Range(ledger.results) : r.cmd = c).epoch)
  <2>1. job.ev.kind # "regen" BY <1>2, <1>7 DEF CommandsInv
  <2> PICK r : r = CHOOSE x \in Range(ledger.results) : x.cmd = c OBVIOUS
  <2>2. r \in Range(ledger.results) /\ r.cmd = c BY <1>7 DEF Executed
  <2>3. r.epoch \in Nat /\ Upto(r.epoch) BY <1>2, <2>2, ResultsAre DEF EpochsInv
  <2>4. Durable.guard # None /\ Durable.guard.cmd = c /\ GuardInv(Durable.guard) BY <1>4, <1>7, <2>1
  <2>5. c # None BY <1>3, NoneApart
  <2>6. "early" \notin lost => Cut(c.cutoff) BY <1>7, <2>4, <2>5 DEF GuardInv
  <2>7. CarriedOut(c) BY <1>1, <1>7, <2>6, LedgerWasCut
  <2>8. Now' = Now BY <1>7 DEF Now
  <2>9. "cut" \notin lost => r.epoch = Now'
    BY <1>2, <1>7, <2>2, <2>4, <2>5, <2>8 DEF PageKnows, UpToDate
  <2> PICK e : e = r.epoch OBVIOUS
  <2>10. e \in Nat /\ Upto(e)' /\ ("cut" \notin lost => e = Now') BY <2>3, <2>8, <2>9 DEF Upto
  <2>11. Answered(c, e) BY <1>7
  <2> QED BY <1>1, <1>3, <1>7, <2>1, <2>7, <2>10, <2>11, GuardAnswered
<1>8. ASSUME ~ Executed(c),
             ledger' = [epoch |-> Now + 1,
                        turns |-> [i \in Index |-> IF i < c.cutoff THEN ledger.turns[i] ELSE None],
                        results |-> Append(ledger.results, [cmd |-> c, epoch |-> Now + 1])],
             IF waiting THEN Answered(c, Now + 1) /\ UNCHANGED <<page, gen, lost>>
             ELSE UNCHANGED <<durable, page, job, gen, used, lost>>
      PROVE  HistoryIInv'
  <2>1. /\ CarriedOut(c) /\ Now' = Now + 1
        /\ \A r \in Range(ledger'.results) : r.cmd = c => r.epoch = Now'
    BY <1>1, <1>8, LedgerCuts
  <2> PICK e : e = Now + 1 OBVIOUS
  <2>2. e \in Nat /\ e = Now' /\ Upto(e)' BY <2>1 DEF CarriedOut, Upto
  <2>3. CASE waiting
    <3>1. Answered(c, e) /\ UNCHANGED <<page, gen, lost>> BY <1>8, <2>3
    <3>2. CASE job.ev.kind = "regen"
      BY <1>1, <1>8, <2>1, <2>2, <2>3, <3>1, <3>2, RegenerationAnswered
    <3>3. CASE job.ev.kind # "regen"
      BY <1>1, <1>3, <2>1, <2>2, <2>3, <3>1, <3>3, GuardAnswered
    <3> QED BY <3>2, <3>3
  <2>4. CASE ~ waiting
    BY <1>1, <1>8, <2>1, <2>4, CarriedOutUnawaited DEF durable
  <2> QED BY <2>3, <2>4
<1>9. Now = IF ledger.epoch = None THEN 0 ELSE ledger.epoch BY DEF Now
<1> HIDE DEF waiting
<1>10. CASE Executed(c)
  <2>1. UNCHANGED ledger BY <1>10 DEF Truncate
  <2>2. CASE waiting BY <1>7, <1>10, <2>1, <2>2 DEF Truncate, waiting
  <2>3. CASE ~ waiting BY <1>5, <1>10, <2>1, <2>3 DEF Truncate, waiting, durable
  <2> QED BY <2>2, <2>3
<1>11. CASE ~ Executed(c) /\ c.expected = Now
  BY <1>8, <1>9, <1>11 DEF Truncate, waiting
<1>12. CASE ~ Executed(c) /\ c.expected # Now
  <2>1. UNCHANGED ledger BY <1>9, <1>12 DEF Truncate
  <2>2. CASE waiting BY <1>6, <1>9, <1>12, <2>1, <2>2 DEF Truncate, waiting, durable
  <2>3. CASE ~ waiting BY <1>5, <1>9, <1>12, <2>1, <2>3 DEF Truncate, waiting, durable
  <2> QED BY <2>2, <2>3
<1> QED BY <1>10, <1>11, <1>12

(* What becomes of the generation.                                         *)
LEMMA TextStays ==
  ASSUME TextInv,
         \/ gen' = gen
         \/ gen'.pc \in {"idle", "regenerating", "truncated", "sent", "received", "ending"}
         \/ /\ gen'.text = gen.text /\ gen'.regen = gen.regen
            /\ gen'.pc = gen.pc \/ (gen.pc = "gate" /\ gen'.pc = "admitted")
                  \/ (gen.pc = "admitted" /\ ~ gen.regen /\ gen'.pc = "started")
  PROVE  TextInv' /\ (gen'.pc = "running" => gen.pc = "running")
BY DEF TextInv

(* The text of a generation does not change, and only the binding makes a  *)
(* generation run.                                                         *)
LEMMA FailsText ==
  ASSUME HistoryIInv, TextInv, Fail
  PROVE  TextInv' /\ (gen'.pc = "running" => gen.pc = "running")
<1> DEFINE kind == job.ev.kind
<1>1. gen \in GenState BY DEF HistoryIInv, HistoryTypes
<1>2. \/ gen' = NoGen
      \/ gen' = [[[gen EXCEPT !.pc = "truncated"] EXCEPT !.live = FALSE] EXCEPT !.scope = FALSE]
      \/ gen' = [gen EXCEPT !.pc = "ending"]
      \/ gen' = gen
  BY DEF Fail
<1>3. NoGen.pc = "idle" /\ [gen EXCEPT !.pc = "ending"].pc = "ending"
      /\ [[[gen EXCEPT !.pc = "truncated"] EXCEPT !.live = FALSE] EXCEPT !.scope = FALSE].pc
           = "truncated"
  BY <1>1 DEF NoGen, GenState
<1>4. gen' = gen \/ gen'.pc \in {"idle", "truncated", "ending"} BY <1>2, <1>3
<1> QED BY <1>4, TextStays

LEMMA FinishesText ==
  ASSUME HistoryIInv, TextInv, job # NoJob, NEW b, Finish(b)
  PROVE  TextInv' /\ (gen'.pc = "running" => gen.pc = "running")
<1> DEFINE kind == job.ev.kind
<1>1. gen \in GenState BY DEF HistoryIInv, HistoryTypes
<1>2. \/ gen' = [[gen EXCEPT !.live = FALSE] EXCEPT !.scope = FALSE]
      \/ gen' = [gen EXCEPT !.scope = FALSE]
      \/ kind = "gate" /\ gen' = NoGen
      \/ kind = "gate" /\ gen' = [gen EXCEPT !.pc = "admitted"]
      \/ gen' = [[gen EXCEPT !.pc = "truncated"] EXCEPT !.epoch = CurrentEpoch]
      \/ gen' = [gen EXCEPT !.pc = "ending"]
      \/ gen' = gen
  BY DEF Finish, Verdict
<1>3. kind = "gate" => gen.pc = "gate" BY DEF HistoryIInv, EventsInv, Expects
<1>4. /\ NoGen.pc = "idle" /\ [gen EXCEPT !.pc = "ending"].pc = "ending"
      /\ [[gen EXCEPT !.pc = "truncated"] EXCEPT !.epoch = CurrentEpoch].pc = "truncated"
  BY <1>1 DEF NoGen, GenState
<1>5. \A g \in {[[gen EXCEPT !.live = FALSE] EXCEPT !.scope = FALSE], [gen EXCEPT !.scope = FALSE]} :
        g.text = gen.text /\ g.regen = gen.regen /\ g.pc = gen.pc
  BY <1>1 DEF GenState
<1>6. PICK g : g = [gen EXCEPT !.pc = "admitted"] OBVIOUS
<1>7. g.text = gen.text /\ g.regen = gen.regen /\ g.pc = "admitted" BY <1>1, <1>6 DEF GenState
<1>8. \/ gen' = gen
      \/ gen'.pc \in {"idle", "truncated", "ending"}
      \/ /\ gen'.text = gen.text /\ gen'.regen = gen.regen
         /\ gen'.pc = gen.pc \/ (gen.pc = "gate" /\ gen'.pc = "admitted")
  BY <1>2, <1>3, <1>4, <1>5, <1>6, <1>7
<1> QED BY <1>8, TextStays

LEMMA EnsuresText ==
  ASSUME HistoryIInv, TextInv, NEW c, NEW r, NEW l, NEW n, EnsureGuard(c, r, l, n)
  PROVE  TextInv' /\ (gen'.pc = "running" => gen.pc = "running")
<1>1. gen' = gen \/ Fail BY DEF EnsureGuard
<1> QED BY <1>1, FailsText, TextStays

LEMMA CoordinatorText ==
  ASSUME HistoryIInv, TextInv, Coordinator
  PROVE  TextInv' /\ (gen'.pc = "running" => gen.pc = "running")
<1> DEFINE Goal == TextInv' /\ (gen'.pc = "running" => gen.pc = "running")
<1>1. gen \in GenState BY DEF HistoryIInv, HistoryTypes
<1>2. gen' = gen => Goal BY TextStays
<1>3. Return => Goal
  <2> SUFFICES ASSUME Return PROVE Goal OBVIOUS
  <2>1. gen' = gen \/ gen' = [gen EXCEPT !.pc = "ending"] BY DEF Return
  <2>2. gen' = gen \/ gen'.pc = "ending" BY <1>1, <2>1 DEF GenState
  <2> QED BY <2>2, TextStays
<1>4. Fail => Goal BY FailsText
<1>5. job.pc # "none" => job # NoJob BY DEF NoJob
<1> HIDE DEF Goal
<1>6. StartHandler \/ Observed \/ HistoryGate \/ SaveMetadata \/ Detected \/ Reconcile => Goal
  BY <1>2 DEF StartHandler, Observed, HistoryGate, SaveMetadata, Detected, Reconcile
<1>7. OnMessageDeleted => Goal
  <2> SUFFICES ASSUME OnMessageDeleted PROVE Goal OBVIOUS
  <2>1. \/ gen' = gen \/ Return \/ Fail
        \/ EnsureGuard(DeletionCutoff(page.snap, chat),
                       ReleaseLength(DeletionCutoff(page.snap, chat), chat),
                       Len(page.snap), "observed")
    BY DEF OnMessageDeleted
  <2> QED BY <1>2, <1>3, <1>4, <2>1, EnsuresText DEF Goal
<1>8. OnHostMessageEdited => Goal
  <2> SUFFICES ASSUME OnHostMessageEdited PROVE Goal OBVIOUS
  <2>1. Return \/ Fail \/ \E c : EnsureGuard(c, ReleaseLength(c, chat), Len(chat), "observed")
    BY DEF OnHostMessageEdited
  <2> QED BY <1>3, <1>4, <2>1, EnsuresText DEF Goal
<1>9. OnChatChanged => Goal
  <2> SUFFICES ASSUME OnChatChanged PROVE Goal OBVIOUS
  <2>1. gen' = [[gen EXCEPT !.live = FALSE] EXCEPT !.scope = FALSE] BY DEF OnChatChanged
  <2>2. gen'.pc = gen.pc /\ gen'.text = gen.text /\ gen'.regen = gen.regen
    BY <1>1, <2>1 DEF GenState
  <2> QED BY <2>2, TextStays DEF Goal
<1>10. OnHostMessageReceived \/ HandlerReturns => Goal
  BY <1>2, <1>3 DEF OnHostMessageReceived, HandlerReturns
<1>11. RegenerationTruncates \/ Detect \/ Inspected => Goal
  BY <1>2, <1>4 DEF RegenerationTruncates, Detect, Inspected
<1>12. HandlerEnds => Goal
  <2> SUFFICES ASSUME HandlerEnds PROVE Goal OBVIOUS
  <2>1. job # NoJob /\ Finish(FALSE) BY <1>5 DEF HandlerEnds
  <2> QED BY <2>1, FinishesText DEF Goal
<1>13. Judge => Goal
  <2> SUFFICES ASSUME Judge PROVE Goal OBVIOUS
  <2>1. gen' = gen \/ \E c, r, l : EnsureGuard(c, r, l, "detected") BY DEF Judge
  <2> QED BY <1>2, <2>1, EnsuresText DEF Goal
<1>14. Resolve => Goal
  <2> SUFFICES ASSUME Resolve PROVE Goal OBVIOUS
  <2>1. job # NoJob BY <1>5 DEF Resolve
  <2>2. \/ gen' = gen \/ (\E b : Finish(b))
        \/ \E c, l : EnsureGuard(c, c, l, "reconcile")
    BY DEF Resolve
  <2> QED BY <1>2, <2>1, <2>2, EnsuresText, FinishesText DEF Goal
<1>15. Settled => Goal
  <2> SUFFICES ASSUME Settled PROVE Goal OBVIOUS
  <2>1. job # NoJob BY <1>5 DEF Settled
  <2>2. job.ev.kind = "gate" => gen.pc = "gate" BY <2>1 DEF HistoryIInv, EventsInv, Expects
  <2>3. \/ job.ev.kind = "gate" /\ gen' = [gen EXCEPT !.pc = "admitted"]
        \/ gen' = [[gen EXCEPT !.live = FALSE] EXCEPT !.scope = FALSE]
        \/ gen' = [gen EXCEPT !.scope = FALSE]
    BY DEF Settled
  <2>4. /\ gen'.text = gen.text /\ gen'.regen = gen.regen
        /\ gen'.pc = gen.pc \/ (gen.pc = "gate" /\ gen'.pc = "admitted")
    BY <1>1, <2>2, <2>3 DEF GenState
  <2> QED BY <2>4, TextStays DEF Goal
<1> QED
  BY <1>6, <1>7, <1>8, <1>9, <1>10, <1>11, <1>12, <1>13, <1>14, <1>15 DEF Coordinator, Goal

LEMMA TextSteady ==
  ASSUME HistoryIInv, TextInv, Next
  PROVE  TextInv' /\ (gen'.pc = "running" => gen.pc = "running" \/ Bind)
<1>1. gen \in GenState BY DEF HistoryIInv, HistoryTypes
<1>2. CASE User
  <2>1. CASE \E late : gen' = [gen EXCEPT !.late = late]
    <3>1. gen'.pc = gen.pc /\ gen'.text = gen.text /\ gen'.regen = gen.regen
      BY <1>1, <2>1 DEF GenState
    <3> QED BY <3>1, TextStays
  <2>2. ASSUME NEW regen \in BOOLEAN, NEW t \in Opt(Text), Send(regen, t), ~ regen => t \in Text
        PROVE TextInv' /\ gen'.pc # "running"
    <3>1. gen' = [[[[NoGen EXCEPT !.pc = "gate"] EXCEPT !.regen = regen] EXCEPT !.len = Len(chat)]
                  EXCEPT !.text = t]
      BY <2>2 DEF Send
    <3>2. gen'.pc = "gate" /\ gen'.regen = regen /\ gen'.text = t BY <3>1 DEF NoGen
    <3> QED BY <2>2, <3>2 DEF TextInv
  <2>3. \/ \E late : gen' = [gen EXCEPT !.late = late]
        \/ (\E t \in Said : Send(FALSE, t)) \/ Send(TRUE, None)
    BY <1>2 DEF User, EditMessage, DeleteMessage, UserMayEdit
  <2>4. \A t \in Said : t \in Text /\ t \in Opt(Text) BY TextAssumption DEF Opt
  <2>5. None \in Opt(Text) BY DEF Opt
  <2> QED BY <2>1, <2>2, <2>3, <2>4, <2>5
<1>3. CASE Host
  <2>1. CASE Bind
    <3> PICK run : run = [epoch |-> gen.epoch, sees |-> chat, id |-> used.sends] OBVIOUS
    <3> PICK g : g = [[gen EXCEPT !.pc = "running"] EXCEPT !.run = run] OBVIOUS
    <3>1. gen' = NoGen \/ gen' = g
      <4>1. CASE gen.live /\ gen.scope /\ ~ page.block /\ TransitionValid /\ chat # << >>
        BY <2>1, <4>1 DEF Bind
      <4>2. CASE ~ (gen.live /\ gen.scope /\ ~ page.block /\ TransitionValid /\ chat # << >>)
        BY <2>1, <4>2 DEF Bind
      <4> QED BY <4>1, <4>2
    <3>2. g.pc = "running" BY <1>1 DEF GenState
    <3>3. CASE gen' = NoGen
      <4>1. gen'.pc = "idle" BY <3>3 DEF NoGen
      <4> QED BY <4>1, TextStays
    <3>4. CASE gen' = g
      <4>1. gen'.pc = "running" BY <3>2, <3>4
      <4>2. TextInv' BY <4>1 DEF TextInv
      <4> QED BY <2>1, <4>2
    <3> QED BY <3>1, <3>3, <3>4
  <2>2. CASE Start
    <3>1. CASE gen' = NoGen
      <4>1. gen'.pc = "idle" BY <3>1 DEF NoGen
      <4> QED BY <4>1, TextStays
    <3>2. CASE gen' = [gen EXCEPT !.pc = IF gen.regen THEN "regenerating" ELSE "started",
                                  !.start = chat, !.epoch = CurrentEpoch,
                                  !.live = TRUE, !.scope = TRUE,
                                  !.late = gen.late /\ ~ (Quiet /\ Durable.guard = None)]
      <4> DEFINE late == gen.late /\ ~ (Quiet /\ Durable.guard = None)
      <4> DEFINE to == IF gen.regen THEN "regenerating" ELSE "started"
      <4>1. gen' = [[[[[[gen EXCEPT !.pc = to] EXCEPT !.start = chat] EXCEPT !.epoch = CurrentEpoch]
                    EXCEPT !.live = TRUE] EXCEPT !.scope = TRUE] EXCEPT !.late = late]
        BY <3>2
      <4> HIDE DEF to, late
      <4>2. gen'.pc = to /\ gen'.text = gen.text /\ gen'.regen = gen.regen
        BY <1>1, <4>1 DEF GenState
      <4>3. gen'.pc = IF gen.regen THEN "regenerating" ELSE "started" BY <4>2 DEF to
      <4>4. gen.pc = "admitted" BY <2>2 DEF Start
      <4> QED BY <4>2, <4>3, <4>4, TextStays
    <3>3. CASE ~ gen.regen /\ Len(chat) # gen.len BY <2>2, <3>1, <3>3 DEF Start
    <3>4. CASE ~ (~ gen.regen /\ Len(chat) # gen.len)
      <4>1. gen' = [gen EXCEPT !.pc = IF gen.regen THEN "regenerating" ELSE "started",
                               !.start = chat, !.epoch = CurrentEpoch,
                               !.live = TRUE, !.scope = TRUE,
                               !.late = gen.late /\ ~ (Quiet /\ Durable.guard = None)]
        BY <2>2, <3>4 DEF Start
      <4> QED BY <3>2, <4>1
    <3> QED BY <3>3, <3>4
  <2>3. CASE UserTurn \/ RegenerationDeletes \/ Receive \/ End
    <3>1. \/ gen' = [gen EXCEPT !.pc = "sent"] \/ gen' = [gen EXCEPT !.pc = "received"]
          \/ gen' = NoGen
      BY <2>3 DEF UserTurn, RegenerationDeletes, Receive, End
    <3>2. gen'.pc \in {"sent", "received", "idle"} BY <1>1, <3>1 DEF NoGen, GenState
    <3> QED BY <3>2, TextStays
  <2> QED BY <1>3, <2>1, <2>2, <2>3 DEF Host
<1>4. CASE Coordinator BY <1>4, CoordinatorText
<1>5. CASE Companion
  <2>1. CASE \E c \in net : Truncate(c)
    <3>1. gen' = gen \/ Fail BY <2>1 DEF Truncate
    <3> QED BY <3>1, FailsText, TextStays
  <2>2. CASE \E run \in runs : CommitRun(run)
    <3>1. \/ gen' = gen \/ gen' = [gen EXCEPT !.pc = "ending"]
          \/ \E t \in Text : gen' = [[gen EXCEPT !.pc = "replied"] EXCEPT !.text = t]
      BY <2>2, Zenon DEF CommitRun
    <3>2. CASE gen' = gen \/ gen' = [gen EXCEPT !.pc = "ending"]
      <4>1. gen' = gen \/ gen'.pc = "ending" BY <1>1, <3>2 DEF GenState
      <4> QED BY <4>1, TextStays
    <3>3. CASE \E t \in Text : gen' = [[gen EXCEPT !.pc = "replied"] EXCEPT !.text = t]
      <4>1. gen'.pc = "replied" /\ gen'.text \in Text BY <1>1, <3>3 DEF GenState
      <4> QED BY <4>1 DEF TextInv
    <3> QED BY <3>1, <3>2, <3>3, Zenon
  <2> QED BY <1>5, <2>1, <2>2 DEF Companion
<1>6. CASE Faults
  <2>1. Fail \/ gen' = [gen EXCEPT !.pc = "ending"] \/ gen' = NoGen
    BY <1>6 DEF Faults, LoseAnswer, LoseReply, Reload
  <2>2. Fail \/ gen'.pc \in {"ending", "idle"} BY <1>1, <2>1 DEF NoGen, GenState
  <2> QED BY <2>2, FailsText, TextStays
<1> QED BY <1>2, <1>3, <1>4, <1>5, <1>6 DEF Next

(* The invariant holds at the start, and every step keeps it.              *)
LEMMA HistoryInit == Init => HistoryIInv /\ TextInv
<1> SUFFICES ASSUME Init PROVE HistoryIInv /\ TextInv OBVIOUS
<1> DEFINE m == [by |-> "reply", text |-> Greeting]
           empty == [i \in Index |-> None]
<1>1. /\ chat = <<m>> /\ ledger = [epoch |-> None, turns |-> empty, results |-> << >>]
      /\ net = {} /\ runs = {} /\ store = [guard |-> None, checkpoint |-> None]
      /\ mem = [guard |-> None, checkpoint |-> None, epoch |-> None] /\ disk = mem
      /\ page = [NewPage EXCEPT !.snap = chat]
      /\ queue = << >> /\ job = NoJob /\ gen = NoGen
      /\ used = [edits |-> 0, sends |-> 0, faults |-> 0, commands |-> 1]
  BY DEF Init
<1>2. m \in Message BY TextAssumption DEF Message
<1> HIDE DEF m
<1>3. chat \in Seq(Message) /\ Len(chat) = 1 /\ 1 <= MaxLen
  BY <1>1, <1>2, BoundsAssumption
<1>4. ledger.epoch = None /\ ledger.results = << >> /\ \A i \in Index : ledger.turns[i] = None
  BY <1>1
<1>5. ledger \in LedgerStates
  <2>1. empty \in [Index -> Opt(Seq(Message))] BY DEF Opt
  <2>2. << >> \in Seq([cmd : CommandState, epoch : Nat]) /\ None \in Opt(Nat) BY DEF Opt
  <2> HIDE DEF empty
  <2> QED BY <1>1, <2>1, <2>2 DEF LedgerStates
<1>6. store \in StoreState /\ mem \in MemState /\ disk \in MemState
  BY <1>1 DEF StoreState, MemState, Opt
<1>7. page \in ShownState BY <1>1, <1>3 DEF NewPage, ShownState, Opt
<1>8. used \in UsedState BY <1>1 DEF UsedState
<1>9. TurnIndices(ledger) = {} BY <1>4 DEF TurnIndices
<1>10. HistoryTypes
  <2>1. queue \in Seq(HandlerEvent) BY <1>1
  <2> QED BY <1>1, <1>3, <1>5, <1>6, <1>7, <1>8, <1>9, <2>1, EmptyTypes DEF HistoryTypes
<1>11. job.pc = "none" /\ gen.pc = "idle" /\ gen.epoch = 0 BY <1>1 DEF NoJob, NoGen
<1>12. JobInv BY <1>1 DEF JobInv
<1>13. SyncInv BY <1>1, <1>11 DEF SyncInv
<1>14. AdmissionInv /\ TextInv BY <1>11 DEF AdmissionInv, TextInv, Clear, Leaving
<1>15. EventsInv BY <1>1 DEF EventsInv, Once
<1>16. Now = 0 BY <1>4 DEF Now
<1>17. Range(ledger.results) = {} BY <1>4 DEF Range
<1>18. EpochsInv
  <2>1. Upto(None) /\ Upto(0) BY <1>16 DEF Upto
  <2> QED BY <1>1, <1>9, <1>11, <1>17, <2>1 DEF EpochsInv, EpochsOf
<1>19. CommandsInv BY <1>1, <1>11, <1>17 DEF CommandsInv
<1>20. GuardInv(store.guard) /\ GuardInv(mem.guard) /\ GuardInv(disk.guard) BY <1>1 DEF GuardInv
<1>21. PageKnows
  <2>1. Durable.guard = None /\ Durable.checkpoint = None BY <1>1 DEF Durable, Prefer
  <2>2. VerifiedEpoch = Now BY <1>1, <1>16, <2>1 DEF VerifiedEpoch, CurrentEpoch
  <2> QED BY <1>1, <2>1, <2>2 DEF PageKnows
<1> QED BY <1>10, <1>12, <1>13, <1>14, <1>15, <1>18, <1>19, <1>20, <1>21 DEF HistoryIInv, LedgerInv

LEMMA HistorySteady ==
  ASSUME HistoryIInv, TextInv, [Next]_vars
  PROVE  HistoryIInv' /\ TextInv'
<1>1. CASE UNCHANGED vars
  <2>1. UNCHANGED <<chat, ledger, net, runs, store, mem, disk, page, queue, job, gen, used, lost>>
    BY <1>1 DEF vars
  <2>2. HistoryTypes BY DEF HistoryIInv
  <2>3. HistoryTypes' BY <2>1, <2>2 DEF HistoryTypes
  <2>4. JobInv' /\ SyncInv' BY <2>1, RecordsStay
  <2>5. AdmissionInv' /\ EventsInv' BY <2>1, AdmissionStays
  <2>6. LedgerInv' BY <2>1, GenEpoch, LedgerStays
  <2>7. TextInv' BY <2>1, TextStays
  <2> QED BY <2>3, <2>4, <2>5, <2>6, <2>7 DEF HistoryIInv
<1>2. CASE Next
  <2>1. TextInv' BY <1>2, TextSteady
  <2>2. CASE User
    <3>1. CASE \E i \in 1 .. MaxLen : DeleteMessage(i) \/ \E t \in Text : EditMessage(i, t)
      BY <3>1, <2>1, EditsSteady
    <3>2. CASE \E t \in Said : Send(FALSE, t)
      <4>1. \A t \in Said : t \in Opt(Text) BY TextAssumption DEF Opt
      <4> QED BY <3>2, <4>1, <2>1, SendSteady
    <3>3. CASE Send(TRUE, None)
      <4>1. None \in Opt(Text) BY DEF Opt
      <4> QED BY <3>3, <4>1, <2>1, SendSteady
    <3>4. \/ \E i \in 1 .. MaxLen : DeleteMessage(i) \/ \E t \in Text : EditMessage(i, t)
          \/ \E t \in Said : Send(FALSE, t)
          \/ Send(TRUE, None)
      BY <2>2 DEF User
    <3> QED BY <3>1, <3>2, <3>3, <3>4
  <2>3. CASE Host
    BY <2>3, <2>1, StartSteady, UserTurnSteady, RegenerationDeletesSteady, BindSteady, ReceiveSteady,
       EndSteady DEF Host
  <2>4. CASE Coordinator
    BY <2>4, <2>1, StartedSteady, DeletedSteady, EditedSteady, ObservedSteady, ChatChangedSteady,
       GateSteady, ReceivedSteady, RegenerationSteady, EndsSteady, SavedSteady, DetectSteady,
       InspectedSteady, JudgeSteady, DetectedSteady, ResolveSteady, SettledSteady,
       ReconcileSteady DEF Coordinator
  <2>5. CASE Companion BY <2>5, <2>1, TruncateSteady, CommitSteady DEF Companion
  <2>6. CASE Faults BY <2>6, <2>1, LoseAnswerSteady, EndSteady, ReloadSteady DEF Faults
  <2> QED BY <1>2, <2>1, <2>2, <2>3, <2>4, <2>5, <2>6 DEF Next
<1> QED BY <1>1, <1>2

(* What is known of the records, the handlers, the generation and the      *)
(* ledger holds throughout, whatever the user edits and deletes while the  *)
(* handlers, the gate and the generations wait.                            *)
THEOREM HistoryInvariant == Spec => [](HistoryIInv /\ TextInv)
<1>1. Init => HistoryIInv /\ TextInv BY HistoryInit
<1>2. (HistoryIInv /\ TextInv) /\ [Next]_vars => (HistoryIInv /\ TextInv)' BY HistorySteady
<1> QED BY <1>1, <1>2, PTL DEF Spec

(* No generation leaves while a guard stands, unless the gate that let it  *)
(* through had an edit behind it, or the guard is being written by the     *)
(* handler of an edit: only the binding sends a generation, and a chat of  *)
(* the length that it gives it was changed by nothing but edits.           *)
THEOREM NoneUnderGuard == Spec => NoGenerationUnderGuard
<1> DEFINE Open == Durable.guard = None \/ gen.late \/ (job # NoJob /\ job.ev.kind = "edited")
<1>1. ASSUME HistoryIInv, TextInv, [Next]_vars, gen.pc = "sent", gen'.pc = "running"
      PROVE  Open
  <2>1. Next BY <1>1 DEF vars
  <2>2. Bind BY <1>1, <2>1, TextSteady
  <2>3. gen.live /\ gen.scope /\ ~ page.block /\ TransitionValid
    BY <1>1, <2>2 DEF Bind, NoGen
  <2>4. gen \in GenState /\ chat \in Seq(Message) BY <1>1 DEF HistoryIInv, HistoryTypes
  <2>5. Len(chat) = ExpectedLength
    <3>1. gen.start \in Seq(Message) BY <2>4 DEF GenState
    <3>2. CASE gen.regen
      <4>1. gen.start # << >> /\ chat = Front(gen.start) BY <2>3, <3>2 DEF TransitionValid
      <4> QED BY <1>1, <3>1, <3>2, <4>1 DEF ExpectedLength, Front
    <3>3. CASE ~ gen.regen
      <4>1. chat # << >> /\ Front(chat) = gen.start BY <2>3, <3>3 DEF TransitionValid
      <4> QED BY <1>1, <2>4, <3>3, <4>1 DEF ExpectedLength, Front
    <3> QED BY <3>2, <3>3
  <2>6. CASE gen.late BY <2>6
  <2>7. CASE ~ gen.late
    <3>1. Clear BY <1>1, <2>3, <2>5, <2>7 DEF Clear, Leaving, Unrevoked
    <3> QED BY <1>1, <3>1 DEF HistoryIInv, AdmissionInv, ClearInv
  <2> QED BY <2>6, <2>7
<1>2. HistoryIInv /\ TextInv /\ [Next]_vars =>
        [gen.pc = "sent" /\ gen'.pc = "running" => Open]_vars
  BY <1>1
<1>3. Spec => [](HistoryIInv /\ TextInv) BY HistoryInvariant
<1> QED BY <1>2, <1>3, PTL DEF Spec, NoGenerationUnderGuard

(* The command of the guard can still be carried out, unless it was: the   *)
(* page has known the epoch of the ledger at every command it wrote.       *)
THEOREM GuardsCommandApplies == Spec => []CommandStillApplies
<1>1. ASSUME HistoryIInv PROVE CommandStillApplies
  <2> SUFFICES ASSUME "cut" \notin lost, Durable.guard # None, Durable.guard.cmd # None
               PROVE  \/ Executed(Durable.guard.cmd)
                      \/ Durable.guard.cmd.expected
                           = IF ledger.epoch = None THEN 0 ELSE ledger.epoch
    BY DEF CommandStillApplies
  <2>1. UpToDate(Durable.guard) BY <1>1 DEF HistoryIInv, LedgerInv, PageKnows
  <2> QED BY <2>1 DEF UpToDate, Now
<1>2. HistoryIInv /\ TextInv => CommandStillApplies BY <1>1
<1>3. Spec => [](HistoryIInv /\ TextInv) BY HistoryInvariant
<1> QED BY <1>2, <1>3, PTL

(* A guard is dropped by no step but the settling of one that is answered. *)
LEMMA OnlySettlingDrops ==
  ASSUME HistoryIInv, HistoryIInv', Next, store.guard # None, store'.guard = None
  PROVE  /\ job.pc = "resolve" /\ Durable.guard # None /\ Durable.guard.cmd = None
         /\ Len(chat) = Durable.guard.release
         /\ store'.checkpoint.msgs = SubSeq(chat, 1, Durable.guard.release)
<1> DEFINE Goal == /\ job.pc = "resolve" /\ Durable.guard # None /\ Durable.guard.cmd = None
                   /\ Len(chat) = Durable.guard.release
                   /\ store'.checkpoint.msgs = SubSeq(chat, 1, Durable.guard.release)
<1>1. Durable.guard = store.guard BY DEF Durable, Prefer
<1>2. store' # store OBVIOUS
<1>3. \A c, e, n : ~ WriteCheckpoint(c, e, n) BY <1>1 DEF WriteCheckpoint
<1>4. \A a, e : ~ WriteGuard(a, e, "reconcile")
  <2> SUFFICES ASSUME NEW a, NEW e, WriteGuard(a, e, "reconcile") PROVE FALSE OBVIOUS
  <2>1. job \in JobState /\ mem \in MemState BY DEF HistoryIInv, HistoryTypes
  <2>2. store'.guard = a /\ mem'.guard = a BY <2>1 DEF WriteGuard, MemState
  <2>3. job' = [[[job EXCEPT !.pc = "saving"] EXCEPT !.next = "reconcile"] EXCEPT !.call = None]
    BY DEF WriteGuard
  <2>4. job'.pc = "saving" /\ job'.next = "reconcile" BY <2>1, <2>3 DEF JobState
  <2>5. job' # NoJob BY <2>4 DEF NoJob
  <2>6. Durable'.guard # None BY <2>4, <2>5 DEF HistoryIInv, JobInv, Place
  <2> QED BY <2>2, <2>6 DEF Durable, Prefer
<1> HIDE DEF Goal
<1>5. ~ User
  <2>1. \A i, t : ~ EditMessage(i, t) /\ ~ DeleteMessage(i)
    BY <1>2 DEF EditMessage, DeleteMessage, UserMayEdit, durable
  <2>2. \A r, t : ~ Send(r, t) BY <1>2 DEF Send, durable
  <2> QED BY <2>1, <2>2 DEF User
<1>6. ~ Host
  <2>1. ~ Start /\ ~ UserTurn /\ ~ RegenerationDeletes
    BY <1>2 DEF Start, UserTurn, RegenerationDeletes, durable
  <2>2. ~ Bind
    <3> SUFFICES ASSUME Bind PROVE FALSE OBVIOUS
    <3>1. UNCHANGED durable BY DEF Bind
    <3> QED BY <1>2, <3>1 DEF durable
  <2>3. ~ Receive /\ ~ End BY <1>2 DEF Receive, End, durable
  <2> QED BY <2>1, <2>2, <2>3 DEF Host
<1>7. ~ Companion
  <2>1. \A c : ~ Truncate(c)
    BY <1>2, <1>3, <1>4 DEF Truncate, Answered, durable
  <2>2. \A run : ~ CommitRun(run) BY <1>2, Zenon DEF CommitRun, durable
  <2> QED BY <2>1, <2>2 DEF Companion
<1>8. ~ Faults
  <2>1. ~ LoseAnswer /\ ~ LoseReply BY <1>2 DEF LoseAnswer, LoseReply, durable
  <2>2. ~ Reload
    <3> SUFFICES ASSUME Reload PROVE FALSE OBVIOUS
    <3>1. store'.guard = store.guard \/ store'.guard = Prefer(store.guard, disk.guard)
      BY DEF Reload
    <3> QED BY <3>1 DEF Prefer
  <2> QED BY <2>1, <2>2 DEF Faults
<1>9. CASE Coordinator
  <2>1. ~ (OnMessageDeleted \/ OnHostMessageEdited \/ Judge)
    BY DeletedSteady, EditedSteady, JudgeSteady DEF GuardKept
  <2>2. ~ (OnHostMessageReceived \/ Inspected)
    BY <1>2, <1>3 DEF OnHostMessageReceived, Inspected, durable
  <2>3. ~ (\/ StartHandler \/ Observed \/ OnChatChanged \/ HistoryGate \/ RegenerationTruncates
           \/ HandlerEnds \/ HandlerReturns \/ SaveMetadata \/ Detect \/ Detected
           \/ Settled \/ Reconcile)
    BY <1>2 DEF StartHandler, Observed, OnChatChanged, HistoryGate, RegenerationTruncates,
                HandlerEnds, HandlerReturns, SaveMetadata, Detect, Detected, Settled, Reconcile,
                durable
  <2>4. Resolve BY <1>9, <2>1, <2>2, <2>3 DEF Coordinator
  <2>5. \A c, r, l : ~ EnsureGuard(c, r, l, "reconcile") BY <1>2, <1>4 DEF EnsureGuard, durable
  <2>6. /\ job.pc = "resolve" /\ Durable.guard # None /\ Len(chat) = Durable.guard.release
        /\ Durable.guard.cmd = None
        /\ WriteSettled([epoch |-> Durable.guard.epoch,
                         msgs |-> SubSeq(chat, 1, Durable.guard.release)], "settled")
    BY <1>1, <1>2, <2>4, <2>5 DEF Resolve, durable
  <2>7. store'.checkpoint.msgs = SubSeq(chat, 1, Durable.guard.release) BY <2>6 DEF WriteSettled
  <2> QED BY <2>6, <2>7 DEF Goal
<1> QED BY <1>5, <1>6, <1>7, <1>8, <1>9 DEF Next, Goal

(* A guard is dropped only when the ledger holds no turn beyond the        *)
(* messages the host still shows: the ledger has been cut where the guard  *)
(* asks, and nothing can be added to it below the epoch of the cut, unless *)
(* a generation left while a guard stood.                                  *)
THEOREM SettledIsTrimmed == Spec => SettledMeansTrimmed
<1>1. ASSUME HistoryIInv, TextInv, [Next]_vars, store.guard # None, store'.guard = None,
             "early" \notin lost, NEW i \in TurnIndices(ledger)
      PROVE  i < Len(store'.checkpoint.msgs)
  <2>1. Next /\ HistoryIInv' BY <1>1, HistorySteady DEF vars
  <2> PICK g : g = Durable.guard OBVIOUS
  <2>2. /\ g # None /\ g.cmd = None /\ Len(chat) = g.release
        /\ store'.checkpoint.msgs = SubSeq(chat, 1, g.release)
    BY <1>1, <2>1, OnlySettlingDrops
  <2>3. HistoryTypes /\ GuardInv(store.guard) /\ GuardInv(mem.guard)
    BY <1>1 DEF HistoryIInv, LedgerInv
  <2>4. GuardInv(g) /\ g \in GuardState BY <2>2, <2>3, DurableIs
  <2>5. g.cutoff <= g.release /\ i < g.cutoff BY <1>1, <2>2, <2>4 DEF GuardInv, Cut
  <2>6. chat \in Seq(Message) /\ Len(chat) \in Nat BY <2>3 DEF HistoryTypes
  <2>7. Len(SubSeq(chat, 1, Len(chat))) = Len(chat) BY <2>6
  <2>8. g.cutoff \in Int /\ i \in Int BY <1>1, <2>4 DEF GuardState, TurnIndices, Index
  <2> QED BY <2>2, <2>5, <2>6, <2>7, <2>8
<1>2. HistoryIInv /\ TextInv /\ [Next]_vars =>
        [store.guard # None /\ store'.guard = None /\ "early" \notin lost =>
           \A i \in TurnIndices(ledger) : i < Len(store'.checkpoint.msgs)]_vars
  BY <1>1
<1>3. Spec => [](HistoryIInv /\ TextInv) BY HistoryInvariant
<1> QED BY <1>2, <1>3, PTL DEF Spec, SettledMeansTrimmed

=============================================================================
