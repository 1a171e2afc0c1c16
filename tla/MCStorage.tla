------------------------------ MODULE MCStorage ------------------------------
(* Model-checking instance of the storage and of what is read from it: how *)
(* files and ledger change together, how the lock that keeps writers apart *)
(* is taken, what a chat remembers, how a memory is handed out, and the    *)
(* installation that puts the runtime there.  Each behaviour keeps to one  *)
(* of them, chosen when it starts.                                         *)
(*                                                                         *)
(* "files": two snapshots over three files.  The runtime world is          *)
(* rewritten by both snapshots, a concept file exists only in the first,   *)
(* another only in the second, so that a transaction writes, replaces and  *)
(* removes files.                                                          *)
(* "lock": two processes, either of which may die at any point and come    *)
(* back.                                                                   *)
(* "memory": what the turns of a chat leave behind and how it is read:     *)
(* three turns out of thirteen deltas, among them some that must be refused, *)
(* one truncation, two intakes.                                            *)
(* "paging": a run that reads two memories in pages, one of which changes. *)
(* "installation": two builds, two profiles, two attempts, from a fresh    *)
(* clone or from a runtime that was installed before.                      *)
EXTENDS StagedFileTransaction, WriterLock, Provisioning, TLC

CONSTANTS
  s1, s2, runtime, bram, ada, x1, x2, w1, w2

MCProjection ==
  [s \in {s1, s2, None} |->
     CASE s = s1 -> runtime :> x1 @@ bram :> x1 @@ ada :> Absent
       [] s = s2 -> runtime :> x2 @@ bram :> Absent @@ ada :> x2
       [] OTHER  -> runtime :> Absent @@ bram :> Absent @@ ada :> Absent]

Raw(kind, on, op, value) ==
  [kind |-> kind, on |-> on, op |-> op, value |-> value, status |-> "open",
   due |-> 0, cites |-> "none", quote |-> "once"]
Thread(t, status, due) ==
  [Raw("plot_thread", t, "none", 0) EXCEPT !.status = status, !.due = due]
Event(t)  == [Raw("scene_event", "none", "none", 0) EXCEPT !.cites = t]
Scene(on) == Raw("scene_state", on, "none", 0)

MCDeltas ==
  {<<r>> : r \in {
     Raw("current_state", "hp", "unset", 0), Raw("current_state", "hp", "unset", 1),
     Raw("attribute_value", "hp_max", "none", 0),
     Thread("t1", "resolved", 0), Thread("t1", "open", 1), Thread("t3", "open", 2),
     Event("t1"), Scene("here"), Scene("the scene of another chat"),
     Thread("not a reference", "open", 0)}}
  \cup {<<Raw("current_state", "hp", "unset", 0), Raw("current_state", "hp", "set", 2)>>,
        <<Thread("t1", "open", 0), Thread("t2", "open", 0), Thread("t3", "open", 0)>>,
        <<Scene("here"), [Scene("here") EXCEPT !.quote = "absent"]>>}

VARIABLES
  shape,
  turns, epoch, made, lore, concepts, world,
  version, log, required, corrections, state, restarts

Memory == INSTANCE StoryMemory WITH
  ByFields <- <<"hp", "hp_max">>, ByText <- <<"hp_max", "hp">>,
  Null <- 0, NoDue <- 0, Deltas <- MCDeltas, MaxTurns <- 3, MaxEpochs <- 1,
  Lores <- <<[state |-> "hp" :> 9, scene |-> FALSE], [state |-> "hp_max" :> 9, scene |-> FALSE]>>,
  LaneSeats <- 2, QuotaSeats <- 1, TopDue <- 1

(* A memory of five codepoints that changes once, and one of two.          *)
Paging == INSTANCE MemoryPaging WITH
  Ref <- {"bram", "ada"}, Length <- [bram |-> <<5, 5>>, ada |-> <<2>>],
  Budgets <- {6, 9}, EnvelopeCost <- 1, EntryCost <- 1, CursorCost <- 2, OmissionCost <- 1,
  MaxReads <- 3, MaxCorrections <- 1, MaxRestarts <- 1

memoryVars == <<turns, epoch, made, lore, concepts, world>>
pagingVars == <<version, log, required, corrections, state, restarts>>
MCVars == <<vars, lockVars, memoryVars, pagingVars, provisionVars, shape>>

OfFiles(A) ==
  shape = "files" /\ A
  /\ UNCHANGED <<lockVars, memoryVars, pagingVars, provisionVars, shape>>
OfLock(A) ==
  shape = "lock" /\ A
  /\ UNCHANGED <<vars, memoryVars, pagingVars, provisionVars, shape>>
OfMemory(A) ==
  shape = "memory" /\ A
  /\ UNCHANGED <<vars, lockVars, pagingVars, provisionVars, shape>>
OfPaging(A) ==
  shape = "paging" /\ A
  /\ UNCHANGED <<vars, lockVars, memoryVars, provisionVars, shape>>
OfInstallation(A) ==
  shape = "installation" /\ A
  /\ UNCHANGED <<vars, lockVars, memoryVars, pagingVars, shape>>

MCInit ==
  /\ Init /\ LockInit /\ Memory!Init /\ Paging!Init /\ ProvisionInit
  /\ shape \in {"files", "lock", "memory", "paging", "installation"}
  /\ shape # "files" => active = None
  /\ shape # "installation" =>
       ~stub /\ clone = (CHOOSE b \in Build : TRUE)
       /\ selected = (CHOOSE p \in Profile : TRUE)

MCNext ==
  \/ OfFiles(Next) \/ OfLock(LockNext)
  \/ OfMemory(Memory!Next) \/ OfPaging(Paging!Next)
  \/ OfInstallation(ProvisionNext)

(* The fairness of the transactions, for the behaviours that keep to them. *)
MCFairness ==
  /\ WF_MCVars(OfFiles(OwnerStep))
  /\ \A w \in Writer : WF_MCVars(OfFiles(AcquireWriterLock(w) \/ AbandonExtraction(w)))

MCSpec == MCInit /\ [][MCNext]_MCVars /\ MCFairness

(* The properties of StoryMemory: payload, reads, projection and files     *)
(* tell the same memory, nothing that has a claim to a seat is crowded     *)
(* out, and the claim of the composer's refusal, which fails.              *)
MemoryIsWhole == Memory!MemoryIsWhole
FreshWorldComposes == Memory!FreshWorldComposes
NothingIsCrowdedOut == Memory!NothingIsCrowdedOut

(* The property of MemoryPaging: pages join, and a run that is taken over  *)
(* asks for the same continuations.                                        *)
ReadingGoesOn == Paging!ReadingGoesOn
==============================================================================
