---------------------------- MODULE StoryMemory ----------------------------
(***************************************************************************)
(* What the memory of a chat says, and to whom.                            *)
(*                                                                         *)
(* A turn ends with a delta of typed records, each with one piece of       *)
(* evidence from the prose (src/history/typed-turn-delta.js).  The records *)
(* of the active turns are read by three independent programs: the         *)
(* projector, which publishes them as the Dynamic World and as concept     *)
(* files (dynamic-story-projector.js), the composer, which checks that     *)
(* projection against its own reading and lays the result over the Static  *)
(* Lore to make the payload of the next generation                         *)
(* (src/runtime/continuity-composer.js with src/craft/), and the reader    *)
(* that answers the reads of the model (src/memory/).                      *)
(*                                                                         *)
(* The commit, the truncation, the publication of a projection and that of *)
(* the Static Lore are single steps: the modules RootTurn, StateHistory,   *)
(* DynamicProjection and StaticReconcile have what happens inside them.    *)
(* Left out: summaries, sources and the text of payloads, the scores of a  *)
(* search, the token budget, the lanes of cognition, relationships and     *)
(* dossiers (which are formed like that of the threads, without seats),    *)
(* the beat statistics, and the authority edits.                           *)
(***************************************************************************)
EXTENDS Naturals, FiniteSets, SequencesExt

CONSTANTS
  ByFields,   \* the coordinates (entity, domain, key), compared field by field
  ByText,     \* the same coordinates, compared by their JSON text
  Null,       \* the value null
  NoDue,      \* a thread without a deadline
  Deltas,     \* the deltas that a model may send, well formed or not
  Lores,      \* what the Static Lore may say, a sequence: first and later intakes
  MaxTurns, MaxEpochs,   \* bounds: active turns, truncations
  LaneSeats,  \* MAX_TYPED_LANE_ITEMS
  QuotaSeats, \* quota_seats of the obligation spotlight
  TopDue      \* top_k of the surfacing of overdue promises

Coordinate == ToSet(ByFields)
NoWorld == [epoch |-> 0]
NoScene == "no scene"

VARIABLES
  turns,     \* the active turns: each with the number of its candidate and its records
  epoch,     \* the branch epoch, one more after each truncation
  made,      \* how many candidates were ever committed
  lore,      \* how many intakes were published
  concepts,  \* the concept files of the story memory
  world      \* derived/dynamic-world.json, or NoWorld

vars == <<turns, epoch, made, lore, concepts, world>>

(***************************************************************************)
(* The delta.  A record of the provider names its kind, what it is about   *)
(* and how it quotes the prose; every record is checked, and the delta is  *)
(* accepted only when each of them stands.                                 *)
(***************************************************************************)

(* A published segment, or a quotation that occurs exactly once.           *)
Grounded(raw) == raw.quote \in {"segment", "once"}

(* current_state: a value is set, and unset comes without one.             *)
StateFits(raw) == raw.op \in {"set", "unset"} /\ (raw.op = "set" <=> raw.value # Null)

(* CANONICAL_TYPED_RECORD_KINDS, and the two kinds of state.               *)
StateKinds == {"current_state", "attribute_value"}
Kinds == StateKinds \cup {"character", "character_cognition", "relationship",
  "scene_event", "world_lore", "plot_thread", "scene_state"}

(* What the record is about is named as its kind wants it.                 *)
SubjectFits(raw) == raw.on # "not a reference"

(* The active scene that a scene_state names is that of this chat.         *)
SceneFits(raw) == raw.on # "the scene of another chat"

Fits(raw) ==
  /\ raw.kind \in Kinds /\ Grounded(raw) /\ SubjectFits(raw)
  /\ raw.kind = "current_state" => StateFits(raw)
  /\ raw.kind = "scene_state" => SceneFits(raw)

(* The two kinds of state become one.  An attribute is always set, even to *)
(* null.                                                                   *)
Normal(raw) ==
  [kind   |-> IF raw.kind \in StateKinds THEN "continuity_state" ELSE raw.kind,
   on     |-> raw.on,
   op     |-> IF raw.kind = "attribute_value" THEN "set" ELSE raw.op,
   value  |-> raw.value, status |-> raw.status, due |-> raw.due, cites |-> raw.cites]

(* normalizeProviderTurnRecords                                            *)
Accepted(delta) == \A j \in DOMAIN delta : Fits(delta[j])
Normalize(delta) == [j \in DOMAIN delta |-> Normal(delta[j])]

(***************************************************************************)
(* The active history: the records of the turns that stand, in order.      *)
(***************************************************************************)

RowsOf(i) ==
  [j \in DOMAIN turns[i].records |->
     [turn |-> i, id |-> <<turns[i].candidate, j>>, record |-> turns[i].records[j]]]

(* readVerifiedActiveHistory, dynamicRows: the rows up to a turn.          *)
Rows(through) ==
  FoldLeft(LAMBDA rows, i : rows \o RowsOf(i), <<>>, [i \in 1 .. through |-> i])

OfState(row) == row.record.kind = "continuity_state"
Canonical(row) == ~ OfState(row)

(* A file of the bundle: whose it is, and whether it holds a scene.        *)
Concept(row) ==
  [id |-> row.id, scene |-> row.record.kind = "scene_state",
   owner |-> IF Canonical(row) THEN "writer" ELSE "projector"]

ConceptsOf(rows) == {Concept(rows[k]) : k \in DOMAIN rows}

LoreConcept(n) == [id |-> <<0, n>>, scene |-> FALSE, owner |-> "lore"]

(***************************************************************************)
(* The projector.                                                          *)
(***************************************************************************)

(* What a state record does to a view of the current state.                *)
Applied(state, row) ==
  CASE ~ OfState(row)          -> state
    [] row.record.op = "unset" -> Restrict(state, DOMAIN state \ {row.record.on})
    [] OTHER -> [c \in DOMAIN state \cup {row.record.on} |->
                   IF c = row.record.on THEN row.record.value ELSE state[c]]

Nothing == [c \in {} |-> Null]

(* reconstructCurrentState, and the order in which it is written down.     *)
ProjectedState(rows) == FoldLeft(Applied, Nothing, rows)
InOrder(order, state) ==
  LET listed == SelectSeq(order, LAMBDA c : c \in DOMAIN state)
  IN  [k \in DOMAIN listed |-> <<listed[k], state[listed[k]]>>]

(* MUTANT of Stale: only what the projector made itself is taken away.     *)
StaleOfProjector(rows) ==
  {c \in concepts : c.owner = "projector" /\ c \notin ConceptsOf(rows)}

(* Concept files that are owned by the writer or the projector, and that   *)
(* no active record stands for.                                            *)
Stale(rows) ==
  {c \in concepts : c.owner \in {"writer", "projector"} /\ c \notin ConceptsOf(rows)}

(* plannedCanonicalBundle                                                  *)
Planned(rows) == (concepts \ Stale(rows)) \cup ConceptsOf(rows)

(* rebuild                                                                 *)
Publish(through) ==
  LET rows == Rows(through)
  IN  /\ concepts' = Planned(rows)
      /\ world' = [epoch |-> epoch, through |-> through,
                   state |-> InOrder(ByFields, ProjectedState(rows)),
                   records |-> {rows[k].id : k \in DOMAIN rows},
                   bundle |-> Planned(rows)]

(***************************************************************************)
(* The composer: its own reading of the rows, and the checks it makes      *)
(* before it trusts the projection.                                        *)
(***************************************************************************)

(* reconstructDynamicState: the last record of a coordinate decides.       *)
LastOf(rows, c) ==
  SelectLastInSeq(rows, LAMBDA row : OfState(row) /\ row.record.on = c)
Decided(rows, op) ==
  {c \in Coordinate : LastOf(rows, c) # 0 /\ rows[LastOf(rows, c)].record.op = op}

(* MUTANT of Removed: what the turns took away is forgotten.               *)
NothingRemoved(rows) == {}

Removed(rows) == Decided(rows, "unset")

(* MUTANT of ComposedState: an unset does not end what was set before it.  *)
EverSet(rows) ==
  [c \in {c \in Coordinate : \E k \in DOMAIN rows : OfState(rows[k])
            /\ rows[k].record.on = c /\ rows[k].record.op = "set"} |->
     rows[LastOf(rows, c)].record.value]

ComposedState(rows) ==
  [c \in Decided(rows, "set") |-> rows[LastOf(rows, c)].record.value]

(* overlayCurrentState                                                     *)
Overlay(static, dynamic, removed) ==
  [c \in (DOMAIN static \ removed) \cup DOMAIN dynamic |->
     IF c \in DOMAIN dynamic THEN dynamic[c] ELSE static[c]]

(* loadDynamicWorld, then the comparison with the latest turn.             *)
Refusal(visible) ==
  LET rows == Rows(world.through)
  IN  CASE world = NoWorld         -> IF visible = 0 THEN "none" ELSE "dynamic_world_required"
        [] world.epoch # epoch     -> "dynamic_world_scope_mismatch"
        [] world.through > visible -> "dynamic_world_outside_visible_boundary"
        [] \/ world.records # {rows[k].id : k \in DOMAIN rows}
           \/ world.state # InOrder(ByText, ComposedState(rows)) ->
                                      "dynamic_world_ledger_mismatch"
        [] world.bundle # concepts -> "dynamic_world_bundle_superseded"
        [] world.through < visible -> "dynamic_world_stale"
        [] OTHER                   -> "none"

Ready == lore > 0 /\ Refusal(Len(turns)) = "none"

Static == Lores[lore].state

CurrentState ==
  IF world = NoWorld THEN Static
  ELSE LET rows == Rows(world.through)
       IN  Overlay(Static, ComposedState(rows), Removed(rows))

(* activeScene: the last scene that a record states, or that of the Static *)
(* Lore, or one that is made up for a chat that never had any.             *)
SceneStatus ==
  CASE \E k \in DOMAIN Rows(Len(turns)) : Rows(Len(turns))[k].record.kind = "scene_state" ->
         "active"
    [] Lores[lore].scene -> "active"
    [] world # NoWorld /\ ~ (\E c \in concepts : c.scene) -> "bootstrap"
    [] OTHER -> "unavailable"

(***************************************************************************)
(* The lane of the obligations: what is said of the open threads, those    *)
(* that are overdue first, and the last seats for those that the prose has *)
(* been silent about for the longest.                                      *)
(***************************************************************************)

IsThread(row) == row.record.kind = "plot_thread"
ThreadsIn(rows) == {rows[k].record.on : k \in {k \in DOMAIN rows : IsThread(rows[k])}}
RowsOn(rows, thread) ==
  SelectSeq(rows, LAMBDA row : IsThread(row) /\ row.record.on = thread)

(* The record that speaks for a thread: the last one (latestTypedRows).    *)
Latest(rows, thread) == Last(RowsOn(rows, thread))
Open(rows) ==
  {t \in ThreadsIn(rows) : Latest(rows, t).record.status \notin {"resolved", "failed"}}

(* Later turns first, then by the record.                                  *)
Before(left, right) ==
  \/ left.turn > right.turn
  \/ left.turn = right.turn /\ left.id[2] < right.id[2]

ByRecency(rows) ==
  SortSeq(SetToSeq({Latest(rows, t) : t \in Open(rows)}), Before)

(* selectDuePromiseRows: the most overdue, as many as may be surfaced.     *)
Overdue(rows) ==
  {t \in Open(rows) :
     /\ Latest(rows, t).record.due # NoDue
     /\ Latest(rows, t).record.due <= Len(turns)}

MoreOverdue(left, right) ==
  \/ left.record.due < right.record.due
  \/ left.record.due = right.record.due /\ Before(left, right)

Due(rows) ==
  LET sorted == SortSeq(SetToSeq({Latest(rows, t) : t \in Overdue(rows)}), MoreOverdue)
  IN  SubSeq(sorted, 1, IF Len(sorted) < TopDue THEN Len(sorted) ELSE TopDue)

(* applyDueSurfacing                                                       *)
Surfaced(rows) ==
  Due(rows) \o SelectSeq(ByRecency(rows), LAMBDA row : row \notin ToSet(Due(rows)))

(* collectObligationDormancy: the last turn with a record of the thread,   *)
(* or with one of another kind that cites it.                              *)
LastSeen(rows, thread) ==
  LET seen == {rows[k].turn : k \in {k \in DOMAIN rows :
                 \/ IsThread(rows[k]) /\ rows[k].record.on = thread
                 \/ ~ IsThread(rows[k]) /\ rows[k].record.cites = thread}}
  IN  CHOOSE n \in seen : \A m \in seen : m <= n

LongerSilent(rows, left, right) ==
  LET l == LastSeen(rows, left.record.on)
      r == LastSeen(rows, right.record.on)
  IN  l < r \/ (l = r /\ Before(left, right))

(* MUTANT of Lane: the head may take a seat a second time.                 *)
LaneTwice(rows) ==
  LET all   == Surfaced(rows)
      seats == IF QuotaSeats < LaneSeats THEN QuotaSeats ELSE LaneSeats
      rest  == SortSeq(all, LAMBDA left, right : LongerSilent(rows, left, right))
  IN  IF Len(all) <= LaneSeats THEN all
      ELSE SubSeq(all, 1, LaneSeats - seats) \o SubSeq(rest, 1, seats)

(* applySpotlightRotation: the head keeps its order, the seats behind it   *)
(* go to the most dormant of all the others.                               *)
Lane(rows) ==
  LET all   == Surfaced(rows)
      seats == IF QuotaSeats < LaneSeats THEN QuotaSeats ELSE LaneSeats
      head  == SubSeq(all, 1, LaneSeats - seats)
      rest  == SortSeq(SelectSeq(all, LAMBDA row : row \notin ToSet(head)),
                       LAMBDA left, right : LongerSilent(rows, left, right))
  IN  IF Len(all) <= LaneSeats THEN all ELSE head \o SubSeq(rest, 1, seats)

(***************************************************************************)
(* The reader.                                                             *)
(***************************************************************************)

(* activeCurrentStateMemories: the rows are applied to the Static Lore.    *)
Readable == FoldLeft(Applied, Static, Rows(Len(turns)))

(* assertActiveCanonicalConceptFiles: neither a search nor the read of a   *)
(* concept answers while an active record has no file.                     *)
ConceptMissing ==
  LET rows == Rows(Len(turns))
  IN  \E k \in DOMAIN rows : Canonical(rows[k]) /\ Concept(rows[k]) \notin concepts

(* governedConceptPaths: the files of active records and of the present    *)
(* Static Lore; what a truncation left behind is not among them.           *)
Governed ==
  concepts \cap (ConceptsOf(SelectSeq(Rows(Len(turns)), Canonical)) \cup {LoreConcept(lore)})

(* What a search looks through, with the facet that each memory stands for *)
(* (storyCoverageFacetsForMemory): the concepts, the state, and the        *)
(* records of a state that is no longer the current one.                   *)
Memories ==
  LET rows  == Rows(Len(turns))
      told  == SelectSeq(rows, LAMBDA row : Canonical(row))
      past  == SelectSeq(rows, LAMBDA row : OfState(row) /\
                 rows[LastOf(rows, row.record.on)] # row)
      state == SelectSeq(ByText, LAMBDA c : c \in DOMAIN Readable)
  IN  <<[ref |-> LoreConcept(lore).id, facet |-> "character"]>>
      \o [k \in DOMAIN told |-> [ref |-> told[k].id, facet |-> told[k].record.kind]]
      \o [k \in DOMAIN past |-> [ref |-> past[k].id, facet |-> "none"]]
      \o [k \in DOMAIN state |-> [ref |-> <<state[k]>>, facet |-> "current_state"]]

(* What a query may make of them: scores put them into an order, and take  *)
(* away those that share no word with it.                                  *)
Rankings == {Memories, Reverse(Memories), Tail(Memories)}

Represented(found) == {m.facet : m \in found}

(* selectStoryCoverageCandidates: one memory for each facet that is asked  *)
(* for, in the order of the ranking, then the best of the rest.            *)
Best(ranking, among) ==
  CHOOSE m \in among : \A k \in DOMAIN ranking : ranking[k] = m =>
    \A l \in 1 .. k - 1 : ranking[l] \notin among

(* MUTANT of Pick: the best memory is taken, whatever its facet.           *)
PickBest(ranking, facets, found) ==
  LET others == ToSet(ranking) \ found
  IN  IF others # {} THEN found \cup {Best(ranking, others)} ELSE found

Pick(ranking, facets, found) ==
  LET others  == ToSet(ranking) \ found
      helpful == {m \in others : m.facet \in facets \ Represented(found)}
  IN  CASE helpful # {} -> found \cup {Best(ranking, helpful)}
        [] others # {}  -> found \cup {Best(ranking, others)}
        [] OTHER        -> found

Search(ranking, facets, limit) ==
  FoldLeft(LAMBDA found, seat : Pick(ranking, facets, found), {}, [i \in 1 .. limit |-> i])

(* read: a concept, a record that is not one, or a coordinate of the state.*)
ReadAnswers(ref) ==
  \/ \E c \in Governed : c.id = ref
  \/ \E k \in DOMAIN Rows(Len(turns)) :
       OfState(Rows(Len(turns))[k]) /\ Rows(Len(turns))[k].id = ref
  \/ \E c \in DOMAIN Readable : ref = <<c>>

(***************************************************************************)
(* What changes the memory.                                                *)
(***************************************************************************)

Init ==
  /\ turns = <<>> /\ epoch = 0 /\ made = 0 /\ lore = 0
  /\ concepts = {} /\ world = NoWorld

(* A turn is composed, played and committed with its delta; the writer     *)
(* puts the canonical concepts on disk.                                    *)
Commit(delta) ==
  /\ Len(turns) < MaxTurns /\ Ready
  /\ Accepted(delta)
  /\ made' = made + 1
  /\ turns' = Append(turns, [candidate |-> made + 1, records |-> Normalize(delta)])
  /\ concepts' = concepts \cup
       {[id |-> <<made + 1, j>>, scene |-> delta[j].kind = "scene_state", owner |-> "writer"] :
          j \in {j \in DOMAIN delta : delta[j].kind \notin StateKinds}}
  /\ UNCHANGED <<epoch, lore, world>>

(* The projection is rebuilt after a commit and after a truncation, and    *)
(* made when the chat is taken into care.                                  *)
Behind == IF world = NoWorld THEN TRUE ELSE world.epoch # epoch \/ world.through # Len(turns)

Rebuild ==
  /\ Behind
  /\ Publish(Len(turns))
  /\ UNCHANGED <<turns, epoch, made, lore>>

(* Turns are deleted in the host: the branch goes on in a new epoch.       *)
Truncate(cutoff) ==
  /\ epoch < MaxEpochs /\ cutoff < Len(turns)
  /\ epoch' = epoch + 1
  /\ turns' = SubSeq(turns, 1, cutoff)
  /\ UNCHANGED <<made, lore, concepts, world>>

(* An intake replaces what the Static Lore says, concepts and state.       *)
PublishLore ==
  /\ lore < Len(Lores)
  /\ lore' = lore + 1
  /\ concepts' = {c \in concepts : c.owner # "lore"} \cup {LoreConcept(lore + 1)}
  /\ UNCHANGED <<turns, epoch, made, world>>

(* The composer rebuilds a projection that is behind the Static Lore only  *)
(* where there is no turn to replay.                                       *)
RebaseAtZero ==
  /\ lore > 0 /\ world # NoWorld
  /\ Refusal(Len(turns)) = "dynamic_world_bundle_superseded"
  /\ world.through = 0
  /\ Publish(0)
  /\ UNCHANGED <<turns, epoch, made, lore>>

Next ==
  \/ \E delta \in Deltas : Commit(delta)
  \/ Rebuild \/ PublishLore \/ RebaseAtZero
  \/ \E cutoff \in 0 .. MaxTurns : Truncate(cutoff)

Spec == Init /\ [][Next]_vars

(***************************************************************************)
(* What is claimed.                                                        *)
(***************************************************************************)

(* Every number of the state is what the code could hold.                  *)
TypeOK ==
  /\ Len(turns) <= MaxTurns /\ epoch <= MaxEpochs /\ lore <= Len(Lores)
  /\ \A i \in DOMAIN turns : turns[i].candidate \in 1 .. made
  /\ \A c \in concepts : c.owner \in {"writer", "projector", "lore"}

(* The payload, which the composer makes, and the reads of the model agree *)
(* on the current state, so that what the payload defers to a read         *)
(* ("current_state_deferred_to_retrieval") reads as the payload would have *)
(* told it, and what a turn removed is in neither; a scene that was stated *)
(* and is missing, which the composer calls a fault (continuity-composer.js*)
(* :458), is never met; and once the projection has caught up every        *)
(* active record has its concept file, so that all that a search may list  *)
(* can be read (memory-reader.js:674-688).  Before that it may not: the    *)
(* rebuild of a world at turn zero takes away the files of a turn that was *)
(* committed since.                                                        *)
StateIsReadable == Ready /\ world # NoWorld => CurrentState = Readable
SceneIsNeverLost == Ready /\ world # NoWorld => SceneStatus # "unavailable"
ConceptsArePresent ==
  ~ Behind => ~ ConceptMissing /\ (lore > 0 => \A m \in ToSet(Memories) : ReadAnswers(m.ref))

(* The projection is that of the last turn and of the present Static Lore. *)
Fresh ==
  /\ world # NoWorld /\ world.epoch = epoch /\ world.through = Len(turns)
  /\ lore > 0 => LoreConcept(lore) \in world.bundle

SameOrder ==
  LET state == ProjectedState(Rows(Len(turns)))
  IN  InOrder(ByFields, state) = InOrder(ByText, state)

(* A fresh projection is trusted: the projector and the composer read the  *)
(* same history out of the same records, and the bundle that was planned   *)
(* is the one on disk.  Unless the two sort the coordinates differently.   *)
FreshWorldIsTrusted == Fresh /\ SameOrder => Refusal(Len(turns)) = "none"

(* All of it together: composer, projector, reader and files tell the same *)
(* memory, after any sequence of turns, truncations and intakes.           *)
MemoryIsWhole ==
  StateIsReadable /\ SceneIsNeverLost /\ ConceptsArePresent /\ FreshWorldIsTrusted

(* The last part without its exception: what the message of the refusal says    *)
(* ("The Dynamic World projection does not match active history.").  It    *)
(* fails: the projector compares entity, domain and key one after the      *)
(* other, the composer compares their JSON text, where the quotation mark  *)
(* that ends "hp" sorts after the underscore of "hp_max".                  *)
FreshWorldComposes == Fresh => Refusal(Len(turns)) = "none"

(* The lane has a seat for a thread that was silent for the longest, and   *)
(* for the most overdue one if not every seat is a quota seat; it names no *)
(* thread twice and leaves no seat empty while a thread waits.             *)
LaneIsFair ==
  LET rows == Rows(Len(turns))
      lane == {Lane(rows)[k].record.on : k \in DOMAIN Lane(rows)}
  IN  /\ Cardinality(lane) = Len(Lane(rows))
      /\ Cardinality(lane) =
            IF Cardinality(Open(rows)) < LaneSeats THEN Cardinality(Open(rows)) ELSE LaneSeats
      /\ QuotaSeats > 0 /\ Open(rows) # {} =>
           \E t \in lane : \A u \in Open(rows) : LastSeen(rows, t) <= LastSeen(rows, u)
      /\ QuotaSeats < LaneSeats /\ Due(rows) # <<>> => Due(rows)[1].record.on \in lane

(* A search that asks for facets finds a memory of as many of them as the  *)
(* limit allows, wherever the ranking has them.                            *)
FacetsAreRepresented ==
  lore > 0 =>
  \A ranking \in Rankings :
  \A facets \in SUBSET Represented(ToSet(ranking)), limit \in 1 .. 2 :
    Cardinality(facets \cap Represented(Search(ranking, facets, limit))) =
      IF Cardinality(facets) < limit THEN Cardinality(facets) ELSE limit

(* Where seats are few, nothing that has a claim to one is crowded out: in *)
(* the lane of the obligations as in the results of a search.              *)
NothingIsCrowdedOut == LaneIsFair /\ FacetsAreRepresented
=============================================================================
