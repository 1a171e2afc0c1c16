---------------------------- MODULE MemoryPaging ----------------------------
(***************************************************************************)
(* How a long memory reaches the model in pages.                           *)
(*                                                                         *)
(* memory_read answers with as much of each memory as the token budget of  *)
(* the call lets it (src/memory/bounded-memory-read.js).  A page that does *)
(* not reach the end carries a signed cursor, which names the memory, the  *)
(* offset and the hash of the memory; the kernel keeps the set of cursors  *)
(* that the next read must consume (src/harness/run-kernel.js), and a      *)
(* process that takes the run over makes that set again from the journal.  *)
(* The memory may change between two pages: an intake may publish.         *)
(*                                                                         *)
(* A text is a length, of which a page is an interval; what a result costs *)
(* is the sum of the costs below.  Left out: signature and scope (a cursor *)
(* of another run is Garbled), the other tools, the prompt.                *)
(***************************************************************************)
EXTENDS Naturals, FiniteSets, SequencesExt

CONSTANTS
  Ref,          \* the memories
  Length,       \* Length[r][v]: how long version v of a memory is; 0 versions: unavailable
  Budgets,      \* values of max_tokens
  EnvelopeCost, EntryCost, CursorCost, OmissionCost,
  MaxReads, MaxCorrections, MaxRestarts

VARIABLES
  version,      \* the version of each memory that a read finds
  log,          \* the tool events of the journal
  required,     \* requiredContinuationCursors of the process
  corrections,  \* retrievalCorrections of the process
  state,        \* "running", "failed", or "down" between two processes
  restarts

vars == <<version, log, required, corrections, state, restarts>>

(***************************************************************************)
(* Selectors: a memory from its start, or a cursor.                        *)
(***************************************************************************)

Plain(ref) == [ref |-> ref, at |-> 0, version |-> 0, cursor |-> FALSE]
Cursor(ref, at) == [ref |-> ref, at |-> at, version |-> version[ref], cursor |-> TRUE]
Garbled == [ref |-> "none", at |-> 0, version |-> 0, cursor |-> TRUE]

Cursors(pages) == {pages[k].next : k \in {k \in DOMAIN pages : pages[k].truncated}}

(* What the model has read in a result, and may give back.                 *)
Issued == UNION {Cursors(log[k].pages) : k \in DOMAIN log}
Selector == {Plain(ref) : ref \in Ref} \cup Issued \cup {Garbled}

(* bindSingleRequiredContinuation: whatever looks like a cursor is taken   *)
(* for the only one that is due.                                           *)
Bound(asked) ==
  IF Cardinality(required) = 1 /\ Len(asked) = 1 /\ asked[1].cursor
  THEN <<CHOOSE cursor \in required : TRUE>>
  ELSE asked

(***************************************************************************)
(* The result, createBoundedMemoryReadResult.                              *)
(***************************************************************************)

Available(selector) == version[selector.ref] > 0
Total(ref) == Length[ref][version[ref]]

Page(selector, end) ==
  [ref |-> selector.ref, from |-> selector.at, to |-> end,
   version |-> version[selector.ref],
   truncated |-> end < Total(selector.ref),
   next |-> Cursor(selector.ref, end)]

(* A cursor is in its entry and in the list of cursors.                    *)
PageCost(page) ==
  EntryCost + (page.to - page.from) + IF page.truncated THEN 2 * CursorCost ELSE 0

(* The search over the end of a page.  It takes the cost for monotone,     *)
(* which it is not: the page that ends a memory has no cursor.             *)
NoPage == 0
LastFitting(selector, room) ==
  LET total == Total(selector.ref)
      probe[bounds \in (0 .. total + 1) \X (0 .. total + 1)] ==
        LET low == bounds[1]  high == bounds[2]
            end == (low + high) \div 2
            fits == PageCost(Page(selector, end)) <= room
            later == probe[<<end + 1, high>>]
        IN  CASE low > high            -> [found |-> FALSE, end |-> NoPage]
              [] ~ fits /\ end = 0     -> [found |-> FALSE, end |-> NoPage]
              [] ~ fits                -> probe[<<low, end - 1>>]
              [] fits /\ later.found   -> later
              [] OTHER                 -> [found |-> TRUE, end |-> end]
      first == IF total = selector.at THEN selector.at ELSE selector.at + 1
  IN  probe[<<first, total>>]

(* One memory after another, each in the room that those before it left.   *)
(* A memory without room is listed as omitted if even that fits, and is    *)
(* the end of the call if there is no entry yet.                           *)
Include(max, result, selector) ==
  LET page == LastFitting(selector, max - result.used)
  IN  CASE result.refused \/ ~ Available(selector) -> result
        [] page.found ->
             [result EXCEPT !.pages = Append(@, Page(selector, page.end)),
                            !.used = @ + PageCost(Page(selector, page.end))]
        [] result.pages = <<>> -> [result EXCEPT !.refused = TRUE]
        [] result.used + OmissionCost <= max ->
             [result EXCEPT !.omitted = @ \cup {selector.ref}, !.used = @ + OmissionCost]
        [] OTHER -> result

Result(asked, max) ==
  FoldLeft(LAMBDA result, selector : Include(max, result, selector),
           [pages |-> <<>>, omitted |-> {}, used |-> EnvelopeCost,
            refused |-> EnvelopeCost > max],
           asked)

(* MUTANT of Stale: the hash in a cursor is not compared.                  *)
NeverStale(selector) == FALSE

Stale(selector) ==
  selector.cursor /\ Available(selector) /\ selector.version # version[selector.ref]

(* What makes the call fail, in a way that the model may correct.          *)
Refused(asked, max) ==
  CASE required # {} /\ ToSet(asked) \cap required = {}  -> TRUE
    [] Garbled \in ToSet(asked)                         -> TRUE
    [] \E selector \in ToSet(asked) : Stale(selector)   -> TRUE
    [] OTHER -> Result(asked, max).refused

(***************************************************************************)
(* The run.                                                                *)
(***************************************************************************)

(* requiredContinuationCursorsFromEvents                                   *)
Answered(due, event) ==
  IF event.rejected THEN due ELSE (due \ ToSet(event.asked)) \cup Cursors(event.pages)
RequiredFromEvents == FoldLeft(Answered, {}, log)

Rejections == Cardinality({k \in DOMAIN log : log[k].rejected})

Init ==
  /\ version = [ref \in Ref |-> 1]
  /\ log = <<>> /\ required = {} /\ corrections = 0
  /\ state = "running" /\ restarts = 0

Event(asked, pages, rejected) == [asked |-> asked, pages |-> pages, rejected |-> rejected]

(* MUTANT of Read: what the model asked for is taken off the list, instead *)
(* of what it was bound to.                                                *)
ReadAsAsked(asked, max) ==
  /\ state = "running" /\ Len(log) < MaxReads
  /\ ~ Refused(Bound(asked), max)
  /\ LET result == Result(Bound(asked), max)
     IN  /\ log' = Append(log, Event(Bound(asked), result.pages, FALSE))
         /\ required' = (required \ ToSet(asked)) \cup Cursors(result.pages)
  /\ UNCHANGED <<version, corrections, state, restarts>>

(* A read that succeeds, and its checkpoint.                               *)
Read(asked, max) ==
  /\ state = "running" /\ Len(log) < MaxReads
  /\ ~ Refused(Bound(asked), max)
  /\ LET effective == Bound(asked)
         result    == Result(effective, max)
     IN  /\ log' = Append(log, Event(effective, result.pages, FALSE))
         /\ required' = (required \ ToSet(effective)) \cup Cursors(result.pages)
  /\ UNCHANGED <<version, corrections, state, restarts>>

(* rejectCorrectableRetrieval: the model is told, up to a limit.           *)
Reject(asked, max) ==
  /\ state = "running" /\ Len(log) < MaxReads
  /\ Refused(Bound(asked), max)
  /\ log' = Append(log, Event(Bound(asked), <<>>, TRUE))
  /\ corrections' = corrections + 1
  /\ state' = IF corrections + 1 > MaxCorrections THEN "failed" ELSE state
  /\ UNCHANGED <<version, required, restarts>>

(* The process dies; the next one reads the journal.  So does a retry of a *)
(* run that failed.                                                        *)
Restart ==
  /\ restarts < MaxRestarts
  /\ restarts' = restarts + 1
  /\ state' = "down" /\ required' = {} /\ corrections' = 0
  /\ UNCHANGED <<version, log>>

Resume ==
  /\ state = "down"
  /\ state' = "running"
  /\ required' = RequiredFromEvents
  /\ corrections' = Rejections
  /\ UNCHANGED <<version, log, restarts>>

(* A memory changes under the run, or is no longer there.                  *)
Change(ref) ==
  /\ version[ref] # 0
  /\ version' = [version EXCEPT ![ref] = IF @ = Len(Length[ref]) THEN 0 ELSE @ + 1]
  /\ UNCHANGED <<log, required, corrections, state, restarts>>

Asked == {<<s>> : s \in Selector} \cup {pair \in Selector \X Selector : pair[1] # pair[2]}

Next ==
  \/ \E asked \in Asked, max \in Budgets : Read(asked, max) \/ Reject(asked, max)
  \/ Restart \/ Resume
  \/ \E ref \in Ref : Change(ref)

Spec == Init /\ [][Next]_vars

(***************************************************************************)
(* What is claimed.                                                        *)
(***************************************************************************)

AllPages == UNION {ToSet(log[k].pages) : k \in DOMAIN log}

(* The pages that the model holds join: one that does not start a memory   *)
(* goes on exactly where an earlier page of the same version ended, and    *)
(* each takes the reading further, so that following the cursors ends.     *)
PagesJoin ==
  \A k \in DOMAIN log : \A page \in ToSet(log[k].pages) :
    /\ page.from < page.to \/ page.to = Length[page.ref][page.version]
    /\ page.from > 0 => \E j \in 1 .. k - 1 : \E earlier \in ToSet(log[j].pages) :
         /\ earlier.ref = page.ref /\ earlier.version = page.version
         /\ earlier.truncated /\ earlier.to = page.from

(* The process asks for the continuations that the journal says are due,   *)
(* with the corrections that the journal counts: a run that is taken over  *)
(* goes on as it would have.                                               *)
ResumesAlike ==
  state = "running" => required = RequiredFromEvents /\ corrections = Rejections

ReadingGoesOn == PagesJoin /\ ResumesAlike

(* "memory_read_budget_too_small" says that the budget cannot fit the next *)
(* bounded memory entry.  It fails: a page that ends the memory can fit    *)
(* where every shorter one, with its cursor, does not, and the search does *)
(* not come to it.                                                         *)
RefusedOnlyIfNothingFits ==
  \A ref \in Ref, max \in Budgets :
    LET result == Result(<<Plain(ref)>>, max)
    IN  result.refused /\ Available(Plain(ref)) /\ EnvelopeCost <= max =>
          \A end \in 1 .. Total(ref) :
            EnvelopeCost + PageCost(Page(Plain(ref), end)) > max

(* Every memory that was asked for is in the result, as an entry, missing, *)
(* or omitted.  It fails: an omission that does not fit is left out.       *)
EveryRefIsAccounted ==
  \A asked \in Asked, max \in Budgets :
    LET result == Result(asked, max)
    IN  Refused(asked, max) \/ \A selector \in ToSet(asked) :
          \/ ~ Available(selector)
          \/ selector.ref \in result.omitted \cup {p.ref : p \in ToSet(result.pages)}

(* A page that was cut is due until it was continued.  It fails: a cursor  *)
(* is taken off the list although its memory was omitted from the result.  *)
CutPagesAreDue ==
  state = "running" =>
  \A k \in DOMAIN log : \A cursor \in Cursors(log[k].pages) :
    \/ cursor \in required
    \/ cursor.version # version[cursor.ref]
    \/ \E j \in DOMAIN log : \E page \in ToSet(log[j].pages) :
         page.ref = cursor.ref /\ page.from = cursor.at
=============================================================================
