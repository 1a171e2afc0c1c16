----------------------- MODULE DynamicProjectionProofs -----------------------
(* Readers see the Dynamic Story projection replaced as a whole, what      *)
(* compose accepts is the history that was asked for, and a turn that is   *)
(* told that its projection is ready finds the newest history published:   *)
(* for any numbers of composers, turns, truncations, publications and      *)
(* faults.                                                                 *)
(*                                                                         *)
(* The journal is what hides a projection that is half written, so the     *)
(* invariant says who may remove it and when: only the owner of the lock,  *)
(* and only while the world that it has validated is still whole (Covers). *)
(* That commitTurn may take its own concept file back at any time is       *)
(* harmless because no world names a turn that has not committed (Named).  *)
(* What a request has compared with the ledger stays true because the rows *)
(* up to a turn of an epoch never change (RowsOfSamePrefix).               *)
EXTENDS DynamicProjection, SequenceTheorems, TLAPS

(* The rows of RowsOf, as a function of the history it reads.              *)
Rows(h, at) == SubSeq(h[at.epoch], 1, Smaller(at.index, Len(h[at.epoch])))

(* Only turns that have committed are named by a world.                    *)
Named(w) == w.bundle.concepts \subseteq 1 .. commits

Committed ==
  /\ \A e \in Epoch : /\ RecordsOf(history[e]) \subseteq 1 .. commits
                      /\ Len(history[e]) <= commits
  /\ Named(world)
  /\ turn.phase = "sealing" => turn.record > commits
  /\ turn.created => turn.record \in Canonical

(* A plan is the one of the history that it was made for.                  *)
PlanOf(plan, at, rows) ==
  /\ plan.world.rows = rows
  /\ plan.world.bundle.concepts = RecordsOf(rows)

(* What the journal announces is its plan.                                 *)
Announced(j) ==
  j # None =>
    /\ Named(j.plan.world)
    /\ j.state = "staged" => PlanOf(j.plan, j.authority.at, j.authority.rows)

(* What a builder has in its hands.                                        *)
Carries(j) ==
  /\ Named(j.plan.world)
  /\ j.phase \in {"stage", "apply", "validate"}
       => PlanOf(j.plan, j.at, Rows(history, j.at))
  /\ j.ok => j.phase = "unlock"

(* What a reader relies on: the files are those of the world.              *)
Whole ==
  /\ world.bundle.concepts \subseteq concept
  /\ concept \ world.bundle.concepts \subseteq Canonical

(* Whoever changes files does so behind a journal, and takes it away when  *)
(* the projection is whole.                                                *)
Covers(j) ==
  /\ j.phase \in {"plan", "stage", "apply", "validate", "unstage", "finish"}
       => journal # None
  /\ j.phase \in {"unstage", "finish"} => Whole

(* The turn in the coordinator owns the job of the coordinator, and a      *)
(* composer rebuilds only turn zero.                                       *)
Owners ==
  /\ job[Turn].phase # "idle" => turn.phase = "rebuilding"
  /\ \A c \in Composer :
       /\ job[c].phase # "idle" => job[c].at.index = 0
       /\ job[c].phase # "idle" <=> request[c].phase = "rebase"

(* What the turn of the coordinator has published is its history.          *)
Readied(j) ==
  j.phase \in {"unstage", "finish"} \/ (j.phase = "unlock" /\ j.ok)
    => /\ world.rows = Rows(history, j.at)
       /\ concept = RecordsOf(Rows(history, j.at))

(* A request stays within the history that was there when it was made, and *)
(* has compared the world with it.                                         *)
Compared(q) ==
  /\ q.phase # "idle" =>
       q.at.epoch <= epoch /\ q.at.index <= Len(history[q.at.epoch])
  /\ q.phase \in {"bundle", "accepted"} =>
       /\ q.world.at.epoch = q.at.epoch
       /\ q.world.at.index <= q.at.index
       /\ q.world.rows = Rows(history, q.world.at)
  /\ q.phase = "accepted" => q.world.rows = Rows(history, q.at)

IInv ==
  /\ TypeOK /\ Committed /\ Announced(journal)
  /\ journal = None => Whole
  /\ \A b \in Builder : Carries(job[b]) /\ Covers(job[b])
  /\ Owners /\ Readied(job[Turn])
  /\ \A c \in Composer : Compared(request[c])

-----------------------------------------------------------------------------
(* Histories and the rows up to a turn.                                    *)

LEMMA HistoryIsSeq ==
  ASSUME NEW h
  PROVE  h \in History <=> h \in Seq(Record) /\ Len(h) <= MaxCommits
<1>1. ASSUME h \in History PROVE h \in Seq(Record) /\ Len(h) <= MaxCommits
  <2>1. PICK n \in 0 .. MaxCommits : h \in [1 .. n -> Record]
    BY <1>1 DEF History
  <2>2. n \in Nat /\ n <= MaxCommits
    BY BoundsAssumption
  <2>3. h = [i \in 1 .. n |-> h[i]] /\ \A i \in 1 .. n : h[i] \in Record
    BY <2>1
  <2>4. h \in Seq(Record)
    BY <2>2, <2>3, IsASeq
  <2>5. Len(h) = n
    BY <2>1, <2>2, <2>4, LenProperties
  <2> QED  BY <2>2, <2>4, <2>5
<1>2. ASSUME h \in Seq(Record), Len(h) <= MaxCommits PROVE h \in History
  <2>1. Len(h) \in 0 .. MaxCommits /\ h \in [1 .. Len(h) -> Record]
    BY <1>2, LenProperties, BoundsAssumption
  <2> QED  BY <2>1 DEF History
<1> QED  BY <1>1, <1>2

(* What a prefix of a history is.                                          *)
LEMMA PrefixIsHistory ==
  ASSUME NEW h \in History, NEW n \in 0 .. Len(h)
  PROVE  /\ SubSeq(h, 1, n) \in History /\ Len(SubSeq(h, 1, n)) = n
         /\ \A i \in 1 .. n : SubSeq(h, 1, n)[i] = h[i]
         /\ RecordsOf(SubSeq(h, 1, n)) \subseteq RecordsOf(h)
<1>1. h \in Seq(Record) /\ Len(h) \in Nat /\ Len(h) <= MaxCommits
      /\ n \in Nat /\ n <= Len(h) /\ DOMAIN h = 1 .. Len(h)
  BY HistoryIsSeq, LenProperties
<1>2. \A i \in 1 .. n : h[i] \in Record
  BY <1>1, ElementOfSeq
<1>3. /\ SubSeq(h, 1, n) \in Seq(Record) /\ Len(SubSeq(h, 1, n)) = n
      /\ \A i \in 1 .. n : SubSeq(h, 1, n)[i] = h[i]
  <2>1. /\ SubSeq(h, 1, n) \in Seq(Record)
        /\ Len(SubSeq(h, 1, n)) = IF 1 <= n THEN n - 1 + 1 ELSE 0
        /\ \A i \in 1 .. n - 1 + 1 : SubSeq(h, 1, n)[i] = h[1 + i - 1]
    BY <1>1, <1>2, SubSeqProperties
  <2> QED  BY <1>1, <2>1
<1>a. Len(SubSeq(h, 1, n)) <= MaxCommits
  BY <1>1, <1>3, BoundsAssumption
<1>4. SubSeq(h, 1, n) \in History
  BY <1>3, <1>a, HistoryIsSeq
<1>5. DOMAIN SubSeq(h, 1, n) = 1 .. n
  BY <1>3, LenProperties
<1> QED  BY <1>1, <1>3, <1>4, <1>5 DEF RecordsOf

LEMMA RowsIsHistory ==
  ASSUME NEW h \in [Epoch -> History], NEW at \in Coordinate
  PROVE  /\ Rows(h, at) \in History
         /\ Len(Rows(h, at)) = Smaller(at.index, Len(h[at.epoch]))
         /\ RecordsOf(Rows(h, at)) \subseteq RecordsOf(h[at.epoch])
<1>1. h[at.epoch] \in History /\ at.index \in Nat
  BY BoundsAssumption DEF Coordinate
<1>2. Len(h[at.epoch]) \in Nat
  BY <1>1, HistoryIsSeq, LenProperties
<1>3. Smaller(at.index, Len(h[at.epoch])) \in 0 .. Len(h[at.epoch])
  BY <1>1, <1>2 DEF Smaller
<1> QED  BY <1>1, <1>3, PrefixIsHistory DEF Rows

(* Turn zero has no rows, in every history.                                *)
LEMMA RowsAtZero ==
  ASSUME NEW h \in [Epoch -> History], NEW at \in Coordinate, at.index = 0
  PROVE  Rows(h, at) = << >>
<1>1. Len(h[at.epoch]) \in Nat
  BY HistoryIsSeq, LenProperties DEF Coordinate
<1>2. Smaller(at.index, Len(h[at.epoch])) = 0
  BY <1>1 DEF Smaller
<1> QED  BY <1>2, SubSeqEmpty DEF Rows

(* The rows up to a turn that is there do not depend on what follows it.   *)
LEMMA RowsOfSamePrefix ==
  ASSUME NEW h \in [Epoch -> History], NEW g \in [Epoch -> History],
         NEW at \in Coordinate, at.index <= Len(h[at.epoch]),
         at.index <= Len(g[at.epoch]),
         \A i \in 1 .. at.index : h[at.epoch][i] = g[at.epoch][i]
  PROVE  Rows(h, at) = Rows(g, at)
<1> DEFINE e == at.epoch
           n == at.index
<1>1. h[e] \in History /\ g[e] \in History /\ n \in Nat
  BY BoundsAssumption DEF Coordinate
<1>2. Len(h[e]) \in Nat /\ Len(g[e]) \in Nat
  BY <1>1, HistoryIsSeq, LenProperties
<1>3. Smaller(n, Len(h[e])) = n /\ Smaller(n, Len(g[e])) = n
  BY <1>1, <1>2 DEF Smaller
<1>4. n \in 0 .. Len(h[e]) /\ n \in 0 .. Len(g[e])
  BY <1>1, <1>2
<1>5. /\ SubSeq(h[e], 1, n) \in Seq(Record) /\ SubSeq(g[e], 1, n) \in Seq(Record)
      /\ Len(SubSeq(h[e], 1, n)) = n /\ Len(SubSeq(g[e], 1, n)) = n
      /\ \A i \in 1 .. n : SubSeq(h[e], 1, n)[i] = SubSeq(g[e], 1, n)[i]
  BY <1>1, <1>4, PrefixIsHistory, HistoryIsSeq
<1>6. SubSeq(h[e], 1, n) = SubSeq(g[e], 1, n)
  BY <1>5, SeqEqual
<1> QED  BY <1>3, <1>6 DEF Rows

LEMMA RowsOfAll ==
  ASSUME NEW h \in [Epoch -> History], NEW at \in Coordinate,
         at.index = Len(h[at.epoch])
  PROVE  Rows(h, at) = h[at.epoch]
<1>1. h[at.epoch] \in Seq(Record) /\ Len(h[at.epoch]) \in Nat
  BY HistoryIsSeq, LenProperties DEF Coordinate
<1>2. Smaller(at.index, Len(h[at.epoch])) = Len(h[at.epoch])
  BY <1>1 DEF Smaller
<1> QED  BY <1>1, <1>2, SubSeqFull DEF Rows

(* A turn that commits goes at the end.                                    *)
LEMMA Appended ==
  ASSUME NEW h \in History, NEW r \in Record, Len(h) < MaxCommits
  PROVE  /\ Append(h, r) \in History /\ Len(Append(h, r)) = Len(h) + 1
         /\ \A i \in 1 .. Len(h) : Append(h, r)[i] = h[i]
         /\ RecordsOf(Append(h, r)) = RecordsOf(h) \cup {r}
<1>1. h \in Seq(Record) /\ Len(h) \in Nat /\ DOMAIN h = 1 .. Len(h)
  BY HistoryIsSeq, LenProperties
<1>2. /\ Append(h, r) \in Seq(Record) /\ Len(Append(h, r)) = Len(h) + 1
      /\ \A i \in 1 .. Len(h) : Append(h, r)[i] = h[i]
      /\ Append(h, r)[Len(h) + 1] = r
  BY <1>1, AppendProperties
<1>3. DOMAIN Append(h, r) = 1 .. Len(h) + 1
  BY <1>2, LenProperties
<1>a. Len(Append(h, r)) <= MaxCommits
  BY <1>1, <1>2, BoundsAssumption
<1>4. Append(h, r) \in History
  BY <1>2, <1>a, HistoryIsSeq
<1> QED  BY <1>1, <1>2, <1>3, <1>4 DEF RecordsOf

LEMMA RowsOfIsRows ==
  \A at : RowsOf(at) = Rows(history, at)
BY DEF RowsOf, Rows

LEMMA NothingIsTyped ==
  /\ Nowhere \in Coordinate /\ NoPlan \in Plan /\ NoPlan.world \in World
  /\ NoPlan.world.bundle.concepts = {}
  /\ Resting \in Job
  /\ NoTurn \in [phase : {"idle", "sealing", "rebuilding"},
                 record : 0 .. MaxCommits, created : BOOLEAN]
  /\ NoRequest \in [phase : {"idle", "world", "bundle", "rebase", "accepted"},
                    at : Coordinate, world : World, rebased : BOOLEAN]
<1>1. Nowhere \in Coordinate
  BY BoundsAssumption DEF Nowhere, Coordinate, Epoch
<1>2. << >> \in History
  <2>1. << >> \in Seq(Record) /\ Len(<< >>) = 0
    BY EmptySeq
  <2>2. Len(<< >>) <= MaxCommits
    BY <2>1, BoundsAssumption
  <2> QED  BY <2>1, <2>2, HistoryIsSeq
<1>3. [concepts |-> {}, lore |-> 0] \in Bundle
  BY BoundsAssumption DEF Bundle
<1>4. NoPlan.world \in World /\ NoPlan.world.bundle.concepts = {}
  BY <1>1, <1>2, <1>3 DEF NoPlan, World
<1>5. NoPlan \in Plan
  BY <1>4 DEF NoPlan, Plan
<1>6. Resting \in Job
  BY <1>1, <1>5 DEF Resting, Job, Phase
<1>7. NoRequest \in [phase : {"idle", "world", "bundle", "rebase", "accepted"},
                     at : Coordinate, world : World, rebased : BOOLEAN]
  BY <1>1, <1>4 DEF NoRequest
<1> QED
  BY <1>1, <1>4, <1>5, <1>6, <1>7, BoundsAssumption DEF NoTurn

LEMMA RebuildIsTyped ==
  ASSUME NEW at \in Coordinate
  PROVE  /\ Rebuild(at) \in Job
         /\ Rebuild(at).phase = "lock" /\ Rebuild(at).at = at
         /\ Rebuild(at).plan = NoPlan /\ Rebuild(at).ok = FALSE
<1>1. Resting \in Job /\ Resting.plan = NoPlan /\ Resting.ok = FALSE
  BY NothingIsTyped DEF Resting
<1> QED  BY <1>1 DEF Rebuild, Job, Phase

LEMMA AuthorityIsTyped ==
  ASSUME TypeOK, NEW b \in Builder
  PROVE  /\ AuthorityOf(b) \in Authority
         /\ AuthorityOf(b).at = job[b].at
         /\ AuthorityOf(b).rows = Rows(history, job[b].at)
<1>1. job[b].at \in Coordinate /\ history \in [Epoch -> History]
  BY DEF TypeOK, Job
<1>2. Rows(history, job[b].at) \in History
  BY <1>1, RowsIsHistory
<1> QED  BY <1>1, <1>2, RowsOfIsRows DEF AuthorityOf, Authority

-----------------------------------------------------------------------------
(* The sorts of steps.                                                     *)

Requested == [phase : {"idle", "world", "bundle", "rebase", "accepted"},
              at : Coordinate, world : World, rebased : BOOLEAN]

(* Nobody else is past the lock.                                           *)
LEMMA OthersWait ==
  ASSUME IInv, NEW b \in Builder, lock = b, NEW a \in Builder, a # b
  PROVE  job[a].phase \in {"idle", "lock"}
<1>1. job[a].phase \in Phase /\ job[a].phase \notin Holding
  BY DEF IInv, TypeOK, Job
<1> QED  BY <1>1 DEF Phase, Holding

(* The owner of the lock works on the projection: j is its job after that. *)
LEMMA WorkKeeps ==
  ASSUME IInv, NEW b \in Builder, lock = b,
         NEW j \in Job, job' = [job EXCEPT ![b] = j],
         j.phase \in Holding, j.at = job[b].at,
         UNCHANGED <<ledger, due, lore, lock, turn, request>>,
         faults' \in 0 .. MaxFaults, stage' \in BOOLEAN,
         concept' \subseteq Record, world' \in World,
         journal' \in Journal \cup {None},
         Named(world)', Announced(journal)', Named(j.plan.world),
         j.ok => j.phase = "unlock",
         j.phase \in {"stage", "apply", "validate"}
           => PlanOf(j.plan, j.at, Rows(history, j.at)),
         j.phase \in {"plan", "stage", "apply", "validate", "unstage", "finish"}
           => journal' # None,
         journal' = None \/ j.phase \in {"unstage", "finish"} => Whole',
         b = Turn /\ (j.phase \in {"unstage", "finish"}
                       \/ (j.phase = "unlock" /\ j.ok))
           => /\ world'.rows = Rows(history, j.at)
              /\ concept' = RecordsOf(Rows(history, j.at))
  PROVE  IInv'
<1>1. /\ job \in [Builder -> Job] /\ job'[b] = j
      /\ \A a \in Builder : a # b => job'[a] = job[a]
      /\ job[b].phase \in Holding
  BY DEF IInv, TypeOK
<1>2. \A a \in Builder : a # b => job[a].phase \in {"idle", "lock"}
  BY OthersWait
<1>3. TypeOK'
  <2>1. job' \in [Builder -> Job]
    BY <1>1
  <2>2. \A a \in Builder : job'[a].phase \in Holding <=> lock' = a
    BY <1>1 DEF IInv, TypeOK
  <2> QED  BY <2>1, <2>2 DEF IInv, TypeOK, ledger
<1>4. Committed'
  BY DEF IInv, Committed, Named, ledger
<1>5. \A a \in Builder : Carries(job[a])'
  <2> TAKE a \in Builder
  <2>1. CASE a = b
    BY <1>1, <2>1 DEF Carries, Named, ledger
  <2>2. CASE a # b
    BY <1>1, <1>2, <2>2 DEF IInv, Carries, Named, ledger
  <2> QED  BY <2>1, <2>2
<1>6. \A a \in Builder : Covers(job[a])'
  <2> TAKE a \in Builder
  <2>1. CASE a = b
    BY <1>1, <2>1 DEF Covers
  <2>2. CASE a # b
    BY <1>1, <1>2, <2>2 DEF Covers
  <2> QED  BY <2>1, <2>2
<1>7. Owners'
  <2>1. job[b].phase # "idle" /\ j.phase # "idle"
    BY <1>1 DEF Holding
  <2> QED  BY <1>1, <2>1 DEF IInv, Owners, Builder, ledger
<1>8. Readied(job[Turn])'
  <2>1. Turn \in Builder
    BY DEF Builder
  <2>2. CASE b = Turn
    BY <1>1, <2>2 DEF Readied, ledger
  <2>3. CASE b # Turn
    BY <1>1, <1>2, <2>1, <2>3 DEF Readied
  <2> QED  BY <2>2, <2>3
<1>9. \A c \in Composer : Compared(request[c])'
  BY DEF IInv, Compared, ledger
<1> QED  BY <1>3, <1>4, <1>5, <1>6, <1>7, <1>8, <1>9 DEF IInv

(* A composer reads: q is its request after that.                          *)
LEMMA ReadKeeps ==
  ASSUME IInv, NEW c \in Composer,
         NEW q \in Requested, request' = [request EXCEPT ![c] = q],
         request[c].phase # "rebase", q.phase # "rebase", Compared(q),
         UNCHANGED job, OnlyReads
  PROVE  IInv'
<1>1. /\ request \in [Composer -> Requested] /\ request'[c] = q
      /\ \A d \in Composer : d # c => request'[d] = request[d]
  BY DEF IInv, TypeOK, Requested
<1>2. request' \in [Composer -> Requested]
  BY <1>1
<1>3. UNCHANGED <<history, epoch, commits, due, concept, world, lore, journal,
                  stage, lock, turn, faults>>
  BY DEF OnlyReads, ledger, files
<1>4. TypeOK'
  BY <1>2, <1>3 DEF IInv, TypeOK, Requested
<1>5. Committed' /\ Announced(journal)' /\ (journal' = None => Whole')
      /\ (\A b \in Builder : (Carries(job[b]) /\ Covers(job[b]))')
      /\ Readied(job[Turn])'
  BY <1>3 DEF IInv, Committed, Named, Announced, Whole, Carries, Covers, Readied
<1>6. Owners'
  BY <1>1, <1>3 DEF IInv, Owners
<1>7. \A d \in Composer : Compared(request[d])'
  <2> TAKE d \in Composer
  <2>1. CASE d = c
    BY <1>1, <1>3, <2>1 DEF Compared
  <2>2. CASE d # c
    BY <1>1, <1>3, <2>2 DEF IInv, Compared
  <2> QED  BY <2>1, <2>2
<1> QED  BY <1>4, <1>5, <1>6, <1>7 DEF IInv

-----------------------------------------------------------------------------
(* The steps of a rebuild.                                                 *)

LEMMA RecordsAreRecords ==
  ASSUME NEW h \in History
  PROVE  RecordsOf(h) \subseteq Record
<1>1. h \in Seq(Record) /\ DOMAIN h = 1 .. Len(h)
  BY HistoryIsSeq, LenProperties
<1> QED  BY <1>1, ElementOfSeq DEF RecordsOf

(* Whoever is past the lock holds it.                                      *)
LEMMA OwnerHolds ==
  ASSUME IInv, NEW b \in Builder
  PROVE  /\ job[b] \in Job /\ job[b].at \in Coordinate
         /\ job[b].phase \in Holding <=> lock = b
         /\ Carries(job[b]) /\ Covers(job[b])
         /\ b = Turn => Readied(job[b])
BY DEF IInv, TypeOK, Job

LEMMA ReadJournalKeeps ==
  ASSUME IInv, NEW b \in Builder, ReadJournal(b)
  PROVE  IInv'
<1> DEFINE j == [job[b] EXCEPT !.phase = "apply", !.plan = journal.plan,
                   !.writes = RecordsOf(journal.plan.world.rows),
                   !.removals = journal.plan.removals, !.again = TRUE]
<1>1. lock = b /\ job[b] \in Job
  BY OwnerHolds DEF ReadJournal, Holding
<1>2. journal \in Journal /\ journal.state = "staged"
      /\ journal.authority = AuthorityOf(b)
  BY DEF IInv, TypeOK, ReadJournal, SameAuthority
<1>3. j \in Job
  <2>1. journal.plan \in Plan /\ journal.plan.world.rows \in History
    BY <1>2 DEF Journal, Plan, World
  <2> QED  BY <1>1, <2>1, RecordsAreRecords DEF Job, Phase, Plan
<1>4. job' = [job EXCEPT ![b] = j]
  BY DEF ReadJournal, Applying, IInv, TypeOK
<1>5. /\ j.phase = "apply" /\ j.at = job[b].at /\ j.plan = journal.plan
      /\ ~ j.ok
  BY <1>1, OwnerHolds DEF Job, Carries, ReadJournal
<1>6. Named(j.plan.world) /\ PlanOf(j.plan, j.at, Rows(history, j.at))
  <2>1. /\ AuthorityOf(b).at = job[b].at
        /\ AuthorityOf(b).rows = Rows(history, job[b].at)
    BY AuthorityIsTyped DEF IInv
  <2> QED  BY <1>2, <1>5, <2>1, NoneAssumption DEF IInv, Announced
<1>7. /\ UNCHANGED <<ledger, due, lore, lock, turn, request>>
      /\ UNCHANGED <<faults, stage, concept, world, journal>>
  BY DEF ReadJournal, files
<1>8. /\ Named(world)' /\ Announced(journal)'
      /\ journal' # None /\ journal' \in Journal \cup {None}
  BY <1>2, <1>7, NoneAssumption DEF IInv, Committed, Named, Announced, ledger
<1>9. /\ faults' \in 0 .. MaxFaults /\ stage' \in BOOLEAN
      /\ concept' \subseteq Record /\ world' \in World
  BY <1>7 DEF IInv, TypeOK
<1> HIDE DEF j
<1> QED  BY <1>1, <1>3, <1>4, <1>5, <1>6, <1>7, <1>8, <1>9, WorkKeeps DEF Holding

LEMMA WriteIntentKeeps ==
  ASSUME IInv, NEW b \in Builder, WriteIntent(b)
  PROVE  IInv'
<1> DEFINE j == [job[b] EXCEPT !.phase = "plan", !.again = FALSE]
           i == [state |-> "planning", authority |-> AuthorityOf(b),
                 plan |-> NoPlan]
<1>1. lock = b /\ job[b] \in Job /\ ~ job[b].ok /\ Named(job[b].plan.world)
  BY OwnerHolds DEF WriteIntent, Holding, Carries
<1>2. j \in Job /\ job' = [job EXCEPT ![b] = j]
  BY <1>1 DEF Job, Phase, WriteIntent, IInv, TypeOK
<1>3. j.phase = "plan" /\ j.at = job[b].at /\ j.plan = job[b].plan /\ ~ j.ok
  BY <1>1 DEF Job
<1>4. journal' = i /\ i \in Journal
  BY AuthorityIsTyped, NothingIsTyped DEF WriteIntent, Journal, IInv
<1>5. UNCHANGED <<ledger, due, lore, lock, turn, request, faults, concept, world>>
      /\ stage' = FALSE
  BY DEF WriteIntent, files
<1>6. Named(world)' /\ Announced(journal)' /\ journal' # None
  BY <1>4, <1>5, NothingIsTyped, NoneAssumption
     DEF IInv, Committed, Named, Announced, ledger
<1>7. /\ faults' \in 0 .. MaxFaults /\ stage' \in BOOLEAN
      /\ concept' \subseteq Record /\ world' \in World
  BY <1>5 DEF IInv, TypeOK
<1> HIDE DEF j, i
<1> QED  BY <1>1, <1>2, <1>3, <1>4, <1>5, <1>6, <1>7, WorkKeeps DEF Holding

LEMMA BuildPlanKeeps ==
  ASSUME IInv, NEW b \in Builder, BuildPlan(b)
  PROVE  IInv'
<1> DEFINE rows == Rows(history, job[b].at)
           plan == [world |-> [at |-> job[b].at, rows |-> rows,
                               bundle |-> [concepts |-> RecordsOf(rows),
                                           lore |-> lore]],
                    removals |-> concept \ RecordsOf(rows)]
           j == [job[b] EXCEPT !.phase = "stage", !.plan = plan]
<1>1. /\ lock = b /\ job[b] \in Job /\ job[b].at \in Coordinate /\ ~ job[b].ok
      /\ journal # None
  BY OwnerHolds DEF BuildPlan, Holding, Carries, Covers
<1>2. /\ rows \in History
      /\ RecordsOf(rows) \subseteq RecordsOf(history[job[b].at.epoch])
  BY <1>1, RowsIsHistory DEF IInv, TypeOK
<1>3. RecordsOf(rows) \subseteq Record /\ RecordsOf(rows) \subseteq 1 .. commits
  BY <1>1, <1>2, RecordsAreRecords DEF IInv, Committed, Coordinate
<1>4. plan \in Plan
  BY <1>1, <1>2, <1>3 DEF Plan, World, Bundle, IInv, TypeOK
<1>5. j \in Job /\ job' = [job EXCEPT ![b] = j]
  <2>1. AuthorityOf(b).at = job[b].at /\ AuthorityOf(b).rows = rows
    BY AuthorityIsTyped DEF IInv
  <2>2. job' = [job EXCEPT ![b].phase = "stage", ![b].plan = plan]
    BY <2>1 DEF BuildPlan
  <2> QED  BY <1>1, <1>4, <2>2 DEF Job, Phase, IInv, TypeOK
<1>6. j.phase = "stage" /\ j.at = job[b].at /\ j.plan = plan /\ ~ j.ok
  BY <1>1 DEF Job
<1>7. Named(j.plan.world) /\ PlanOf(j.plan, j.at, Rows(history, j.at))
  BY <1>3, <1>6 DEF Named, PlanOf
<1>8. UNCHANGED <<ledger, due, lore, lock, turn, request, faults, stage, concept,
                  world, journal>>
  BY DEF BuildPlan, files
<1>9. Named(world)' /\ Announced(journal)'
  BY <1>8 DEF IInv, Committed, Named, Announced, ledger
<1>10. /\ faults' \in 0 .. MaxFaults /\ stage' \in BOOLEAN
       /\ concept' \subseteq Record /\ world' \in World
       /\ journal' \in Journal \cup {None}
  BY <1>8 DEF IInv, TypeOK
<1> HIDE DEF j
<1> QED
  BY <1>1, <1>5, <1>6, <1>7, <1>8, <1>9, <1>10, WorkKeeps DEF Holding

LEMMA StagePlanKeeps ==
  ASSUME IInv, NEW b \in Builder, StagePlan(b)
  PROVE  IInv'
<1> DEFINE plan == job[b].plan
           j == [job[b] EXCEPT !.phase = "apply", !.plan = plan,
                   !.writes = RecordsOf(plan.world.rows),
                   !.removals = plan.removals, !.again = FALSE]
           i == [state |-> "staged", authority |-> AuthorityOf(b), plan |-> plan]
<1>1. /\ lock = b /\ job[b] \in Job /\ ~ job[b].ok /\ Named(plan.world)
      /\ PlanOf(plan, job[b].at, Rows(history, job[b].at))
  BY OwnerHolds DEF StagePlan, Holding, Carries
<1>2. j \in Job /\ job' = [job EXCEPT ![b] = j]
  <2>1. plan \in Plan /\ plan.world.rows \in History /\ plan.removals \subseteq Record
    BY <1>1 DEF Job, Plan, World
  <2> QED
    BY <1>1, <2>1, RecordsAreRecords
       DEF StagePlan, Applying, Job, Phase, IInv, TypeOK
<1>3. j.phase = "apply" /\ j.at = job[b].at /\ j.plan = plan /\ ~ j.ok
  BY <1>1 DEF Job
<1>4. journal' = i /\ i \in Journal
  BY <1>1, AuthorityIsTyped DEF StagePlan, Journal, Job, IInv
<1>5. UNCHANGED <<ledger, due, lore, lock, turn, request, faults, concept, world>>
      /\ stage' = TRUE
  BY DEF StagePlan, files
<1>6. Named(world)' /\ Announced(journal)' /\ journal' # None
  <2>1. /\ AuthorityOf(b).at = job[b].at
        /\ AuthorityOf(b).rows = Rows(history, job[b].at)
    BY AuthorityIsTyped DEF IInv
  <2> QED
    BY <1>1, <1>4, <1>5, <2>1, NoneAssumption
       DEF IInv, Committed, Named, Announced, PlanOf, ledger
<1>7. /\ faults' \in 0 .. MaxFaults /\ stage' \in BOOLEAN
      /\ concept' \subseteq Record /\ world' \in World
  BY <1>5 DEF IInv, TypeOK
<1> HIDE DEF j, i
<1> QED  BY <1>1, <1>2, <1>3, <1>4, <1>5, <1>6, <1>7, WorkKeeps DEF Holding

LEMMA ApplyWriteKeeps ==
  ASSUME IInv, NEW b \in Builder, NEW r \in Record,
         ApplyWrite(b, r)
  PROVE  IInv'
<1> DEFINE j == [job[b] EXCEPT !.writes = @ \ {r}]
<1>1. /\ lock = b /\ job[b] \in Job /\ ~ job[b].ok /\ Named(job[b].plan.world)
      /\ journal # None /\ job[b].phase = "apply"
      /\ PlanOf(job[b].plan, job[b].at, Rows(history, job[b].at))
  BY OwnerHolds DEF ApplyWrite, Holding, Carries, Covers
<1>2. j \in Job /\ job' = [job EXCEPT ![b] = j]
  BY <1>1 DEF ApplyWrite, Job, IInv, TypeOK
<1>3. j.phase = "apply" /\ j.at = job[b].at /\ j.plan = job[b].plan /\ ~ j.ok
  BY <1>1 DEF Job
<1>4. /\ UNCHANGED <<ledger, due, lore, lock, turn, request, faults, stage, world,
                    journal>>
      /\ concept' = concept \cup {r}
  BY DEF ApplyWrite
<1>5. Named(world)' /\ Announced(journal)'
  BY <1>4 DEF IInv, Committed, Named, Announced, ledger
<1>6. /\ faults' \in 0 .. MaxFaults /\ stage' \in BOOLEAN
      /\ concept' \subseteq Record /\ world' \in World
      /\ journal' \in Journal \cup {None}
  BY <1>4 DEF IInv, TypeOK
<1> HIDE DEF j
<1> QED  BY <1>1, <1>2, <1>3, <1>4, <1>5, <1>6, WorkKeeps DEF Holding

LEMMA ApplyRemovalKeeps ==
  ASSUME IInv, NEW b \in Builder, NEW r \in Record,
         ApplyRemoval(b, r)
  PROVE  IInv'
<1> DEFINE j == [job[b] EXCEPT !.removals = @ \ {r}]
<1>1. /\ lock = b /\ job[b] \in Job /\ ~ job[b].ok /\ Named(job[b].plan.world)
      /\ journal # None /\ job[b].phase = "apply"
      /\ PlanOf(job[b].plan, job[b].at, Rows(history, job[b].at))
  BY OwnerHolds DEF ApplyRemoval, Holding, Carries, Covers
<1>2. j \in Job /\ job' = [job EXCEPT ![b] = j]
  BY <1>1 DEF ApplyRemoval, Job, IInv, TypeOK
<1>3. j.phase = "apply" /\ j.at = job[b].at /\ j.plan = job[b].plan /\ ~ j.ok
  BY <1>1 DEF Job
<1>4. /\ UNCHANGED <<ledger, due, lore, lock, turn, request, faults, stage, world,
                    journal>>
      /\ concept' = concept \ {r}
  BY DEF ApplyRemoval
<1>5. Named(world)' /\ Announced(journal)'
  BY <1>4 DEF IInv, Committed, Named, Announced, ledger
<1>6. /\ faults' \in 0 .. MaxFaults /\ stage' \in BOOLEAN
      /\ concept' \subseteq Record /\ world' \in World
      /\ journal' \in Journal \cup {None}
  BY <1>4 DEF IInv, TypeOK
<1> HIDE DEF j
<1> QED  BY <1>1, <1>2, <1>3, <1>4, <1>5, <1>6, WorkKeeps DEF Holding

(* A step that only goes on to the next phase.                             *)
LEMMA PhaseKeeps ==
  ASSUME IInv, NEW b \in Builder, lock = b,
         NEW phase \in {"intent", "unstage", "unlock"}, Goes(b, phase),
         ~ job[b].ok,
         phase = "unstage" =>
           /\ journal # None /\ Whole
           /\ b = Turn => /\ world.rows = Rows(history, job[b].at)
                          /\ concept = RecordsOf(Rows(history, job[b].at)),
         UNCHANGED <<ledger, due, files, lore, journal, stage, lock, turn, request>>,
         faults' \in 0 .. MaxFaults
  PROVE  IInv'
<1> DEFINE j == [job[b] EXCEPT !.phase = phase]
<1>1. job[b] \in Job /\ Named(job[b].plan.world)
  BY OwnerHolds DEF Carries
<1>2. j \in Job /\ job' = [job EXCEPT ![b] = j]
  BY <1>1 DEF Goes, Job, Phase, IInv, TypeOK
<1>3. j.phase = phase /\ j.at = job[b].at /\ j.plan = job[b].plan /\ ~ j.ok
  BY <1>1 DEF Job
<1>4. UNCHANGED <<concept, world, history, commits>>
  BY DEF files, ledger
<1>5. Named(world)' /\ Announced(journal)' /\ (Whole => Whole')
  BY <1>4 DEF IInv, Committed, Named, Announced, Whole
<1>6. /\ stage' \in BOOLEAN /\ concept' \subseteq Record /\ world' \in World
      /\ journal' \in Journal \cup {None} /\ (journal' = None => Whole')
  BY <1>4, <1>5 DEF IInv, TypeOK
<1> HIDE DEF j
<1> QED  BY <1>1, <1>2, <1>3, <1>4, <1>5, <1>6, WorkKeeps DEF Holding

LEMMA ApplyWorldKeeps ==
  ASSUME IInv, NEW b \in Builder, ApplyWorld(b)
  PROVE  IInv'
<1> DEFINE j == [job[b] EXCEPT !.phase = "validate"]
<1>1. /\ lock = b /\ job[b] \in Job /\ ~ job[b].ok /\ Named(job[b].plan.world)
      /\ journal # None
      /\ PlanOf(job[b].plan, job[b].at, Rows(history, job[b].at))
  BY OwnerHolds DEF ApplyWorld, Holding, Carries, Covers
<1>2. j \in Job /\ job' = [job EXCEPT ![b] = j]
  BY <1>1 DEF ApplyWorld, Goes, Job, Phase, IInv, TypeOK
<1>3. j.phase = "validate" /\ j.at = job[b].at /\ j.plan = job[b].plan /\ ~ j.ok
  BY <1>1 DEF Job
<1>4. /\ UNCHANGED <<ledger, due, lore, lock, turn, request, faults, stage,
                    concept, journal>>
      /\ world' = job[b].plan.world
  BY DEF ApplyWorld
<1>5. Named(world)' /\ Announced(journal)'
  BY <1>1, <1>4 DEF IInv, Named, Announced, ledger
<1>6. /\ faults' \in 0 .. MaxFaults /\ stage' \in BOOLEAN
      /\ concept' \subseteq Record /\ world' \in World
      /\ journal' \in Journal \cup {None}
  BY <1>1, <1>4 DEF IInv, TypeOK, Job, Plan
<1> HIDE DEF j
<1> QED  BY <1>1, <1>2, <1>3, <1>4, <1>5, <1>6, WorkKeeps DEF Holding

LEMMA ValidateKeeps ==
  ASSUME IInv, NEW b \in Builder, Validate(b)
  PROVE  IInv'
<1>1. /\ lock = b /\ ~ job[b].ok /\ journal # None
      /\ PlanOf(job[b].plan, job[b].at, Rows(history, job[b].at))
  BY OwnerHolds DEF Validate, Holding, Carries, Covers
<1>2. /\ world = job[b].plan.world
      /\ concept = job[b].plan.world.bundle.concepts
  BY DEF Validate, Published, CurrentBundle
<1>3. Whole
  BY <1>2 DEF Whole
<1>4. /\ world.rows = Rows(history, job[b].at)
      /\ concept = RecordsOf(Rows(history, job[b].at))
  BY <1>1, <1>2 DEF PlanOf
<1>5. faults' \in 0 .. MaxFaults
  BY DEF Validate, IInv, TypeOK
<1> QED  BY <1>1, <1>3, <1>4, <1>5, PhaseKeeps DEF Validate

LEMMA ValidationFailsKeeps ==
  ASSUME IInv, NEW b \in Builder, ValidationFails(b)
  PROVE  IInv'
<1>1. lock = b /\ ~ job[b].ok
  BY OwnerHolds DEF ValidationFails, Holding, Carries
<1>2. faults' \in 0 .. MaxFaults
  BY DEF ValidationFails, IInv, TypeOK
<1>3. AfterError(b) \in {"intent", "unlock"}
  BY DEF AfterError
<1> QED  BY <1>1, <1>2, <1>3, PhaseKeeps DEF ValidationFails

LEMMA StepFailsKeeps ==
  ASSUME IInv, NEW b \in Builder, StepFails(b)
  PROVE  IInv'
<1>1. lock = b /\ ~ job[b].ok
  BY OwnerHolds DEF StepFails, Holding, Carries
<1>2. faults' \in 0 .. MaxFaults
  BY BoundsAssumption DEF StepFails, IInv, TypeOK
<1>3. AfterError(b) \in {"intent", "unlock"}
  BY DEF AfterError
<1> QED  BY <1>1, <1>2, <1>3, PhaseKeeps DEF StepFails

LEMMA RemoveStageKeeps ==
  ASSUME IInv, NEW b \in Builder, RemoveStage(b)
  PROVE  IInv'
<1> DEFINE j == [job[b] EXCEPT !.phase = "finish", !.plan = NoPlan]
<1>1. /\ lock = b /\ job[b] \in Job /\ ~ job[b].ok /\ journal # None /\ Whole
      /\ b = Turn => /\ world.rows = Rows(history, job[b].at)
                     /\ concept = RecordsOf(Rows(history, job[b].at))
  BY OwnerHolds DEF RemoveStage, Holding, Carries, Covers, Readied
<1>2. j \in Job /\ job' = [job EXCEPT ![b] = j]
  BY <1>1, NothingIsTyped DEF RemoveStage, Job, Phase, IInv, TypeOK
<1>3. j.phase = "finish" /\ j.at = job[b].at /\ j.plan = NoPlan /\ ~ j.ok
  BY <1>1 DEF Job
<1>4. UNCHANGED <<ledger, due, lore, lock, turn, request, faults, concept, world,
                  journal>>
      /\ stage' = FALSE
  BY DEF RemoveStage, files
<1>5. Named(world)' /\ Announced(journal)' /\ Named(j.plan.world) /\ Whole'
  BY <1>1, <1>3, <1>4, NothingIsTyped
     DEF IInv, Committed, Named, Announced, Whole, ledger
<1>6. /\ faults' \in 0 .. MaxFaults /\ stage' \in BOOLEAN
      /\ concept' \subseteq Record /\ world' \in World
      /\ journal' \in Journal \cup {None}
  BY <1>4 DEF IInv, TypeOK
<1> HIDE DEF j
<1> QED  BY <1>1, <1>2, <1>3, <1>4, <1>5, <1>6, WorkKeeps DEF Holding

LEMMA RemoveJournalKeeps ==
  ASSUME IInv, NEW b \in Builder, RemoveJournal(b)
  PROVE  IInv'
<1> DEFINE j == [job[b] EXCEPT !.phase = "unlock", !.ok = TRUE]
<1>1. /\ lock = b /\ job[b] \in Job /\ Named(job[b].plan.world) /\ Whole
      /\ b = Turn => /\ world.rows = Rows(history, job[b].at)
                     /\ concept = RecordsOf(Rows(history, job[b].at))
  BY OwnerHolds DEF RemoveJournal, Holding, Carries, Covers, Readied
<1>2. j \in Job /\ job' = [job EXCEPT ![b] = j]
  BY <1>1 DEF RemoveJournal, Job, Phase, IInv, TypeOK
<1>3. j.phase = "unlock" /\ j.at = job[b].at /\ j.plan = job[b].plan
  BY <1>1 DEF Job
<1>4. UNCHANGED <<ledger, due, lore, lock, turn, request, faults, concept, world,
                  stage>>
      /\ journal' = None
  BY DEF RemoveJournal, files
<1>5. Named(world)' /\ Announced(journal)' /\ Whole'
  BY <1>1, <1>4 DEF IInv, Committed, Named, Announced, Whole, ledger
<1>6. /\ faults' \in 0 .. MaxFaults /\ stage' \in BOOLEAN
      /\ concept' \subseteq Record /\ world' \in World
      /\ journal' \in Journal \cup {None}
  BY <1>4 DEF IInv, TypeOK
<1> HIDE DEF j
<1> QED  BY <1>1, <1>2, <1>3, <1>4, <1>5, <1>6, WorkKeeps DEF Holding

(* The lock is taken: nobody had it.                                       *)
LEMMA AcquireWriterLockKeeps ==
  ASSUME IInv, NEW b \in Builder, AcquireWriterLock(b)
  PROVE  IInv'
<1> DEFINE j == [job[b] EXCEPT !.phase = "open"]
<1>1. /\ job[b] \in Job /\ Carries(job[b]) /\ job[b].phase = "lock"
      /\ job' = [job EXCEPT ![b] = j] /\ lock' = b
      /\ UNCHANGED <<ledger, due, files, lore, journal, stage, turn, request,
                    faults>>
  BY OwnerHolds DEF AcquireWriterLock, Goes, IInv, TypeOK
<1>2. /\ j \in Job /\ j.phase = "open" /\ j.at = job[b].at
      /\ j.plan = job[b].plan /\ ~ j.ok
  BY <1>1 DEF Job, Phase, Carries
<1> HIDE DEF j
<1>3. \A a \in Builder : job[a].phase \notin Holding /\ job[a].phase \in Phase
  BY NamesAssumption DEF AcquireWriterLock, Available, IInv, TypeOK, Job
<1>4. job'[b] = j /\ \A a \in Builder : a # b => job'[a] = job[a]
  BY <1>1 DEF IInv, TypeOK
<1>5. TypeOK'
  <2>1. job' \in [Builder -> Job]
    BY <1>1, <1>2 DEF IInv, TypeOK
  <2>2. \A a \in Builder : job'[a].phase \in Holding <=> lock' = a
    BY <1>1, <1>2, <1>3, <1>4 DEF Holding
  <2> QED  BY <1>1, <2>1, <2>2 DEF IInv, TypeOK, ledger, files
<1>6. Committed' /\ Announced(journal)' /\ (journal' = None => Whole')
  BY <1>1 DEF IInv, Committed, Announced, Named, Whole, ledger, files
<1>7. \A a \in Builder : (Carries(job[a]) /\ Covers(job[a]))'
  <2> TAKE a \in Builder
  <2>1. CASE a = b
    BY <1>1, <1>2, <1>4, <2>1 DEF Carries, Covers, Named, ledger
  <2>2. CASE a # b
    BY <1>1, <1>3, <1>4, <2>2
       DEF IInv, Carries, Covers, Named, Whole, ledger, files
  <2> QED  BY <2>1, <2>2
<1>8. Owners'
  BY <1>1, <1>2, <1>4 DEF IInv, Owners, Builder
<1>9. Readied(job[Turn])'
  <2>1. Turn \in Builder
    BY DEF Builder
  <2> QED
    BY <1>2, <1>3, <1>4, <2>1 DEF Readied, Holding
<1>10. \A c \in Composer : Compared(request[c])'
  BY <1>1 DEF IInv, Compared, ledger
<1> QED  BY <1>5, <1>6, <1>7, <1>8, <1>9, <1>10 DEF IInv

(* The job is over and its caller hears of it.                             *)
LEMMA RestKeeps ==
  ASSUME IInv, NEW b \in Builder, job[b].phase # "idle",
         job' = [job EXCEPT ![b] = Resting],
         NEW ok \in BOOLEAN, Return(b, ok),
         UNCHANGED <<ledger, files, lore, journal, stage, faults>>,
         lock' \in Builder \cup {"dead", None}, lock' # b,
         \A a \in Builder : a # b => (lock' = a <=> lock = a)
  PROVE  IInv'
<1>1. job'[b] = Resting /\ \A a \in Builder : a # b => job'[a] = job[a]
  BY DEF IInv, TypeOK
<1>2. Resting \in Job /\ Resting.phase = "idle" /\ ~ Resting.ok
      /\ Named(Resting.plan.world)
  BY NothingIsTyped DEF Resting, Named
<1>3. /\ turn' \in [phase : {"idle", "sealing", "rebuilding"},
                    record : 0 .. MaxCommits, created : BOOLEAN]
      /\ due' \subseteq Coordinate
      /\ turn' = turn \/ turn' = NoTurn
      /\ b # Turn => turn' = turn
  BY NothingIsTyped DEF Return, IInv, TypeOK
<1>4. b # Turn => b \in Composer /\ request[b].phase = "rebase"
  BY DEF Builder, IInv, Owners
<1>5. request \in [Composer -> Requested]
  BY DEF IInv, TypeOK, Requested
<1>6. ASSUME NEW c \in Composer
      PROVE  /\ request'[c] \in Requested
             /\ c # b => request'[c] = request[c]
             /\ c = b => /\ request'[c].phase \in {"idle", "world"}
                         /\ request'[c].at = request[c].at
                              \/ request'[c].phase = "idle"
  <2>1. CASE b = Turn
    BY <1>5, <2>1, NamesAssumption DEF Return
  <2>2. CASE b # Turn /\ c # b
    BY <1>5, <2>2 DEF Return
  <2>3. CASE b # Turn /\ c = b
    <3>1. request[c] \in Requested
      BY <1>5
    <3>2. request'[c] = IF ok
                        THEN [request[c] EXCEPT !.phase = "world",
                                                !.world = NoPlan.world,
                                                !.rebased = TRUE]
                        ELSE NoRequest
      BY <1>5, <2>3 DEF Return
    <3>3. NoRequest \in Requested /\ NoRequest.phase = "idle"
      BY NothingIsTyped DEF NoRequest, Requested
    <3>4. CASE ok
      <4> DEFINE q == [request[c] EXCEPT !.phase = "world",
                                         !.world = NoPlan.world,
                                         !.rebased = TRUE]
      <4>1. q \in Requested /\ q.phase = "world" /\ q.at = request[c].at
        BY <3>1, NothingIsTyped DEF Requested
      <4>2. request'[c] = q
        BY <3>2, <3>4
      <4> HIDE DEF q
      <4> QED  BY <2>3, <4>1, <4>2
    <3>5. CASE ~ ok
      BY <2>3, <3>2, <3>3, <3>5
    <3> QED  BY <3>4, <3>5
  <2> QED  BY <2>1, <2>2, <2>3
<1>7. TypeOK'
  <2>1. job' \in [Builder -> Job]
    BY <1>1, <1>2 DEF IInv, TypeOK
  <2>2. \A a \in Builder : job'[a].phase \in Holding <=> lock' = a
    BY <1>1, <1>2 DEF IInv, TypeOK, Holding
  <2>3. request' \in [Composer -> Requested]
    <3>1. \/ request' = request
          \/ \E x : request' = [request EXCEPT ![b] = x]
      BY DEF Return
    <3>2. request' = [c \in Composer |-> request'[c]]
      BY <1>5, <3>1
    <3> QED  BY <1>6, <3>2
  <2> QED
    BY <1>3, <2>1, <2>2, <2>3 DEF IInv, TypeOK, ledger, files, Requested
<1>8. Committed' /\ Announced(journal)' /\ (journal' = None => Whole')
  BY <1>3 DEF IInv, Committed, Announced, Named, Whole, NoTurn, ledger, files
<1>9. \A a \in Builder : (Carries(job[a]) /\ Covers(job[a]))'
  <2> TAKE a \in Builder
  <2>1. CASE a = b
    BY <1>1, <1>2, <2>1 DEF Carries, Covers, Named, ledger
  <2>2. CASE a # b
    BY <1>1, <2>2 DEF IInv, Carries, Covers, Named, Whole, ledger, files
  <2> QED  BY <2>1, <2>2
<1>10. Owners'
  <2>1. job'[Turn].phase # "idle" => turn'.phase = "rebuilding"
    <3>1. CASE b = Turn
      BY <1>1, <1>2, <3>1
    <3>2. CASE b # Turn
      BY <1>1, <1>3, <3>2 DEF IInv, Owners, Builder
    <3> QED  BY <3>1, <3>2
  <2>2. ASSUME NEW c \in Composer
        PROVE  /\ job'[c].phase # "idle" => job'[c].at.index = 0
               /\ job'[c].phase # "idle" <=> request'[c].phase = "rebase"
    <3>1. CASE c = b
      BY <1>1, <1>2, <1>6, <3>1
    <3>2. CASE c # b
      BY <1>1, <1>6, <3>2 DEF IInv, Owners, Builder
    <3> QED  BY <3>1, <3>2
  <2> QED  BY <2>1, <2>2 DEF Owners
<1>11. Readied(job[Turn])'
  <2>1. CASE b = Turn
    BY <1>1, <1>2, <2>1 DEF Readied
  <2>2. CASE b # Turn
    BY <1>1, <2>2 DEF IInv, Readied, Builder, ledger, files
  <2> QED  BY <2>1, <2>2
<1>12. \A c \in Composer : Compared(request[c])'
  <2> TAKE c \in Composer
  <2>1. CASE c = b
    BY <1>4, <1>6, <2>1, NamesAssumption DEF IInv, Compared, ledger
  <2>2. CASE c # b
    BY <1>6, <2>2 DEF IInv, Compared, ledger
  <2> QED  BY <2>1, <2>2
<1> QED  BY <1>7, <1>8, <1>9, <1>10, <1>11, <1>12 DEF IInv

LEMMA RefusedByLockKeeps ==
  ASSUME IInv, NEW b \in Builder, RefusedByLock(b)
  PROVE  IInv'
<1>1. lock # b /\ job[b].phase # "idle"
  BY OwnerHolds DEF RefusedByLock, Holding
<1>2. lock' = lock /\ lock' \in Builder \cup {"dead", None}
  BY DEF RefusedByLock, IInv, TypeOK
<1> QED  BY <1>1, <1>2, RestKeeps DEF RefusedByLock

LEMMA ReleaseKeeps ==
  ASSUME IInv, NEW b \in Builder, Release(b)
  PROVE  IInv'
<1>1. lock = b /\ job[b].phase # "idle" /\ job[b].ok \in BOOLEAN
  BY OwnerHolds DEF Release, Holding, Job
<1>2. lock' = None /\ lock' # b
      /\ \A a \in Builder : a # b => (lock' = a <=> lock = a)
  BY <1>1, NamesAssumption DEF Release
<1> QED  BY <1>1, <1>2, RestKeeps DEF Release

LEMMA RebuildKeeps ==
  ASSUME IInv, NEW b \in Builder, RebuildStep(b) \/ StepFails(b)
  PROVE  IInv'
BY AcquireWriterLockKeeps, RefusedByLockKeeps, ReadJournalKeeps,
   WriteIntentKeeps, BuildPlanKeeps, StagePlanKeeps, ApplyWriteKeeps,
   ApplyRemovalKeeps, ApplyWorldKeeps, ValidateKeeps, ValidationFailsKeeps,
   StepFailsKeeps, RemoveStageKeeps, RemoveJournalKeeps, ReleaseKeeps
   DEF RebuildStep

-----------------------------------------------------------------------------
(* The turns of the coordinator.                                           *)

(* Files are written beside the projection.                                *)
LEMMA BesideKeeps ==
  ASSUME IInv, job[Turn].phase = "idle",
         UNCHANGED <<ledger, due, world, lore, journal, stage, lock, job, request>>,
         turn' \in [phase : {"idle", "sealing", "rebuilding"},
                    record : 0 .. MaxCommits, created : BOOLEAN],
         turn'.phase = "sealing" => turn'.record > commits,
         turn'.created => turn'.record \in Canonical,
         concept' \subseteq Record, Whole => Whole',
         faults' \in 0 .. MaxFaults
  PROVE  IInv'
<1>1. TypeOK'
  BY DEF IInv, TypeOK, ledger
<1>2. Committed' /\ Announced(journal)' /\ (journal' = None => Whole')
  BY DEF IInv, Committed, Announced, Named, ledger
<1>3. \A a \in Builder : (Carries(job[a]) /\ Covers(job[a]))'
  BY DEF IInv, Carries, Covers, Named, ledger
<1>4. Owners' /\ Readied(job[Turn])'
  BY DEF IInv, Owners, Readied
<1>5. \A c \in Composer : Compared(request[c])'
  BY DEF IInv, Compared, ledger
<1> QED  BY <1>1, <1>2, <1>3, <1>4, <1>5 DEF IInv

LEMMA WriteConceptKeeps ==
  ASSUME IInv, NEW r \in commits + 1 .. MaxCommits, WriteConcept(r)
  PROVE  IInv'
<1>1. r \in Record /\ r > commits /\ r \in 0 .. MaxCommits
  BY BoundsAssumption DEF IInv, TypeOK, Record
<1>2. job[Turn].phase = "idle"
  BY DEF WriteConcept, IInv, Owners
<1>3. /\ turn' \in [phase : {"idle", "sealing", "rebuilding"},
                    record : 0 .. MaxCommits, created : BOOLEAN]
      /\ turn'.phase = "sealing" /\ turn'.record = r
      /\ turn'.created => r \in Canonical
  <2> DEFINE created == r \in Canonical /\ r \notin concept
  <2>1. created \in BOOLEAN /\ (created => r \in Canonical)
    OBVIOUS
  <2>2. turn' = [phase |-> "sealing", record |-> r, created |-> created]
    BY DEF WriteConcept
  <2> HIDE DEF created
  <2> QED  BY <1>1, <2>1, <2>2
<1>4. concept' \subseteq Record /\ (Whole => Whole')
  BY <1>1 DEF WriteConcept, Whole, IInv, TypeOK
<1>5. faults' \in 0 .. MaxFaults
  BY DEF WriteConcept, IInv, TypeOK
<1> QED
  BY <1>1, <1>2, <1>3, <1>4, <1>5, BesideKeeps DEF WriteConcept

LEMMA CommitFailsKeeps ==
  ASSUME IInv, CommitFails
  PROVE  IInv'
<1>1. job[Turn].phase = "idle" /\ turn.record > commits
  BY DEF CommitFails, IInv, Owners, Committed
<1>2. turn' = NoTurn
  BY DEF CommitFails
<1>3. concept' \subseteq Record /\ (Whole => Whole')
  <2>1. turn.record \notin world.bundle.concepts
    BY <1>1 DEF IInv, Committed, Named, TypeOK
  <2> QED  BY <2>1 DEF CommitFails, Whole, IInv, TypeOK
<1>4. faults' \in 0 .. MaxFaults
  BY BoundsAssumption DEF CommitFails, IInv, TypeOK
<1> QED
  BY <1>1, <1>2, <1>3, <1>4, NothingIsTyped, BesideKeeps DEF CommitFails, NoTurn

LEMMA PublishLoreKeeps ==
  ASSUME IInv, PublishLore
  PROVE  IInv'
<1>1. lore' \in 0 .. MaxLore
  BY BoundsAssumption DEF PublishLore, IInv, TypeOK
<1>2. UNCHANGED <<ledger, due, files, journal, stage, lock, turn, job, request,
                  faults>>
  BY DEF PublishLore
<1>3. TypeOK'
  BY <1>1, <1>2 DEF IInv, TypeOK, ledger, files
<1>4. Committed' /\ Announced(journal)' /\ (journal' = None => Whole')
  BY <1>2 DEF IInv, Committed, Announced, Named, Whole, ledger, files
<1>5. \A a \in Builder : (Carries(job[a]) /\ Covers(job[a]))'
  BY <1>2 DEF IInv, Carries, Covers, Named, Whole, ledger, files
<1>6. Owners' /\ Readied(job[Turn])'
  BY <1>2 DEF IInv, Owners, Readied, ledger, files
<1>7. \A c \in Composer : Compared(request[c])'
  BY <1>2 DEF IInv, Compared, ledger
<1> QED  BY <1>3, <1>4, <1>5, <1>6, <1>7 DEF IInv

(* The coordinator starts a rebuild at a coordinate, after a change of the *)
(* ledger that keeps the rows of every turn that was there.                *)
LEMMA TurnKeeps ==
  ASSUME IInv, job[Turn].phase = "idle",
         NEW at \in Coordinate, job' = [job EXCEPT ![Turn] = Rebuild(at)],
         turn' \in [phase : {"rebuilding"}, record : 0 .. MaxCommits,
                    created : BOOLEAN],
         turn'.created => turn'.record \in Canonical,
         due' \subseteq Coordinate,
         history' \in [Epoch -> History], epoch' \in Epoch, epoch <= epoch',
         commits' \in 0 .. MaxCommits, commits <= commits',
         \A e \in Epoch : /\ RecordsOf(history'[e]) \subseteq 1 .. commits'
                          /\ Len(history'[e]) <= commits',
         \A c \in Coordinate :
           c.epoch <= epoch /\ c.index <= Len(history[c.epoch])
             => /\ c.index <= Len(history'[c.epoch])
                /\ Rows(history', c) = Rows(history, c),
         UNCHANGED <<files, lore, journal, stage, lock, request, faults>>
  PROVE  IInv'
<1>1. Turn \in Builder /\ Turn \notin Composer
  BY NamesAssumption DEF Builder
<1>2. job'[Turn] = Rebuild(at) /\ \A a \in Builder : a # Turn => job'[a] = job[a]
  BY <1>1 DEF IInv, TypeOK
<1>3. /\ Rebuild(at) \in Job /\ Rebuild(at).phase = "lock"
      /\ ~ Rebuild(at).ok /\ Rebuild(at).plan = NoPlan
  BY RebuildIsTyped
<1>4. 1 .. commits \subseteq 1 .. commits'
  BY DEF IInv, TypeOK
<1>5. TypeOK'
  <2>1. job' \in [Builder -> Job]
    BY <1>2, <1>3 DEF IInv, TypeOK
  <2>2. \A a \in Builder : job'[a].phase \in Holding <=> lock' = a
    BY <1>2, <1>3 DEF IInv, TypeOK, Holding
  <2>3. turn' \in [phase : {"idle", "sealing", "rebuilding"},
                   record : 0 .. MaxCommits, created : BOOLEAN]
    OBVIOUS
  <2> QED  BY <2>1, <2>2, <2>3 DEF IInv, TypeOK, files
<1>6. Committed' /\ Announced(journal)' /\ (journal' = None => Whole')
  BY <1>4 DEF IInv, Committed, Announced, Named, Whole, files
<1>7. \A a \in Builder : (Carries(job[a]) /\ Covers(job[a]))'
  <2> TAKE a \in Builder
  <2>1. CASE a = Turn
    BY <1>2, <1>3, <2>1, NothingIsTyped DEF Carries, Covers, Named
  <2>2. CASE a # Turn
    <3>1. job[a].phase # "idle" => job[a].at.index = 0
      BY <2>2 DEF Builder, IInv, Owners
    <3>2. job[a].at \in Coordinate
      BY OwnerHolds
    <3>3. job[a].phase # "idle"
            => Rows(history', job[a].at) = Rows(history, job[a].at)
      BY <3>1, <3>2, RowsAtZero DEF IInv, TypeOK
    <3> QED
      BY <1>2, <1>4, <2>2, <3>3
         DEF IInv, Carries, Covers, Named, Whole, files
  <2> QED  BY <2>1, <2>2
<1>8. Owners'
  BY <1>1, <1>2 DEF IInv, Owners, Builder
<1>9. Readied(job[Turn])'
  BY <1>2, <1>3 DEF Readied
<1>10. \A c \in Composer : Compared(request[c])'
  <2> TAKE c \in Composer
  <2>1. Compared(request[c]) /\ request'[c] = request[c]
    BY DEF IInv
  <2>2. request[c].at \in Coordinate /\ request[c].world.at \in Coordinate
    BY DEF IInv, TypeOK, World
  <2>3. request[c].phase # "idle" =>
          /\ request[c].at.epoch <= epoch'
          /\ request[c].at.index <= Len(history'[request[c].at.epoch])
          /\ Rows(history', request[c].at) = Rows(history, request[c].at)
    <3>1. /\ request[c].at.epoch \in Nat /\ epoch \in Nat /\ epoch' \in Nat
      BY <2>2, BoundsAssumption DEF Coordinate, Epoch, IInv, TypeOK
    <3>2. request[c].phase # "idle" =>
            /\ request[c].at.epoch <= epoch
            /\ request[c].at.index <= Len(history[request[c].at.epoch])
      BY <2>1 DEF Compared
    <3>3. request[c].at.epoch <= epoch => request[c].at.epoch <= epoch'
      BY <3>1
    <3> QED  BY <2>2, <3>2, <3>3, Zenon
  <2>4. request[c].phase \in {"bundle", "accepted"} =>
          Rows(history', request[c].world.at) = Rows(history, request[c].world.at)
    <3>1. ASSUME request[c].phase \in {"bundle", "accepted"}
          PROVE  /\ request[c].world.at.epoch <= epoch
                 /\ request[c].world.at.index
                      <= Len(history[request[c].world.at.epoch])
      <4>1. Len(history[request[c].at.epoch]) \in Nat
        BY <2>2, HistoryIsSeq, LenProperties DEF Coordinate, IInv, TypeOK
      <4>2. request[c].at.index \in Nat /\ request[c].world.at.index \in Nat
        BY <2>2, BoundsAssumption DEF Coordinate
      <4>3. /\ request[c].world.at.epoch = request[c].at.epoch
            /\ request[c].world.at.index <= request[c].at.index
            /\ request[c].at.epoch <= epoch
            /\ request[c].at.index <= Len(history[request[c].at.epoch])
        BY <2>1, <3>1 DEF Compared
      <4>4. request[c].world.at.index <= Len(history[request[c].at.epoch])
        BY <4>1, <4>2, <4>3, SMTT(20)
      <4> QED  BY <4>3, <4>4, Zenon
    <3> QED  BY <2>2, <3>1
  <2> QED  BY <2>1, <2>3, <2>4 DEF Compared
<1> QED  BY <1>5, <1>6, <1>7, <1>8, <1>9, <1>10 DEF IInv

LEMMA RecoverKeeps ==
  ASSUME IInv, NEW at \in due, Recover(at)
  PROVE  IInv'
<1>1. job[Turn].phase = "idle" /\ at \in Coordinate
  BY DEF Recover, IInv, Owners, TypeOK
<1>2. /\ turn' \in [phase : {"rebuilding"}, record : 0 .. MaxCommits,
                    created : BOOLEAN]
      /\ ~ turn'.created
  <2>1. turn' = [phase |-> "rebuilding", record |-> 0, created |-> FALSE]
    BY DEF Recover, NoTurn
  <2> QED  BY <2>1, BoundsAssumption
<1>3. /\ UNCHANGED <<history, epoch, commits, due>>
      /\ epoch \in Nat /\ commits \in Nat
  BY BoundsAssumption DEF Recover, ledger, IInv, TypeOK, Epoch
<1>4. /\ due' \subseteq Coordinate /\ history' \in [Epoch -> History]
      /\ epoch' \in Epoch /\ commits' \in 0 .. MaxCommits
      /\ epoch <= epoch' /\ commits <= commits'
      /\ \A e \in Epoch : /\ RecordsOf(history'[e]) \subseteq 1 .. commits'
                          /\ Len(history'[e]) <= commits'
  BY <1>3 DEF IInv, TypeOK, Committed
<1> QED  BY <1>1, <1>2, <1>3, <1>4, TurnKeeps DEF Recover

(* The newest turn has its place among the coordinates.                    *)
LEMMA NewestIsTyped ==
  ASSUME NEW h \in [Epoch -> History], NEW e \in Epoch
  PROVE  [epoch |-> e, index |-> Len(h[e])] \in Coordinate
<1>1. Len(h[e]) \in Nat /\ Len(h[e]) <= MaxCommits
  BY HistoryIsSeq, LenProperties
<1> QED  BY <1>1, BoundsAssumption DEF Coordinate

LEMMA CommitTurnKeeps ==
  ASSUME IInv, CommitTurn
  PROVE  IInv'
<1> DEFINE r == turn.record
           old == history[epoch]
           at == [epoch |-> epoch, index |-> Len(history'[epoch])]
<1>1. /\ job[Turn].phase = "idle" /\ r > commits /\ r \in 0 .. MaxCommits
      /\ commits \in 0 .. MaxCommits /\ epoch \in Epoch
      /\ history \in [Epoch -> History] /\ old \in History
  BY DEF CommitTurn, IInv, Owners, Committed, TypeOK
<1>2. r \in Record /\ commits <= r
  BY <1>1, BoundsAssumption DEF Record
<1>3. Len(old) <= commits /\ RecordsOf(old) \subseteq 1 .. commits
  BY <1>1 DEF IInv, Committed
<1>4. old \in Seq(Record) /\ Len(old) \in Nat
  BY <1>1, HistoryIsSeq, LenProperties
<1>5. Len(old) < MaxCommits
  BY <1>1, <1>3, <1>4, BoundsAssumption
<1>6. /\ Append(old, r) \in History /\ Len(Append(old, r)) = Len(old) + 1
      /\ \A i \in 1 .. Len(old) : Append(old, r)[i] = old[i]
      /\ RecordsOf(Append(old, r)) = RecordsOf(old) \cup {r}
  BY <1>1, <1>2, <1>5, Appended
<1>7. /\ history' = [history EXCEPT ![epoch] = Append(old, r)]
      /\ commits' = r /\ epoch' = epoch
      /\ due' = due \cup {at} /\ job' = [job EXCEPT ![Turn] = Rebuild(at)]
      /\ turn' = [turn EXCEPT !.phase = "rebuilding"]
  BY DEF CommitTurn, Newest
<1>8. history' \in [Epoch -> History] /\ history'[epoch] = Append(old, r)
      /\ \A e \in Epoch : e # epoch => history'[e] = history[e]
  BY <1>1, <1>6, <1>7
<1>9. at \in Coordinate
  BY <1>1, <1>8, NewestIsTyped
<1>10. \A e \in Epoch : /\ RecordsOf(history'[e]) \subseteq 1 .. commits'
                        /\ Len(history'[e]) <= commits'
  <2> TAKE e \in Epoch
  <2>1. CASE e = epoch
    BY <1>1, <1>3, <1>4, <1>6, <1>7, <1>8, <2>1, BoundsAssumption
  <2>2. CASE e # epoch
    <3>1. /\ RecordsOf(history[e]) \subseteq 1 .. commits
          /\ Len(history[e]) <= commits /\ Len(history[e]) \in Nat
      BY <1>1, HistoryIsSeq, LenProperties DEF IInv, Committed
    <3> QED  BY <1>1, <1>7, <1>8, <2>2, <3>1
  <2> QED  BY <2>1, <2>2
<1>11. \A c \in Coordinate :
         c.epoch <= epoch /\ c.index <= Len(history[c.epoch])
           => /\ c.index <= Len(history'[c.epoch])
              /\ Rows(history', c) = Rows(history, c)
  <2> SUFFICES ASSUME NEW c \in Coordinate, c.index <= Len(history[c.epoch])
               PROVE  /\ c.index <= Len(history'[c.epoch])
                      /\ Rows(history', c) = Rows(history, c)
    OBVIOUS
  <2>1. c.epoch \in Epoch /\ c.index \in Nat
    BY BoundsAssumption DEF Coordinate
  <2>2. CASE c.epoch = epoch
    <3>1. c.index <= Len(history'[c.epoch])
      BY <1>4, <1>6, <1>8, <2>1, <2>2
    <3>2. \A i \in 1 .. c.index : history[c.epoch][i] = history'[c.epoch][i]
      BY <1>4, <1>6, <1>8, <2>1, <2>2
    <3> QED  BY <1>1, <1>8, <3>1, <3>2, RowsOfSamePrefix
  <2>3. CASE c.epoch # epoch
    BY <1>8, <2>1, <2>3 DEF Rows
  <2> QED  BY <2>2, <2>3
<1>12. /\ due' \subseteq Coordinate /\ epoch' \in Epoch /\ epoch <= epoch'
       /\ commits' \in 0 .. MaxCommits /\ commits <= commits'
  BY <1>1, <1>2, <1>7, <1>9, BoundsAssumption DEF IInv, TypeOK, Epoch
<1>13. /\ turn' \in [phase : {"rebuilding"}, record : 0 .. MaxCommits,
                     created : BOOLEAN]
       /\ turn'.created => turn'.record \in Canonical
  BY <1>7 DEF IInv, TypeOK, Committed
<1>14. UNCHANGED <<files, lore, journal, stage, lock, request, faults>>
  BY DEF CommitTurn
<1> HIDE DEF at, r, old
<1> QED
  BY <1>1, <1>7, <1>8, <1>9, <1>10, <1>11, <1>12, <1>13, <1>14, TurnKeeps

LEMMA TruncateKeeps ==
  ASSUME IInv, NEW k \in 0 .. Newest.index - 1, Truncate(k)
  PROVE  IInv'
<1> DEFINE old == history[epoch]
           at == [epoch |-> epoch + 1, index |-> Len(history'[epoch + 1])]
<1>1. /\ job[Turn].phase = "idle" /\ commits \in 0 .. MaxCommits
      /\ epoch \in Epoch /\ epoch \in Nat /\ epoch + 1 \in Epoch
      /\ history \in [Epoch -> History] /\ old \in History
  BY BoundsAssumption DEF Truncate, IInv, Owners, TypeOK, Epoch
<1>2. /\ Len(old) <= commits /\ RecordsOf(old) \subseteq 1 .. commits
      /\ Len(old) \in Nat /\ k \in 0 .. Len(old)
  BY <1>1, HistoryIsSeq, LenProperties DEF IInv, Committed, Newest
<1>3. /\ SubSeq(old, 1, k) \in History /\ Len(SubSeq(old, 1, k)) = k
      /\ RecordsOf(SubSeq(old, 1, k)) \subseteq RecordsOf(old)
  BY <1>1, <1>2, PrefixIsHistory
<1>4. /\ history' = [history EXCEPT ![epoch + 1] = SubSeq(old, 1, k)]
      /\ commits' = commits /\ epoch' = epoch + 1
      /\ due' = due \cup {at} /\ job' = [job EXCEPT ![Turn] = Rebuild(at)]
      /\ turn' = [NoTurn EXCEPT !.phase = "rebuilding"]
  BY DEF Truncate, Newest
<1>5. history' \in [Epoch -> History] /\ history'[epoch + 1] = SubSeq(old, 1, k)
      /\ \A e \in Epoch : e # epoch + 1 => history'[e] = history[e]
  BY <1>1, <1>3, <1>4
<1>6. at \in Coordinate
  BY <1>1, <1>5, NewestIsTyped
<1>7. \A e \in Epoch : /\ RecordsOf(history'[e]) \subseteq 1 .. commits'
                       /\ Len(history'[e]) <= commits'
  <2> TAKE e \in Epoch
  <2>1. CASE e = epoch + 1
    BY <1>1, <1>2, <1>3, <1>4, <1>5, <2>1
  <2>2. CASE e # epoch + 1
    BY <1>4, <1>5, <2>2 DEF IInv, Committed
  <2> QED  BY <2>1, <2>2
<1>8. \A c \in Coordinate :
        c.epoch <= epoch /\ c.index <= Len(history[c.epoch])
          => /\ c.index <= Len(history'[c.epoch])
             /\ Rows(history', c) = Rows(history, c)
  <2> SUFFICES ASSUME NEW c \in Coordinate, c.epoch <= epoch,
                      c.index <= Len(history[c.epoch])
               PROVE  /\ c.index <= Len(history'[c.epoch])
                      /\ Rows(history', c) = Rows(history, c)
    OBVIOUS
  <2>1. c.epoch \in Epoch /\ c.epoch # epoch + 1
    BY <1>1, BoundsAssumption DEF Coordinate, Epoch
  <2>2. history'[c.epoch] = history[c.epoch]
    BY <1>5, <2>1
  <2> QED  BY <2>2 DEF Rows
<1>9. /\ due' \subseteq Coordinate /\ epoch' \in Epoch /\ epoch <= epoch'
      /\ commits' \in 0 .. MaxCommits /\ commits <= commits'
  BY <1>1, <1>4, <1>6, BoundsAssumption DEF IInv, TypeOK
<1>10. /\ turn' \in [phase : {"rebuilding"}, record : 0 .. MaxCommits,
                     created : BOOLEAN]
       /\ turn'.created => turn'.record \in Canonical
  <2>1. turn' = [phase |-> "rebuilding", record |-> 0, created |-> FALSE]
    BY <1>4 DEF NoTurn
  <2> QED  BY <2>1, BoundsAssumption
<1>11. UNCHANGED <<files, lore, journal, stage, lock, request, faults>>
  BY DEF Truncate
<1> HIDE DEF at, old
<1> QED
  BY <1>1, <1>4, <1>5, <1>6, <1>7, <1>8, <1>9, <1>10, <1>11, TurnKeeps

-----------------------------------------------------------------------------
(* Compose.                                                                *)

LEMMA ComposeKeeps ==
  ASSUME IInv, NEW c \in Composer, Compose(c)
  PROVE  IInv'
<1> DEFINE q == [NoRequest EXCEPT !.phase = "world", !.at = Newest]
<1>1. epoch \in Epoch /\ history \in [Epoch -> History]
  BY DEF IInv, TypeOK
<1>2. Newest \in Coordinate
  BY <1>1, NewestIsTyped DEF Newest
<1>3. q \in Requested /\ q.phase = "world" /\ q.at = Newest
  BY <1>2, NothingIsTyped DEF Requested
<1>4. Len(history[epoch]) \in Nat /\ epoch \in Nat
  BY <1>1, HistoryIsSeq, LenProperties, BoundsAssumption DEF Epoch
<1>5. Newest.epoch = epoch /\ Newest.index = Len(history[Newest.epoch])
  BY DEF Newest
<1>6. Compared(q)
  BY <1>3, <1>4, <1>5 DEF Compared
<1>7. request' = [request EXCEPT ![c] = q] /\ request[c].phase # "rebase"
  BY DEF Compose
<1> HIDE DEF q
<1> QED  BY <1>3, <1>6, <1>7, ReadKeeps DEF Compose

LEMMA RefuseKeeps ==
  ASSUME IInv, NEW c \in Composer, Refuse(c), request[c].phase # "rebase",
         UNCHANGED job, OnlyReads
  PROVE  IInv'
<1>1. NoRequest \in Requested /\ NoRequest.phase = "idle"
  BY NothingIsTyped DEF NoRequest, Requested
<1>2. Compared(NoRequest)
  BY <1>1 DEF Compared
<1> QED  BY <1>1, <1>2, ReadKeeps DEF Refuse

LEMMA ReadWorldKeeps ==
  ASSUME IInv, NEW c \in Composer, ReadWorld(c)
  PROVE  IInv'
<1>1. CASE InScope(c) /\ MatchesLedger
  <2> DEFINE q == [request[c] EXCEPT !.phase = "bundle", !.world = world]
  <2>1. request[c] \in Requested /\ world \in World /\ Compared(request[c])
    BY DEF IInv, TypeOK, Requested
  <2>2. /\ q \in Requested /\ q.phase = "bundle" /\ q.at = request[c].at
        /\ q.world = world
    BY <2>1 DEF Requested
  <2>3. Compared(q)
    BY <1>1, <2>1, <2>2, RowsOfIsRows
       DEF ReadWorld, Compared, InScope, MatchesLedger
  <2>4. request' = [request EXCEPT ![c] = q] /\ request[c].phase # "rebase"
    BY <1>1 DEF ReadWorld, IInv, TypeOK
  <2> HIDE DEF q
  <2> QED  BY <2>2, <2>3, <2>4, ReadKeeps DEF ReadWorld
<1>2. CASE ~ (InScope(c) /\ MatchesLedger)
  BY <1>2, RefuseKeeps DEF ReadWorld
<1> QED  BY <1>1, <1>2

(* A world that does not trail what the host shows, and does not go beyond *)
(* it, has exactly the rows that the host shows.                           *)
LEMMA CheckBundleKeeps ==
  ASSUME IInv, NEW c \in Composer, CheckBundle(c)
  PROVE  IInv'
<1>1. CASE NotStale(c)
  <2> DEFINE old == request[c]
             q == [request[c] EXCEPT !.phase = "accepted"]
  <2>1. /\ old \in Requested /\ Compared(old) /\ old.phase = "bundle"
        /\ history \in [Epoch -> History]
    BY DEF IInv, TypeOK, Requested, CheckBundle
  <2>2. /\ q \in Requested /\ q.phase = "accepted" /\ q.at = old.at
        /\ q.world = old.world
    BY <2>1 DEF Requested
  <2>3. /\ old.at \in Coordinate /\ old.world.at \in Coordinate
        /\ old.at.index \in Nat /\ old.world.at.index \in Nat
    BY <2>1, BoundsAssumption DEF Requested, World, Coordinate
  <2>4. Len(Rows(history, old.at)) = Smaller(old.at.index, Len(history[old.at.epoch]))
    BY <2>1, <2>3, RowsIsHistory
  <2>5. /\ old.world.at.epoch = old.at.epoch
        /\ old.world.at.index <= old.at.index
        /\ old.at.index <= Len(history[old.at.epoch])
    BY <2>1 DEF Compared
  <2>6. Smaller(old.at.index, Len(history[old.at.epoch])) = old.at.index
    <3>1. Len(history[old.at.epoch]) \in Nat
      BY <2>1, <2>3, HistoryIsSeq, LenProperties DEF Coordinate
    <3> QED  BY <2>3, <2>5, <3>1 DEF Smaller
  <2>7. old.world.at.index >= old.at.index
    BY <1>1, <2>4, <2>6, RowsOfIsRows DEF NotStale
  <2>8. old.world.at.index = old.at.index
    BY <2>3, <2>5, <2>7
  <2>9. Rows(history, old.world.at) = Rows(history, old.at)
    BY <2>5, <2>8 DEF Rows
  <2>10. Compared(q)
    BY <2>1, <2>2, <2>9 DEF Compared
  <2>11. request' = [request EXCEPT ![c] = q] /\ request[c].phase # "rebase"
    BY <1>1 DEF CheckBundle, Asks, IInv, TypeOK
  <2> HIDE DEF q
  <2> QED  BY <2>2, <2>10, <2>11, ReadKeeps DEF CheckBundle
<1>2. CASE ~ NotStale(c)
  BY <1>2, RefuseKeeps DEF CheckBundle
<1> QED  BY <1>1, <1>2

LEMMA RebaseKeeps ==
  ASSUME IInv, NEW c \in Composer, Rebase(c)
  PROVE  IInv'
<1> DEFINE at == [request[c].at EXCEPT !.index = 0]
           q == [request[c] EXCEPT !.phase = "rebase"]
<1>1. /\ request \in [Composer -> Requested] /\ request[c] \in Requested
      /\ Compared(request[c]) /\ request[c].phase = "bundle"
  BY DEF Rebase, IInv, TypeOK, Requested
<1>2. /\ q \in Requested /\ q.phase = "rebase" /\ q.at = request[c].at
      /\ request' = [request EXCEPT ![c] = q]
  BY <1>1 DEF Rebase, Asks, Requested
<1>3. at \in Coordinate /\ at.index = 0
  BY <1>1, BoundsAssumption DEF Requested, Coordinate
<1>4. job' = [job EXCEPT ![c] = Rebuild(at)]
  BY DEF Rebase
<1> HIDE DEF at, q
<1>5. /\ Rebuild(at) \in Job /\ Rebuild(at).phase = "lock"
      /\ ~ Rebuild(at).ok /\ Rebuild(at).plan = NoPlan /\ Rebuild(at).at = at
  BY <1>3, RebuildIsTyped
<1>6. c \in Builder /\ Turn \in Builder /\ c # Turn
  BY NamesAssumption DEF Builder
<1>7. /\ job'[c] = Rebuild(at) /\ request'[c] = q
      /\ \A a \in Builder : a # c => job'[a] = job[a]
      /\ \A d \in Composer : d # c => request'[d] = request[d]
      /\ job[c].phase = "idle"
  BY <1>1, <1>2, <1>4, <1>6 DEF IInv, TypeOK, Owners
<1>8. UNCHANGED <<history, epoch, commits, due, concept, world, lore, journal,
                  stage, lock, turn, faults>>
  BY DEF Rebase, OnlyReads, ledger, files
<1>9. TypeOK'
  <2>1. job' \in [Builder -> Job] /\ request' \in [Composer -> Requested]
    BY <1>1, <1>2, <1>4, <1>5, <1>6 DEF IInv, TypeOK
  <2>2. \A a \in Builder : job'[a].phase \in Holding <=> lock' = a
    BY <1>5, <1>6, <1>7, <1>8 DEF IInv, TypeOK, Holding
  <2> QED  BY <1>8, <2>1, <2>2 DEF IInv, TypeOK, Requested
<1>10. Committed' /\ Announced(journal)' /\ (journal' = None => Whole')
  BY <1>8 DEF IInv, Committed, Announced, Named, Whole
<1>11. \A a \in Builder : (Carries(job[a]) /\ Covers(job[a]))'
  <2> TAKE a \in Builder
  <2>1. CASE a = c
    BY <1>5, <1>7, <2>1, NothingIsTyped DEF Carries, Covers, Named
  <2>2. CASE a # c
    BY <1>7, <1>8, <2>2 DEF IInv, Carries, Covers, Named, Whole
  <2> QED  BY <2>1, <2>2
<1>12. Owners'
  BY <1>2, <1>3, <1>5, <1>6, <1>7, <1>8 DEF IInv, Owners, Builder
<1>13. Readied(job[Turn])'
  BY <1>6, <1>7, <1>8 DEF IInv, Readied
<1>14. \A d \in Composer : Compared(request[d])'
  <2> TAKE d \in Composer
  <2>1. CASE d = c
    BY <1>1, <1>2, <1>7, <1>8, <2>1 DEF Compared
  <2>2. CASE d # c
    BY <1>7, <1>8, <2>2 DEF IInv, Compared
  <2> QED  BY <2>1, <2>2
<1> QED  BY <1>9, <1>10, <1>11, <1>12, <1>13, <1>14 DEF IInv

LEMMA ComposeStepKeeps ==
  ASSUME IInv, NEW c \in Composer, ComposeStep(c)
  PROVE  IInv'
<1>1. CASE BundleSuperseded(c)
  BY <1>1, RefuseKeeps DEF BundleSuperseded
<1>2. CASE Answer(c)
  BY <1>2, RefuseKeeps DEF Answer
<1> QED
  BY <1>1, <1>2, ReadWorldKeeps, CheckBundleKeeps, RebaseKeeps DEF ComposeStep

-----------------------------------------------------------------------------

LEMMA CrashKeeps ==
  ASSUME IInv, Crash
  PROVE  IInv'
<1>1. /\ job' = [b \in Builder |-> Resting]
      /\ request' = [c \in Composer |-> NoRequest] /\ turn' = NoTurn
      /\ lock' \in {"dead", None} /\ faults' = faults + 1 /\ faults < MaxFaults
      /\ UNCHANGED <<history, epoch, commits, due, concept, world, lore, journal,
                    stage>>
  BY DEF Crash, ledger, files
<1>2. /\ Resting \in Job /\ Resting.phase = "idle" /\ ~ Resting.ok
      /\ Resting.plan = NoPlan /\ NoRequest \in Requested
      /\ NoRequest.phase = "idle" /\ NoTurn.phase = "idle" /\ ~ NoTurn.created
  BY NothingIsTyped DEF Resting, NoRequest, NoTurn, Requested
<1>3. TypeOK'
  <2>1. \A a \in Builder : job'[a].phase \in Holding <=> lock' = a
    BY <1>1, <1>2, NamesAssumption DEF Holding
  <2>2. faults' \in 0 .. MaxFaults
    BY <1>1, BoundsAssumption DEF IInv, TypeOK
  <2> QED
    BY <1>1, <1>2, <2>1, <2>2, NothingIsTyped DEF IInv, TypeOK, Requested
<1>4. Committed' /\ Announced(journal)' /\ (journal' = None => Whole')
  BY <1>1, <1>2 DEF IInv, Committed, Announced, Named, Whole
<1>5. \A a \in Builder : (Carries(job[a]) /\ Covers(job[a]))'
  BY <1>1, <1>2, NothingIsTyped DEF Carries, Covers, Named
<1>6. Owners' /\ Readied(job[Turn])'
  BY <1>1, <1>2 DEF Owners, Readied, Builder
<1>7. \A c \in Composer : Compared(request[c])'
  BY <1>1, <1>2 DEF Compared
<1> QED  BY <1>3, <1>4, <1>5, <1>6, <1>7 DEF IInv

LEMMA InitEstablishes ==
  ASSUME Init
  PROVE  IInv
<1>1. /\ history = [e \in Epoch |-> << >>] /\ << >> \in History
      /\ Len(<< >>) = 0 /\ RecordsOf(<< >>) = {}
  <2>1. << >> \in Seq(Record) /\ Len(<< >>) = 0
    BY EmptySeq
  <2>2. Len(<< >>) <= MaxCommits
    BY <2>1, BoundsAssumption
  <2>3. DOMAIN << >> = 1 .. 0
    BY <2>1, LenProperties
  <2>4. RecordsOf(<< >>) = {}
    BY <2>3 DEF RecordsOf
  <2> QED  BY <2>1, <2>2, <2>4, HistoryIsSeq DEF Init
<1>2. /\ Resting \in Job /\ Resting.phase = "idle" /\ ~ Resting.ok
      /\ Resting.plan = NoPlan /\ NoRequest \in Requested
      /\ NoRequest.phase = "idle" /\ NoTurn.phase = "idle" /\ ~ NoTurn.created
  BY NothingIsTyped DEF Resting, NoRequest, NoTurn, Requested
<1>3. TypeOK
  <2>1. \A a \in Builder : job[a].phase \in Holding <=> lock = a
    BY <1>2, NamesAssumption DEF Init, Holding
  <2>2. history \in [Epoch -> History] /\ epoch \in Epoch
    BY <1>1, BoundsAssumption DEF Init, Epoch
  <2>3. /\ lore \in 0 .. MaxLore /\ commits \in 0 .. MaxCommits
        /\ faults \in 0 .. MaxFaults
    BY BoundsAssumption DEF Init
  <2>4. /\ job \in [Builder -> Job] /\ request \in [Composer -> Requested]
        /\ world \in World
    BY <1>2, NothingIsTyped DEF Init
  <2> QED
    BY <2>1, <2>2, <2>3, <2>4, NothingIsTyped DEF Init, TypeOK, Requested
<1>4. Committed /\ Announced(journal) /\ Whole
  BY <1>1, <1>2, NothingIsTyped, BoundsAssumption
     DEF Init, Committed, Announced, Named, Whole
<1>5. \A a \in Builder : Carries(job[a]) /\ Covers(job[a])
  BY <1>2, NothingIsTyped DEF Init, Carries, Covers, Named
<1>6. Owners /\ Readied(job[Turn])
  BY <1>2 DEF Init, Owners, Readied, Builder
<1>7. \A c \in Composer : Compared(request[c])
  BY <1>2 DEF Init, Compared
<1> QED  BY <1>3, <1>4, <1>5, <1>6, <1>7 DEF IInv

LEMMA StutterKeeps ==
  ASSUME IInv, UNCHANGED vars
  PROVE  IInv'
BY DEF vars, ledger, files, IInv, TypeOK, Committed, Announced, Named, Whole,
       Carries, Covers, Owners, Readied, Compared

LEMMA NextKeeps ==
  ASSUME IInv, [Next]_vars
  PROVE  IInv'
BY WriteConceptKeeps, CommitTurnKeeps, CommitFailsKeeps, TruncateKeeps,
   RecoverKeeps, PublishLoreKeeps, RebuildKeeps, ComposeKeeps,
   ComposeStepKeeps, CrashKeeps, StutterKeeps DEF Next

LEMMA Invariance == Spec => []IInv
<1>1. Init => IInv
  BY InitEstablishes
<1>2. IInv /\ [Next]_vars => IInv'
  BY NextKeeps
<1> QED  BY <1>1, <1>2, PTL DEF Spec

(* What a builder, a composer and the coordinator keep between two of      *)
(* their steps has its type, and the lock has exactly one owner            *)
(* (acquireWriterLock of dynamic-projection-transaction.js).               *)
THEOREM TypeCorrect == Spec => []TypeOK
<1>1. IInv => TypeOK
  BY DEF IInv
<1> QED  BY <1>1, Invariance, PTL

(* Without a journal the world and the concept files it names agree, in    *)
(* whatever order the builders, commitTurn and a crash have written them   *)
(* (the order of applyProjection and cleanupJournal).                      *)
THEOREM TornHidden == Spec => []TornIsHidden
<1>1. IInv => TornIsHidden
  BY DEF IInv, TornIsHidden, Whole
<1> QED  BY <1>1, Invariance, PTL

(* What compose accepts is, turn by turn, the history that the host asked  *)
(* for, though compose reads the journal, the world and the bundle without *)
(* a lock while turns commit and branches are truncated (loadDynamicWorld).*)
THEOREM AcceptsHistory == Spec => []AcceptedIsHistory
<1>1. ASSUME IInv PROVE AcceptedIsHistory
  BY <1>1, RowsOfIsRows DEF IInv, Compared, AcceptedIsHistory
<1> QED  BY <1>1, Invariance, PTL

(* A turn that is told that its projection is ready finds the newest       *)
(* history published with every concept file                               *)
(* (rebuildDynamicProjection of root-turn-run-kernel.js).                  *)
THEOREM PublishesHead == Spec => PublishedIsHead
<1>1. ASSUME IInv, job[Turn].phase = "unlock", job[Turn].ok,
             job[Turn].at = Newest
      PROVE  world.rows = history[epoch] /\ concept = RecordsOf(history[epoch])
  <2>1. /\ world.rows = Rows(history, Newest)
        /\ concept = RecordsOf(Rows(history, Newest))
    BY <1>1 DEF IInv, Readied
  <2>2. history \in [Epoch -> History] /\ epoch \in Epoch
    BY <1>1 DEF IInv, TypeOK
  <2>3. Newest \in Coordinate
    BY <2>2, NewestIsTyped DEF Newest
  <2>4. Newest.epoch = epoch /\ Newest.index = Len(history[epoch])
    BY DEF Newest
  <2>5. Rows(history, Newest) = history[epoch]
    BY <2>2, <2>3, <2>4, RowsOfAll
  <2> QED  BY <2>1, <2>5
<1>2. IInv => ((job[Turn].phase = "unlock" /\ job[Turn].ok
                 /\ job[Turn].at = Newest
                 /\ job'[Turn].phase = "idle" /\ due' # due)
                => /\ world.rows = history[epoch]
                   /\ concept = RecordsOf(history[epoch]))
  BY <1>1
<1> QED  BY <1>2, Invariance, PTL DEF PublishedIsHead

-----------------------------------------------------------------------------
(* The refinement.                                                         *)

seen == IF journal # None THEN Hidden
        ELSE [world |-> world, concept |-> concept, lore |-> lore]

LEMMA SeenIsNotHidden ==
  ASSUME IInv, journal = None
  PROVE  seen # Hidden /\ Atomic!Whole(seen)
<1>1. seen = [world |-> world, concept |-> concept, lore |-> lore]
  BY DEF seen
<1>2. seen \in [world : World, concept : SUBSET Record, lore : 0 .. MaxLore]
  BY <1>1 DEF IInv, TypeOK
<1>3. seen # Hidden
  BY <1>2, HiddenAssumption
<1>4. Atomic!Whole(seen)
  BY <1>1 DEF IInv, Whole, Atomic!Whole
<1> QED  BY <1>3, <1>4

(* The world itself is only written behind the journal.                    *)
LEMMA WorldStaysVisible ==
  ASSUME IInv, [Next]_vars, journal = None
  PROVE  world' = world
<1>1. \A b \in Builder : job[b].phase # "apply"
  BY DEF IInv, Covers
<1>2. ASSUME NEW b \in Builder, RebuildStep(b) \/ StepFails(b)
      PROVE  world' = world
  BY <1>1, <1>2
     DEF RebuildStep, AcquireWriterLock, RefusedByLock, ReadJournal, WriteIntent,
         BuildPlan, StagePlan, ApplyWrite, ApplyRemoval, ApplyWorld, Validate,
         ValidationFails, StepFails, RemoveStage, RemoveJournal, Release, files
<1>3. ASSUME NEW c \in Composer, Compose(c) \/ ComposeStep(c)
      PROVE  world' = world
  BY <1>3 DEF Compose, ComposeStep, ReadWorld, CheckBundle, Rebase,
              BundleSuperseded, Answer, OnlyReads, files
<1>4. CASE CommitTurn \/ CommitFails \/ PublishLore \/ Crash
           \/ (\E r \in commits + 1 .. MaxCommits : WriteConcept(r))
           \/ (\E k \in 0 .. Newest.index - 1 : Truncate(k))
           \/ (\E at \in due : Recover(at))
  BY <1>4 DEF CommitTurn, CommitFails, PublishLore, Crash, WriteConcept, Truncate,
              Recover, files
<1>5. CASE UNCHANGED vars
  BY <1>5 DEF vars, files
<1> QED  BY <1>2, <1>3, <1>4, <1>5 DEF Next

LEMMA SeenNextIsNotHidden ==
  ASSUME IInv', journal' = None
  PROVE  /\ seen' # Hidden /\ Atomic!Whole(seen')
         /\ seen'.world = world'
<1>1. seen' = [world |-> world', concept |-> concept', lore |-> lore']
  BY DEF seen
<1>2. seen' \in [world : World, concept : SUBSET Record, lore : 0 .. MaxLore]
  BY <1>1 DEF IInv, TypeOK
<1>3. seen' # Hidden
  BY <1>2, HiddenAssumption
<1>4. Atomic!Whole(seen')
  BY <1>1 DEF IInv, Whole, Atomic!Whole
<1> QED  BY <1>1, <1>3, <1>4

LEMMA StepOfAtomic ==
  ASSUME IInv, IInv', [Next]_vars
  PROVE  Atomic!Hide \/ Atomic!Publish \/ Atomic!WriteBeside \/ UNCHANGED seen
<1>1. CASE journal # None /\ journal' # None
  BY <1>1 DEF seen
<1>2. CASE journal # None /\ journal' = None
  <2>1. seen = Hidden
    BY <1>2 DEF seen
  <2>2. seen' # Hidden /\ Atomic!Whole(seen')
    BY <1>2, SeenNextIsNotHidden
  <2> QED  BY <2>1, <2>2 DEF Atomic!Publish, seen
<1>3. CASE journal = None /\ journal' # None
  <2>1. seen' = Hidden
    BY <1>3 DEF seen
  <2>2. seen # Hidden
    BY <1>3, SeenIsNotHidden
  <2> QED  BY <2>1, <2>2 DEF Atomic!Hide, seen
<1>4. CASE journal = None /\ journal' = None
  <2>1. seen # Hidden /\ seen.world = world
    BY <1>4, SeenIsNotHidden DEF seen
  <2>2. seen' # Hidden /\ Atomic!Whole(seen') /\ seen'.world = world'
    BY <1>4, SeenNextIsNotHidden
  <2>3. seen'.world = seen.world
    BY <1>4, <2>1, <2>2, WorldStaysVisible
  <2> QED  BY <2>1, <2>2, <2>3 DEF Atomic!WriteBeside, seen
<1> QED  BY <1>1, <1>2, <1>3, <1>4

(* Every step of the journaled transaction, of a turn, of a publication or *)
(* of a crash hides the projection, publishes a whole one, writes a file   *)
(* beside it, or is invisible to readers: the abstract specification of    *)
(* what a reader may see (dynamic-projection-transaction.js with           *)
(* assertDynamicProjectionReadable).                                       *)
THEOREM ImplementsAtomic == Spec => ReadersSeeWholeProjections
<1>1. Init => Atomic!Init
  <2>1. Init => IInv /\ journal = None
    BY InitEstablishes DEF Init
  <2> QED  BY <2>1, SeenIsNotHidden DEF Atomic!Init, seen
<1>2. IInv /\ IInv' /\ [Next]_vars => [Atomic!Next]_seen
  BY StepOfAtomic DEF Atomic!Next
<1> QED
  BY <1>1, <1>2, Invariance, PTL
     DEF Spec, ReadersSeeWholeProjections, Atomic!Spec, seen
=============================================================================
