----------------------------- MODULE LoreProofs -----------------------------
(* The Lore that a story rests on: the baseline that is carried to another *)
(* store, and the sources that a story leaves out because of it.           *)
(*                                                                         *)
(* BaselineReplay: only a commit of the target gives it a baseline         *)
(* (OnlyCommitMoves), and as long as it has none, no Concept is there but  *)
(* those that a transaction is writing (EmptyOK).  A seal looks at the     *)
(* ledger last (LedgerIsLast), so a package that was verified holds the    *)
(* World and the Concepts of the initial intake (SealInv), and a plan that *)
(* leads to that intake writes just these (ReplayOK).                      *)
(*                                                                         *)
(* SourceRemoval: what a story leaves out could be read, and only a        *)
(* request that was disturbed is refused.  A certificate may be of any     *)
(* age, so the argument never asks where an entry of the registry came     *)
(* from.  It follows the history variable: as long as a request is         *)
(* handled, each view that is whole is noted, and the memory only loses    *)
(* records (Noting); so a unit that is found now was readable when its     *)
(* view was noted (Witnessed).  What nobody disturbs goes on with the view *)
(* it began with (Calms).                                                  *)
EXTENDS SourceRemoval, BaselineReplay, FiniteSetTheorems, SequenceTheorems,
        WellFoundedInduction, TLAPS

-----------------------------------------------------------------------------
(* The portable baseline (BaselineReplay)                                  *)

Holder == {Nobody, Self} \cup Applier
WriteRun == {"idle", "apply", "clean", "restore", "install", "down"}

Count == Nat \ {0}

WritePlan ==
  [by : Holder, to : 0 .. Own, order : Seq(Published),
   before : [Published -> Text], after : [Published -> Text]]

SaveState ==
  [text : [File -> Text], active : 0 .. Own, was : SUBSET Intake,
   prepared : SUBSET Intake, captured : 0 .. Own, schema : SUBSET {"tables", "lore", "latest", "chat"},
   owner : Holder, run : WriteRun, step : Count, plan : WritePlan]

SealedRows ==
  [intakes : SUBSET Intake, prepared : SUBSET Intake, live : 0 .. Own, projection : {"none", "ready", "superseded"}]

Reader ==
  [k : 1 .. Len(Reads) + 1, active : 0 .. Own, listed : SUBSET File,
   text : [Published -> Text], evidence : SealedRows, broken : BOOLEAN]

Exporting ==
  {"open", "seal", "recipe", "projection", "files", "verify", "verified", "refused"}
Package ==
  [at : Exporting, reader : Reader, concepts : SUBSET Concept,
   files : [Published -> Text], k : Nat]

Applying ==
  Answers \cup {"idle", "files", "ledger", "inspect", "check", "snapshot", "row", "lock",
                "locked", "replay", "confirm"}
ApplierState == [at : Applying, k : 1 .. 4, writes : BOOLEAN, reader : Reader]

CallTypes ==
  /\ applier \in [Applier -> ApplierState]
  /\ \A a \in Applier :
       /\ applier[a].at = "files" => applier[a].k <= 3
       /\ applier[a].reader.k <= Len(Reads)

(* Only a verified package is applied.                                     *)
OnlyVerified ==
  package.at # "verified" =>
    /\ \A a \in Applier : applier[a].at = "idle"
    /\ \A x \in Store : store[x].owner \notin Applier

(* What was sealed as ready is the text of the initial intake; what is     *)
(* verified is its Concepts and its World.                                 *)
SealedWorld(r) ==
  /\ r.k <= Len(Reads) => r.evidence = NoEvidence
  /\ r.evidence.live = 1 /\ r.evidence.projection = "ready" => r.text["world"] = 1
SealInv ==
  /\ package \in Package
  /\ package.at \in {"open", "seal"} => package.reader.k <= Len(Reads)
  /\ SealedWorld(package.reader)
  /\ package.at = "verified" =>
       /\ package.concepts = ConceptsOf[1] /\ package.files["world"] = 1
       /\ \A c \in ConceptsOf[1] : package.files[c] = 1

(* The intakes of the source are the first ones.                           *)
SourceOK(s) ==
  /\ s.run \notin {"idle", "down"} => s.plan.by \in {s.owner, Nobody}
  /\ s.run = "apply" => s.plan.by # Nobody
  /\ s.owner = Self /\ (s.run \in {"idle", "down"} \/ s.plan.by = Nobody) =>
       Cardinality(s.was) + 1 \in Intake

InOrder(p) == {p.order[i] : i \in 1 .. Len(p.order)}

(* Without a baseline no Concept is there, but for those that a            *)
(* transaction writes, and it has none of them as what was there before.   *)
EmptyOK(s) ==
  s.active = 0 =>
    /\ s.run \notin {"clean", "install"}
    /\ s.run = "idle" => \A c \in Concept : s.text[c] = Absent
    /\ s.run # "idle" =>
         \A c \in Concept : s.plan.before[c] = Absent
           /\ (c \notin InOrder(s.plan) => s.text[c] = Absent)
    /\ s.run = "restore" =>
         \A i \in 1 .. Len(s.plan.order) :
           i < s.step /\ s.plan.order[i] \in Concept => s.text[s.plan.order[i]] = Absent

(* A transaction that installs the package.                                *)
Content == ConceptsOf[1] \cup {"world"}
InstallsPackage(s) ==
  /\ s.active = 0
  /\ InOrder(s.plan) = ConceptsOf[1] \cup Support
  /\ \A f \in Content : s.plan.after[f] = 1
  /\ \A i \in 1 .. Len(s.plan.order) :
       i < s.step /\ s.plan.order[i] \in Content => s.text[s.plan.order[i]] = 1
ReplayOK(s) == s.run = "apply" /\ s.plan.to = 1 => InstallsPackage(s)

SaveOK(x, s) ==
  /\ s \in SaveState
  /\ s.run = "apply" => s.plan.to \in Intake
  /\ x = "source" => SourceOK(s)
  /\ x = "target" => EmptyOK(s) /\ ReplayOK(s)

SavesInv == store \in [Store -> SaveState] /\ \A x \in Store : SaveOK(x, store[x])

BaselineIInv == SavesInv /\ CallTypes /\ OnlyVerified /\ SealInv

LEMMA Counts == 1 \in Count /\ \A k \in Count : k + 1 \in Count
  BY DEF Count

(* What the assumption says of the first intake and of the file names.     *)
LEMMA FirstIntake ==
  /\ Intake \subseteq 0 .. Own /\ 0 \in 0 .. Own /\ 0 \notin Intake
  /\ Own \in Nat /\ Own >= 2 /\ 1 \in Intake /\ Own \in Intake /\ Own # 1
  /\ ConceptsOf[1] \subseteq Concept /\ Content \subseteq Published
  /\ \A i \in Intake : ConceptsOf[i] \subseteq Concept /\ IsFiniteSet(ConceptsOf[i])
  /\ \A f \in {"world", "registry", "manifest", "relations", "snapshot"} : f \notin Concept
  /\ Nobody \notin Applier /\ Self \notin Applier /\ IsFiniteSet(Concept)
<1>1. Own \in Nat /\ Own >= 2
  BY BaselineAssumption DEF Own
<1>2. /\ 1 \in Intake /\ Own \in Intake /\ Intake \subseteq 0 .. Own
      /\ 0 \in 0 .. Own /\ 0 \notin Intake
  BY <1>1 DEF Intake
<1>3. \A i \in Intake : ConceptsOf[i] \subseteq Concept
  BY BaselineAssumption
<1>4. \A i \in Intake : IsFiniteSet(ConceptsOf[i])
  BY <1>3, BaselineAssumption, FS_Subset
<1> QED
  BY <1>1, <1>2, <1>3, <1>4, BaselineAssumption DEF Content, Published, Support

(* The elements of a finite set, in some order.                            *)
LEMMA ListOfSet ==
  ASSUME NEW S, IsFiniteSet(S)
  PROVE  /\ Lists!SetToSeq(S) \in Seq(S)
         /\ {Lists!SetToSeq(S)[i] : i \in 1 .. Len(Lists!SetToSeq(S))} = S
<1> DEFINE n == Cardinality(S)
           g == Lists!SetToSeq(S)
<1>1. n \in Nat /\ ExistsBijection(1 .. n, S)
  BY FS_CardinalityType
<1>2. PICK f : f \in Bijection(1 .. n, S)
  BY <1>1 DEF ExistsBijection
<1>3. f \in [1 .. n -> S] /\ Lists!IsInjective(f)
  BY <1>2 DEF Bijection, Injection, IsInjective, Lists!IsInjective
<1>0. Lists!Cardinality(S) = n
  BY Zenon DEF Lists!Cardinality, Cardinality
<1>4. g \in [1 .. n -> S] /\ Lists!IsInjective(g)
  BY <1>0, <1>3, Zenon DEF Lists!SetToSeq
<1>5. g \in Injection(1 .. n, S)
  BY <1>4 DEF Injection, IsInjective, Lists!IsInjective
<1>6. Cardinality(1 .. n) = n
  BY <1>1, FS_Interval
<1>7. g \in Surjection(1 .. n, S)
  BY <1>5, <1>6, FS_Injection
<1>8. g \in Seq(S) /\ Len(g) = n
  BY <1>1, <1>4
<1> QED
  BY <1>7, <1>8 DEF Surjection

(* Two lists, one after the other.                                       *)
LEMMA JoinOfLists ==
  ASSUME NEW S, NEW a \in Seq(S), NEW b \in Seq(S)
  PROVE  /\ a \o b \in Seq(S)
         /\ Len(a) \in Nat /\ Len(b) \in Nat /\ Len(a \o b) = Len(a) + Len(b)
         /\ \A i \in 1 .. Len(a) : (a \o b)[i] = a[i]
         /\ \A i \in 1 .. Len(b) : (a \o b)[Len(a) + i] = b[i]
  OBVIOUS

LEMMA SecondList ==
  ASSUME NEW S, NEW a \in Seq(S), NEW b \in Seq(S), NEW i \in 1 .. Len(b)
  PROVE  (a \o b)[Len(a) + i] = b[i]
  OBVIOUS

(* There are as many looks of one kind as Concepts.                      *)
LEMMA LooksFinite ==
  ASSUME NEW kind
  PROVE  IsFiniteSet(LookAt(kind, Concept))
<1> DEFINE look == [c \in Concept |-> [kind |-> kind, file |-> c]]
<1>1. look \in Surjection(Concept, LookAt(kind, Concept))
  BY DEF Surjection, LookAt
<1> QED
  BY <1>1, FirstIntake, FS_Surjection

(* A reader looks at the ledger once, and last.                            *)
Glance == [kind : {"active", "file", "relations", "list", "ledger"}, file : File]
LEMMA LedgerIsLast ==
  /\ Reads \in Seq(Glance) /\ Len(Reads) >= BundleFrom
  /\ \A k \in 1 .. Len(Reads) : Reads[k].kind = "ledger" => k = Len(Reads)
<1> DEFINE Early == [kind : {"active", "file", "relations", "list"}, file : File]
           opening == <<[kind |-> "active", file |-> "manifest"],
                      [kind |-> "file", file |-> "world"],
                      [kind |-> "file", file |-> "registry"]>>
                      \o <<[kind |-> "relations", file |-> "relations"]>>
           lists == Lists!SetToSeq(LookAt("list", Concept))
           files == Lists!SetToSeq(LookAt("file", Concept))
           early == opening \o lists \o files
           last  == <<[kind |-> "ledger", file |-> "manifest"]>>
<1>1. opening \in Seq(Early) /\ Len(opening) = 4
  BY DEF File, Published, Support
<1>2. lists \in Seq(LookAt("list", Concept)) /\ files \in Seq(LookAt("file", Concept))
  BY ListOfSet, LooksFinite
<1>3. LookAt("list", Concept) \subseteq Early /\ LookAt("file", Concept) \subseteq Early
  BY DEF LookAt, File, Published
<1>4. lists \in Seq(Early) /\ files \in Seq(Early)
  <2> HIDE DEF Early, lists, files
  <2> QED
    BY <1>2, <1>3
<1>5. early \in Seq(Early) /\ Len(early) >= 4
  <2> HIDE DEF Early, lists, files, opening
  <2>1. /\ opening \o lists \in Seq(Early) /\ Len(lists) \in Nat
        /\ Len(opening \o lists) = Len(opening) + Len(lists)
    BY <1>1, <1>4, JoinOfLists, Zenon
  <2>2. /\ early \in Seq(Early) /\ Len(files) \in Nat
        /\ Len(early) = Len(opening \o lists) + Len(files)
    BY <1>4, <2>1, JoinOfLists, Zenon
  <2> QED
    BY <1>1, <2>1, <2>2
<1>6. Reads = early \o last
  BY DEF Reads
<1>7. last \in Seq(Glance) /\ Len(last) = 1
  BY DEF Glance, File
<1>8. early \in Seq(Glance)
  <2>1. Early \subseteq Glance
    BY DEF Glance
  <2> HIDE DEF Early, early
  <2> QED
    BY <1>5, <2>1
<1> HIDE DEF lists, files, opening, early, last
<1>9. /\ Reads \in Seq(Glance) /\ Len(Reads) = Len(early) + Len(last)
      /\ Len(early) \in Nat
      /\ \A k \in 1 .. Len(early) : Reads[k] = early[k]
  <2>1. /\ early \o last \in Seq(Glance) /\ Len(early \o last) = Len(early) + Len(last)
        /\ Len(early) \in Nat
    BY <1>7, <1>8, JoinOfLists, Zenon
  <2>2. \A k \in 1 .. Len(early) : (early \o last)[k] = early[k]
    <3> HIDE DEF Glance
    <3> QED
      BY <1>7, <1>8
  <2> QED
    BY <1>6, <2>1, <2>2, Zenon
<1>10. \A k \in 1 .. Len(early) : early[k] \in Early
  BY <1>5, ElementOfSeq
<1>11. \A e \in Early : e.kind # "ledger"
  OBVIOUS
<1> HIDE DEF Early
<1>12. Len(Reads) = Len(early) + 1 /\ Len(Reads) >= BundleFrom
  BY <1>5, <1>7, <1>9 DEF BundleFrom
<1>13. ASSUME NEW k \in 1 .. Len(Reads), Reads[k].kind = "ledger"
       PROVE  k = Len(Reads)
  <2>1. k \notin 1 .. Len(early)
    BY <1>9, <1>10, <1>11, <1>13, Zenon
  <2> QED
    BY <1>9, <1>12, <2>1
<1> QED
  BY <1>9, <1>12, <1>13, Zenon

-----------------------------------------------------------------------------
(* One store changes.                                                      *)
LEMMA SaveStep ==
  ASSUME SavesInv, NEW x \in Store, NEW n, SaveOK(x, n), store' = [store EXCEPT ![x] = n]
  PROVE  SavesInv'
<1>1. store' \in [Store -> SaveState]
  BY DEF SavesInv, SaveOK
<1>2. ASSUME NEW y \in Store
      PROVE  SaveOK(y, store'[y])
  <2>1. CASE y = x
    BY <2>1 DEF SavesInv
  <2>2. CASE y # x
    <3>1. store'[y] = store[y]
      BY <2>2 DEF SavesInv
    <3> QED
      BY <3>1 DEF SavesInv
  <2> QED
    BY <2>1, <2>2
<1> QED
  BY <1>1, <1>2 DEF SavesInv, SaveOK, SourceOK, EmptyOK, ReplayOK, InstallsPackage

(* The invariant of one store.                                           *)
LEMMA StoreAt ==
  ASSUME SavesInv, NEW x \in Store
  PROVE  SaveOK(x, store[x]) /\ store[x] \in SaveState
  BY DEF SavesInv

(* Without a journal there is an empty plan.                             *)
LEMMA NoPlanTyped == NoPlan \in WritePlan
<1>1. Files(1) \in [Published -> Text]
  BY FirstIntake DEF Files, Text, Absent
<1>2. <<>> \in Seq(Published)
  OBVIOUS
<1> QED
  BY <1>1, <1>2, FirstIntake DEF NoPlan, Plan, WritePlan, Holder

(* No step of a transaction loses the invariant of its store.            *)
LEMMA TransactionSaves ==
  ASSUME SavesInv, NEW x \in Store, Transaction(x)
  PROVE  SavesInv'
<1> DEFINE s == store[x]
<1>0. SaveOK(x, s) /\ s \in SaveState
  BY StoreAt
<1>1. CASE RecoverJournal(x)
  <2> DEFINE n == [s EXCEPT !.step = 1, !.plan.by = Nobody,
                     !.run = IF Same(s.active, s.plan.to) THEN "install" ELSE "restore"]
  <2>1. store' = [store EXCEPT ![x] = n] /\ s.run = "down"
    BY <1>1 DEF RecoverJournal, SavesInv
  <2>2. n \in SaveState
    BY <1>0, Counts DEF SaveState, WritePlan, WriteRun, Holder
  <2>3. /\ n.run = (IF Same(s.active, s.plan.to) THEN "install" ELSE "restore")
        /\ n.plan.by = Nobody /\ n.plan.order = s.plan.order /\ n.plan.before = s.plan.before
        /\ n.step = 1 /\ n.text = s.text /\ n.active = s.active /\ n.was = s.was
        /\ n.owner = s.owner
    BY <1>0 DEF SaveState, WritePlan
  <2>4. SourceOK(s) => SourceOK(n)
    BY <2>1, <2>3 DEF SourceOK
  <2>5. EmptyOK(s) => EmptyOK(n)
    <3>1. InOrder(n.plan) = InOrder(s.plan) /\ Len(s.plan.order) \in Nat
      BY <1>0, <2>3 DEF InOrder, SaveState, WritePlan
    <3> HIDE DEF n, s
    <3> QED
      BY <2>1, <2>3, <3>1 DEF EmptyOK, Same
  <2>6. n.run # "apply"
    BY <2>3
  <2> HIDE DEF n
  <2> QED
    BY <1>0, <2>1, <2>2, <2>4, <2>5, <2>6, SaveStep DEF SaveOK, ReplayOK
<1>2. CASE WriteFile(x)
  <2> DEFINE f == s.plan.order[s.step]
             v == IF s.run = "restore" THEN s.plan.before[f] ELSE s.plan.after[f]
             n == [s EXCEPT !.step = @ + 1, !.text[f] = v]
  <2>1. /\ store' = [store EXCEPT ![x] = n]
        /\ s.run \in {"apply", "restore", "install"} /\ ~ (s.step > Len(s.plan.order))
    BY <1>2 DEF WriteFile, AllWritten, SavesInv
  <2>2. /\ s.step \in 1 .. Len(s.plan.order) /\ s.plan.order \in Seq(Published)
        /\ f \in Published /\ f \in InOrder(s.plan)
    <3>1. s.step \in Count /\ s.plan.order \in Seq(Published)
      BY <1>0 DEF SaveState, WritePlan
    <3>2. s.step \in 1 .. Len(s.plan.order)
      BY <2>1, <3>1 DEF Count
    <3> QED
      BY <3>1, <3>2 DEF InOrder
  <2>3. n \in SaveState
    <3>1. v \in Text /\ s.step + 1 \in Count
      BY <1>0, <2>2, Counts DEF SaveState, WritePlan
    <3> HIDE DEF v, f
    <3> QED
      BY <1>0, <3>1 DEF SaveState
  <2>4. /\ n.run = s.run /\ n.plan = s.plan /\ n.step = s.step + 1
        /\ n.active = s.active /\ n.was = s.was /\ n.owner = s.owner
        /\ \A g \in Published : n.text[g] = IF g = f THEN v ELSE s.text[g]
    BY <1>0 DEF SaveState, WritePlan, File
  <2>5. SourceOK(s) => SourceOK(n)
    BY <2>4 DEF SourceOK
  <2>8. /\ v = (IF s.run = "restore" THEN s.plan.before[f] ELSE s.plan.after[f])
         /\ f = s.plan.order[s.step]
    OBVIOUS
  <2> HIDE DEF n, s, f, v
  <2>6. EmptyOK(s) => EmptyOK(n)
    <3>1. Concept \subseteq Published
      BY DEF Published
    <3> SUFFICES ASSUME EmptyOK(s), n.active = 0
                 PROVE  EmptyOK(n)
      BY DEF EmptyOK
    <3>2. \A c \in Concept : n.plan.before[c] = Absent /\ s.plan.before[c] = Absent
      BY <2>1, <2>4 DEF EmptyOK
    <3>3. \A c \in Concept : c \notin InOrder(n.plan) => n.text[c] = Absent
      BY <2>1, <2>2, <2>4, <3>1 DEF EmptyOK
    <3>4. ASSUME n.run = "restore", NEW i \in 1 .. Len(n.plan.order), i < n.step,
                 n.plan.order[i] \in Concept
          PROVE  n.text[n.plan.order[i]] = Absent
      <4>1. CASE n.plan.order[i] = f
        BY <2>1, <2>4, <2>8, <3>1, <3>2, <3>4, <4>1
      <4>2. CASE n.plan.order[i] # f
        <5>1. i < s.step
          BY <2>2, <2>4, <2>8, <3>4, <4>2
        <5> QED
          BY <2>1, <2>4, <3>1, <3>4, <4>2, <5>1 DEF EmptyOK
      <4> QED
        BY <4>1, <4>2
    <3> QED
      BY <2>1, <2>4, <3>2, <3>3, <3>4 DEF EmptyOK
  <2>7. ReplayOK(s) => ReplayOK(n)
    <3>1. Content \subseteq Published
      BY FirstIntake
    <3> SUFFICES ASSUME ReplayOK(s), n.run = "apply", n.plan.to = 1
                 PROVE  InstallsPackage(n)
      BY <2>4 DEF ReplayOK
    <3>2. InstallsPackage(s)
      BY <2>4 DEF ReplayOK
    <3>3. ASSUME NEW i \in 1 .. Len(n.plan.order), i < n.step, n.plan.order[i] \in Content
          PROVE  n.text[n.plan.order[i]] = 1
      <4>1. CASE n.plan.order[i] = f
        BY <2>1, <2>4, <2>8, <3>1, <3>2, <3>3, <4>1 DEF InstallsPackage
      <4>2. CASE n.plan.order[i] # f
        <5>1. i < s.step
          BY <2>2, <2>4, <2>8, <3>3, <4>2
        <5> QED
          BY <2>4, <3>1, <3>2, <3>3, <4>2, <5>1 DEF InstallsPackage
      <4> QED
        BY <4>1, <4>2
    <3> QED
      BY <2>4, <3>2, <3>3 DEF InstallsPackage
  <2> QED
    BY <1>0, <2>1, <2>3, <2>4, <2>5, <2>6, <2>7, SaveStep DEF SaveOK
<1>3. CASE CommitLedger(x)
  <2> DEFINE n == [s EXCEPT !.run = "clean", !.active = s.plan.to, !.was = @ \cup {s.plan.to}]
  <2>1. store' = [store EXCEPT ![x] = n] /\ s.run = "apply" /\ s.plan.to \in Intake
    BY <1>0, <1>3 DEF CommitLedger, SavesInv, SaveOK
  <2>2. n \in SaveState
    BY <1>0, <2>1, FirstIntake DEF SaveState, WriteRun
  <2>3. /\ n.run = "clean" /\ n.plan = s.plan /\ n.active # 0 /\ n.owner = s.owner
    BY <1>0, <2>1, FirstIntake DEF SaveState
  <2>4. SourceOK(s) => SourceOK(n)
    BY <2>1, <2>3 DEF SourceOK
  <2>5. EmptyOK(n) /\ ReplayOK(n)
    BY <2>3 DEF EmptyOK, ReplayOK
  <2> QED
    BY <1>0, <2>1, <2>2, <2>3, <2>4, <2>5, SaveStep DEF SaveOK
<1>4. CASE StepFails(x) /\ s.run \in {"apply", "clean"}
  <2> DEFINE n == [s EXCEPT !.step = 1, !.run = IF @ = "apply" THEN "restore" ELSE "install"]
  <2>1. store' = [store EXCEPT ![x] = n]
    BY <1>4 DEF StepFails, SavesInv
  <2>2. n \in SaveState
    BY <1>0, Counts DEF SaveState, WriteRun
  <2>3. /\ n.run = (IF s.run = "apply" THEN "restore" ELSE "install") /\ n.step = 1
        /\ n.plan = s.plan /\ n.active = s.active /\ n.owner = s.owner
        /\ n.text = s.text /\ n.was = s.was
    BY <1>0 DEF SaveState
  <2>4. SourceOK(s) => SourceOK(n)
    BY <1>4, <2>3 DEF SourceOK
  <2>5. EmptyOK(s) => EmptyOK(n)
    <3>1. s.plan.order \in Seq(Published)
      BY <1>0 DEF SaveState, WritePlan
    <3>2. Len(s.plan.order) \in Nat
      BY <3>1
    <3> HIDE DEF n, s
    <3> QED
      BY <1>4, <2>3, <3>2 DEF EmptyOK
  <2>6. n.run # "apply"
    BY <2>3
  <2> HIDE DEF n
  <2> QED
    BY <1>0, <2>1, <2>2, <2>4, <2>5, <2>6, SaveStep DEF SaveOK, ReplayOK
<1>5. CASE StepFails(x) /\ s.run \notin {"apply", "clean"}
  <2> DEFINE n == [s EXCEPT !.run = "down", !.owner = Nobody]
  <2>1. store' = [store EXCEPT ![x] = n] /\ s.run \notin {"idle", "down"}
    BY <1>5 DEF StepFails, SavesInv
  <2>2. n \in SaveState
    BY <1>0 DEF SaveState, WriteRun, Holder
  <2>3. /\ n.run = "down" /\ n.owner = Nobody /\ Self # Nobody
        /\ n.plan = s.plan /\ n.active = s.active /\ n.text = s.text
    BY <1>0 DEF SaveState, Self, Nobody
  <2>4. SourceOK(n)
    BY <2>3 DEF SourceOK
  <2>5. EmptyOK(s) => EmptyOK(n)
    BY <2>1, <2>3 DEF EmptyOK
  <2>6. n.run # "apply"
    BY <2>3
  <2> HIDE DEF n
  <2> QED
    BY <1>0, <2>1, <2>2, <2>4, <2>5, <2>6, SaveStep DEF SaveOK, ReplayOK
<1>6. CASE Cleanup(x)
  <2> DEFINE n == [s EXCEPT !.run = "idle", !.plan = NoPlan,
                            !.owner = IF s.plan.by = s.owner THEN Nobody ELSE @]
  <2>1. /\ store' = [store EXCEPT ![x] = n]
        /\ s.run = "clean" \/ (s.run \in {"restore", "install"} /\ s.step > Len(s.plan.order))
    BY <1>6 DEF Cleanup, SavesInv, Mine, Owner, AllWritten
  <2>2. n \in SaveState
    BY <1>0, NoPlanTyped DEF SaveState, WriteRun, Holder
  <2>3. /\ n.run = "idle" /\ n.active = s.active /\ n.text = s.text /\ n.was = s.was
        /\ n.owner = (IF s.plan.by = s.owner THEN Nobody ELSE s.owner)
    BY <1>0 DEF SaveState
  <2>4. SourceOK(s) => SourceOK(n)
    BY <2>1, <2>3 DEF SourceOK, Self, Nobody
  <2>5. EmptyOK(s) => EmptyOK(n)
    <3>1. s.plan.order \in Seq(Published) /\ s.step \in Count
      BY <1>0 DEF SaveState, WritePlan
    <3> SUFFICES ASSUME EmptyOK(s), s.active = 0, NEW c \in Concept
                 PROVE  s.text[c] = Absent
      BY <2>3 DEF EmptyOK
    <3>2. s.run = "restore" /\ s.step > Len(s.plan.order)
      BY <2>1 DEF EmptyOK
    <3>3. \A i \in 1 .. Len(s.plan.order) : i < s.step
      BY <3>1, <3>2 DEF Count
    <3> HIDE DEF s, n
    <3>4. CASE c \in InOrder(s.plan)
      BY <3>2, <3>3, <3>4 DEF InOrder, EmptyOK
    <3> QED
      BY <3>2, <3>4 DEF EmptyOK
  <2>6. n.run # "apply"
    BY <2>3
  <2> HIDE DEF n
  <2> QED
    BY <1>0, <2>1, <2>2, <2>4, <2>5, <2>6, SaveStep DEF SaveOK, ReplayOK
<1>7. CASE Dies(x)
  <2> DEFINE n == [s EXCEPT !.owner = Nobody, !.run = IF @ = "idle" THEN "idle" ELSE "down"]
  <2>1. store' = [store EXCEPT ![x] = n]
    BY <1>7 DEF Dies, SavesInv
  <2>2. n \in SaveState
    BY <1>0 DEF SaveState, WriteRun, Holder
  <2>3. /\ n.run = (IF s.run = "idle" THEN "idle" ELSE "down") /\ n.owner = Nobody
        /\ Self # Nobody
        /\ n.plan = s.plan /\ n.active = s.active /\ n.text = s.text
    BY <1>0 DEF SaveState, Self, Nobody
  <2>4. SourceOK(n)
    BY <2>3 DEF SourceOK
  <2>5. EmptyOK(s) => EmptyOK(n)
    BY <2>3 DEF EmptyOK
  <2>6. n.run # "apply"
    BY <2>3
  <2> HIDE DEF n
  <2> QED
    BY <1>0, <2>1, <2>2, <2>4, <2>5, <2>6, SaveStep DEF SaveOK, ReplayOK
<1> QED
  BY <1>1, <1>2, <1>3, <1>4, <1>5, <1>6, <1>7 DEF Transaction

-----------------------------------------------------------------------------
(* A change that a baseline does not depend on.                            *)
LEMMA Aside ==
  ASSUME NEW s, SaveOK("target", s), NEW n \in SaveState,
         n.active = s.active, n.run = s.run, n.plan = s.plan, n.step = s.step,
         \A c \in Concept \cup {"world"} : n.text[c] = s.text[c]
  PROVE  SaveOK("target", n)
<1>1. EmptyOK(n)
  BY DEF SaveOK, EmptyOK
<1>2. Content \subseteq Concept \cup {"world"}
  BY FirstIntake DEF Content
<1>3. ReplayOK(n)
  BY <1>2 DEF SaveOK, ReplayOK, InstallsPackage
<1> QED
  BY <1>1, <1>3 DEF SaveOK

(* The plan of an intake: the files of the intake, and those it retires. *)
LEMMA IntakePlanTyped ==
  ASSUME SavesInv, NEW x \in Store, NEW i \in Intake
  PROVE  /\ IntakePlan(x, i) \in WritePlan
         /\ IntakePlan(x, i).to = i /\ IntakePlan(x, i).by = Self
         /\ \A f \in Published : IntakePlan(x, i).before[f] = store[x].text[f]
<1> DEFINE held == store[x].active
           gone == IF held = 0 THEN {} ELSE ConceptsOf[held] \ ConceptsOf[i]
           now == [f \in Published |-> store[x].text[f]]
           order == Lists!SetToSeq(ConceptsOf[i]) \o <<"registry", "world">>
                      \o Lists!SetToSeq(gone)
           after == [f \in Published |-> IF f \in ConceptsOf[i] \cup Support THEN i
                                         ELSE IF f \in gone THEN Absent ELSE now[f]]
<1>1. held \in 0 .. Own /\ store[x].text \in [File -> Text]
  BY StoreAt DEF SaveState
<1>2. now \in [Published -> Text]
  BY <1>1 DEF File
<1>3. after \in [Published -> Text]
  BY <1>2 DEF Text
<1>4. held # 0 => held \in Intake
  BY <1>1 DEF Intake
<1>5. IsFiniteSet(ConceptsOf[i]) /\ IsFiniteSet(gone)
  <2>1. IsFiniteSet({})
    BY FS_EmptySet
  <2>2. CASE held = 0
    BY <2>1, <2>2, FirstIntake
  <2>3. CASE held # 0
    <3>1. gone \subseteq ConceptsOf[held] /\ IsFiniteSet(ConceptsOf[held])
      BY <1>4, <2>3, FirstIntake
    <3> QED
      BY <3>1, FirstIntake, FS_Subset
  <2> QED
    BY <2>2, <2>3
<1>6. ConceptsOf[i] \subseteq Published /\ gone \subseteq Published
  BY <1>4, FirstIntake DEF Published
<1>7. /\ Lists!SetToSeq(ConceptsOf[i]) \in Seq(Published)
      /\ Lists!SetToSeq(gone) \in Seq(Published)
  <2>1. /\ Lists!SetToSeq(ConceptsOf[i]) \in Seq(ConceptsOf[i])
        /\ Lists!SetToSeq(gone) \in Seq(gone)
    BY <1>5, ListOfSet
  <2> HIDE DEF gone
  <2> QED
    BY <1>6, <2>1
<1>8. <<"registry", "world">> \in Seq(Published)
  BY DEF Published, Support
<1>9. order \in Seq(Published)
  <2> HIDE DEF gone
  <2>1. Lists!SetToSeq(ConceptsOf[i]) \o <<"registry", "world">> \in Seq(Published)
    BY <1>7, <1>8, JoinOfLists, Zenon
  <2> QED
    BY <1>7, <2>1, JoinOfLists, Zenon
<1>10. IntakePlan(x, i) = [by |-> Self, to |-> i, order |-> order, before |-> now,
                           after |-> after]
  BY DEF IntakePlan, Plan
<1> HIDE DEF gone, now, order, after
<1>11. IntakePlan(x, i) \in WritePlan
  BY <1>2, <1>3, <1>9, <1>10, FirstIntake DEF WritePlan, Holder
<1> QED
  BY <1>10, <1>11 DEF now

(* An intake takes the lock and writes its journal.                      *)
LEMMA IntakesSave ==
  ASSUME SavesInv, Intakes
  PROVE  SavesInv'
<1>1. CASE OwnCapture
  <2> DEFINE s == store["target"]
             n == [s EXCEPT !.captured = Own, !.text["snapshot"] = Own]
  <2>1. SaveOK("target", s) /\ s \in SaveState /\ "target" \in Store
    BY StoreAt DEF Store
  <2>2. store' = [store EXCEPT !["target"] = n]
    BY <1>1, <2>1 DEF OwnCapture, SavesInv
  <2>3. n \in SaveState
    BY <2>1, FirstIntake DEF SaveState, File, Text
  <2>4. /\ n.run = s.run /\ n.plan = s.plan /\ n.active = s.active /\ n.step = s.step
        /\ \A c \in Concept \cup {"world"} : n.text[c] = s.text[c]
    BY <2>1, FirstIntake DEF SaveState
  <2> HIDE DEF n, s
  <2>5. SaveOK("target", n)
    BY <2>1, <2>3, <2>4, Aside
  <2> QED
    BY <2>1, <2>2, <2>5, SaveStep
<1>2. ASSUME NEW x \in Store, TakeIntakeLock(x)
      PROVE  SavesInv'
  <2> DEFINE s == store[x]
             n == [s EXCEPT !.owner = Self]
  <2>1. SaveOK(x, s) /\ s \in SaveState
    BY StoreAt
  <2>2. store' = [store EXCEPT ![x] = n] /\ s.owner = Nobody
    BY <1>2, <2>1 DEF TakeIntakeLock, Owner, SavesInv
  <2>3. n \in SaveState
    BY <2>1 DEF SaveState, Holder
  <2>4. /\ n.run = s.run /\ n.plan = s.plan /\ n.active = s.active /\ n.step = s.step
        /\ n.text = s.text /\ n.was = s.was /\ n.owner = Self
    BY <2>1 DEF SaveState
  <2>5. CASE x = "target"
    <3>1. SaveOK("target", n)
      BY <2>1, <2>3, <2>4, <2>5, Aside
    <3> QED
      BY <2>2, <2>5, <3>1, SaveStep
  <2>6. CASE x = "source"
    <3>1. Cardinality(s.was) + 1 < Own
      BY <1>2, <2>6 DEF TakeIntakeLock, MayIntake, NextIntake
    <3>2. Cardinality(s.was) \in Nat
      <4>1. s.was \subseteq Intake /\ IsFiniteSet(Intake)
        BY <2>1, FirstIntake, FS_Interval DEF SaveState, Intake
      <4> QED
        BY <4>1, FS_Subset, FS_CardinalityType
    <3>3. Cardinality(s.was) + 1 \in Intake
      BY <3>1, <3>2, FirstIntake DEF Intake
    <3> HIDE DEF n
    <3>4. SourceOK(n)
      BY <2>1, <2>2, <2>4, <2>6, <3>3 DEF SaveOK, SourceOK
    <3>5. SaveOK(x, n)
      BY <2>1, <2>3, <2>4, <2>6, <3>4 DEF SaveOK
    <3> QED
      BY <2>2, <3>5, SaveStep
  <2> QED
    BY <2>5, <2>6 DEF Store
<1>3. ASSUME NEW x \in Store, BeginIntake(x)
      PROVE  SavesInv'
  <2> DEFINE s == store[x]
             i == NextIntake(x)
  <2>1. SaveOK(x, s) /\ s \in SaveState
    BY StoreAt
  <2>2. s.owner = Self /\ s.run = "idle"
    BY <1>3 DEF BeginIntake, Owner
  <2>3. CASE store' = [store EXCEPT ![x].owner = Nobody]
    <3> DEFINE n == [s EXCEPT !.owner = Nobody]
    <3>1. store' = [store EXCEPT ![x] = n]
      BY <2>3 DEF SavesInv
    <3>2. n \in SaveState
      BY <2>1 DEF SaveState, Holder
    <3>3. /\ n.run = "idle" /\ n.plan = s.plan /\ n.active = s.active /\ n.step = s.step
          /\ n.text = s.text /\ n.owner # Self
      BY <2>1, <2>2 DEF SaveState, Self, Nobody
    <3> HIDE DEF n
    <3>4. SourceOK(n)
      BY <3>3 DEF SourceOK
    <3>5. x = "target" => SaveOK("target", n)
      BY <2>1, <2>2, <3>2, <3>3, Aside
    <3>6. SaveOK(x, n)
      BY <3>2, <3>3, <3>4, <3>5 DEF SaveOK
    <3> QED
      BY <3>1, <3>6, SaveStep
  <2>4. CASE BeginWrites(x, IntakePlan(x, i))
    <3> DEFINE p == IntakePlan(x, i)
               n == [s EXCEPT !.run = "apply", !.step = 1, !.plan = p,
                              !.prepared = @ \cup {p.to}]
    <3>1. store' = [store EXCEPT ![x] = n]
      BY <2>4 DEF BeginWrites, SavesInv
    <3>2. i \in Intake
      BY <2>1, <2>2, FirstIntake DEF SaveOK, SourceOK, NextIntake, Store
    <3>3. /\ p \in WritePlan /\ p.to = i /\ p.by = Self
          /\ \A f \in Published : p.before[f] = s.text[f]
      BY <3>2, IntakePlanTyped
    <3> HIDE DEF p, i
    <3>4. n \in SaveState
      BY <2>1, <3>2, <3>3, Counts DEF SaveState, WriteRun
    <3>5. /\ n.run = "apply" /\ n.plan = p /\ n.active = s.active
          /\ n.text = s.text /\ n.owner = Self
      BY <2>1, <2>2 DEF SaveState
    <3> HIDE DEF n, s
    <3>6. SourceOK(n)
      BY <3>3, <3>5 DEF SourceOK, Self, Nobody
    <3>7. x = "target" => EmptyOK(s)
      BY <2>1 DEF SaveOK
    <3>8. x = "target" => EmptyOK(n)
      BY <2>2, <3>3, <3>5, <3>7 DEF EmptyOK, Published
    <3>9. x = "target" => p.to # 1
      BY <3>3, FirstIntake DEF NextIntake, i
    <3>10. SaveOK(x, n)
      BY <3>2, <3>3, <3>4, <3>5, <3>6, <3>8, <3>9 DEF SaveOK, ReplayOK
    <3> QED
      BY <3>1, <3>10, SaveStep
  <2> QED
    BY <1>3, <2>3, <2>4 DEF BeginIntake
<1> QED
  BY <1>1, <1>2, <1>3 DEF Intakes

-----------------------------------------------------------------------------
(* Reading and exporting.                                                  *)
LEMMA EvidenceTyped ==
  ASSUME NEW s \in SaveState, NEW i, NEW w
  PROVE  /\ Evidence(s, i, w) \in SealedRows
         /\ Evidence(s, i, w).live = 1 /\ Evidence(s, i, w).projection = "ready" => w = 1
<1> DEFINE live == IF Same(s.active, i) THEN s.active ELSE 0
           standing == IF w \notin s.was THEN "none"
                       ELSE IF w = s.active THEN "ready" ELSE "superseded"
           done == {j \in s.was : Same(j, i)}
           begun == {j \in s.prepared \ s.was : Same(j, i)}
<1>1. Evidence(s, i, w) = [intakes |-> done, prepared |-> begun, live |-> live,
                           projection |-> standing]
  BY DEF Evidence
<1>2. live \in 0 .. Own /\ standing \in {"none", "ready", "superseded"}
  BY FirstIntake DEF SaveState
<1>3. done \in SUBSET Intake /\ begun \in SUBSET Intake
  BY DEF SaveState
<1>4. live = 1 /\ standing = "ready" => w = 1
  OBVIOUS
<1> HIDE DEF live, standing, done, begun
<1> QED
  BY <1>1, <1>2, <1>3, <1>4 DEF SealedRows

(* Before the ledger is looked at nothing is sealed.                     *)
LEMMA NothingSealed == NoEvidence \in SealedRows /\ NoEvidence.live # 1
  BY FirstIntake DEF NoEvidence, SealedRows

(* One look of a reader; only the look at the ledger finds evidence.     *)
LEMMA ReadTyped ==
  ASSUME NEW r \in Reader, r.k <= Len(Reads), NEW s \in SaveState
  PROVE  /\ Read(r, s) \in Reader /\ Read(r, s).k = r.k + 1
         /\ SealedWorld(r) => SealedWorld(Read(r, s))
<1> DEFINE op == Reads[r.k]
           n == Read(r, s)
           next == [r EXCEPT !.k = @ + 1]
<1>1. /\ Len(Reads) \in Nat /\ r.k \in 1 .. Len(Reads)
      /\ op \in Glance /\ (op.kind = "ledger" => r.k = Len(Reads))
  <2>1. r.k \in 1 .. Len(Reads) + 1 /\ Len(Reads) \in Nat
    BY LedgerIsLast, LenProperties DEF Reader
  <2>2. r.k \in 1 .. Len(Reads)
    BY <2>1
  <2> QED
    BY <2>1, <2>2, LedgerIsLast, ElementOfSeq
<1>2. r.k + 1 \in 1 .. Len(Reads) + 1
  BY <1>1
<1>3. op.kind \in {"active", "file", "relations", "list", "ledger"} /\ op.file \in File
  BY <1>1 DEF Glance
<1> HIDE DEF op
<1>4. /\ next \in Reader /\ next.k = r.k + 1 /\ next.evidence = r.evidence
      /\ next.text = r.text
  BY <1>2 DEF Reader
<1>5. r.evidence = NoEvidence \/ ~ SealedWorld(r)
  BY <1>1 DEF SealedWorld
<1>6. CASE op.kind # "ledger"
  <2>1. n \in Reader /\ n.k = r.k + 1 /\ n.evidence = r.evidence
    <3>1. CASE op.kind = "active"
      <4>1. n = [next EXCEPT !.active = s.active]
        BY <3>1 DEF Read, op
      <4> HIDE DEF next
      <4> QED
        BY <1>4, <4>1 DEF Reader, SaveState
    <3>2. CASE op.kind = "relations"
      <4>1. n = [next EXCEPT !.broken = s.text[op.file] = Torn]
        BY <3>2 DEF Read, op
      <4> HIDE DEF next
      <4> QED
        BY <1>4, <4>1 DEF Reader
    <3>3. CASE op.kind = "list"
      <4>1. n = next \/ n = [next EXCEPT !.listed = @ \cup {op.file}]
        BY <3>3 DEF Read, op
      <4> HIDE DEF next
      <4> QED
        BY <1>3, <1>4, <4>1 DEF Reader
    <3>4. CASE op.kind = "file"
      <4> DEFINE broken == next.broken \/ (op.file \in Concept /\ s.text[op.file] = Absent)
                 texts == [next.text EXCEPT ![op.file] = s.text[op.file]]
      <4>1. n = next \/ n = [next EXCEPT !.text = texts, !.broken = broken]
        BY <3>4 DEF Read, op
      <4>2. s.text[op.file] \in Text /\ broken \in BOOLEAN
        BY <1>3, <1>4 DEF SaveState, Reader
      <4>3. texts \in [Published -> Text]
        BY <1>4, <4>2 DEF Reader
      <4> HIDE DEF n, next, broken, texts
      <4> QED
        BY <1>4, <4>1, <4>2, <4>3 DEF Reader
    <3> HIDE DEF n, next
    <3> QED
      BY <1>3, <1>6, <3>1, <3>2, <3>3, <3>4
  <2>2. SealedWorld(r) => n.evidence = NoEvidence
    BY <1>5, <2>1
  <2> HIDE DEF n
  <2> QED
    BY <2>1, <2>2, NothingSealed DEF SealedWorld, n
<1>7. CASE op.kind = "ledger"
  <2> DEFINE e == IF r.active = 0 THEN NoEvidence ELSE Evidence(s, r.active, r.text["world"])
             broken == r.broken \/ Unresolved(r)
  <2>1. n = [next EXCEPT !.evidence = e, !.broken = broken]
    BY <1>7 DEF Read, op, Reader
  <2>2. e \in SealedRows /\ broken \in BOOLEAN
    BY EvidenceTyped, NothingSealed DEF Reader, Unresolved
  <2>3. e.live = 1 /\ e.projection = "ready" => r.text["world"] = 1
    BY EvidenceTyped, NothingSealed
  <2> HIDE DEF e, broken, next
  <2>4. n \in Reader /\ n.k = r.k + 1 /\ n.evidence = e /\ n.text = r.text
    BY <1>4, <2>1, <2>2 DEF Reader
  <2>5. ~ n.k <= Len(Reads)
    BY <1>1, <1>7, <2>4
  <2> HIDE DEF n
  <2> QED
    BY <2>3, <2>4, <2>5 DEF SealedWorld, n
<1> QED
  BY <1>6, <1>7

(* The export up to the verification of the package.                     *)
LEMMA ExportSeals ==
  ASSUME SavesInv, SealInv, Export
  PROVE  SealInv'
<1>0. /\ package \in Package /\ package.reader \in Reader
      /\ store["source"] \in SaveState
  BY StoreAt DEF SealInv, Package, Store
<1>1. CASE OpenSource
  <2> DEFINE n == [package EXCEPT !.at = "seal"]
  <2>1. package' = n /\ package.at = "open"
    BY <1>1 DEF OpenSource
  <2>2. n \in Package /\ n.at = "seal" /\ n.reader = package.reader
    BY <1>0 DEF Package, Exporting
  <2> HIDE DEF n
  <2> QED
    BY <2>1, <2>2 DEF SealInv, SealedWorld
<1>2. CASE Seal
  <2> DEFINE r == Read(package.reader, store["source"])
             n == [package EXCEPT !.reader = r, !.at = IF WasRead(r) THEN "recipe" ELSE "seal"]
  <2>1. package' = (IF r.broken THEN Refused ELSE n) /\ package.at = "seal"
    BY <1>2 DEF Seal
  <2>2. package.reader.k <= Len(Reads) /\ SealedWorld(package.reader)
    BY <2>1 DEF SealInv
  <2>3. r \in Reader /\ SealedWorld(r)
    BY <1>0, <2>2, ReadTyped
  <2>4. WasRead(r) \/ r.k <= Len(Reads)
    BY <2>3, LedgerIsLast, LenProperties DEF WasRead, Reader
  <2> HIDE DEF r
  <2>5. /\ n \in Package /\ n.reader = r
        /\ n.at = (IF WasRead(r) THEN "recipe" ELSE "seal")
    BY <1>0, <2>3 DEF Package, Exporting
  <2>6. Refused \in Package /\ Refused.at = "refused" /\ Refused.reader = package.reader
    BY <1>0 DEF Package, Exporting, Refused
  <2> HIDE DEF n
  <2>7. CASE r.broken
    BY <2>1, <2>2, <2>6, <2>7 DEF SealInv, SealedWorld
  <2>8. CASE ~ r.broken
    BY <2>1, <2>3, <2>4, <2>5, <2>8 DEF SealInv, SealedWorld
  <2> QED
    BY <2>7, <2>8
<1>3. ASSUME package' \in Package, package'.reader = package.reader,
             package'.at \notin {"open", "seal", "verified"}
      PROVE  SealInv'
  BY <1>3 DEF SealInv, SealedWorld
<1>4. Refused \in Package /\ Refused.at = "refused" /\ Refused.reader = package.reader
  BY <1>0 DEF Package, Exporting, Refused
<1>5. CASE ReadRecipe
  <2> DEFINE recipe == Recipe(store["source"], package.reader)
             concepts == recipe.concepts
             n == [package EXCEPT !.at = "projection", !.concepts = concepts]
  <2>1. package' = Refused \/ package' = n
    BY <1>5 DEF ReadRecipe
  <2>2. concepts \in SUBSET Concept
    BY FirstIntake DEF Recipe
  <2> HIDE DEF concepts, recipe
  <2>3. n \in Package /\ n.reader = package.reader /\ n.at = "projection"
    BY <1>0, <2>2 DEF Package, Exporting
  <2> HIDE DEF n
  <2> QED
    BY <1>3, <1>4, <2>1, <2>3
<1>6. CASE ReadProjection
  <2> DEFINE n == [package EXCEPT !.at = "files"]
  <2>1. package' = Refused \/ package' = n
    BY <1>6 DEF ReadProjection
  <2>2. n \in Package /\ n.reader = package.reader /\ n.at = "files"
    BY <1>0 DEF Package, Exporting
  <2> HIDE DEF n
  <2> QED
    BY <1>3, <1>4, <2>1, <2>2
<1>7. CASE ReadFile
  <2> DEFINE f == ExportOrder[package.k]
             text == store["source"].text[f]
             at == IF package.k = Len(ExportOrder) THEN "verify" ELSE "files"
             next == [package EXCEPT !.k = @ + 1, !.at = at]
             files == [next.files EXCEPT ![f] = text]
             n == [next EXCEPT !.files = files]
  <2>1. package' = Refused \/ package' = next \/ package' = n
    BY <1>7 DEF ReadFile
  <2>2. at \in {"verify", "files"}
    OBVIOUS
  <2> HIDE DEF at, f
  <2>3. /\ next \in Package /\ next.reader = package.reader /\ next.at = at
        /\ next.files = package.files
    <3>1. at \in Exporting /\ package.k + 1 \in Nat
      BY <1>0, <2>2 DEF Package, Exporting
    <3> QED
      BY <1>0, <3>1 DEF Package
  <2>4. files \in [Published -> Text]
    BY <1>0, <2>3 DEF Package, SaveState, File
  <2> HIDE DEF files, next
  <2>5. n \in Package /\ n.reader = package.reader /\ n.at = at
    BY <2>3, <2>4 DEF Package
  <2> HIDE DEF n
  <2> QED
    BY <1>3, <1>4, <2>1, <2>2, <2>3, <2>5
<1>8. CASE Verify
  <2> DEFINE n == [package EXCEPT !.at = "verified"]
  <2>1. package' = (IF Fits(package) THEN n ELSE Refused)
    BY <1>8 DEF Verify
  <2>2. /\ n \in Package /\ n.reader = package.reader /\ n.at = "verified"
        /\ n.concepts = package.concepts /\ n.files = package.files
    BY <1>0 DEF Package, Exporting
  <2>3. ASSUME Fits(package)
        PROVE  /\ package.concepts = ConceptsOf[1] /\ package.files["world"] = 1
               /\ \A c \in ConceptsOf[1] : package.files[c] = 1
    <3>1. /\ package.concepts = ConceptsOf[1]
          /\ package.reader.evidence.live = 1
          /\ package.reader.evidence.projection = "ready"
      BY <2>3 DEF Fits, ExpectedFits
    <3>2. package.files["world"] = package.reader.text["world"]
      BY <2>3 DEF Fits, SupportFits, Support
    <3>3. \A c \in ConceptsOf[1] : package.files[c] = 1
      BY <2>3, <3>1 DEF Fits, VersionsFit
    <3> QED
      BY <3>1, <3>2, <3>3 DEF SealInv, SealedWorld
  <2> HIDE DEF n
  <2>4. CASE Fits(package)
    BY <2>1, <2>2, <2>3, <2>4 DEF SealInv, SealedWorld
  <2>5. CASE ~ Fits(package)
    BY <1>3, <1>4, <2>1, <2>5
  <2> QED
    BY <2>4, <2>5
<1> QED
  BY <1>1, <1>2, <1>5, <1>6, <1>7, <1>8 DEF Export

(* Nothing is applied before the package is verified.                      *)
LEMMA ExportKeeps ==
  ASSUME BaselineIInv, Export
  PROVE  BaselineIInv'
<1>1. SealInv'
  BY ExportSeals DEF BaselineIInv
<1>2. package.at # "verified" /\ UNCHANGED applier
  BY DEF Export, OpenSource, Seal, ReadRecipe, ReadProjection, ReadFile, Verify
<1>3. CallTypes'
  BY <1>2 DEF BaselineIInv, CallTypes
<1>4. CASE OpenSource
  <2> DEFINE s == store["source"]
             n == [s EXCEPT !.schema = @ \cup {"latest"}]
  <2>1. SaveOK("source", s) /\ s \in SaveState /\ "source" \in Store
    BY StoreAt DEF Store, BaselineIInv
  <2>2. store' = [store EXCEPT !["source"] = n]
    BY <1>4 DEF OpenSource, BaselineIInv, SavesInv
  <2>3. n \in SaveState
    BY <2>1 DEF SaveState
  <2>4. /\ n.run = s.run /\ n.plan = s.plan /\ n.was = s.was /\ n.owner = s.owner
    BY <2>1 DEF SaveState
  <2> HIDE DEF n
  <2>5. SaveOK("source", n)
    BY <2>1, <2>3, <2>4 DEF SaveOK, SourceOK
  <2>6. SavesInv'
    BY <2>1, <2>2, <2>5, SaveStep DEF BaselineIInv
  <2>7. \A x \in Store : store'[x].owner = store[x].owner
    BY <2>2, <2>4 DEF BaselineIInv, SavesInv
  <2> QED
    BY <1>1, <1>2, <1>3, <2>6, <2>7 DEF BaselineIInv, OnlyVerified
<1>5. CASE UNCHANGED store
  <2>1. SavesInv'
    BY <1>5 DEF BaselineIInv, SavesInv, SaveOK, SourceOK, EmptyOK, ReplayOK, InstallsPackage
  <2> QED
    BY <1>1, <1>2, <1>3, <1>5, <2>1 DEF BaselineIInv, OnlyVerified
<1> QED
  BY <1>4, <1>5 DEF Export, Seal, ReadRecipe, ReadProjection, ReadFile, Verify

-----------------------------------------------------------------------------
(* The appliers.                                                           *)
LEMMA CallStep ==
  ASSUME CallTypes, NEW a \in Applier, NEW n \in ApplierState,
         n.at = "files" => n.k <= 3, n.reader.k <= Len(Reads),
         Go(a, n)
  PROVE  CallTypes'
<1>1. applier' \in [Applier -> ApplierState]
  BY DEF CallTypes, Go
<1>2. \A b \in Applier : applier'[b] = IF b = a THEN n ELSE applier[b]
  BY DEF CallTypes, Go
<1> QED
  BY <1>1, <1>2 DEF CallTypes

(* A reader starts at the beginning or at the bundle.                    *)
LEMMA ReaderAtStart ==
  /\ Unread \in Reader /\ Unread.k <= Len(Reads)
  /\ [Unread EXCEPT !.k = BundleFrom] \in Reader
  /\ [Unread EXCEPT !.k = BundleFrom].k <= Len(Reads)
<1>1. Len(Reads) \in Nat /\ Len(Reads) >= BundleFrom /\ BundleFrom = 4
  BY LedgerIsLast, LenProperties DEF BundleFrom
<1>2. 1 \in 1 .. Len(Reads) + 1 /\ BundleFrom \in 1 .. Len(Reads) + 1 /\ 1 <= Len(Reads)
  BY <1>1
<1>3. [f \in Published |-> Absent] \in [Published -> Text]
  BY DEF Text
<1>4. /\ Unread \in Reader /\ Unread.k = 1
  BY <1>2, <1>3, FirstIntake, NothingSealed DEF Unread, Reader
<1> HIDE DEF Reads
<1>5. /\ [Unread EXCEPT !.k = BundleFrom] \in Reader
      /\ [Unread EXCEPT !.k = BundleFrom].k = BundleFrom
  BY <1>2, <1>4 DEF Reader
<1> QED
  BY <1>1, <1>2, <1>4, <1>5

(* An applier that has its answer remembers nothing else.                *)
LEMMA ReplyTyped ==
  ASSUME NEW at \in Applying
  PROVE  /\ [FreshApplier EXCEPT !.at = at] \in ApplierState
         /\ [FreshApplier EXCEPT !.at = at].at = at
         /\ [FreshApplier EXCEPT !.at = at].k = 1
         /\ [FreshApplier EXCEPT !.at = at].reader = Unread
         /\ FreshApplier \in ApplierState
<1>1. "idle" \in Applying /\ 1 \in 1 .. 4
  BY DEF Applying
<1>2. /\ FreshApplier \in ApplierState
      /\ FreshApplier.k = 1 /\ FreshApplier.reader = Unread
  BY <1>1, ReaderAtStart DEF FreshApplier, ApplierState
<1> QED
  BY <1>2 DEF ApplierState

LEMMA ReplyKeeps ==
  ASSUME CallTypes, NEW a \in Applier, NEW at \in Applying,
         Go(a, [FreshApplier EXCEPT !.at = at])
  PROVE  CallTypes'
<1> DEFINE n == [FreshApplier EXCEPT !.at = at]
<1>1. /\ n \in ApplierState /\ n.k <= 3 /\ n.reader.k <= Len(Reads)
  BY ReplyTyped, ReaderAtStart
<1> HIDE DEF n
<1> QED
  BY <1>1, CallStep DEF n

(* What steps of transactions keep.                                      *)
LEMMA TransactionKeeps ==
  ASSUME BaselineIInv, NEW x \in Store, Transaction(x)
  PROVE  BaselineIInv'
<1>1. SavesInv'
  BY TransactionSaves DEF BaselineIInv
<1>2. UNCHANGED package
  BY DEF Transaction, RecoverJournal, WriteFile, CommitLedger, StepFails, Cleanup, Dies
<1>3. \/ UNCHANGED applier
      \/ /\ Owner(x) \in Applier
         /\ \E at \in {"failed", "confirm", "idle"} :
              Go(Owner(x), [FreshApplier EXCEPT !.at = at])
  BY DEF Transaction, RecoverJournal, WriteFile, CommitLedger, StepFails, Cleanup, Dies,
         Answered, Go
<1>4. CallTypes'
  <2>1. CASE UNCHANGED applier
    BY <2>1 DEF BaselineIInv, CallTypes
  <2>2. {"failed", "confirm", "idle"} \subseteq Applying
    BY DEF Applying, Answers
  <2> QED
    BY <1>3, <2>1, <2>2, ReplyKeeps DEF BaselineIInv
<1>5. \A y \in Store : store'[y].owner \in {store[y].owner, Nobody}
  <2> SUFFICES ASSUME NEW y \in Store
               PROVE  store'[y].owner \in {store[y].owner, Nobody}
    OBVIOUS
  <2>1. store \in [Store -> SaveState]
    BY DEF BaselineIInv, SavesInv
  <2>2. CASE RecoverJournal(x)
    BY <2>1, <2>2 DEF RecoverJournal, SaveState
  <2>3. CASE WriteFile(x)
    BY <2>1, <2>3 DEF WriteFile, SaveState
  <2>4. CASE CommitLedger(x)
    BY <2>1, <2>4 DEF CommitLedger, SaveState
  <2>5. CASE StepFails(x)
    <3> DEFINE m == [store[x] EXCEPT !.step = 1,
                       !.run = IF @ = "apply" THEN "restore" ELSE "install"]
               n == [store[x] EXCEPT !.run = "down", !.owner = Nobody]
    <3>1. store' = [store EXCEPT ![x] = m] \/ store' = [store EXCEPT ![x] = n]
      BY <2>1, <2>5 DEF StepFails
    <3>2. m.owner = store[x].owner /\ n.owner = Nobody
      BY <2>1 DEF SaveState
    <3> HIDE DEF m, n
    <3> QED
      BY <2>1, <3>1, <3>2
  <2>6. CASE Cleanup(x)
    BY <2>1, <2>6 DEF Cleanup, SaveState
  <2>7. CASE Dies(x)
    BY <2>1, <2>7 DEF Dies, SaveState
  <2> QED
    BY <2>2, <2>3, <2>4, <2>5, <2>6, <2>7 DEF Transaction
<1>6. OnlyVerified'
  BY <1>2, <1>3, <1>5, FirstIntake DEF BaselineIInv, OnlyVerified, Owner
<1>7. SealInv'
  BY <1>2 DEF BaselineIInv, SealInv, SealedWorld
<1> QED
  BY <1>1, <1>4, <1>6, <1>7 DEF BaselineIInv

(* What intakes keep.                                                    *)
LEMMA IntakesKeep ==
  ASSUME BaselineIInv, Intakes
  PROVE  BaselineIInv'
<1>1. SavesInv'
  BY IntakesSave DEF BaselineIInv
<1>2. UNCHANGED <<package, applier>>
  BY DEF Intakes, OwnCapture, TakeIntakeLock, BeginIntake
<1>3. \A y \in Store : store'[y].owner \in {store[y].owner, Nobody, Self}
  <2> SUFFICES ASSUME NEW y \in Store
               PROVE  store'[y].owner \in {store[y].owner, Nobody, Self}
    OBVIOUS
  <2>1. store \in [Store -> SaveState]
    BY DEF BaselineIInv, SavesInv
  <2>2. CASE OwnCapture
    BY <2>1, <2>2 DEF OwnCapture, SaveState
  <2>3. ASSUME NEW x \in Store, TakeIntakeLock(x)
        PROVE  store'[y].owner \in {store[y].owner, Nobody, Self}
    BY <2>1, <2>3 DEF TakeIntakeLock, SaveState
  <2>4. ASSUME NEW x \in Store, BeginIntake(x)
        PROVE  store'[y].owner \in {store[y].owner, Nobody, Self}
    BY <2>1, <2>4 DEF BeginIntake, BeginWrites, SaveState
  <2> QED
    BY <2>2, <2>3, <2>4 DEF Intakes
<1>4. OnlyVerified'
  BY <1>2, <1>3, FirstIntake DEF BaselineIInv, OnlyVerified
<1> QED
  BY <1>1, <1>2, <1>4 DEF BaselineIInv, CallTypes, SealInv, SealedWorld

(* A file that is created or filled is no file of a transaction.         *)
LEMMA TextAside ==
  ASSUME SavesInv, NEW f \in {"manifest", "relations", "registry", "snapshot"},
         NEW v \in Text, store' = [store EXCEPT !["target"].text[f] = v]
  PROVE  SavesInv'
<1> DEFINE s == store["target"]
           n == [s EXCEPT !.text[f] = v]
<1>1. SaveOK("target", s) /\ s \in SaveState /\ "target" \in Store
  BY StoreAt DEF Store
<1>2. store' = [store EXCEPT !["target"] = n]
  BY DEF SavesInv
<1>3. n \in SaveState
  BY <1>1 DEF SaveState
<1>4. /\ n.run = s.run /\ n.plan = s.plan /\ n.active = s.active /\ n.step = s.step
      /\ \A c \in Concept \cup {"world"} : n.text[c] = s.text[c]
  BY <1>1, FirstIntake DEF SaveState
<1> HIDE DEF n, s
<1>5. SaveOK("target", n)
  BY <1>1, <1>3, <1>4, Aside
<1> QED
  BY <1>1, <1>2, <1>5, SaveStep

(* writeOnce keeps the invariant of the target.                          *)
LEMMA FileSteps ==
  ASSUME SavesInv, CallTypes, NEW a \in Applier,
         NEW f \in {"manifest", "relations", "registry", "snapshot"},
         NEW v \in Text, NEW next \in ApplierState,
         next.at = "files" => next.k <= 3, next.reader.k <= Len(Reads),
         CreateFile(a, f) \/ FillFile(a, f, v, next)
  PROVE  SavesInv' /\ CallTypes'
<1>1. store["target"].text[f] \in Text
  BY StoreAt DEF SaveState, Store, File, Published, Support
<1>2. CASE CreateFile(a, f)
  <2> DEFINE n == [applier[a] EXCEPT !.writes = TRUE]
  <2>1. /\ n \in ApplierState /\ n.at = applier[a].at /\ n.k = applier[a].k
        /\ n.reader = applier[a].reader
    BY DEF CallTypes, ApplierState
  <2>2. Go(a, n) /\ store' = [store EXCEPT !["target"].text[f] = Torn]
    BY <1>2 DEF CreateFile
  <2>3. Torn \in Text
    BY DEF Text
  <2> HIDE DEF n
  <2>4. CallTypes'
    BY <2>1, <2>2, CallStep DEF CallTypes
  <2> QED
    BY <2>2, <2>3, <2>4, TextAside
<1>3. CASE FillFile(a, f, v, next)
  <2> DEFINE n == [next EXCEPT !.writes = FALSE]
             w == IF store["target"].text[f] = Torn THEN v ELSE store["target"].text[f]
  <2>1. n \in ApplierState /\ n.at = next.at /\ n.k = next.k /\ n.reader = next.reader
    BY DEF ApplierState
  <2>2. Go(a, n) /\ store' = [store EXCEPT !["target"].text[f] = w]
    BY <1>3 DEF FillFile, SavesInv
  <2>3. w \in Text
    BY <1>1
  <2> HIDE DEF n, w
  <2>4. CallTypes'
    BY <2>1, <2>2, CallStep
  <2> QED
    BY <2>2, <2>3, <2>4, TextAside
<1> QED
  BY <1>2, <1>3

(* A reading of the target changes no store.                             *)
LEMMA ReadingKeeps ==
  ASSUME SavesInv, CallTypes, NEW a \in Applier, NEW at, NEW decided \in ApplierState,
         decided.at # "files", decided.reader.k <= Len(Reads), Reading(a, at, decided),
         at # "files"
  PROVE  SavesInv' /\ CallTypes'
<1> DEFINE r == ReadNext(a)
           n == [applier[a] EXCEPT !.reader = r]
           u == [FreshApplier EXCEPT !.at = "unreadable"]
<1>1. UNCHANGED store /\ applier[a].at = at
      /\ Go(a, IF r.broken THEN u ELSE IF WasRead(r) THEN decided ELSE n)
  BY DEF Reading
<1>2. SavesInv'
  BY <1>1 DEF SavesInv, SaveOK, SourceOK, EmptyOK, ReplayOK, InstallsPackage
<1>3. applier[a] \in ApplierState /\ applier[a].reader.k <= Len(Reads)
  BY DEF CallTypes
<1>4. r \in Reader
  BY <1>3, StoreAt, ReadTyped DEF ReadNext, Target, ApplierState, Store
<1>5. WasRead(r) \/ r.k <= Len(Reads)
  BY <1>4, LedgerIsLast, LenProperties DEF WasRead, Reader
<1> HIDE DEF r
<1>6. n \in ApplierState /\ n.at # "files" /\ n.reader = r
  BY <1>1, <1>3, <1>4 DEF ApplierState
<1>7. u \in ApplierState /\ u.at # "files" /\ u.reader.k <= Len(Reads)
  <2>1. "unreadable" \in Applying
    BY DEF Applying, Answers
  <2> QED
    BY <2>1, ReplyTyped, ReaderAtStart
<1> HIDE DEF n, u
<1>8. CallTypes'
  BY <1>1, <1>5, <1>6, <1>7, CallStep
<1> QED
  BY <1>2, <1>8

(* The plan of an applier installs the package.                          *)
LEMMA ReplayPlanTyped ==
  ASSUME SavesInv, SealInv, package.at = "verified", NEW a \in Applier
  PROVE  LET p == ReplayPlan(a)
         IN  /\ p \in WritePlan /\ p.to = 1
             /\ InOrder(p) = ConceptsOf[1] \cup Support
             /\ \A f \in Content : p.after[f] = 1
             /\ \A f \in Published : p.before[f] = Target.text[f]
<1> DEFINE now == [f \in Published |-> Target.text[f]]
           after == [f \in Published |-> IF f \in Support \cup package.concepts
                                         THEN package.files[f] ELSE now[f]]
           list == Lists!SetToSeq(package.concepts)
           head == <<"world", "registry">>
           order == head \o list
<1>0. /\ package.concepts = ConceptsOf[1] /\ package.files["world"] = 1
      /\ \A c \in ConceptsOf[1] : package.files[c] = 1
      /\ package.files \in [Published -> Text]
  BY DEF SealInv, Package
<1>1. now \in [Published -> Text]
  BY StoreAt DEF SaveState, File, Target, Store
<1>2. after \in [Published -> Text]
  BY <1>0, <1>1
<1>3. \A f \in Content : after[f] = 1
  BY <1>0, FirstIntake DEF Content, Support
<1>4. /\ list \in Seq(ConceptsOf[1])
      /\ {list[i] : i \in 1 .. Len(list)} = ConceptsOf[1]
  BY <1>0, FirstIntake, ListOfSet
<1>5. ConceptsOf[1] \subseteq Published
  BY FirstIntake DEF Published
<1> HIDE DEF list
<1>6. list \in Seq(Published)
  BY <1>4, <1>5
<1>7. /\ head \in Seq(Published) /\ Len(head) = 2
      /\ head[1] = "world" /\ head[2] = "registry"
  BY DEF Published, Support
<1> HIDE DEF head
<1>8. /\ order \in Seq(Published) /\ Len(list) \in Nat /\ Len(order) = 2 + Len(list)
      /\ order[1] = "world" /\ order[2] = "registry"
      /\ \A i \in 1 .. Len(list) : order[2 + i] = list[i]
  <2> HIDE DEF Published
  <2>1. /\ order \in Seq(Published) /\ Len(list) \in Nat
        /\ Len(order) = Len(head) + Len(list)
    BY <1>6, <1>7, JoinOfLists, Zenon
  <2>2. \A i \in 1 .. Len(head) : order[i] = head[i]
    BY <1>6, <1>7, JoinOfLists
  <2>3. \A i \in 1 .. Len(list) : order[Len(head) + i] = list[i]
    <3> SUFFICES ASSUME NEW i \in 1 .. Len(list)
                 PROVE  (head \o list)[Len(head) + i] = list[i]
      OBVIOUS
    <3>1. head \in Seq(Published)
      BY <1>7
    <3> QED
      BY <1>6, <3>1, SecondList, Zenon
  <2> HIDE DEF order
  <2> QED
    BY <1>7, <2>1, <2>2, <2>3
<1> HIDE DEF order
<1>9. {order[i] : i \in 1 .. Len(order)} = ConceptsOf[1] \cup Support
  <2>1. \A i \in 1 .. Len(order) : order[i] \in ConceptsOf[1] \cup Support
    <3> SUFFICES ASSUME NEW i \in 1 .. Len(order)
                 PROVE  order[i] \in ConceptsOf[1] \cup Support
      OBVIOUS
    <3>1. CASE i \in {1, 2}
      BY <1>8, <3>1 DEF Support
    <3>2. CASE i \notin {1, 2}
      <4>1. i - 2 \in 1 .. Len(list) /\ i = 2 + (i - 2)
        BY <1>8, <3>2
      <4>2. order[i] = list[i - 2]
        BY <1>8, <4>1
      <4> QED
        BY <1>4, <4>1, <4>2
    <3> QED
      BY <3>1, <3>2
  <2>2. \A c \in ConceptsOf[1] : \E i \in 1 .. Len(order) : order[i] = c
    <3> SUFFICES ASSUME NEW c \in ConceptsOf[1]
                 PROVE  \E i \in 1 .. Len(order) : order[i] = c
      OBVIOUS
    <3>1. PICK i \in 1 .. Len(list) : list[i] = c
      BY <1>4
    <3>2. 2 + i \in 1 .. Len(order) /\ order[2 + i] = c
      BY <1>8, <3>1
    <3> QED
      BY <3>2
  <2>3. \A f \in Support : \E i \in 1 .. Len(order) : order[i] = f
    <3>1. 1 \in 1 .. Len(order) /\ 2 \in 1 .. Len(order)
      BY <1>8
    <3> QED
      BY <1>8, <3>1 DEF Support
  <2> QED
    BY <2>1, <2>2, <2>3
<1>10. ReplayPlan(a) = [by |-> a, to |-> 1, order |-> order, before |-> now, after |-> after]
  BY DEF ReplayPlan, ReplayOrder, Plan, order, head, list
<1> HIDE DEF now, after
<1>11. ReplayPlan(a) \in WritePlan
  BY <1>1, <1>2, <1>8, <1>10, FirstIntake DEF WritePlan, Holder
<1> QED
  BY <1>3, <1>9, <1>10, <1>11 DEF InOrder, now

(* The other steps of an applier leave the saves as they are, but for the  *)
(* owner of the lock and the tables.                                       *)
LEMMA TargetAside ==
  ASSUME SavesInv, NEW n \in SaveState, n.active = Target.active, n.run = Target.run,
         n.plan = Target.plan, n.step = Target.step, n.text = Target.text,
         store' = [store EXCEPT !["target"] = n]
  PROVE  SavesInv'
<1>1. SaveOK("target", Target) /\ "target" \in Store
  BY StoreAt DEF Store, Target
<1>2. SaveOK("target", n)
  BY <1>1, Aside
<1> QED
  BY <1>1, <1>2, SaveStep

(* Stores that nobody changes.                                           *)
LEMMA SavesStay ==
  ASSUME SavesInv, UNCHANGED store
  PROVE  SavesInv'
  BY DEF SavesInv, SaveOK, SourceOK, EmptyOK, ReplayOK, InstallsPackage

(* An answer alone.                                                      *)
LEMMA ReplySteps ==
  ASSUME SavesInv, CallTypes, NEW a \in Applier, NEW at \in Applying, UNCHANGED store,
         Reply(a, at)
  PROVE  SavesInv' /\ CallTypes'
  BY SavesStay, ReplyKeeps DEF Reply

(* The journal of an applier.                                            *)
LEMMA BeginReplayKeeps ==
  ASSUME SavesInv, CallTypes, SealInv, package.at = "verified", NEW a \in Applier,
         BeginReplay(a)
  PROVE  SavesInv' /\ CallTypes'
<1> DEFINE s == Target
<1>0. s = store["target"] /\ "target" \in Store
  BY DEF Target, Store
<1>1. SaveOK("target", s) /\ s \in SaveState
  BY <1>0, StoreAt
<1>2. s.run = "idle"
  BY DEF BeginReplay
<1>3. CASE s.active # 0
  <2> DEFINE n == [s EXCEPT !.owner = Nobody]
  <2>1. store' = [store EXCEPT !["target"] = n] /\ Reply(a, "failed")
    BY <1>0, <1>3 DEF BeginReplay, SavesInv
  <2>2. n \in SaveState
    BY <1>1 DEF SaveState, Holder
  <2>3. /\ n.run = s.run /\ n.plan = s.plan /\ n.active = s.active /\ n.step = s.step
        /\ n.text = s.text
    BY <1>1 DEF SaveState
  <2> HIDE DEF n
  <2>4. "failed" \in Applying
    BY DEF Applying, Answers
  <2> QED
    BY <2>1, <2>2, <2>3, <2>4, TargetAside, ReplyKeeps DEF Reply
<1>4. CASE s.active = 0
  <2> DEFINE p == ReplayPlan(a)
             n == [s EXCEPT !.run = "apply", !.step = 1, !.plan = p,
                            !.prepared = @ \cup {p.to}]
  <2>1. store' = [store EXCEPT !["target"] = n] /\ Reply(a, "replay")
    BY <1>0, <1>4 DEF BeginReplay, BeginWrites, SavesInv
  <2>2. /\ p \in WritePlan /\ p.to = 1 /\ InOrder(p) = ConceptsOf[1] \cup Support
        /\ \A f \in Content : p.after[f] = 1
        /\ \A f \in Published : p.before[f] = s.text[f]
    BY ReplayPlanTyped
  <2> HIDE DEF p
  <2>3. n \in SaveState
    <3>1. p \in WritePlan /\ p.to \in Intake
      BY <2>2, FirstIntake
    <3> QED
      BY <1>1, <3>1, Counts DEF SaveState, WriteRun
  <2>4. /\ n.run = "apply" /\ n.plan = p /\ n.active = s.active
        /\ n.text = s.text /\ n.step = 1
    BY <1>1 DEF SaveState
  <2>5. p.order \in Seq(Published)
    BY <2>2 DEF WritePlan
  <2> HIDE DEF n, s
  <2>6. EmptyOK(n)
    BY <1>1, <1>2, <2>2, <2>4 DEF SaveOK, EmptyOK, Published
  <2>7. InstallsPackage(n)
    <3>1. \A i \in 1 .. Len(p.order) : ~ i < 1
      BY <2>5
    <3> QED
      BY <1>4, <2>2, <2>4, <3>1 DEF InstallsPackage
  <2>8. SaveOK("target", n)
    BY <2>2, <2>3, <2>4, <2>6, <2>7, FirstIntake DEF SaveOK, ReplayOK
  <2>9. "replay" \in Applying
    BY DEF Applying
  <2> QED
    BY <1>0, <2>1, <2>8, <2>9, SaveStep, ReplyKeeps DEF Reply
<1> QED
  BY <1>3, <1>4

(* initializeChat, called by an applier.                                 *)
LEMMA InitializeKeeps ==
  ASSUME SavesInv, CallTypes, NEW a \in Applier,
         InitializeFiles(a) \/ InitializeLedger(a)
  PROVE  SavesInv' /\ CallTypes'
<1>0. applier[a] \in ApplierState /\ applier[a].reader.k <= Len(Reads)
  BY DEF CallTypes
<1>1. CASE InitializeFiles(a)
  <2> DEFINE f == SetupFiles[applier[a].k]
             next == IF applier[a].k = Len(SetupFiles)
                     THEN [applier[a] EXCEPT !.k = 1, !.at = "ledger"]
                     ELSE [applier[a] EXCEPT !.k = @ + 1]
  <2>1. applier[a].at = "files" /\ applier[a].k \in 1 .. 3
    BY <1>0, <1>1 DEF InitializeFiles, CallTypes, ApplierState
  <2>2. f \in {"manifest", "relations", "registry", "snapshot"} /\ Len(SetupFiles) = 3
    BY <2>1 DEF SetupFiles
  <2>3. /\ next \in ApplierState /\ (next.at = "files" => next.k <= 3)
        /\ next.reader.k <= Len(Reads)
    <3>1. CASE applier[a].k = 3
      <4>1. next = [applier[a] EXCEPT !.k = 1, !.at = "ledger"]
        BY <2>2, <3>1
      <4>2. "ledger" \in Applying /\ 1 \in 1 .. 4
        BY DEF Applying
      <4> HIDE DEF next
      <4> QED
        BY <1>0, <4>1, <4>2 DEF ApplierState
    <3>2. CASE applier[a].k # 3
      <4>1. next = [applier[a] EXCEPT !.k = @ + 1]
        BY <2>2, <3>2
      <4>2. applier[a].k + 1 \in 1 .. 3
        BY <2>1, <3>2
      <4> HIDE DEF next
      <4> QED
        BY <1>0, <4>1, <4>2 DEF ApplierState
    <3> QED
      BY <3>1, <3>2
  <2>4. Blank \in Text
    BY DEF Text
  <2>5. \/ CreateFile(a, f) \/ FillFile(a, f, Blank, next)
        \/ UNCHANGED store /\ (Reply(a, "unreadable") \/ Go(a, next))
    BY <1>1 DEF InitializeFiles
  <2>6. "unreadable" \in Applying
    BY DEF Applying, Answers
  <2> HIDE DEF f, next
  <2>7. CASE CreateFile(a, f) \/ FillFile(a, f, Blank, next)
    BY <2>2, <2>3, <2>4, <2>7, FileSteps
  <2>8. CASE UNCHANGED store /\ Reply(a, "unreadable")
    BY <2>6, <2>8, ReplySteps
  <2>9. CASE UNCHANGED store /\ Go(a, next)
    BY <2>3, <2>9, CallStep, SavesStay
  <2> QED
    BY <2>5, <2>7, <2>8, <2>9
<1>2. CASE InitializeLedger(a)
  <2> DEFINE t == SetupTables[applier[a].k]
             s == Target
             n == [s EXCEPT !.schema = @ \cup {t}]
             next == [applier[a] EXCEPT !.k = @ + 1]
  <2>1. applier[a].k \in 1 .. 4 /\ applier[a].at = "ledger" /\ Len(SetupTables) = 4
    BY <1>0, <1>2 DEF InitializeLedger, ApplierState, SetupTables
  <2>2. t \in {"tables", "lore", "latest", "chat"}
    BY <2>1 DEF SetupTables
  <2>3. s = store["target"] /\ "target" \in Store /\ s \in SaveState
    BY StoreAt DEF Target, Store
  <2>4. store' = [store EXCEPT !["target"] = n]
    BY <1>2, <2>3 DEF InitializeLedger, SavesInv
  <2> HIDE DEF t, s
  <2>5. n \in SaveState
    BY <2>2, <2>3 DEF SaveState
  <2>6. /\ n.run = s.run /\ n.plan = s.plan /\ n.active = s.active /\ n.step = s.step
        /\ n.text = s.text
    BY <2>3 DEF SaveState
  <2> HIDE DEF n
  <2>7. SavesInv'
    BY <2>4, <2>5, <2>6, TargetAside DEF s
  <2>8. CASE applier[a].k = 4
    <3>1. Go(a, [FreshApplier EXCEPT !.at = "inspect"])
      BY <1>2, <2>1, <2>8 DEF InitializeLedger
    <3>2. "inspect" \in Applying
      BY DEF Applying
    <3> QED
      BY <2>7, <3>1, <3>2, ReplyKeeps
  <2>9. CASE applier[a].k # 4
    <3>1. Go(a, next)
      BY <1>2, <2>1, <2>9 DEF InitializeLedger
    <3>2. applier[a].k + 1 \in 1 .. 4
      BY <2>1, <2>9
    <3>3. next \in ApplierState /\ next.at # "files" /\ next.reader.k <= Len(Reads)
      BY <1>0, <2>1, <3>2 DEF ApplierState
    <3> HIDE DEF next
    <3> QED
      BY <2>7, <3>1, <3>3, CallStep
  <2> QED
    BY <2>8, <2>9
<1> QED
  BY <1>1, <1>2

(* The steps of an applier.                                              *)
LEMMA ReplaySteps ==
  ASSUME SavesInv, CallTypes, SealInv, package.at = "verified", NEW a \in Applier, Replay(a)
  PROVE  SavesInv' /\ CallTypes'
<1>0. "target" \in Store /\ Target \in SaveState /\ Target = store["target"]
  BY StoreAt DEF Store, Target
<1>1. CASE Apply(a)
  <2>1. "files" \in Applying
    BY DEF Applying
  <2> QED
    BY <1>1, <2>1, SavesStay, ReplyKeeps DEF Apply
<1>2. CASE InitializeFiles(a) \/ InitializeLedger(a)
  BY <1>2, InitializeKeeps
<1>3. CASE Inspect(a)
  <2> DEFINE decided ==
               IF Sealed(ReadNext(a)) THEN [FreshApplier EXCEPT !.at = "existing"]
               ELSE IF ReadNext(a).active # 0 THEN [FreshApplier EXCEPT !.at = "not_empty"]
               ELSE [FreshApplier EXCEPT !.at = "check", !.reader.k = BundleFrom]
             start == [FreshApplier EXCEPT !.at = "check", !.reader.k = BundleFrom]
  <2>1. Reading(a, "inspect", decided)
    BY <1>3 DEF Inspect
  <2>2. {"existing", "not_empty", "check"} \subseteq Applying
    BY DEF Applying, Answers
  <2>3. /\ start \in ApplierState /\ start.at = "check"
        /\ start.reader = [Unread EXCEPT !.k = BundleFrom]
    <3>1. FreshApplier \in ApplierState /\ FreshApplier.reader = Unread
      BY <2>2, ReplyTyped DEF FreshApplier
    <3>2. start = [FreshApplier EXCEPT !.at = "check",
                                       !.reader = [Unread EXCEPT !.k = BundleFrom]]
      BY <3>1
    <3> HIDE DEF start
    <3>3. [Unread EXCEPT !.k = BundleFrom] \in Reader
      BY ReaderAtStart
    <3> QED
      BY <2>2, <3>1, <3>2, <3>3 DEF ApplierState
  <2>4. \/ decided = start
        \/ \E at \in {"existing", "not_empty"} : decided = [FreshApplier EXCEPT !.at = at]
    OBVIOUS
  <2> HIDE DEF decided, start
  <2>5. /\ decided \in ApplierState /\ decided.at # "files"
        /\ decided.reader.k <= Len(Reads)
    BY <2>2, <2>3, <2>4, ReplyTyped, ReaderAtStart
  <2> QED
    BY <2>1, <2>5, ReadingKeeps
<1>4. ASSUME NEW at, NEW answer \in Applying, at # "files", answer # "files",
             Reading(a, at, [FreshApplier EXCEPT !.at = answer])
      PROVE  SavesInv' /\ CallTypes'
  <2> DEFINE decided == [FreshApplier EXCEPT !.at = answer]
  <2>1. /\ decided \in ApplierState /\ decided.at # "files"
        /\ decided.reader.k <= Len(Reads)
    BY <1>4, ReplyTyped, ReaderAtStart
  <2>2. Reading(a, at, decided)
    BY <1>4
  <2> HIDE DEF decided
  <2> QED
    BY <1>4, <2>1, <2>2, ReadingKeeps
<1>5. CASE CheckEmpty(a)
  <2> DEFINE answer == IF ReadNext(a).listed # {} \/ Target.active # 0
                       THEN "not_empty" ELSE "snapshot"
  <2>1. Reading(a, "check", [FreshApplier EXCEPT !.at = answer])
    BY <1>5 DEF CheckEmpty
  <2>2. answer \in Applying /\ answer # "files"
    BY DEF Applying, Answers
  <2> HIDE DEF answer
  <2> QED
    BY <1>4, <2>1, <2>2
<1>6. CASE Confirm(a)
  <2> DEFINE answer == IF Sealed(ReadNext(a)) THEN "applied" ELSE "mismatch"
  <2>1. Reading(a, "confirm", [FreshApplier EXCEPT !.at = answer])
    BY <1>6 DEF Confirm
  <2>2. answer \in Applying /\ answer # "files"
    BY DEF Applying, Answers
  <2> HIDE DEF answer
  <2> QED
    BY <1>4, <2>1, <2>2
<1>7. CASE RestoreSnapshot(a)
  <2> DEFINE row == [FreshApplier EXCEPT !.at = "row"]
  <2>1. \/ CreateFile(a, "snapshot")
        \/ FillFile(a, "snapshot", 1, row)
        \/ UNCHANGED store
             /\ \E at \in {"lock", "failed", "row", "unreadable"} : Reply(a, at)
    BY <1>7 DEF RestoreSnapshot
  <2>2. {"lock", "failed", "row", "unreadable"} \subseteq Applying
    BY DEF Applying, Answers
  <2>3. row \in ApplierState /\ row.at # "files" /\ row.reader.k <= Len(Reads)
    BY <2>2, ReplyTyped, ReaderAtStart
  <2>4. 1 \in Text
    BY FirstIntake DEF Text
  <2> HIDE DEF row
  <2>5. CASE CreateFile(a, "snapshot") \/ FillFile(a, "snapshot", 1, row)
    BY <2>3, <2>4, <2>5, FileSteps
  <2> QED
    BY <2>1, <2>2, <2>5, ReplySteps
<1>8. CASE InsertSnapshot(a)
  <2> DEFINE n == [Target EXCEPT !.captured = 1]
  <2>1. \/ store' = [store EXCEPT !["target"] = n] /\ Reply(a, "lock")
        \/ UNCHANGED store /\ Reply(a, "failed")
    BY <1>0, <1>8 DEF InsertSnapshot, SavesInv
  <2>2. "lock" \in Applying /\ "failed" \in Applying
    BY DEF Applying, Answers
  <2>3. n \in SaveState
    BY <1>0, FirstIntake DEF SaveState
  <2>4. /\ n.run = Target.run /\ n.plan = Target.plan /\ n.active = Target.active
        /\ n.step = Target.step /\ n.text = Target.text
    BY <1>0 DEF SaveState
  <2> HIDE DEF n
  <2>5. CASE store' = [store EXCEPT !["target"] = n] /\ Reply(a, "lock")
    BY <2>2, <2>3, <2>4, <2>5, TargetAside, ReplyKeeps DEF Reply
  <2> QED
    BY <2>1, <2>2, <2>5, ReplySteps
<1>9. CASE TakeLock(a)
  <2> DEFINE n == [Target EXCEPT !.owner = a]
  <2>1. store' = [store EXCEPT !["target"] = n] /\ Reply(a, "locked")
    BY <1>0, <1>9 DEF TakeLock, SavesInv
  <2>2. "locked" \in Applying
    BY DEF Applying
  <2>3. n \in SaveState
    BY <1>0 DEF SaveState, Holder
  <2>4. /\ n.run = Target.run /\ n.plan = Target.plan /\ n.active = Target.active
        /\ n.step = Target.step /\ n.text = Target.text
    BY <1>0 DEF SaveState
  <2> HIDE DEF n
  <2> QED
    BY <2>1, <2>2, <2>3, <2>4, TargetAside, ReplyKeeps DEF Reply
<1>10. CASE BeginReplay(a)
  BY <1>10, BeginReplayKeeps
<1>11. CASE Aborts(a)
  <2>1. "idle" \in Applying
    BY DEF Applying
  <2>2. UNCHANGED store /\ Reply(a, "idle")
    BY <1>11 DEF Aborts
  <2> QED
    BY <2>1, <2>2, ReplySteps
<1> QED
  BY <1>1, <1>2, <1>3, <1>5, <1>6, <1>7, <1>8, <1>9, <1>10, <1>11 DEF Replay

(* Nobody applies before the package is verified.                        *)
LEMMA ReplayKeeps ==
  ASSUME BaselineIInv, NEW a \in Applier, Replay(a)
  PROVE  BaselineIInv'
<1>1. package.at = "verified" \/ applier[a].at # "idle"
  BY DEF Replay, Apply, InitializeFiles, InitializeLedger, Inspect, CheckEmpty, Confirm,
         Reading, RestoreSnapshot, InsertSnapshot, TakeLock, BeginReplay, Aborts
<1>2. package.at = "verified"
  BY <1>1 DEF BaselineIInv, OnlyVerified
<1>3. UNCHANGED package
  BY DEF Replay, Apply, InitializeFiles, InitializeLedger, Inspect, CheckEmpty, Confirm,
         Reading, RestoreSnapshot, InsertSnapshot, TakeLock, BeginReplay, Aborts
<1>4. SavesInv' /\ CallTypes'
  BY <1>2, ReplaySteps DEF BaselineIInv
<1> QED
  BY <1>2, <1>3, <1>4 DEF BaselineIInv, OnlyVerified, SealInv, SealedWorld

-----------------------------------------------------------------------------
LEMMA BaselineInitHolds == BaselineInit => BaselineIInv
<1> SUFFICES ASSUME BaselineInit
             PROVE  BaselineIInv
  OBVIOUS
<1> DEFINE old == NewStore({"tables", "lore", "chat"}, 1)
           new == NewStore({}, 0)
<1>1. ASSUME NEW schema \in SUBSET {"tables", "lore", "latest", "chat"},
             NEW captured \in {0, 1}
      PROVE  /\ NewStore(schema, captured) \in SaveState
             /\ NewStore(schema, captured).active = 0
             /\ NewStore(schema, captured).run = "idle"
             /\ NewStore(schema, captured).owner = Nobody
             /\ \A c \in Concept : NewStore(schema, captured).text[c] = Absent
  <2> DEFINE text == [f \in File |-> IF schema # {} /\ f \in Lists!ToSet(SetupFiles)
                                     THEN Blank ELSE Absent]
  <2>1. text \in [File -> Text]
    BY DEF Text
  <2>2. Lists!ToSet(SetupFiles) = {"manifest", "relations", "registry"}
    BY DEF Lists!ToSet, SetupFiles
  <2>3. \A c \in Concept : text[c] = Absent
    BY <2>2, FirstIntake DEF File, Published
  <2> HIDE DEF text
  <2>4. NewStore(schema, captured) =
          [text |-> text, active |-> 0, was |-> {}, prepared |-> {}, captured |-> captured,
           schema |-> schema, owner |-> Nobody, run |-> "idle", step |-> 1, plan |-> NoPlan]
    BY DEF NewStore, text
  <2>5. captured \in 0 .. Own
    BY FirstIntake
  <2> QED
    BY <2>1, <2>3, <2>4, <2>5, FirstIntake, NoPlanTyped, Counts
       DEF SaveState, WriteRun, Holder
<1>2. /\ old \in SaveState /\ old.active = 0 /\ old.run = "idle" /\ old.owner = Nobody
      /\ new \in SaveState /\ new.active = 0 /\ new.run = "idle" /\ new.owner = Nobody
      /\ \A c \in Concept : new.text[c] = Absent
  BY <1>1
<1>3. store = [x \in Store |-> IF x = "source" THEN old ELSE new]
  BY DEF BaselineInit
<1> HIDE DEF old, new
<1>4. SavesInv
  BY <1>2, <1>3 DEF SavesInv, SaveOK, SourceOK, EmptyOK, ReplayOK, Store, Nobody, Self
<1>5. CallTypes
  <2>1. "idle" \in Applying
    BY DEF Applying
  <2>2. FreshApplier \in ApplierState /\ FreshApplier.at = "idle" /\ FreshApplier.reader = Unread
    BY <2>1, ReplyTyped DEF FreshApplier
  <2> QED
    BY <2>2, ReaderAtStart DEF BaselineInit, CallTypes
<1>6. OnlyVerified
  BY <1>2, <1>3, FirstIntake DEF BaselineInit, OnlyVerified, FreshApplier, Store
<1>7. SealInv
  <2> DEFINE none == [f \in Published |-> Absent]
  <2>1. package = [at |-> "open", reader |-> Unread, concepts |-> {}, files |-> none, k |-> 1]
    BY DEF BaselineInit
  <2>2. none \in [Published -> Text]
    BY DEF Text
  <2> HIDE DEF none
  <2>3. package \in Package /\ package.at = "open" /\ package.reader = Unread
    BY <2>1, <2>2, ReaderAtStart DEF Package, Exporting
  <2>4. SealedWorld(Unread)
    BY NothingSealed DEF SealedWorld, Unread
  <2> QED
    BY <2>3, <2>4, ReaderAtStart DEF SealInv
<1> QED
  BY <1>4, <1>5, <1>6, <1>7 DEF BaselineIInv

(* Every step keeps the invariant.                                       *)
LEMMA BaselineStepHolds == BaselineIInv /\ [BaselineNext]_baselineVars => BaselineIInv'
<1> SUFFICES ASSUME BaselineIInv, [BaselineNext]_baselineVars
             PROVE  BaselineIInv'
  OBVIOUS
<1>1. CASE UNCHANGED baselineVars
  <2>1. SavesInv'
    BY <1>1, SavesStay DEF BaselineIInv, baselineVars
  <2> QED
    BY <1>1, <2>1 DEF BaselineIInv, CallTypes, OnlyVerified, SealInv, SealedWorld, baselineVars
<1>2. CASE BaselineNext
  BY <1>2, TransactionKeeps, IntakesKeep, ExportKeeps, ReplayKeeps DEF BaselineNext
<1> QED
  BY <1>1, <1>2

(* What a transaction of either store, an intake, the export and the       *)
(* appliers keep.                                                          *)
THEOREM BaselineInvariant == BaselineSpec => []BaselineIInv
  BY BaselineInitHolds, BaselineStepHolds, PTL DEF BaselineSpec

(* Only a commit of the target gives it another baseline.                  *)
LEMMA OnlyCommitMoves ==
  ASSUME SavesInv, BaselineNext, Target'.active # Target.active
  PROVE  CommitLedger("target")
<1>0. /\ store \in [Store -> SaveState] /\ "target" \in Store /\ "source" # "target"
      /\ Target = store["target"] /\ Target' = store'["target"]
  BY DEF SavesInv, Store, Target
<1>1. ASSUME NEW x \in Store, Transaction(x)
      PROVE  CommitLedger("target")
  <2>1. CASE RecoverJournal(x)
    BY <1>0, <2>1 DEF RecoverJournal, SaveState
  <2>2. CASE WriteFile(x)
    BY <1>0, <2>2 DEF WriteFile, SaveState
  <2>3. CASE CommitLedger(x)
    <3>1. CASE x = "target"
      BY <2>3, <3>1
    <3>2. CASE x # "target"
      BY <1>0, <2>3, <3>2 DEF CommitLedger, SaveState
    <3> QED
      BY <3>1, <3>2
  <2>4. CASE StepFails(x)
    <3> DEFINE m == [store[x] EXCEPT !.step = 1,
                       !.run = IF @ = "apply" THEN "restore" ELSE "install"]
               n == [store[x] EXCEPT !.run = "down", !.owner = Nobody]
    <3>1. store' = [store EXCEPT ![x] = m] \/ store' = [store EXCEPT ![x] = n]
      BY <1>0, <2>4 DEF StepFails
    <3>2. m.active = store[x].active /\ n.active = store[x].active
      BY <1>0 DEF SaveState
    <3> HIDE DEF m, n
    <3> QED
      BY <1>0, <3>1, <3>2
  <2>5. CASE Cleanup(x)
    BY <1>0, <2>5 DEF Cleanup, SaveState
  <2>6. CASE Dies(x)
    BY <1>0, <2>6 DEF Dies, SaveState
  <2> QED
    BY <1>1, <2>1, <2>2, <2>3, <2>4, <2>5, <2>6 DEF Transaction
<1>2. ~ Intakes
  <2>1. CASE OwnCapture
    BY <1>0, <2>1 DEF OwnCapture, SaveState
  <2>2. ASSUME NEW x \in Store, TakeIntakeLock(x)
        PROVE  FALSE
    BY <1>0, <2>2 DEF TakeIntakeLock, SaveState
  <2>3. ASSUME NEW x \in Store, BeginIntake(x)
        PROVE  FALSE
    BY <1>0, <2>3 DEF BeginIntake, BeginWrites, SaveState
  <2> QED
    BY <2>1, <2>2, <2>3 DEF Intakes
<1>3. ~ Export
  <2>1. CASE OpenSource
    BY <1>0, <2>1 DEF OpenSource, SaveState
  <2> QED
    BY <1>0, <2>1 DEF Export, Seal, ReadRecipe, ReadProjection, ReadFile, Verify
<1>4. ASSUME NEW a \in Applier, Replay(a)
      PROVE  FALSE
  <2>1. \A f, v : store' = [store EXCEPT !["target"].text[f] = v] => FALSE
    BY <1>0 DEF SaveState
  <2>2. CASE InitializeFiles(a) \/ RestoreSnapshot(a)
    <3>1. \/ UNCHANGED store
          \/ \E f, v : store' = [store EXCEPT !["target"].text[f] = v]
      <4>1. ASSUME NEW f, NEW text, NEW next, CreateFile(a, f) \/ FillFile(a, f, text, next)
            PROVE  \E v : store' = [store EXCEPT !["target"].text[f] = v]
        BY <1>0, <4>1 DEF CreateFile, FillFile
      <4> QED
        BY <2>2, <4>1, Zenon DEF InitializeFiles, RestoreSnapshot
    <3> QED
      BY <1>0, <2>1, <3>1
  <2>3. CASE InitializeLedger(a)
    BY <1>0, <2>3 DEF InitializeLedger, SaveState
  <2>4. CASE InsertSnapshot(a)
    BY <1>0, <2>4 DEF InsertSnapshot, SaveState
  <2>5. CASE TakeLock(a)
    BY <1>0, <2>5 DEF TakeLock, SaveState
  <2>6. CASE BeginReplay(a)
    BY <1>0, <2>6 DEF BeginReplay, BeginWrites, SaveState
  <2>7. CASE Apply(a) \/ Inspect(a) \/ CheckEmpty(a) \/ Confirm(a) \/ Aborts(a)
    BY <1>0, <2>7 DEF Apply, Inspect, CheckEmpty, Confirm, Reading, Aborts
  <2> QED
    BY <1>4, <2>2, <2>3, <2>4, <2>5, <2>6, <2>7 DEF Replay
<1> QED
  BY <1>1, <1>2, <1>3, <1>4 DEF BaselineNext

(* What is applied is the baseline of the initial intake, and only where   *)
(* no baseline was (applyBaseline,                                         *)
(* verifyStaticBaselineReplayPackage).                                     *)
THEOREM BaselineApplied == BaselineSpec => AppliedIsTheBaseline
<1> DEFINE Goal == Target.active' = 1 /\ Target.active # 1 =>
                     /\ Target.active = 0
                     /\ \A f \in Published \ {"registry"} : Target'.text[f] = Files(1)[f]
<1>1. BaselineIInv /\ [BaselineNext]_baselineVars => [Goal]_baselineVars
  <2> SUFFICES ASSUME BaselineIInv, BaselineNext, Target'.active = 1, Target.active # 1
               PROVE  /\ Target.active = 0
                      /\ \A f \in Published \ {"registry"} : Target'.text[f] = Files(1)[f]
    BY DEF Goal
  <2> DEFINE s == Target
  <2>1. CommitLedger("target")
    BY OnlyCommitMoves DEF BaselineIInv
  <2>2. /\ s \in SaveState /\ SaveOK("target", s) /\ s = store["target"]
        /\ "target" \in Store /\ store \in [Store -> SaveState]
    BY StoreAt DEF BaselineIInv, SavesInv, Store, Target
  <2>3. /\ s.run = "apply" /\ s.plan.to = 1 /\ Target'.text = s.text
        /\ s.step > Len(s.plan.order)
    BY <2>1, <2>2 DEF CommitLedger, AllWritten, SaveState, Target
  <2>4. InstallsPackage(s) /\ EmptyOK(s)
    BY <2>2, <2>3 DEF SaveOK, ReplayOK
  <2>5. s.plan.order \in Seq(Published) /\ s.step \in Count
    BY <2>2 DEF SaveState, WritePlan
  <2>6. \A i \in 1 .. Len(s.plan.order) : i < s.step
    BY <2>3, <2>5 DEF Count
  <2> HIDE DEF s
  <2>7. ASSUME NEW f \in Published \ {"registry"}
        PROVE  s.text[f] = Files(1)[f]
    <3>1. CASE f \in Content
      <4>1. f \in InOrder(s.plan)
        BY <2>4, <3>1 DEF InstallsPackage, Content, Support
      <4>2. s.text[f] = 1
        BY <2>4, <2>6, <3>1, <4>1 DEF InstallsPackage, InOrder
      <4> QED
        BY <3>1, <4>2 DEF Files, Content, Support
    <3>2. CASE f \notin Content
      <4>1. f \in Concept /\ f \notin ConceptsOf[1] \cup Support
        BY <2>7, <3>2, FirstIntake DEF Published, Content, Support
      <4>2. s.text[f] = Absent
        BY <2>3, <2>4, <4>1 DEF InstallsPackage, EmptyOK
      <4> QED
        BY <4>1, <4>2 DEF Files
    <3> QED
      BY <3>1, <3>2
  <2> QED
    BY <2>3, <2>4, <2>7 DEF InstallsPackage, s
<1> QED
  BY <1>1, BaselineInvariant, PTL DEF BaselineSpec, AppliedIsTheBaseline

-----------------------------------------------------------------------------
(* The removal of sources (SourceRemoval)                                  *)

InHand == {"asked", "selecting", "looking", "certifying", "writing", "relooking"}
Over   == {"idle", "recorded", "answered", "dropped", "refused", "lost"}

Cert == {<<>>} \cup {<<u>> : u \in Units} \cup (Units \X View)

Request ==
  [at : InHand, lore : Lores, scope : Scopes, left : SUBSET Idents, idents : SUBSET Idents,
   todo : SUBSET Units, seen : SUBSET (Units \X View), cert : Cert]
AskState == Request \cup [at : Over]

Grant == [lore : Lores \cup {NoLore}, idents : SUBSET Idents, seen : SUBSET (Units \X View)]

PostState == {"idle", "removing", "preparing", "admitting", "sent", "refused"}

Noted1 == UNION {[D -> SUBSET Units] : D \in SUBSET View}

Types ==
  /\ TypeOK
  /\ ask \in [Runs -> AskState]
  /\ granted \in [Runs -> Grant]
  /\ post \in [Runs -> PostState]
  /\ first \in [Runs -> Noted1]
  /\ disturbed \in [Runs -> BOOLEAN]

AtWork(r) == ask[r].at \in InHand

Views(seen) == {c[2] : c \in seen}

Shaped(x) ==
  /\ x.at \in {"asked", "selecting"} => x.left # {} /\ x.seen = {}
  /\ x.at \in {"certifying", "relooking"} => x.cert \in {<<u>> : u \in Units}
  /\ x.at = "writing" => x.cert \in Units \X View
  /\ IsFiniteSet(Views(x.seen))

(* What can be read while a request is handled was noted.                  *)
Noting(r) ==
  /\ ActiveContext => active \in DOMAIN first[r]
  /\ \A v \in DOMAIN first[r] : \A u \in Units :
       Rediscovered(u, ask[r].scope) => u \in first[r][v]

(* Certificates of units that were readable in the views they name.        *)
Witnessed(r, seen, l) ==
  \A c \in seen : c[2] \in DOMAIN first[r] /\ c[1] \in first[r][c[2]] /\ c[2].lore = l

Fresh(r) == post[r] = "idle" /\ granted[r] = NoGrant

RunInv(r) ==
  /\ ask[r].at = "idle" => first[r] = <<>> /\ Fresh(r)
  /\ AtWork(r) =>
       Shaped(ask[r]) /\ Noting(r) /\ Witnessed(r, ask[r].seen, ask[r].lore) /\ Fresh(r)
  /\ ask[r].at = "recorded" => post[r] = "idle"
  /\ post[r] # "idle" => ask[r].at = "answered"
  /\ ask[r].at \in {"recorded", "answered"} /\ post[r] # "refused" /\ Removed(r) # {} =>
       /\ Witnessed(r, granted[r].seen, granted[r].lore)
       /\ \E v \in View : Views(granted[r].seen) = {v}
  /\ post[r] = "sent" => Covers(r)

(* How far an undisturbed request has come.                                *)
Calmly(x) ==
  /\ x.idents = OwnedIdents(x.lore) \ x.left
  /\ \A c \in x.seen : c[2] = active
  /\ x.at \notin {"asked", "selecting"} => x.left = {} /\ x.idents # {}
  /\ x.todo \subseteq UnitsFor(x.idents)
  /\ x.at = "looking" => x.todo # {} \/ x.seen # {}
  /\ x.at \in {"certifying", "writing", "relooking"} => x.cert[1] \in UnitsFor(x.idents)
  /\ x.at = "writing" => x.cert[2] = active
  /\ x.at = "relooking" => Entry(x.lore, x.cert[1], x.scope) = active

Calms(r) ==
  /\ ask[r].at # "refused"
  /\ granted[r].idents \in {{}, OwnedIdents(granted[r].lore)}
  /\ AtWork(r) => Calm(r) /\ Calmly(ask[r])

IInv ==
  /\ Types
  /\ \A r \in Runs : RunInv(r) /\ (disturbed[r] \/ Calms(r))

USE RemovalAssumption, LoresAssumption

-----------------------------------------------------------------------------
(* The operators                                                           *)

(* Everything that is worked through in order has a first element.         *)
Smaller == OpToRel(<, Nat)

LEMMA LeastIsIn ==
  ASSUME NEW S, S \subseteq Nat, S # {}
  PROVE  Least(S) \in S
<1>1. IsWellFoundedOn(Smaller, Nat) BY NatLessThanWellFounded, Zenon DEF Smaller
<1>2. \E x \in S : \A y \in S : ~ (<<y, x>> \in Smaller) BY <1>1, WFMin, Zenon
<1>3. PICK m \in S : \A n \in S : <<n, m>> \notin Smaller BY <1>2, Zenon
<1>4. \A m1, n1 \in Nat : m1 < n1 => <<m1, n1>> \in Smaller BY SMT DEF Smaller, OpToRel
<1>5. ASSUME NEW n \in S PROVE m <= n
  <2>1. ~ (n < m) BY <1>3, <1>4
  <2> QED BY <2>1
<1> QED BY <1>5 DEF Least

LEMMA RequestsAreInHand ==
  ASSUME NEW x \in AskState
  PROVE  /\ "seen" \in DOMAIN x <=> x.at \in InHand
         /\ x.at \in InHand => x \in Request
         /\ x.at \in InHand \cup Over
BY DEF AskState, Request, InHand, Over

LEMMA UnitsForAreUnits ==
  ASSUME NEW is, is \subseteq Idents
  PROVE  UnitsFor(is) \subseteq Units /\ (is # {} => UnitsFor(is) # {})
<1>1. \A i \in is : UnitsOf[i] \subseteq Units /\ UnitsOf[i] # {} BY SMT
<1>2. UnitsFor(is) \subseteq Units BY <1>1 DEF UnitsFor
<1>3. ASSUME is # {} PROVE UnitsFor(is) # {}
  <2>1. PICK i \in is : TRUE BY <1>3
  <2>2. PICK u \in UnitsOf[i] : TRUE BY <1>1, <2>1
  <2>3. u \in UnitsFor(is) BY <2>1, <2>2 DEF UnitsFor
  <2> QED BY <2>3
<1> QED BY <1>2, <1>3

(* One projection for all certificates is one view for all of them.        *)
LEMMA OneViewForAll ==
  ASSUME NEW seen, IsFiniteSet(Views(seen))
  PROVE  OneProjection(seen) <=> \E v : Views(seen) = {v}
BY FS_Singleton DEF OneProjection, Views

LEMMA ViewsGrow ==
  ASSUME NEW seen, NEW u, NEW v
  PROVE  Views(seen \cup {<<u, v>>}) = Views(seen) \cup {v}
<1>1. Views(seen \cup {<<u, v>>}) \subseteq Views(seen) \cup {v} BY DEF Views
<1>2. Views(seen) \cup {v} \subseteq Views(seen \cup {<<u, v>>}) BY DEF Views
<1> QED BY <1>1, <1>2
-----------------------------------------------------------------------------
(* The history variables                                                   *)

Remembers ==
  /\ first' = [r \in Runs |-> Notes(r)]
  /\ disturbed' = [r \in Runs |-> disturbed[r] \/ (Handled(r) /\ ~Calm(r))']

LEMMA NoNotes == <<>> \in Noted1 /\ DOMAIN <<>> = {}
<1>1. <<>> \in [{} -> SUBSET Units] BY SMT
<1> QED BY <1>1 DEF Noted1

LEMMA NotesTypes ==
  ASSUME first \in [Runs -> Noted1], active' \in View, Remembers
  PROVE  first' \in [Runs -> Noted1] /\ disturbed' \in [Runs -> BOOLEAN]
<1>1. ASSUME NEW r \in Runs PROVE Notes(r) \in Noted1
  <2>1. PICK D \in SUBSET View : first[r] \in [D -> SUBSET Units] BY DEF Noted1
  <2> DEFINE now == {u \in Units : \A t \in 1..ask'[r].scope : <<t, u>> \notin patched'}
             more == [v \in DOMAIN first[r] \union {active'} |-> IF v # active' THEN first[r][v] ELSE now]
  <2>2. more \in [D \cup {active'} -> SUBSET Units] BY <2>1
  <2> HIDE DEF more
  <2>3. D \cup {active'} \in SUBSET View /\ more \in Noted1 BY <2>2, Zenon DEF Noted1
  <2>4. Notes(r) = <<>> \/ Notes(r) = more \/ Notes(r) = first[r] BY DEF Notes, more
  <2> QED BY <2>3, <2>4, NoNotes
<1> QED BY <1>1 DEF Remembers

LEMMA NotesForgotten ==
  ASSUME NEW r \in Runs, Remembers,
         ask'[r].at \in {"refused", "dropped", "lost"} \/ post'[r] = "refused"
  PROVE  first'[r] = <<>>
<1>1. Notes(r) = <<>> BY DEF Notes
<1> QED BY <1>1 DEF Remembers

LEMMA NotesRest ==
  ASSUME NEW r \in Runs, Remembers, ask' \in [Runs -> AskState],
         ask'[r].at \in {"idle", "recorded", "answered"}, post'[r] # "refused"
  PROVE  first'[r] = first[r]
<1>1. ~ Handled(r)' BY RequestsAreInHand DEF Handled, InHand
<1> QED BY <1>1 DEF Remembers, Notes

(* A view is noted once, and the memory only loses records.                *)
LEMMA NotesGrow ==
  ASSUME IInv, NEW r \in Runs, Remembers, ask' \in [Runs -> AskState],
         AtWork(r), AtWork(r)', ask'[r].scope = ask[r].scope, post'[r] # "refused",
         patched \subseteq patched'
  PROVE  /\ Noting(r)'
         /\ \A v \in DOMAIN first[r] : v \in DOMAIN first'[r] /\ first'[r][v] = first[r][v]
<1>1. Handled(r)' BY RequestsAreInHand DEF Handled, AtWork
<1>2. ask'[r].at \notin {"refused", "dropped", "lost"} BY DEF AtWork, InHand
<1>3. Noting(r) BY DEF IInv, RunInv
<1> DEFINE now == {u \in Units : \A t \in 1..ask'[r].scope : <<t, u>> \notin patched'}
           more == [v \in DOMAIN first[r] \union {active'} |-> IF v # active' THEN first[r][v] ELSE now]
<1>4. CASE active' = world' /\ active' \notin DOMAIN first[r]
  <2>1. first'[r] = more BY <1>1, <1>2, <1>4 DEF Remembers, Notes
  <2>2. \A v \in DOMAIN first[r] : v \in DOMAIN first'[r] /\ first'[r][v] = first[r][v]
    BY <2>1, <1>4
  <2>3. active' \in DOMAIN first'[r] /\ first'[r][active'] = now BY <2>1
  <2>4. \A v \in DOMAIN first'[r] : v = active' \/ v \in DOMAIN first[r] BY <2>1
  <2>5. ASSUME NEW v \in DOMAIN first'[r], NEW u \in Units, Rediscovered(u, ask[r].scope)'
        PROVE  u \in first'[r][v]
    <3>1. \A t \in 1..ask'[r].scope : <<t, u>> \notin patched' BY <2>5 DEF Rediscovered
    <3>2. CASE v = active' BY <3>1, <3>2, <2>3
    <3>3. CASE v \in DOMAIN first[r]
      <4>1. Rediscovered(u, ask[r].scope) BY <3>1 DEF Rediscovered
      <4> QED BY <4>1, <3>3, <1>3, <2>2 DEF Noting
    <3> QED BY <3>2, <3>3, <2>4
  <2> QED BY <2>2, <2>3, <2>5 DEF Noting, ActiveContext
<1>5. CASE ~ (active' = world' /\ active' \notin DOMAIN first[r])
  <2>1. first'[r] = first[r] BY <1>2, <1>5 DEF Remembers, Notes
  <2>2. ASSUME NEW v \in DOMAIN first[r], NEW u \in Units, Rediscovered(u, ask[r].scope)'
        PROVE  u \in first[r][v]
    <3>1. Rediscovered(u, ask[r].scope) BY <2>2 DEF Rediscovered
    <3> QED BY <3>1, <1>3 DEF Noting
  <2> QED BY <2>1, <2>2, <1>5 DEF Noting, ActiveContext
<1> QED BY <1>4, <1>5
-----------------------------------------------------------------------------
(* What a step of the run, or of somebody else, keeps                      *)

RunHolds(r) == RunInv(r) /\ (disturbed[r] \/ Calms(r))

LEMMA CalmAfter ==
  ASSUME NEW r \in Runs, Remembers, ask' \in [Runs -> AskState],
         disturbed \in [Runs -> BOOLEAN], disturbed'[r] = FALSE
  PROVE  disturbed[r] = FALSE /\ (AtWork(r)' => Calm(r)')
<1>1. AtWork(r)' => Handled(r)' BY RequestsAreInHand DEF Handled, AtWork
<1>2. disturbed'[r] = (disturbed[r] \/ (Handled(r) /\ ~Calm(r))') BY DEF Remembers
<1>3. disturbed[r] \in BOOLEAN BY SMT
<1> HIDE DEF Handled, Calm
<1> QED BY <1>1, <1>2, <1>3, Zenon

(* Somebody else moved, or the world did.  A calm request sees neither     *)
(* another view nor another registry.                                      *)
LEMMA Unmoved ==
  ASSUME IInv, NEW r \in Runs, Remembers, Types',
         ask'[r] = ask[r], granted'[r] = granted[r], post'[r] = post[r],
         patched \subseteq patched',
         AtWork(r) /\ Calm(r) => active' = active /\ registry' = registry
  PROVE  RunHolds(r)'
<1>1. RunInv(r) /\ (disturbed[r] \/ Calms(r)) BY DEF IInv
<1>2. ask' \in [Runs -> AskState] BY DEF Types
<1>3. post'[r] # "idle" => ask'[r].at = "answered" BY <1>1 DEF RunInv
<1>4. RunInv(r)'
  <2>1. CASE AtWork(r)
    <3>1. post'[r] # "refused" BY <1>1, <2>1 DEF RunInv, Fresh
    <3>2. AtWork(r)' BY <2>1 DEF AtWork
    <3>3. /\ Noting(r)'
          /\ \A v \in DOMAIN first[r] : v \in DOMAIN first'[r] /\ first'[r][v] = first[r][v]
      BY <1>2, <2>1, <3>1, <3>2, NotesGrow
    <3>4. Witnessed(r, ask[r].seen, ask[r].lore)'
      BY <1>1, <2>1, <3>3 DEF RunInv, Witnessed
    <3>5. Shaped(ask[r])' /\ Fresh(r)' BY <1>1, <2>1 DEF RunInv, Shaped, Fresh
    <3>6. ask'[r].at \notin {"idle", "recorded", "answered"} BY <3>2 DEF AtWork, InHand
    <3> QED BY <1>1, <1>3, <3>3, <3>4, <3>5, <3>6 DEF RunInv, Covers, Removed
  <2>2. CASE ~AtWork(r)
    <3>1. ~AtWork(r)' BY <2>2 DEF AtWork
    <3>2. CASE ask'[r].at \in {"refused", "dropped", "lost"} \/ post'[r] = "refused"
      <4>1. first'[r] = <<>> BY <3>2, NotesForgotten
      <4> QED BY <1>1, <3>1, <3>2, <4>1 DEF RunInv, Fresh, Covers, Removed
    <3>3. CASE ~ (ask'[r].at \in {"refused", "dropped", "lost"} \/ post'[r] = "refused")
      <4>1. ask'[r].at \in {"idle", "recorded", "answered"}
        BY <1>2, <3>1, <3>3, RequestsAreInHand DEF AtWork, Over
      <4>2. first'[r] = first[r] BY <1>2, <3>3, <4>1, NotesRest
      <4> QED BY <1>1, <3>1, <4>2 DEF RunInv, Fresh, Covers, Removed, Witnessed
    <3> QED BY <3>2, <3>3
  <2> QED BY <2>1, <2>2
<1>5. ASSUME ~disturbed'[r] PROVE Calms(r)'
  <2>1. disturbed'[r] = FALSE BY <1>5 DEF Types
  <2>2. ~disturbed[r] /\ (AtWork(r)' => Calm(r)') BY <1>2, <2>1, CalmAfter DEF IInv, Types
  <2>3. Calms(r) BY <1>1, <2>2
  <2>4. ask'[r].at # "refused" /\ granted'[r].idents \in {{}, OwnedIdents(granted'[r].lore)}
    BY <2>3 DEF Calms
  <2>5. ASSUME AtWork(r)' PROVE Calm(r)' /\ Calmly(ask[r])'
    <3>1. AtWork(r) BY <2>5 DEF AtWork
    <3>2. Calm(r) /\ Calmly(ask[r]) BY <2>3, <3>1 DEF Calms
    <3>3. active' = active /\ registry' = registry BY <3>1, <3>2
    <3> QED BY <2>2, <2>5, <3>2, <3>3 DEF Calmly, Entry
  <2> QED BY <2>4, <2>5 DEF Calms
<1> QED BY <1>4, <1>5 DEF RunHolds

(* A request that is worked on goes on.                                    *)
LEMMA Advance ==
  ASSUME IInv, NEW r \in Runs, Remembers, Types', AtWork(r), AtWork(r)',
         UNCHANGED <<lore, story, granted, post>>,
         ask'[r].lore = ask[r].lore, ask'[r].scope = ask[r].scope,
         Shaped(ask'[r]), Witnessed(r, ask'[r].seen, ask'[r].lore),
         ~disturbed[r] /\ Calms(r) => Calmly(ask[r])'
  PROVE  RunHolds(r)'
<1>1. RunInv(r) /\ (disturbed[r] \/ Calms(r)) BY DEF IInv
<1>2. ask' \in [Runs -> AskState] BY DEF Types
<1>3. Fresh(r) /\ Fresh(r)' BY <1>1 DEF RunInv, Fresh
<1>4. /\ Noting(r)'
      /\ \A v \in DOMAIN first[r] : v \in DOMAIN first'[r] /\ first'[r][v] = first[r][v]
  BY <1>2, <1>3, NotesGrow DEF story, Fresh
<1>5. Witnessed(r, ask[r].seen, ask[r].lore)' BY <1>4 DEF Witnessed
<1>6. ask'[r].at \notin {"idle", "recorded", "answered"} BY DEF AtWork, InHand
<1>7. RunInv(r)' BY <1>3, <1>4, <1>5, <1>6 DEF RunInv, Fresh, Shaped
<1>8. ASSUME ~disturbed'[r] PROVE Calms(r)'
  <2>1. disturbed'[r] = FALSE BY <1>8 DEF Types
  <2>2. ~disturbed[r] /\ Calm(r)' BY <1>2, <2>1, CalmAfter DEF IInv, Types
  <2>3. Calms(r) BY <1>1, <2>2
  <2> QED BY <2>2, <2>3, <1>3 DEF Calms, AtWork, InHand, Fresh
<1> QED BY <1>7, <1>8 DEF RunHolds
-----------------------------------------------------------------------------
(* The steps of a run                                                      *)

Quiet == UNCHANGED <<lore, story>>

(* A run moves; the others see at most an entry of the registry.           *)
LEMMA OthersKeep ==
  ASSUME IInv, NEW r \in Runs, Remembers, Quiet, Types',
         \A q \in Runs \ {r} : ask'[q] = ask[q] /\ granted'[q] = granted[q] /\ post'[q] = post[q],
         registry' = registry \/ ask[r].at = "writing",
         RunHolds(r)'
  PROVE  IInv'
<1>1. patched \subseteq patched' /\ active' = active BY DEF Quiet, story, lore
<1>2. ASSUME NEW q \in Runs, q # r PROVE RunHolds(q)'
  <2>1. Calm(q) => registry' = registry BY <1>2 DEF Calm
  <2> QED BY <1>1, <1>2, <2>1, Unmoved
<1>3. \A q \in Runs : RunHolds(q)' BY <1>2
<1> QED BY <1>3 DEF IInv, RunHolds

LEMMA GoesOn ==
  ASSUME IInv, NEW r \in Runs, NEW next \in AskState, Goes(r, next), Remembers, Quiet
  PROVE  /\ Types' /\ ask'[r] = next
         /\ UNCHANGED <<granted, post, registry>>
         /\ \A q \in Runs \ {r} : ask'[q] = ask[q]
         /\ RunHolds(r)' => IInv'
<1>1. UNCHANGED <<registry, current, granted, post>> /\ ask' = [ask EXCEPT ![r] = next]
  BY DEF Goes
<1>2. ask \in [Runs -> AskState] BY DEF IInv, Types
<1>3. /\ ask'[r] = next /\ ask' \in [Runs -> AskState]
      /\ \A q \in Runs \ {r} : ask'[q] = ask[q]
  BY <1>1, <1>2
<1>4. TypeOK' BY <1>1 DEF IInv, Types, TypeOK, Quiet, story, lore
<1>5. first' \in [Runs -> Noted1] /\ disturbed' \in [Runs -> BOOLEAN]
  BY <1>4, NotesTypes DEF IInv, Types, TypeOK
<1>6. Types' BY <1>1, <1>3, <1>4, <1>5 DEF IInv, Types
<1>7. RunHolds(r)' => IInv' BY <1>1, <1>3, <1>6, OthersKeep
<1> QED BY <1>1, <1>3, <1>6, <1>7

(* Only what was disturbed is refused.                                     *)
LEMMA RefusesDisturbed ==
  ASSUME IInv, NEW r \in Runs, AtWork(r), Refuse(r), disturbed[r], Remembers, Quiet
  PROVE  IInv'
<1> DEFINE next == [at |-> "refused"]
<1>1. next \in AskState BY DEF AskState, Over
<1>2. /\ Types' /\ ask'[r] = next /\ UNCHANGED <<granted, post>> /\ (RunHolds(r)' => IInv')
  BY <1>1, GoesOn DEF Refuse
<1>3. post[r] = "idle" BY DEF IInv, RunInv, Fresh
<1>4. RunInv(r)' BY <1>2, <1>3 DEF RunInv, AtWork, InHand
<1>5. disturbed'[r] BY DEF Remembers
<1> QED BY <1>2, <1>4, <1>5 DEF RunHolds

(* What a calm request stands on.                                          *)
LEMMA WhatIsCalm ==
  ASSUME IInv, NEW r \in Runs, AtWork(r), ~disturbed[r]
  PROVE  /\ Calm(r) /\ Calmly(ask[r])
         /\ ActiveContext /\ SessionReady(ask[r].lore) /\ ask[r].lore = active.lore
<1>1. Calm(r) /\ Calmly(ask[r]) BY DEF IInv, Calms
<1>2. ask[r].lore \in Lores BY RequestsAreInHand DEF IInv, Types, AtWork, Request
<1>3. active # Nothing BY <1>1, <1>2 DEF Calm, Nothing
<1> QED BY <1>1, <1>3 DEF Calm, Whole, ActiveContext, SessionReady

LEMMA CalmUnits ==
  ASSUME IInv, NEW r \in Runs, AtWork(r), ~disturbed[r], ask[r].left = {},
         NEW u \in UnitsFor(ask[r].idents)
  PROVE  Certifiable(ask[r].lore, u, ask[r].scope)
<1>1. /\ Calm(r) /\ Calmly(ask[r])
      /\ ActiveContext /\ SessionReady(ask[r].lore) /\ ask[r].lore = active.lore
  BY WhatIsCalm
<1>2. ask[r].idents = OwnedIdents(active.lore) BY <1>1 DEF Calmly
<1>3. Rediscovered(u, ask[r].scope) BY <1>1, <1>2 DEF Calm
<1>4. Accepted(ask[r].lore, u) BY <1>1, <1>2 DEF UnitsFor, OwnedIdents, Accepted
<1> QED BY <1>1, <1>3, <1>4 DEF Certifiable, Manifest, Readable

(* A request goes on as another request about the same sources.            *)
LEMMA GoesOnAtWork ==
  ASSUME IInv, NEW r \in Runs, NEW next \in Request, AtWork(r), Goes(r, next), Remembers, Quiet,
         next.lore = ask[r].lore, next.scope = ask[r].scope,
         Shaped(next), Witnessed(r, next.seen, next.lore),
         ~disturbed[r] => Calmly(next)
  PROVE  IInv'
<1>1. next \in AskState /\ next.at \in InHand BY DEF AskState, Request
<1>2. /\ Types' /\ ask'[r] = next /\ UNCHANGED <<granted, post, registry>>
      /\ (RunHolds(r)' => IInv')
  BY <1>1, GoesOn
<1>3. AtWork(r)' BY <1>1, <1>2 DEF AtWork
<1>4. Calmly(next) => Calmly(ask[r])' BY <1>2 DEF Calmly, Entry, Quiet, lore
<1>5. RunHolds(r)' BY <1>2, <1>3, <1>4, Advance DEF Quiet
<1> QED BY <1>2, <1>5

LEMMA AtWorkIsRequest ==
  ASSUME IInv, NEW r \in Runs, AtWork(r)
  PROVE  ask[r] \in Request
BY RequestsAreInHand DEF IInv, Types, AtWork

LEMMA CheckKeeps ==
  ASSUME IInv, NEW r \in Runs, Check(r), Remembers, Quiet
  PROVE  IInv'
<1>1. AtWork(r) /\ ask[r].at = "asked" BY DEF Check, At, AtWork, InHand
<1>2. ask[r] \in Request BY <1>1, AtWorkIsRequest
<1>3. CASE active.lore = ask[r].lore
  <2> DEFINE next == [ask[r] EXCEPT !.at = "selecting"]
  <2>1. next \in Request /\ next.at = "selecting" /\ next.lore = ask[r].lore
        /\ next.scope = ask[r].scope /\ next.left = ask[r].left /\ next.seen = ask[r].seen
        /\ next.idents = ask[r].idents /\ next.todo = ask[r].todo
    BY <1>2 DEF Request, InHand
  <2> HIDE DEF next
  <2>2. Goes(r, next) BY <1>3 DEF Check, next
  <2>3. Shaped(next) /\ Witnessed(r, next.seen, next.lore)
    BY <1>1, <2>1 DEF IInv, RunInv, Shaped
  <2>4. ASSUME ~disturbed[r] PROVE Calmly(next)
    BY <1>1, <2>1, <2>4 DEF IInv, Calms, Calmly
  <2> QED BY <1>1, <2>1, <2>2, <2>3, <2>4, GoesOnAtWork
<1>4. CASE active.lore # ask[r].lore
  <2>1. Refuse(r) BY <1>4 DEF Check
  <2>2. disturbed[r] BY <1>1, <1>4, WhatIsCalm
  <2> QED BY <1>1, <2>1, <2>2, RefusesDisturbed
<1> QED BY <1>3, <1>4

(* What was issued, or not, waits for the page.                            *)
LEMMA GoesOnRecorded ==
  ASSUME IInv, NEW r \in Runs, AtWork(r), Goes(r, Recorded), Remembers, Quiet
  PROVE  IInv'
<1>1. Recorded \in AskState /\ Recorded.at = "recorded" BY DEF Recorded, AskState, Over
<1>2. /\ Types' /\ ask'[r] = Recorded /\ UNCHANGED <<granted, post, registry>>
      /\ (RunHolds(r)' => IInv')
  BY <1>1, GoesOn
<1>3. Fresh(r) BY DEF IInv, RunInv
<1>4. granted[r].idents = {} BY <1>3 DEF Fresh, NoGrant
<1>5. RunInv(r)' BY <1>1, <1>2, <1>3, <1>4 DEF RunInv, Fresh, AtWork, InHand, Removed
<1>6. Calms(r)' BY <1>1, <1>2, <1>4 DEF Calms, AtWork, InHand
<1> QED BY <1>2, <1>5, <1>6 DEF RunHolds

LEMMA SelectKeeps ==
  ASSUME IInv, NEW r \in Runs, Select(r), Remembers, Quiet
  PROVE  IInv'
<1>1. AtWork(r) /\ ask[r].at = "selecting" BY DEF Select, At, AtWork, InHand
<1>2. ask[r] \in Request BY <1>1, AtWorkIsRequest
<1> DEFINE i == Least(ask[r].left)
           owned == \A u \in UnitsOf[i] : Manifest(ask[r].lore, u)
           idents == ask[r].idents \union {j \in {i} : owned}
           more == [ask[r] EXCEPT !.left = @ \ {i}, !.idents = idents]
           looks == [ask[r] EXCEPT !.at = "looking", !.left = {}, !.idents = idents,
                                   !.todo = UnitsFor(idents)]
<1>3. /\ ask[r].left \subseteq Idents /\ ask[r].left # {} /\ ask[r].seen = {}
      /\ ask[r].idents \subseteq Idents
  BY <1>1, <1>2 DEF IInv, RunInv, Shaped, Request
<1>4. i \in ask[r].left BY <1>3, LeastIsIn
<1>5. idents \subseteq Idents BY <1>3, <1>4
<1>6. ASSUME ~disturbed[r] PROVE idents = OwnedIdents(ask[r].lore) \ (ask[r].left \ {i})
  <2>1. /\ Calmly(ask[r]) /\ ActiveContext
        /\ SessionReady(ask[r].lore) /\ ask[r].lore = active.lore
    BY <1>1, <1>6, WhatIsCalm
  <2>2. owned <=> i \in OwnedIdents(ask[r].lore)
    BY <1>3, <1>4, <2>1 DEF Manifest, Accepted, OwnedIdents
  <2>3. ask[r].idents = OwnedIdents(ask[r].lore) \ ask[r].left BY <2>1 DEF Calmly
  <2> HIDE DEF owned, i
  <2> QED BY <1>4, <2>2, <2>3
<1> HIDE DEF i, owned, idents
<1>7. CASE ask[r].left # {i}
  <2>1. more \in Request BY <1>2, <1>5 DEF Request
  <2>2. /\ more.at = "selecting" /\ more.lore = ask[r].lore /\ more.scope = ask[r].scope
        /\ more.left = ask[r].left \ {i} /\ more.idents = idents
        /\ more.seen = ask[r].seen /\ more.todo = ask[r].todo
    BY <1>1, <1>2 DEF Request
  <2>3. Goes(r, more) BY <1>7 DEF Select, i, owned, idents
  <2> HIDE DEF more
  <2>4. more.left # {} BY <1>3, <1>7, <2>2
  <2>5. Shaped(more) /\ Witnessed(r, more.seen, more.lore)
    BY <1>1, <2>2, <2>4 DEF IInv, RunInv, Shaped
  <2>6. ASSUME ~disturbed[r] PROVE Calmly(more)
    <3>1. more.idents = OwnedIdents(more.lore) \ more.left BY <1>6, <2>2, <2>6
    <3>2. ask[r].todo \subseteq UnitsFor(ask[r].idents) /\ (\A c \in ask[r].seen : c[2] = active)
      BY <1>1, <2>6, WhatIsCalm DEF Calmly
    <3>3. ask[r].todo \subseteq UnitsFor(idents) BY <3>2 DEF UnitsFor, idents
    <3> QED BY <2>2, <3>1, <3>2, <3>3 DEF Calmly
  <2> QED BY <1>1, <2>1, <2>2, <2>3, <2>5, <2>6, GoesOnAtWork
<1>8. CASE ask[r].left = {i} /\ idents = {}
  <2>1. Goes(r, Recorded) BY <1>8 DEF Select, i, owned, idents
  <2> QED BY <1>1, <2>1, GoesOnRecorded
<1>9. CASE ask[r].left = {i} /\ idents # {}
  <2>1. UnitsFor(idents) \subseteq Units /\ UnitsFor(idents) # {}
    BY <1>5, <1>9, UnitsForAreUnits
  <2>2. looks \in Request BY <1>2, <1>5, <2>1 DEF Request, InHand
  <2>3. /\ looks.at = "looking" /\ looks.lore = ask[r].lore /\ looks.scope = ask[r].scope
        /\ looks.left = {} /\ looks.idents = idents
        /\ looks.seen = ask[r].seen /\ looks.todo = UnitsFor(idents)
    BY <1>1, <1>2 DEF Request
  <2>4. Goes(r, looks) BY <1>9 DEF Select, i, owned, idents
  <2> HIDE DEF looks
  <2>5. Shaped(looks) /\ Witnessed(r, looks.seen, looks.lore)
    BY <1>1, <2>3 DEF IInv, RunInv, Shaped
  <2>6. ASSUME ~disturbed[r] PROVE Calmly(looks)
    <3>1. idents = OwnedIdents(ask[r].lore) \ {} BY <1>6, <1>9, <2>6
    <3> QED BY <1>3, <1>9, <2>1, <2>3, <3>1 DEF Calmly
  <2> QED BY <1>1, <2>2, <2>3, <2>4, <2>5, <2>6, GoesOnAtWork
<1> QED BY <1>7, <1>8, <1>9

(* A unit that is looked up now was readable in the view that is noted.    *)
LEMMA FoundKeeps ==
  ASSUME IInv, NEW r \in Runs, NEW u \in Units, AtWork(r),
         ask[r].at \notin {"asked", "selecting"},
         LooksUp(ask[r].lore, u, ask[r].scope), Goes(r, Found(r, u)), Remembers, Quiet
  PROVE  IInv'
<1> DEFINE v == Entry(ask[r].lore, u, ask[r].scope)
           next == Found(r, u)
<1>1. ask[r] \in Request BY AtWorkIsRequest
<1>2. v = active /\ active \in View /\ active.lore = ask[r].lore
      /\ ActiveContext /\ Rediscovered(u, ask[r].scope)
  BY DEF LooksUp, Verifies, Readable, Manifest, SessionReady, IInv, Types, TypeOK
<1> HIDE DEF v
<1>3. next = [ask[r] EXCEPT !.at = "looking", !.todo = @ \ {u}, !.cert = <<>>,
                            !.seen = @ \union {<<u, v>>}]
  BY DEF Found, v
<1>4. ask[r].seen \cup {<<u, v>>} \subseteq Units \X View BY <1>1, <1>2 DEF Request
<1> HIDE DEF next
<1>5. next \in Request BY <1>1, <1>3, <1>4 DEF Request, InHand, Cert
<1>6. /\ next.at = "looking" /\ next.lore = ask[r].lore /\ next.scope = ask[r].scope
      /\ next.left = ask[r].left /\ next.idents = ask[r].idents
      /\ next.seen = ask[r].seen \cup {<<u, v>>} /\ next.todo = ask[r].todo \ {u}
  BY <1>1, <1>3 DEF Request
<1>7. IsFiniteSet(Views(next.seen))
  <2>1. IsFiniteSet(Views(ask[r].seen)) BY DEF IInv, RunInv, Shaped
  <2>2. Views(ask[r].seen \cup {<<u, v>>}) = Views(ask[r].seen) \cup {v} BY ViewsGrow
  <2>3. IsFiniteSet(Views(ask[r].seen) \cup {v}) BY <2>1, FS_AddElement
  <2>4. next.seen = ask[r].seen \cup {<<u, v>>} BY <1>6
  <2> HIDE DEF Views
  <2> QED BY <2>2, <2>3, <2>4
<1>8. Shaped(next) BY <1>6, <1>7 DEF Shaped
<1>9. Witnessed(r, next.seen, next.lore)
  <2>1. Witnessed(r, ask[r].seen, ask[r].lore) /\ Noting(r) BY DEF IInv, RunInv
  <2>2. v \in DOMAIN first[r] /\ u \in first[r][v] BY <1>2, <2>1 DEF Noting
  <2> QED BY <1>2, <1>6, <2>1, <2>2 DEF Witnessed
<1>10. ASSUME ~disturbed[r] PROVE Calmly(next)
  <2>1. Calmly(ask[r]) BY <1>10, WhatIsCalm
  <2>2. /\ next.idents = OwnedIdents(next.lore) \ next.left
        /\ next.left = {} /\ next.idents # {}
        /\ next.todo \subseteq UnitsFor(next.idents)
    BY <1>6, <2>1 DEF Calmly
  <2>3. \A c \in ask[r].seen \cup {<<u, v>>} : c[2] = active BY <1>2, <2>1 DEF Calmly
  <2>4. next.seen # {} BY <1>6
  <2> QED BY <1>6, <2>2, <2>3, <2>4 DEF Calmly
<1>11. Goes(r, next) BY DEF next
<1> QED BY <1>5, <1>6, <1>8, <1>9, <1>10, <1>11, GoesOnAtWork

LEMMA LookKeeps ==
  ASSUME IInv, NEW r \in Runs, Look(r), Remembers, Quiet
  PROVE  IInv'
<1>1. AtWork(r) /\ ask[r].at = "looking" /\ ask[r].todo # {}
  BY DEF Look, At, AtWork, InHand
<1>2. ask[r] \in Request BY <1>1, AtWorkIsRequest
<1> DEFINE u == Least(ask[r].todo)
<1>3. ask[r].todo \subseteq Units BY <1>2 DEF Request
<1>4. u \in ask[r].todo /\ u \in Units
  <2>1. ask[r].todo \subseteq Nat BY <1>3
  <2> QED BY <1>1, <1>3, <2>1, LeastIsIn
<1> HIDE DEF u
<1>5. CASE LooksUp(ask[r].lore, u, ask[r].scope)
  <2>1. Goes(r, Found(r, u)) BY <1>5 DEF Look, u
  <2> QED BY <1>1, <1>4, <1>5, <2>1, FoundKeeps
<1>6. CASE ~LooksUp(ask[r].lore, u, ask[r].scope)
  <2> DEFINE next == [ask[r] EXCEPT !.at = "certifying", !.cert = <<u>>]
  <2>1. Goes(r, next) BY <1>6 DEF Look, u
  <2>2. next \in Request BY <1>2, <1>4 DEF Request, InHand, Cert
  <2>3. /\ next.at = "certifying" /\ next.lore = ask[r].lore /\ next.scope = ask[r].scope
        /\ next.left = ask[r].left /\ next.idents = ask[r].idents
        /\ next.seen = ask[r].seen /\ next.todo = ask[r].todo /\ next.cert = <<u>>
    BY <1>2 DEF Request
  <2> HIDE DEF next
  <2>4. Shaped(next) /\ Witnessed(r, next.seen, next.lore)
    BY <1>1, <1>4, <2>3 DEF IInv, RunInv, Shaped
  <2>5. ASSUME ~disturbed[r] PROVE Calmly(next)
    <3>1. Calmly(ask[r]) BY <1>1, <2>5, WhatIsCalm
    <3> QED BY <1>1, <1>4, <2>3, <3>1 DEF Calmly
  <2> QED BY <1>1, <2>1, <2>2, <2>3, <2>4, <2>5, GoesOnAtWork
<1> QED BY <1>5, <1>6

LEMMA CertifyKeeps ==
  ASSUME IInv, NEW r \in Runs, Certify(r), Remembers, Quiet
  PROVE  IInv'
<1>1. AtWork(r) /\ ask[r].at = "certifying" BY DEF Certify, At, AtWork, InHand
<1>2. ask[r] \in Request BY <1>1, AtWorkIsRequest
<1> DEFINE u == ask[r].cert[1]
<1>3. u \in Units BY <1>1 DEF IInv, RunInv, Shaped
<1>4. CASE Certifiable(ask[r].lore, u, ask[r].scope)
  <2> DEFINE next == [ask[r] EXCEPT !.at = "writing", !.cert = <<u, active>>]
  <2>1. Goes(r, next) BY <1>4 DEF Certify
  <2>2. <<u, active>> \in Units \X View BY <1>3 DEF IInv, Types, TypeOK
  <2> HIDE DEF u
  <2>3. next \in Request BY <1>2, <2>2 DEF Request, InHand, Cert
  <2>4. /\ next.at = "writing" /\ next.lore = ask[r].lore /\ next.scope = ask[r].scope
        /\ next.left = ask[r].left /\ next.idents = ask[r].idents
        /\ next.seen = ask[r].seen /\ next.todo = ask[r].todo /\ next.cert = <<u, active>>
    BY <1>2 DEF Request
  <2> HIDE DEF next
  <2>5. Shaped(next) /\ Witnessed(r, next.seen, next.lore)
    BY <1>1, <2>2, <2>4 DEF IInv, RunInv, Shaped
  <2>6. ASSUME ~disturbed[r] PROVE Calmly(next)
    <3>1. Calmly(ask[r]) BY <1>1, <2>6, WhatIsCalm
    <3>2. u \in UnitsFor(ask[r].idents) BY <1>1, <3>1 DEF Calmly, u
    <3> QED BY <1>1, <2>4, <3>1, <3>2 DEF Calmly
  <2> QED BY <1>1, <2>1, <2>3, <2>4, <2>5, <2>6, GoesOnAtWork
<1>5. CASE ~Certifiable(ask[r].lore, u, ask[r].scope)
  <2>1. Refuse(r) BY <1>5 DEF Certify
  <2>2. ASSUME ~disturbed[r] PROVE FALSE
    <3>1. Calmly(ask[r]) BY <1>1, <2>2, WhatIsCalm
    <3>2. u \in UnitsFor(ask[r].idents) /\ ask[r].left = {} BY <1>1, <3>1 DEF Calmly
    <3> QED BY <1>1, <1>5, <2>2, <3>2, CalmUnits
  <2> QED BY <1>1, <2>1, <2>2, RefusesDisturbed
<1> QED BY <1>4, <1>5

(* The one step that others can see.                                       *)
LEMMA WriteKeeps ==
  ASSUME IInv, NEW r \in Runs, Write(r), Remembers, Quiet
  PROVE  IInv'
<1>1. AtWork(r) /\ ask[r].at = "writing" BY DEF Write, At, AtWork, InHand
<1>2. ask[r] \in Request BY <1>1, AtWorkIsRequest
<1> DEFINE u == ask[r].cert[1]
           v == ask[r].cert[2]
           k == <<ask[r].lore, u, ask[r].scope>>
           next == [ask[r] EXCEPT !.at = "relooking", !.cert = <<u>>]
<1>3. u \in Units /\ v \in View BY <1>1 DEF IInv, RunInv, Shaped
<1>4. k \in Lores \X Units \X Scopes BY <1>2, <1>3 DEF Request
<1>5. /\ registry' = [registry EXCEPT ![k] = v]
      /\ ask' = [ask EXCEPT ![r] = next]
      /\ UNCHANGED <<current, granted, post>>
  BY DEF Write
<1>6. /\ registry \in [Lores \X Units \X Scopes -> View] /\ ask \in [Runs -> AskState]
      /\ first \in [Runs -> Noted1]
  BY DEF IInv, Types, TypeOK
<1> HIDE DEF u, v
<1>7. next \in Request BY <1>2, <1>3 DEF Request, InHand, Cert
<1>8. /\ next.at = "relooking" /\ next.lore = ask[r].lore /\ next.scope = ask[r].scope
      /\ next.left = ask[r].left /\ next.idents = ask[r].idents
      /\ next.seen = ask[r].seen /\ next.todo = ask[r].todo /\ next.cert = <<u>>
  BY <1>2 DEF Request
<1> HIDE DEF next, k
<1>9. registry' \in [Lores \X Units \X Scopes -> View] /\ registry'[k] = v
  BY <1>3, <1>4, <1>5, <1>6
<1>10. ask' \in [Runs -> AskState] /\ ask'[r] = next /\ (\A q \in Runs \ {r} : ask'[q] = ask[q])
  BY <1>5, <1>6, <1>7 DEF AskState
<1>11. TypeOK' BY <1>5, <1>9 DEF IInv, Types, TypeOK, Quiet, story, lore
<1>12. first' \in [Runs -> Noted1] /\ disturbed' \in [Runs -> BOOLEAN]
  BY <1>6, <1>11, NotesTypes DEF TypeOK
<1>13. Types' BY <1>5, <1>10, <1>11, <1>12 DEF IInv, Types
<1>14. AtWork(r)' BY <1>8, <1>10 DEF AtWork, InHand
<1>15. Shaped(next) /\ Witnessed(r, next.seen, next.lore)
  BY <1>1, <1>3, <1>8 DEF IInv, RunInv, Shaped
<1>16. ASSUME ~disturbed[r] PROVE Calmly(ask[r])'
  <2>1. Calmly(ask[r]) BY <1>1, <1>16, WhatIsCalm
  <2>2. v = active /\ active' = active BY <1>1, <2>1 DEF Calmly, v, Quiet, lore
  <2>3. u \in UnitsFor(ask[r].idents) BY <1>1, <2>1 DEF Calmly, u
  <2>4. registry'[<<next.lore, next.cert[1], next.scope>>] = active'
    BY <1>8, <1>9, <2>2 DEF k
  <2>5. /\ next.idents = OwnedIdents(next.lore) \ next.left
        /\ next.left = {} /\ next.idents # {}
        /\ next.todo \subseteq UnitsFor(next.idents)
    BY <1>1, <1>8, <2>1 DEF Calmly
  <2>6. next.cert[1] \in UnitsFor(next.idents) BY <1>8, <2>3
  <2>7. \A c \in next.seen : c[2] = active' BY <1>8, <2>1, <2>2 DEF Calmly
  <2> QED BY <1>8, <1>10, <2>4, <2>5, <2>6, <2>7 DEF Calmly, Entry
<1>17. RunHolds(r)'
  BY <1>1, <1>5, <1>8, <1>10, <1>13, <1>14, <1>15, <1>16, Advance DEF Quiet
<1> QED BY <1>1, <1>5, <1>10, <1>13, <1>17, OthersKeep

LEMMA RelookKeeps ==
  ASSUME IInv, NEW r \in Runs, Relook(r), Remembers, Quiet
  PROVE  IInv'
<1>1. AtWork(r) /\ ask[r].at = "relooking" BY DEF Relook, At, AtWork, InHand
<1> DEFINE u == ask[r].cert[1]
<1>2. u \in Units BY <1>1 DEF IInv, RunInv, Shaped
<1>3. CASE LooksUp(ask[r].lore, u, ask[r].scope)
  <2>1. Goes(r, Found(r, u)) BY <1>3 DEF Relook
  <2> QED BY <1>1, <1>2, <1>3, <2>1, FoundKeeps
<1>4. CASE ~LooksUp(ask[r].lore, u, ask[r].scope)
  <2>1. Refuse(r) BY <1>4 DEF Relook
  <2>2. ASSUME ~disturbed[r] PROVE FALSE
    <3>1. Calmly(ask[r]) BY <1>1, <2>2, WhatIsCalm
    <3>2. /\ u \in UnitsFor(ask[r].idents) /\ ask[r].left = {}
          /\ Entry(ask[r].lore, u, ask[r].scope) = active
      BY <1>1, <3>1 DEF Calmly
    <3>3. Certifiable(ask[r].lore, u, ask[r].scope) BY <1>1, <2>2, <3>2, CalmUnits
    <3> QED BY <1>4, <3>2, <3>3 DEF Certifiable, LooksUp, Verifies
  <2> QED BY <1>1, <2>1, <2>2, RefusesDisturbed
<1> QED BY <1>3, <1>4

LEMMA RecordKeeps ==
  ASSUME IInv, NEW r \in Runs, Record(r), Remembers, Quiet
  PROVE  IInv'
<1>1. AtWork(r) /\ ask[r].at = "looking" /\ ask[r].todo = {}
  BY DEF Record, At, AtWork, InHand
<1>2. ask[r] \in Request BY <1>1, AtWorkIsRequest
<1>3. /\ Witnessed(r, ask[r].seen, ask[r].lore) /\ IsFiniteSet(Views(ask[r].seen))
      /\ Noting(r) /\ Fresh(r)
  BY <1>1 DEF IInv, RunInv, Shaped
<1>4. CASE ~OneProjection(ask[r].seen)
  <2>1. Refuse(r) BY <1>4 DEF Record
  <2>2. ASSUME ~disturbed[r] PROVE FALSE
    <3>1. Calmly(ask[r]) BY <1>1, <2>2, WhatIsCalm
    <3>2. ask[r].seen # {} /\ \A c \in ask[r].seen : c[2] = active BY <1>1, <3>1 DEF Calmly
    <3>3. Views(ask[r].seen) = {active} BY <3>2 DEF Views
    <3> QED BY <1>3, <1>4, <3>3, OneViewForAll
  <2> QED BY <1>1, <2>1, <2>2, RefusesDisturbed
<1>5. CASE OneProjection(ask[r].seen)
  <2> DEFINE grant == [lore |-> ask[r].lore, idents |-> ask[r].idents, seen |-> ask[r].seen]
  <2>1. /\ granted' = [granted EXCEPT ![r] = grant] /\ ask' = [ask EXCEPT ![r] = Recorded]
        /\ UNCHANGED <<registry, current, post>>
    BY <1>5 DEF Record
  <2>2. grant \in Grant BY <1>2 DEF Grant, Request
  <2>3. Recorded \in AskState /\ Recorded.at = "recorded" BY DEF Recorded, AskState, Over
  <2>4. /\ granted \in [Runs -> Grant] /\ ask \in [Runs -> AskState]
        /\ first \in [Runs -> Noted1]
    BY DEF IInv, Types
  <2> HIDE DEF grant
  <2>5. /\ granted' \in [Runs -> Grant] /\ granted'[r] = grant
        /\ ask' \in [Runs -> AskState] /\ ask'[r] = Recorded
        /\ \A q \in Runs \ {r} : ask'[q] = ask[q] /\ granted'[q] = granted[q]
    BY <2>1, <2>2, <2>3, <2>4
  <2>6. TypeOK' BY <2>1 DEF IInv, Types, TypeOK, Quiet, story, lore
  <2>7. first' \in [Runs -> Noted1] /\ disturbed' \in [Runs -> BOOLEAN]
    BY <2>4, <2>6, NotesTypes DEF TypeOK
  <2>8. Types' BY <2>1, <2>5, <2>6, <2>7 DEF IInv, Types
  <2>9. post'[r] = "idle" BY <1>3, <2>1 DEF Fresh
  <2>10. first'[r] = first[r] BY <2>3, <2>5, <2>9, NotesRest
  <2>11. grant.lore = ask[r].lore /\ grant.idents = ask[r].idents /\ grant.seen = ask[r].seen
    BY DEF grant
  <2>12. Witnessed(r, granted[r].seen, granted[r].lore)'
    BY <1>3, <2>5, <2>10, <2>11 DEF Witnessed
  <2>13. \E v \in View : Views(granted'[r].seen) = {v}
    <3>1. PICK v : Views(ask[r].seen) = {v} BY <1>3, <1>5, OneViewForAll
    <3>2. PICK c \in ask[r].seen : c[2] = v BY <3>1 DEF Views
    <3>3. v \in View BY <1>2, <3>2 DEF Request
    <3> QED BY <2>5, <2>11, <3>1, <3>3
  <2>14. RunInv(r)'
    BY <2>3, <2>5, <2>9, <2>12, <2>13 DEF RunInv, AtWork, InHand
  <2>15. ASSUME ~disturbed[r] PROVE Calms(r)'
    <3>1. Calmly(ask[r]) BY <1>1, <2>15, WhatIsCalm
    <3>2. ask[r].idents = OwnedIdents(ask[r].lore) BY <1>1, <3>1 DEF Calmly
    <3> QED BY <2>3, <2>5, <2>11, <3>2 DEF Calms, AtWork, InHand
  <2>16. disturbed[r] => disturbed'[r] BY DEF Remembers
  <2>17. RunHolds(r)' BY <2>14, <2>15, <2>16 DEF RunHolds
  <2> QED BY <2>1, <2>5, <2>8, <2>17, OthersKeep
<1> QED BY <1>4, <1>5

(* The page takes the answer, or it has gone on.                           *)
LEMMA AnswerKeeps ==
  ASSUME IInv, NEW r \in Runs, Answer(r), Remembers, Quiet
  PROVE  IInv'
<1> DEFINE next == [at |-> IF current = r THEN "answered" ELSE "dropped"]
<1>1. ask[r].at = "recorded" /\ Goes(r, next) BY DEF Answer, At
<1>2. next.at \in {"answered", "dropped"} /\ next \in AskState BY DEF AskState, Over
<1> HIDE DEF next
<1>3. /\ Types' /\ ask'[r] = next /\ UNCHANGED <<granted, post, registry>>
      /\ (RunHolds(r)' => IInv')
  BY <1>1, <1>2, GoesOn
<1>4. RunInv(r) /\ (disturbed[r] \/ Calms(r)) BY DEF IInv
<1>5. post[r] = "idle" BY <1>1, <1>4 DEF RunInv
<1>6. RunInv(r)'
  <2>1. CASE next.at = "dropped" BY <1>3, <1>5, <2>1 DEF RunInv, AtWork, InHand
  <2>2. CASE next.at = "answered"
    <3>1. ask' \in [Runs -> AskState] BY <1>3 DEF Types
    <3>2. first'[r] = first[r] BY <1>3, <1>5, <2>2, <3>1, NotesRest
    <3> QED BY <1>1, <1>3, <1>4, <1>5, <2>2, <3>2 DEF RunInv, AtWork, InHand, Removed, Witnessed
  <2> QED BY <1>2, <2>1, <2>2
<1>7. disturbed[r] => disturbed'[r] BY DEF Remembers
<1>8. Calms(r) => Calms(r)' BY <1>2, <1>3 DEF Calms, AtWork, InHand
<1>9. RunHolds(r)' BY <1>4, <1>6, <1>7, <1>8 DEF RunHolds
<1> QED BY <1>3, <1>9

-----------------------------------------------------------------------------
(* The story request                                                       *)

(* The request that carries the grants goes one step on, or is refused;    *)
(* it is only sent with a certificate for each unit that it leaves out.    *)
LEMMA PostGoesOn ==
  ASSUME IInv, NEW r \in Runs, NEW next \in PostState \ {"idle"},
         ask[r].at = "answered", post' = [post EXCEPT ![r] = next],
         UNCHANGED <<registry, current, ask, granted>>, Remembers, Quiet,
         post[r] # "refused", next = "sent" => Covers(r)
  PROVE  IInv'
<1>1. /\ post \in [Runs -> PostState] /\ ask \in [Runs -> AskState]
      /\ first \in [Runs -> Noted1]
  BY DEF IInv, Types
<1>2. /\ post' \in [Runs -> PostState] /\ post'[r] = next
      /\ \A q \in Runs \ {r} : post'[q] = post[q]
  BY <1>1
<1>3. TypeOK' BY DEF IInv, Types, TypeOK, Quiet, story, lore
<1>4. first' \in [Runs -> Noted1] /\ disturbed' \in [Runs -> BOOLEAN]
  BY <1>1, <1>3, NotesTypes DEF TypeOK
<1>5. Types' BY <1>2, <1>3, <1>4 DEF IInv, Types
<1>6. RunInv(r) /\ (disturbed[r] \/ Calms(r)) BY DEF IInv
<1>7. RunInv(r)'
  <2>1. CASE next = "refused"
    BY <1>2, <2>1 DEF RunInv, AtWork, InHand
  <2>2. CASE next # "refused"
    <3>1. first'[r] = first[r] BY <1>1, <1>2, <2>2, NotesRest
    <3> QED BY <1>2, <1>6, <3>1 DEF RunInv, AtWork, InHand, Removed, Witnessed, Covers
  <2> QED BY <2>1, <2>2
<1>8. disturbed[r] => disturbed'[r] BY DEF Remembers
<1>9. Calms(r) => Calms(r)' BY DEF Calms, AtWork, InHand
<1>10. RunHolds(r)' BY <1>6, <1>7, <1>8, <1>9 DEF RunHolds
<1> QED BY <1>2, <1>5, <1>10, OthersKeep

LEMMA PostKeeps ==
  ASSUME IInv, NEW r \in Runs, Post(r), Remembers, Quiet
  PROVE  IInv'
<1>1. "removing" \in PostState \ {"idle"} BY DEF PostState
<1> QED BY <1>1, PostGoesOn DEF Post, At

LEMMA PostStepKeeps ==
  ASSUME IInv, NEW r \in Runs, PostStep(r), Remembers, Quiet
  PROVE  IInv'
<1>1. PICK step \in {"removing", "preparing", "admitting"}, allowed \in BOOLEAN,
           next \in {"preparing", "admitting", "sent"} :
           Passes(r, step, allowed, next) /\ (next = "sent" /\ allowed => Covers(r))
  <2>1. CASE RemoveParts(r)
    <3>1. GrantsVerify(r) \in BOOLEAN BY DEF GrantsVerify
    <3> QED BY <2>1, <3>1 DEF RemoveParts
  <2>2. CASE PrepareOnly(r)
    <3>1. BindingVerifies(r) \in BOOLEAN BY DEF BindingVerifies
    <3> QED BY <2>2, <3>1 DEF PrepareOnly
  <2>3. CASE AdmitStory(r)
    <3>1. BindingVerifies(r) \in BOOLEAN /\ (BindingVerifies(r) => Covers(r))
      BY DEF BindingVerifies
    <3> QED BY <2>3, <3>1 DEF AdmitStory
  <2> QED BY <2>1, <2>2, <2>3 DEF PostStep
<1> DEFINE then == IF allowed THEN next ELSE "refused"
<1>2. then \in PostState \ {"idle"} /\ (then = "sent" => Covers(r)) BY <1>1 DEF PostState
<1>3. /\ post[r] = step /\ post' = [post EXCEPT ![r] = then]
      /\ UNCHANGED <<registry, current, ask, granted>>
  BY <1>1 DEF Passes
<1>4. ask[r].at = "answered" BY <1>1, <1>3 DEF IInv, RunInv
<1> HIDE DEF then
<1> QED BY <1>1, <1>2, <1>3, <1>4, PostGoesOn

(* A stop of the companion ends requests; the others do not notice it.     *)
LEMMA RestartKeeps ==
  ASSUME IInv, Restart, Remembers, Quiet
  PROVE  IInv'
<1>1. /\ ask' = [r \in Runs |-> IF Ends(ask[r].at) THEN ask[r] ELSE Lost]
      /\ post' = [r \in Runs |-> IF Ends(post[r]) THEN post[r] ELSE "refused"]
      /\ UNCHANGED <<registry, current, granted>>
  BY DEF Restart
<1>2. /\ post \in [Runs -> PostState] /\ ask \in [Runs -> AskState]
      /\ first \in [Runs -> Noted1]
  BY DEF IInv, Types
<1>3. Lost \in AskState /\ Lost.at = "lost" BY DEF Lost, AskState, Over
<1>4. ask' \in [Runs -> AskState] /\ post' \in [Runs -> PostState]
  BY <1>1, <1>2, <1>3 DEF PostState
<1>5. TypeOK' BY <1>1 DEF IInv, Types, TypeOK, Quiet, story, lore
<1>6. first' \in [Runs -> Noted1] /\ disturbed' \in [Runs -> BOOLEAN]
  BY <1>2, <1>5, NotesTypes DEF TypeOK
<1>7. Types' BY <1>1, <1>4, <1>5, <1>6 DEF IInv, Types
<1>8. ASSUME NEW r \in Runs PROVE RunHolds(r)'
  <2>1. RunInv(r) /\ (disturbed[r] \/ Calms(r)) BY DEF IInv
  <2>2. disturbed[r] => disturbed'[r] BY DEF Remembers
  <2>3. /\ ask'[r] = IF Ends(ask[r].at) THEN ask[r] ELSE Lost
        /\ post'[r] = IF Ends(post[r]) THEN post[r] ELSE "refused"
        /\ granted'[r] = granted[r]
    BY <1>1
  <2>4. CASE ask'[r] = ask[r] /\ post'[r] = post[r]
    <3>1. patched \subseteq patched' /\ active' = active BY DEF Quiet, story, lore
    <3> QED BY <1>1, <1>7, <2>3, <2>4, <3>1, Unmoved
  <2>5. CASE ask'[r] # ask[r]
    <3>1. ~Ends(ask[r].at) /\ ask'[r] = Lost BY <2>3, <2>5
    <3>2. ask[r].at # "answered" BY <3>1 DEF Ends
    <3>3. post[r] = "idle" BY <2>1, <3>2 DEF RunInv
    <3>4. post'[r] = "idle" BY <2>3, <3>3 DEF Ends
    <3>5. RunInv(r)' BY <1>3, <3>1, <3>4 DEF RunInv, AtWork, InHand
    <3>6. Calms(r) => Calms(r)' BY <1>3, <2>3, <3>1 DEF Calms, AtWork, InHand
    <3> QED BY <2>1, <2>2, <3>5, <3>6 DEF RunHolds
  <2>6. CASE ask'[r] = ask[r] /\ post'[r] # post[r]
    <3>1. ~Ends(post[r]) /\ post'[r] = "refused" BY <2>3, <2>6
    <3>2. ask[r].at = "answered" BY <2>1, <3>1 DEF RunInv, Ends
    <3>3. RunInv(r)' BY <2>6, <3>1, <3>2 DEF RunInv, AtWork, InHand
    <3>4. Calms(r) => Calms(r)' BY <2>3, <2>6, <3>2 DEF Calms, AtWork, InHand
    <3> QED BY <2>1, <2>2, <3>3, <3>4 DEF RunHolds
  <2> QED BY <2>4, <2>5, <2>6
<1> QED BY <1>7, <1>8 DEF IInv, RunHolds

(* A new request notes the view that it finds.                             *)
LEMMA AskKeeps ==
  ASSUME IInv, NEW r \in Runs, NEW l \in Lores, Ask(r, l), Remembers, Quiet
  PROVE  IInv'
<1> DEFINE next == [at |-> "asked", lore |-> l, scope |-> turn + 1, left |-> Idents,
                    idents |-> {}, todo |-> {}, seen |-> {}, cert |-> <<>>]
<1>1. /\ ask[r] = NoAsk /\ ask' = [ask EXCEPT ![r] = next] /\ current' = r
      /\ UNCHANGED <<registry, granted, post>>
  BY DEF Ask
<1>2. turn + 1 \in Scopes BY DEF IInv, Types, TypeOK, Scopes
<1>3. next \in Request BY <1>2 DEF Request, InHand, Cert
<1>4. next \in AskState /\ next.at = "asked" /\ next.scope = turn + 1 /\ next.lore = l
      /\ next.left = Idents /\ next.idents = {} /\ next.todo = {} /\ next.seen = {}
  BY <1>3 DEF AskState
<1> HIDE DEF next
<1>5. ask \in [Runs -> AskState] /\ first \in [Runs -> Noted1] BY DEF IInv, Types
<1>6. /\ ask' \in [Runs -> AskState] /\ ask'[r] = next
      /\ \A q \in Runs \ {r} : ask'[q] = ask[q]
  BY <1>1, <1>4, <1>5
<1>7. TypeOK' BY <1>1 DEF IInv, Types, TypeOK, Quiet, story, lore
<1>8. first' \in [Runs -> Noted1] /\ disturbed' \in [Runs -> BOOLEAN]
  BY <1>5, <1>7, NotesTypes DEF TypeOK
<1>9. Types' BY <1>1, <1>6, <1>7, <1>8 DEF IInv, Types
<1>10. RunInv(r) /\ ask[r].at = "idle" BY <1>1 DEF IInv, NoAsk
<1>11. first[r] = <<>> /\ Fresh(r) BY <1>10 DEF RunInv
<1>12. AtWork(r)' /\ Fresh(r)' BY <1>1, <1>4, <1>6, <1>11 DEF AtWork, InHand, Fresh
<1>13. Noting(r)'
  <2>1. Handled(r)' BY <1>6, <1>12, RequestsAreInHand DEF Handled, AtWork
  <2>2. ~ (ask'[r].at \in {"refused", "dropped", "lost"} \/ post'[r] = "refused")
    BY <1>4, <1>6, <1>12 DEF Fresh
  <2> DEFINE now == {u \in Units : \A t \in 1..ask'[r].scope : <<t, u>> \notin patched'}
             more == [v \in DOMAIN first[r] \union {active'} |->
                        IF v # active' THEN first[r][v] ELSE now]
  <2>3. DOMAIN first[r] = {} BY <1>11, NoNotes
  <2>4. CASE active' = world'
    <3>1. first'[r] = more BY <2>1, <2>2, <2>3, <2>4 DEF Remembers, Notes
    <3>2. DOMAIN more = {active'} /\ more[active'] = now BY <2>3
    <3> HIDE DEF more
    <3>3. \A u \in Units : Rediscovered(u, ask[r].scope)' => u \in now BY DEF Rediscovered
    <3> QED BY <3>1, <3>2, <3>3 DEF Noting, ActiveContext
  <2>5. CASE active' # world'
    <3>1. first'[r] = first[r] BY <2>2, <2>5 DEF Remembers, Notes
    <3> QED BY <2>3, <2>5, <3>1 DEF Noting, ActiveContext
  <2> QED BY <2>4, <2>5
<1>14. Shaped(next)
  <2>1. Views({}) = {} BY DEF Views
  <2> QED BY <1>4, <2>1, FS_EmptySet DEF Shaped
<1>15. RunInv(r)'
  BY <1>4, <1>6, <1>12, <1>13, <1>14 DEF RunInv, Witnessed, AtWork, InHand, Shaped, Fresh
<1>16. ASSUME ~disturbed'[r] PROVE Calms(r)'
  <2>1. disturbed'[r] = FALSE BY <1>8, <1>16
  <2>2. Calm(r)' BY <1>6, <1>12, <2>1, CalmAfter DEF IInv, Types
  <2>3. OwnedIdents(l) \ Idents = {} BY DEF OwnedIdents
  <2>4. Calmly(ask[r])' BY <1>4, <1>6, <2>3 DEF Calmly, OwnedIdents
  <2>5. granted'[r].idents = {} BY <1>12 DEF Fresh, NoGrant
  <2> QED BY <1>4, <1>6, <2>2, <2>4, <2>5 DEF Calms
<1>17. RunHolds(r)' BY <1>15, <1>16 DEF RunHolds
<1> QED BY <1>1, <1>6, <1>9, <1>17, OthersKeep

-----------------------------------------------------------------------------
(* The publication and the story around it                                 *)

(* What is left of a calm request's view: a publication stages another     *)
(* one, and no step of it can follow while nothing is staged.              *)
LEMMA AroundKeeps ==
  ASSUME IInv, Around, UNCHANGED removal, Remembers
  PROVE  IInv'
<1>1. UNCHANGED <<registry, current, ask, granted, post>> BY DEF removal
<1>2. /\ TypeOK /\ ask \in [Runs -> AskState] /\ granted \in [Runs -> Grant]
      /\ post \in [Runs -> PostState] /\ first \in [Runs -> Noted1]
  BY DEF IInv, Types
<1>3. /\ active' \in View /\ world' \in View /\ staged' \in View
      /\ turn' \in 0..MaxTurn /\ patched' \subseteq (1..MaxTurn) \X Units
      /\ patched \subseteq patched' /\ (Whole => active' = active)
  <2>1. CASE Publish
    <3>1. PICK l \in Lores : Stage(l) BY <2>1 DEF Publish
    <3>2. staged' \in View /\ UNCHANGED <<active, world>> BY <1>2, <3>1 DEF Stage, TypeOK, View
    <3> QED BY <1>2, <2>1, <3>2 DEF Publish, TypeOK
  <2>2. CASE Commit /\ UNCHANGED lore
    BY <1>2, <2>2 DEF Commit, TypeOK, lore
  <2>3. CASE (\E t \in 1..MaxTurn, u \in Units : Patch(t, u)) /\ UNCHANGED lore
    BY <1>2, <2>3 DEF Patch, TypeOK, lore
  <2>4. CASE LoreStep /\ UNCHANGED story
    <3>1. Nothing \in View BY DEF Nothing, View
    <3>2. ~Whole BY <2>4 DEF LoreStep, Install, Activate, Settle, Restore, Whole
    <3>3. active' \in View /\ world' \in View /\ staged' \in View
      BY <1>2, <2>4, <3>1 DEF LoreStep, Install, Activate, Settle, Restore, TypeOK
    <3> QED BY <1>2, <2>4, <3>2, <3>3 DEF TypeOK, story
  <2> QED BY <2>1, <2>2, <2>3, <2>4 DEF Around
<1>4. TypeOK' BY <1>1, <1>2, <1>3 DEF TypeOK
<1>5. first' \in [Runs -> Noted1] /\ disturbed' \in [Runs -> BOOLEAN]
  BY <1>2, <1>3, NotesTypes
<1>6. Types' BY <1>1, <1>2, <1>4, <1>5 DEF Types
<1>7. ASSUME NEW r \in Runs PROVE RunHolds(r)'
  <2>1. Calm(r) => active' = active /\ registry' = registry BY <1>1, <1>3 DEF Calm
  <2> QED BY <1>1, <1>3, <1>6, <2>1, Unmoved
<1> QED BY <1>6, <1>7 DEF IInv, RunHolds

-----------------------------------------------------------------------------
(* The theorems                                                            *)

LEMMA Starts == Init => IInv
<1> SUFFICES ASSUME Init PROVE IInv OBVIOUS
<1>1. TypeOK
  <2>1. Nothing \in View BY DEF Nothing, View
  <2>2. active \in View /\ world \in View /\ staged \in View BY <2>1 DEF Init, View, Nothing
  <2>3. turn \in 0..MaxTurn /\ patched \subseteq (1..MaxTurn) \X Units BY DEF Init
  <2>4. registry \in [Lores \X Units \X Scopes -> View] BY <2>1 DEF Init
  <2> QED BY <2>2, <2>3, <2>4 DEF Init, TypeOK
<1>2. ask \in [Runs -> AskState] BY DEF Init, NoAsk, AskState, Over
<1>3. granted \in [Runs -> Grant] BY DEF Init, NoGrant, Grant
<1>4. post \in [Runs -> PostState] BY DEF Init, PostState
<1>5. first \in [Runs -> Noted1] BY NoNotes DEF Init
<1>6. disturbed \in [Runs -> BOOLEAN] BY DEF Init
<1>7. ASSUME NEW r \in Runs PROVE RunInv(r) /\ Calms(r)
  <2>1. ask[r].at = "idle" /\ first[r] = <<>> /\ post[r] = "idle" /\ granted[r] = NoGrant
    BY DEF Init, NoAsk
  <2>2. granted[r].idents = {} BY <2>1 DEF NoGrant
  <2>3. RunInv(r) BY <2>1 DEF RunInv, Fresh, AtWork, InHand
  <2>4. Calms(r) BY <2>1, <2>2 DEF Calms, AtWork, InHand
  <2> QED BY <2>3, <2>4
<1> QED BY <1>1, <1>2, <1>3, <1>4, <1>5, <1>6, <1>7 DEF IInv, Types

LEMMA Steps == IInv /\ [Next]_vars => IInv'
<1> SUFFICES ASSUME IInv, [Next]_vars PROVE IInv' OBVIOUS
<1>1. CASE Noted(Removing /\ UNCHANGED <<lore, story>>)
  <2>1. Removing /\ Quiet /\ Remembers BY <1>1 DEF Noted, Remembers, Quiet
  <2>2. ASSUME NEW r \in Runs, NEW l \in Lores, Ask(r, l) PROVE IInv'
    BY <2>1, <2>2, AskKeeps
  <2>3. ASSUME NEW r \in Runs, Post(r) PROVE IInv' BY <2>1, <2>3, PostKeeps
  <2>4. ASSUME NEW r \in Runs, AskStep(r) PROVE IInv'
    BY <2>1, <2>4, CheckKeeps, SelectKeeps, LookKeeps, CertifyKeeps, WriteKeeps, RelookKeeps,
       RecordKeeps, AnswerKeeps DEF AskStep
  <2>5. ASSUME NEW r \in Runs, PostStep(r) PROVE IInv' BY <2>1, <2>5, PostStepKeeps
  <2>6. CASE Restart BY <2>1, <2>6, RestartKeeps
  <2> QED BY <2>1, <2>2, <2>3, <2>4, <2>5, <2>6 DEF Removing
<1>2. CASE Noted(Around /\ UNCHANGED removal)
  <2>1. Around /\ UNCHANGED removal /\ Remembers BY <1>2 DEF Noted, Remembers
  <2> QED BY <2>1, AroundKeeps
<1>3. CASE UNCHANGED vars
  <2>1. /\ UNCHANGED <<active, world, staged, registry, current, ask, granted, post, turn, patched>>
        /\ UNCHANGED <<first, disturbed>>
    BY <1>3 DEF vars, lore, removal, story, history
  <2>2. Types' BY <2>1 DEF IInv, Types, TypeOK
  <2>3. ASSUME NEW r \in Runs PROVE RunInv(r)'
    <3>1. RunInv(r) BY DEF IInv
    <3> QED BY <2>1, <3>1
      DEF RunInv, Shaped, Noting, Witnessed, Fresh, AtWork, Rediscovered, ActiveContext, Covers,
          Removed
  <2>4. ASSUME NEW r \in Runs, Calms(r) PROVE Calms(r)'
    <3>1. AtWork(r) => Calm(r)' BY <2>1, <2>4 DEF Calms, Calm, Whole, Rediscovered
    <3>2. AtWork(r) => Calmly(ask[r])' BY <2>1, <2>4 DEF Calms, Calmly, Entry
    <3> QED BY <2>1, <2>4, <3>1, <3>2 DEF Calms, AtWork
  <2>5. \A r \in Runs : disturbed[r] \/ Calms(r) BY DEF IInv
  <2> QED BY <2>1, <2>2, <2>3, <2>4, <2>5 DEF IInv
<1> QED BY <1>1, <1>2, <1>3 DEF Next

(* The two parts of what a request rests on, in every reachable state.     *)
THEOREM RemovalSteady == Spec => []IInv
<1>1. Init => IInv BY Starts
<1>2. IInv /\ [Next]_vars => IInv' BY Steps
<1> QED BY <1>1, <1>2, PTL DEF Spec

LEMMA InvReadable == IInv => RemovedWasReadable
<1> SUFFICES ASSUME IInv, NEW r \in Runs, post[r] = "sent", Removed(r) # {}
             PROVE  \E v \in DOMAIN first[r] :
                      /\ v.lore = granted[r].lore
                      /\ UnitsFor(Removed(r)) \subseteq first[r][v]
                      /\ granted[r].seen = UnitsFor(Removed(r)) \X {v}
  BY DEF RemovedWasReadable
<1>1. /\ Witnessed(r, granted[r].seen, granted[r].lore) /\ Covers(r)
      /\ \E v \in View : Views(granted[r].seen) = {v}
  BY DEF IInv, RunInv
<1>2. PICK v \in View : Views(granted[r].seen) = {v} BY <1>1
<1>3. granted[r].seen \subseteq Units \X View BY DEF IInv, Types, Grant
<1>4. \A c \in granted[r].seen : c = <<c[1], v>> /\ c[2] = v BY <1>2, <1>3 DEF Views
<1>5. PICK c \in granted[r].seen : c[2] = v BY <1>2 DEF Views
<1>6. v \in DOMAIN first[r] /\ v.lore = granted[r].lore BY <1>1, <1>5 DEF Witnessed
<1>7. {d[1] : d \in granted[r].seen} = UnitsFor(Removed(r)) BY <1>1 DEF Covers
<1>8. ASSUME NEW u \in UnitsFor(Removed(r))
      PROVE  <<u, v>> \in granted[r].seen /\ u \in first[r][v]
  <2>1. PICK d \in granted[r].seen : d[1] = u BY <1>7
  <2>2. d = <<u, v>> /\ d[2] = v BY <1>4, <2>1
  <2> QED BY <1>1, <2>1, <2>2 DEF Witnessed
<1>9. granted[r].seen = UnitsFor(Removed(r)) \X {v} BY <1>4, <1>7, <1>8
<1> QED BY <1>6, <1>8, <1>9

(* A story that leaves without the author's text leaves only what the      *)
(* runtime memory held for it, in one view, however old the certificates.  *)
THEOREM RemovedReadable == Spec => []RemovedWasReadable
BY RemovalSteady, InvReadable, PTL

(* A request about the active sources is granted everything that the       *)
(* memory owns unless something changes under it.                          *)
THEOREM OnlyDisturbedRefused == Spec => []OnlyDisturbedAsksAreRefused
<1>1. IInv => OnlyDisturbedAsksAreRefused
  BY DEF IInv, Calms, OnlyDisturbedAsksAreRefused, At
<1> QED BY <1>1, RemovalSteady, PTL
=============================================================================
