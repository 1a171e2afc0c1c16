---------------------------- MODULE SourceRemoval ----------------------------
(***************************************************************************)
(* Taking an author's source text out of the prompt.  A run may leave out  *)
(* the parts of the prompt (Idents) whose facts the runtime memory can be  *)
(* shown to hold.  Each part stands for source units; a unit is certified  *)
(* by finding its records again at the run's read scope, the certificates  *)
(* are kept in a registry, the grants of a run go into the ledger, and the *)
(* story request is let through when its grants verify.  Meanwhile the     *)
(* author edits the sources, another snapshot is published, and turns that *)
(* were committed earlier get their changes to the memory applied.         *)
(***************************************************************************)
EXTENDS ActiveLore, Naturals, FiniteSets

CONSTANTS Units,        \* source units of a snapshot
          Idents,       \* prompt parts that stand for author sources
          UnitsOf,      \* the units a prompt part resolves to
          Owned,        \* <<lore, unit>>: the paid intake accepted all of it
          Runs,         \* story runs
          MaxTurn, MaxPublications, MaxPatches

(* resolvePromptFingerprintSourceUnits refuses a prompt without author     *)
(* sources, and a part of it that selects no unit.                         *)
ASSUME RemovalAssumption ==
  /\ MaxTurn \in Nat
  /\ Units \subseteq Nat /\ Idents \subseteq Nat /\ Idents # {}
  /\ UnitsOf \in [Idents -> (SUBSET Units) \ {{}}]
  /\ Owned \subseteq Lores \X Units

VARIABLES turn,         \* committed turns
          patched,      \* <<turn, unit>>: the turn changed the unit's record
          registry,     \* certificate files: the view each was issued under
          current,      \* the run the page is generating
          ask,          \* the grant request of each run
          granted,      \* source_removal_grants, by run
          post,         \* the story request of each run
          first,        \* history: readable units when each view was first whole
          disturbed,    \* history: something changed under the request
          publications

removal == <<registry, current, ask, granted, post>>
story   == <<turn, patched, publications>>
history == <<first, disturbed>>
vars    == <<lore, removal, story, history>>

NoRun   == "none"
NoAsk   == [at |-> "idle"]
Lost    == [at |-> "lost"]
NoGrant == [lore |-> NoLore, idents |-> {}, seen |-> {}]

Scopes  == 1..(MaxTurn + 1)
UnitsFor(is) == UNION {UnitsOf[i] : i \in is}

-----------------------------------------------------------------------------
(* What the manifest provider and the gate see.                            *)

(* loadActiveContext: one runtime world, and the ledger's.                 *)
ActiveContext == active = world

(* The intake session of the active snapshot is completed; that of a       *)
(* snapshot just activated is not before its publication has settled.      *)
SessionReady(l) == active.lore = l /\ active # staged

(* Replaying the paid artifacts accepts every span of the unit.            *)
Accepted(l, u) == <<l, u>> \in Owned

Manifest(l, u) == SessionReady(l) /\ ActiveContext /\ Accepted(l, u)

(* smokeRuntimeMemory: a record changed by a turn of the scope carries     *)
(* another version than the baseline and no longer stands for the unit.    *)
Rediscovered(u, scope) == \A t \in 1..scope : <<t, u>> \notin patched

Readable(u, scope) == ActiveContext /\ Rediscovered(u, scope)

(* The certificate is believed as it stands.                                *)
VerifiesBinding(v, u, scope) == v = active /\ ActiveContext

(* verifyCertificate: the certificate is of the view that is active now.   *)
Verifies(v, u, scope) == v = active /\ Readable(u, scope)

(* createCertificate succeeds.                                             *)
Certifiable(l, u, scope) == Manifest(l, u) /\ Readable(u, scope)

(* The certificate file of a unit at a read scope.                         *)
Entry(l, u, scope) == registry[<<l, u, scope>>]

(* lookupSourceUnit is ready.                                              *)
LooksUp(l, u, scope) == Manifest(l, u) /\ Verifies(Entry(l, u, scope), u, scope)

Init ==
  /\ \E l \in Lores : active = [lore |-> l, from |-> NoLore]
  /\ world = active /\ staged = Nothing
  /\ turn = 0 /\ patched = {} /\ publications = 0
  /\ registry = [k \in Lores \X Units \X Scopes |-> Nothing]
  /\ current = NoRun
  /\ ask = [r \in Runs |-> NoAsk]
  /\ granted = [r \in Runs |-> NoGrant]
  /\ post = [r \in Runs |-> "idle"]
  /\ first = [r \in Runs |-> <<>>]
  /\ disturbed = [r \in Runs |-> FALSE]

-----------------------------------------------------------------------------
(* The grant request.                                                      *)

(* onPromptReady of a new run; the run before it is no longer current.     *)
(* Its sources are what the author has made of them by then.               *)
Ask(r, l) ==
  /\ ask[r] = NoAsk
  /\ current' = r
  /\ ask' = [ask EXCEPT ![r] = [at |-> "asked", lore |-> l, scope |-> turn + 1, left |-> Idents,
                               idents |-> {}, todo |-> {}, seen |-> {}, cert |-> <<>>]]
  /\ UNCHANGED <<registry, granted, post>>

(* References and identifiers are worked through in their sorted order.    *)
Least(S) == CHOOSE x \in S : \A y \in S : x <= y

At(r, step) == ask[r].at = step
Goes(r, next) == /\ ask' = [ask EXCEPT ![r] = next]
                 /\ UNCHANGED <<registry, current, granted, post>>
Refuse(r) == Goes(r, [at |-> "refused"])
Recorded == [at |-> "recorded"]

(* activeSnapshot and the check for drift; the selector and the verifier   *)
(* read the active snapshot again and refuse another one likewise.         *)
Check(r) ==
  /\ At(r, "asked")
  /\ IF active.lore = ask[r].lore THEN Goes(r, [ask[r] EXCEPT !.at = "selecting"]) ELSE Refuse(r)

(* selectRemovalClaimIdentifiers: the parts whose units all have           *)
(* manifests.  Without any the answer is empty and nothing is recorded.    *)
Select(r) ==
  /\ At(r, "selecting")
  /\ LET i      == Least(ask[r].left)
         owned  == \A u \in UnitsOf[i] : Manifest(ask[r].lore, u)
         idents == ask[r].idents \union {j \in {i} : owned}
     IN  Goes(r, IF ask[r].left # {i}
                   THEN [ask[r] EXCEPT !.left = @ \ {i}, !.idents = idents]
                   ELSE IF idents = {} THEN Recorded
                   ELSE [ask[r] EXCEPT !.at = "looking", !.left = {}, !.idents = idents,
                                       !.todo = UnitsFor(idents)])

(* A unit counts with the view of its certificate.                         *)
Found(r, u) == [ask[r] EXCEPT !.at = "looking", !.todo = @ \ {u}, !.cert = <<>>,
                              !.seen = @ \union {<<u, Entry(ask[r].lore, u, ask[r].scope)>>}]

(* Only a missing entry is certified.                                      *)
LookMissing(r) ==
  /\ At(r, "looking") /\ ask[r].todo # {}
  /\ LET u == Least(ask[r].todo)
     IN  IF LooksUp(ask[r].lore, u, ask[r].scope) THEN Goes(r, Found(r, u))
         ELSE IF Entry(ask[r].lore, u, ask[r].scope) # Nothing THEN Refuse(r)
         ELSE Goes(r, [ask[r] EXCEPT !.at = "certifying", !.cert = <<u>>])

(* trustedCoverageVerifier, one unit: a valid entry is used, anything else *)
(* is certified anew.                                                      *)
Look(r) ==
  /\ At(r, "looking") /\ ask[r].todo # {}
  /\ LET u == Least(ask[r].todo)
     IN Goes(r, IF LooksUp(ask[r].lore, u, ask[r].scope)
                 THEN Found(r, u)
                 ELSE [ask[r] EXCEPT !.at = "certifying", !.cert = <<u>>])

(* registerSourceUnit up to the verified certificate.                      *)
Certify(r) ==
  /\ At(r, "certifying")
  /\ LET u == ask[r].cert[1]
     IN  IF Certifiable(ask[r].lore, u, ask[r].scope)
           THEN Goes(r, [ask[r] EXCEPT !.at = "writing", !.cert = <<u, active>>])
           ELSE Refuse(r)

(* registerSourceUnit, the entry replaces whatever stood there.            *)
Write(r) ==
  /\ At(r, "writing")
  /\ registry' = [registry EXCEPT ![<<ask[r].lore, ask[r].cert[1], ask[r].scope>>] = ask[r].cert[2]]
  /\ ask' = [ask EXCEPT ![r] = [ask[r] EXCEPT !.at = "relooking", !.cert = <<ask[r].cert[1]>>]]
  /\ UNCHANGED <<current, granted, post>>

(* What was written is looked up before it counts.                         *)
Relook(r) ==
  /\ At(r, "relooking")
  /\ LET u == ask[r].cert[1]
     IN  IF LooksUp(ask[r].lore, u, ask[r].scope) THEN Goes(r, Found(r, u)) ELSE Refuse(r)

(* admissionEvidenceForLookups: one projection for all certificates.       *)
OneProjection(seen) == Cardinality({c[2] : c \in seen}) = 1

(* The transaction of issue.                                               *)
Record(r) ==
  /\ At(r, "looking") /\ ask[r].todo = {}
  /\ IF ~OneProjection(ask[r].seen) THEN Refuse(r)
     ELSE /\ granted' = [granted EXCEPT ![r] =
                           [lore |-> ask[r].lore, idents |-> ask[r].idents, seen |-> ask[r].seen]]
          /\ ask' = [ask EXCEPT ![r] = Recorded]
          /\ UNCHANGED <<registry, current, post>>

(* The page takes the answer only while the run is still the current one.  *)
Answer(r) ==
  /\ At(r, "recorded")
  /\ Goes(r, [at |-> IF current = r THEN "answered" ELSE "dropped"])

-----------------------------------------------------------------------------
(* The story request, which carries the grants the page was given.         *)

Post(r) ==
  /\ current = r /\ At(r, "answered") /\ post[r] = "idle"
  /\ post' = [post EXCEPT ![r] = "removing"]
  /\ UNCHANGED <<registry, current, ask, granted>>

(* The parts the request leaves out, each by a grant.                      *)
Removed(r) == granted[r].idents

(* verifyGrantAgainstLedger: the snapshot of the grants is still active.   *)
GrantsVerify(r) == Removed(r) = {} \/ active.lore = granted[r].lore

(* The coverage that comes with the grants has a certificate for each unit *)
(* of the removed parts, and no other.                                     *)
Covers(r) == {c[1] : c \in granted[r].seen} = UnitsFor(Removed(r))

(* verifyCoverageBinding.                                                  *)
BindingVerifies(r) == Covers(r) /\ GrantsVerify(r)

Passes(r, step, allowed, next) ==
  /\ post[r] = step
  /\ post' = [post EXCEPT ![r] = IF allowed THEN next ELSE "refused"]
  /\ UNCHANGED <<registry, current, ask, granted>>

(* prepareUpstreamRequest takes the granted parts out of the prompt.       *)
RemoveParts(r) == Passes(r, "removing", GrantsVerify(r), "preparing")

(* prepareOnly: the receipt of the run, from the verified binding.         *)
PrepareOnly(r) == Passes(r, "preparing", BindingVerifies(r), "admitting")

(* admitStory verifies once more; the admitted request leaves.             *)
AdmitStory(r) == Passes(r, "admitting", BindingVerifies(r), "sent")

(* The companion stops: what it was working on is refused.                 *)
Ends(at) == at \in {"idle", "answered", "dropped", "refused", "lost", "sent"}

Restart ==
  /\ \E r \in Runs : ~Ends(ask[r].at) \/ ~Ends(post[r])
  /\ ask' = [r \in Runs |-> IF Ends(ask[r].at) THEN ask[r] ELSE Lost]
  /\ post' = [r \in Runs |-> IF Ends(post[r]) THEN post[r] ELSE "refused"]
  /\ UNCHANGED <<registry, current, granted>>

-----------------------------------------------------------------------------
(* The publication and the story around it.                                *)

(* The safety inspection finds no change of the memory by a turn.          *)
Publish ==
  /\ patched = {} /\ publications < MaxPublications
  /\ \E l \in Lores : Stage(l)
  /\ publications' = publications + 1
  /\ UNCHANGED <<turn, patched>>

Commit ==
  /\ turn < MaxTurn
  /\ turn' = turn + 1
  /\ UNCHANGED <<patched, publications>>

(* The changes of a committed turn, now or by a later recovery.            *)
Patch(t, u) ==
  /\ t \in 1..turn /\ <<t, u>> \notin patched /\ Cardinality(patched) < MaxPatches
  /\ patched' = patched \union {<<t, u>>}
  /\ UNCHANGED <<turn, publications>>

AskStep(r) ==
  \/ Check(r) \/ Select(r)
  \/ Look(r) \/ Certify(r) \/ Write(r) \/ Relook(r)
  \/ Record(r) \/ Answer(r)

PostStep(r) == RemoveParts(r) \/ PrepareOnly(r) \/ AdmitStory(r)

Removing ==
  \/ \E r \in Runs, l \in Lores : Ask(r, l)
  \/ \E r \in Runs : Post(r) \/ AskStep(r) \/ PostStep(r)
  \/ Restart

LoreStep == Install \/ Activate \/ Settle \/ Restore

Around ==
  \/ Publish
  \/ Commit /\ UNCHANGED lore
  \/ (\E t \in 1..MaxTurn, u \in Units : Patch(t, u)) /\ UNCHANGED lore
  \/ LoreStep /\ UNCHANGED story

Handled(r) == "seen" \in DOMAIN ask[r]

(* History: while a run's request is handled, the units that could be read *)
(* when each view was first whole.                                         *)
Notes(r) ==
  IF ask'[r].at \in {"refused", "dropped", "lost"} \/ post'[r] = "refused" THEN <<>>
  ELSE IF Handled(r)' /\ active' = world' /\ active' \notin DOMAIN first[r]
    THEN [v \in DOMAIN first[r] \union {active'} |->
            IF v # active' THEN first[r][v]
            ELSE {u \in Units : \A t \in 1..ask'[r].scope : <<t, u>> \notin patched'}]
  ELSE first[r]

(* The active sources, the memory and the registry stay as they are.       *)
OwnedIdents(l) == {i \in Idents : \A u \in UnitsOf[i] : <<l, u>> \in Owned}
Calm(r) ==
  /\ Whole /\ ask[r].lore = active.lore
  /\ \A u \in UnitsFor(OwnedIdents(active.lore)) : Rediscovered(u, ask[r].scope)
  /\ \A q \in Runs \ {r} : ask[q].at # "writing"

Noted(A) ==
  /\ A
  /\ first' = [r \in Runs |-> Notes(r)]
  /\ disturbed' = [r \in Runs |-> disturbed[r] \/ (Handled(r) /\ ~Calm(r))']

Next ==
  \/ Noted(Removing /\ UNCHANGED <<lore, story>>)
  \/ Noted(Around /\ UNCHANGED removal)

Spec == Init /\ [][Next]_vars

-----------------------------------------------------------------------------
TypeOK ==
  /\ active \in View /\ world \in View /\ staged \in View
  /\ turn \in 0..MaxTurn
  /\ patched \subseteq (1..MaxTurn) \X Units
  /\ registry \in [Lores \X Units \X Scopes -> View]
  /\ current \in Runs \union {NoRun}

(* A story that leaves without the author's text leaves only what the      *)
(* runtime memory held for it: at one instant while the run's grants were  *)
(* being issued, every unit of every removed part could be read at the     *)
(* run's scope, all of them in the one view their certificates name,       *)
(* although the entries were written by other runs, under other snapshots  *)
(* or before the memory changed (source-coverage-registry.js:1578-1665).   *)
RemovedWasReadable ==
  \A r \in Runs : post[r] = "sent" /\ Removed(r) # {} =>
    \E v \in DOMAIN first[r] :
      /\ v.lore = granted[r].lore
      /\ UnitsFor(Removed(r)) \subseteq first[r][v]
      /\ granted[r].seen = UnitsFor(Removed(r)) \X {v}

(* What the admission seam asks of its verifier: that it revalidates the   *)
(* accepted targets, versions, projection and runtime view of the request  *)
(* (story-source-admission-runtime.js:298-302).  The code compares the     *)
(* grants with the ledger and lets the binding stand as it was issued.     *)
AdmissionRevalidates ==
  [][\A r \in Runs : post[r] = "admitting" /\ post'[r] = "sent" =>
       \A c \in granted[r].seen : c[2] = active /\ ActiveContext]_vars

(* Whatever the registry still holds from earlier snapshots or scopes, a   *)
(* request about the active sources is granted everything the memory owns  *)
(* unless the sources, the memory or the registry change under it: a stale *)
(* entry is certified anew and never blocks the story                      *)
(* (source-coverage-registry.js:1586-1612).                                *)
OnlyDisturbedAsksAreRefused ==
  \A r \in Runs :
    \/ disturbed[r]
    \/ /\ ~At(r, "refused")
       /\ granted[r].idents \in {{}, OwnedIdents(granted[r].lore)}
===============================================================================
