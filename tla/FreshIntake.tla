----------------------------- MODULE FreshIntake -----------------------------
(***************************************************************************)
(* The admission of the first paid intake of a chat                        *)
(* (src/runtime/fresh-intake-admission.js, as cli.js configures it and as  *)
(* static-lore-extraction-service.js asks it).                             *)
(*                                                                         *)
(* A witness says that a chat is fresh: nobody has written in it, nothing  *)
(* is remembered of it.  The guard lets one intake be paid for on the      *)
(* strength of it: authorize binds the witness to the sources of that      *)
(* intake and publishes the binding in a file that is never replaced,      *)
(* markStoreInitialized binds it to the directory that was made for the    *)
(* chat, in another such file, and every paid request and every answer is  *)
(* held against both and against what the witness saw.                     *)
(*                                                                         *)
(* Requests overlap; the user goes on with the chat, edits the card, puts  *)
(* the directory of the chat away and back; the runtime restarts, with the *)
(* guard or without.  A request reads and decides in separate steps; each  *)
(* of the guard's checks, which reads a few files, is one step.  A source  *)
(* stands for the snapshot, the packet and the session id made of it, a    *)
(* directory for the hash of its path and its inode.                       *)
(***************************************************************************)
EXTENDS Naturals

CONSTANTS
  Source,    \* states of the sources that an intake may be prepared for
  Ask,       \* requests in flight
  Unset,     \* null
  MaxSaves,  \* bound: directories made for the chat
  MaxDrifts  \* bound: what the user does to the files

ASSUME UnsetAssumption ==
  Unset \notin Source /\ Unset \notin [source : Source, save : Nat]
ASSUME SavesAssumption == MaxSaves \in Nat /\ MaxDrifts \in Nat

VARIABLES
  inputs,     \* disk: what became of the files that the witness names
  authority,  \* disk: the source of the authority state, or Unset
  marker,     \* disk: the source and the directory of the marker, or Unset
  save,       \* disk: the directory of the chat, 0 if there is none
  saves,      \* how many there have been
  session,    \* disk: source -> its session in that directory
  runtime,    \* the Companion: down, or with or without the guard
  ask,        \* request -> what it is doing
  bills,      \* observed: the paid requests, each as the guard let it pass
  answers,    \* observed: the answers that were kept
  drifts

admissionVars ==
  <<inputs, authority, marker, save, saves, session, runtime, ask, bills, answers,
    drifts>>

-----------------------------------------------------------------------------

Mark == [source : Source, save : Nat]

Inputs == [chat : {"witnessed", "progressed"},
           card : {"witnessed", "touched", "edited"},
           root : {"witnessed", "replaced"}]

(* verifyFreshChatAcceptanceWitness: an accepted witness describes this.   *)
Witnessed == [chat |-> "witnessed", card |-> "witnessed", root |-> "witnessed"]

AskPhase ==
  {"idle", "witness", "existing", "absent", "publish", "initialize", "session",
   "assert", "capture", "mark", "confirm", "ready", "claim", "upstream"}

(* known and marked: what authorize read first; save: the directory that   *)
(* was captured or checked.                                                *)
AskState == [at : AskPhase, source : Source \cup {Unset}, known : Source \cup {Unset},
             marked : BOOLEAN, save : Nat]

AdmissionTypeOK ==
  /\ inputs \in Inputs
  /\ authority \in Source \cup {Unset}
  /\ marker \in Mark \cup {Unset}
  /\ save \in 0 .. saves /\ saves \in 0 .. MaxSaves
  /\ session \in [Source -> {"missing", "bound", "unbound"}]
  /\ runtime \in {"down", "open", "guarded"}
  /\ ask \in [Ask -> AskState]
  /\ bills \subseteq Mark /\ answers \subseteq Mark
  /\ drifts \in 0 .. MaxDrifts

NoSession == [s \in Source |-> "missing"]

NoAsk == [at |-> "idle", source |-> Unset, known |-> Unset, marked |-> FALSE, save |-> 0]

AdmissionInit ==
  /\ inputs = Witnessed
  /\ authority = Unset /\ marker = Unset
  /\ save = 0 /\ saves = 0
  /\ session = NoSession
  /\ runtime = "down"
  /\ ask = [r \in Ask |-> NoAsk]
  /\ bills = {} /\ answers = {} /\ drifts = 0

-----------------------------------------------------------------------------
(* What the guard checks                                                   *)

(* currentWitnessInputs: the card may have been written again, with the    *)
(* same content, once the store is marked.                                 *)
InputsHold(progression, marked) ==
  /\ inputs.root = "witnessed"
  /\ progression \/ inputs.chat = "witnessed"
  /\ inputs.card = "witnessed" \/ (marked /\ inputs.card = "touched")

(* MUTANT of MarkerCurrent: any directory of the chat will do.             *)
MarkedForAny(s) == save # 0 /\ marker # Unset /\ marker.source = s

(* assertStoreMarkerCurrent: it names this authority and this directory.   *)
MarkerCurrent(s) == save # 0 /\ marker = [source |-> s, save |-> save]

(* assertCurrentAuthority                                                  *)
AuthorityCurrent(s) ==
  /\ authority = s
  /\ marker # Unset => MarkerCurrent(s)
  /\ InputsHold(FALSE, marker # Unset)

(* assertStoreCurrent                                                      *)
StoreCurrent(s) == AuthorityCurrent(s) /\ MarkerCurrent(s)

(* The path of the store and the marker agree.                             *)
LifecycleHolds == (marker # Unset) <=> (save # 0)

(* healthSummary of a ready guard.                                         *)
Healthy(progression) ==
  /\ InputsHold(progression, authority # Unset /\ marker # Unset)
  /\ authority = Unset => marker = Unset /\ save = 0
  /\ authority # Unset =>
       LifecycleHolds /\ (marker # Unset => MarkerCurrent(authority))

-----------------------------------------------------------------------------
(* The steps of a request                                                  *)

Doing(r, at) == runtime # "down" /\ ask[r].at = at
GoOnIf(r, holds, at) ==
  ask' = [ask EXCEPT ![r] = IF holds THEN [ask[r] EXCEPT !.at = at] ELSE NoAsk]
GoOnWith(r, holds, at) ==
  ask' = [ask EXCEPT ![r] = IF holds THEN [ask[r] EXCEPT !.at = at, !.save = save] ELSE NoAsk]

diskVars == <<inputs, authority, marker, save, saves, session>>
OnlyAsks == UNCHANGED <<diskVars, runtime, bills, answers, drifts>>

(* readState and readStoreMarker                                           *)
FilesFound == [known |-> authority, marked |-> authority # Unset /\ marker # Unset]

(* prepare: authorize looks for the files of the authority and the store.  *)
AsksFor(r, s) ==
  /\ Doing(r, "idle")
  /\ ask' = [ask EXCEPT ![r] =
       [at |-> IF runtime = "guarded" THEN "witness" ELSE "initialize", source |-> s,
        known |-> FilesFound.known, marked |-> FilesFound.marked, save |-> 0]]
  /\ OnlyAsks

(* The authority is made of what is there now; one that was there must be  *)
(* the same.                                                               *)
Compares(r) ==
  /\ Doing(r, "witness")
  /\ GoOnIf(r, /\ InputsHold(FALSE, ask[r].marked)
               /\ ask[r].known \in {ask[r].source, Unset},
            IF ask[r].known = Unset THEN "absent" ELSE "existing")
  /\ OnlyAsks

FindsStore(r) ==
  /\ Doing(r, "existing")
  /\ GoOnIf(r, LifecycleHolds /\ (marker # Unset => MarkerCurrent(ask[r].source)),
            "initialize")
  /\ OnlyAsks

(* A store without an authority was not made for this intake.              *)
FindsNoStore(r) ==
  /\ Doing(r, "absent")
  /\ GoOnIf(r, save = 0, "publish")
  /\ OnlyAsks

(* publishPrivateJsonNoReplace: the file is linked into place; who comes   *)
(* too late reads it again and compares.                                   *)
Publishes(r) ==
  /\ Doing(r, "publish")
  /\ authority' = IF authority = Unset THEN ask[r].source ELSE authority
  /\ GoOnIf(r, authority' = ask[r].source, "initialize")
  /\ UNCHANGED <<inputs, marker, save, saves, session, runtime, bills, answers, drifts>>

(* initializeChat                                                          *)
Initializes(r) ==
  /\ Doing(r, "initialize")
  /\ IF save = 0
       THEN /\ saves < MaxSaves /\ saves' = saves + 1 /\ save' = saves'
            /\ session' = NoSession
       ELSE UNCHANGED <<save, saves, session>>
  /\ GoOnIf(r, TRUE, "session")
  /\ UNCHANGED <<inputs, authority, marker, runtime, bills, answers, drifts>>

Bound == IF runtime = "guarded" THEN "bound" ELSE "unbound"

(* The session of the source is made with the authority, or has it.        *)
OpensSession(r) ==
  /\ Doing(r, "session")
  /\ LET old == session[ask[r].source] IN
     /\ session' = IF save # 0 /\ old = "missing"
                     THEN [session EXCEPT ![ask[r].source] = Bound] ELSE session
     /\ GoOnIf(r, save # 0 /\ old \in {"missing", Bound} /\ runtime = "guarded", "assert")
  /\ UNCHANGED <<inputs, authority, marker, save, saves, runtime, bills, answers, drifts>>

(* markStoreInitialized: the authority still holds, ...                    *)
Asserts(r) ==
  /\ Doing(r, "assert")
  /\ GoOnIf(r, AuthorityCurrent(ask[r].source), "capture")
  /\ OnlyAsks

(* ... this is the directory, ...                                          *)
Captures(r) ==
  /\ Doing(r, "capture")
  /\ GoOnWith(r, save # 0, "mark")
  /\ OnlyAsks

(* ... it is marked once, ...                                              *)
MarksStore(r) ==
  /\ Doing(r, "mark")
  /\ LET mark == [source |-> ask[r].source, save |-> ask[r].save] IN
     /\ marker' = IF marker = Unset THEN mark ELSE marker
     /\ GoOnIf(r, marker' = mark, "confirm")
  /\ UNCHANGED <<inputs, authority, save, saves, session, runtime, bills, answers, drifts>>

(* ... and is the one that was marked.                                     *)
Confirms(r) ==
  /\ Doing(r, "confirm")
  /\ GoOnIf(r, MarkerCurrent(ask[r].source), "ready")
  /\ OnlyAsks

(* claimIntakeCapability: the store is checked, ...                        *)
Claims(r) ==
  /\ Doing(r, "ready")
  /\ GoOnWith(r, StoreCurrent(ask[r].source), "claim")
  /\ OnlyAsks

(* ... the session is read and written, and the upstream is asked.         *)
Pays(r) ==
  /\ Doing(r, "claim")
  /\ LET pays == save # 0 /\ session[ask[r].source] = "bound" IN
     /\ bills' = IF pays THEN bills \cup {[source |-> ask[r].source, save |-> ask[r].save]}
                         ELSE bills
     /\ GoOnIf(r, pays, "upstream")
  /\ UNCHANGED <<diskVars, runtime, answers, drifts>>

(* complete, and recordPendingTransportFailure: the store is checked again *)
(* before anything is kept of the answer; the session then asks again.     *)
KeepsAnswer(r) ==
  /\ Doing(r, "upstream")
  /\ LET keeps == StoreCurrent(ask[r].source) IN
     /\ answers' = IF keeps THEN answers \cup {[source |-> ask[r].source, save |-> save]}
                            ELSE answers
     /\ GoOnIf(r, keeps, "ready")
  /\ UNCHANGED <<diskVars, runtime, bills, drifts>>

(* A read or a write fails, or another guard of the service does.          *)
Fails(r) ==
  /\ runtime # "down" /\ ask[r].at # "idle"
  /\ ask' = [ask EXCEPT ![r] = NoAsk]
  /\ OnlyAsks

-----------------------------------------------------------------------------
(* The runtime and the user                                                *)

(* createFreshIntakeAdmissionGuard: it does not start where the inputs do  *)
(* not hold; the host may be told that the chat may go on.                 *)
StartsGuarded ==
  /\ runtime = "down"
  /\ \E progression \in BOOLEAN :
       InputsHold(progression, authority # Unset /\ marker # Unset)
  /\ runtime' = "guarded"
  /\ UNCHANGED <<diskVars, ask, bills, answers, drifts>>

StartsOpen ==
  /\ runtime = "down" /\ runtime' = "open"
  /\ UNCHANGED <<diskVars, ask, bills, answers, drifts>>

StopsRuntime ==
  /\ runtime # "down" /\ runtime' = "down"
  /\ ask' = [r \in Ask |-> NoAsk]
  /\ UNCHANGED <<diskVars, bills, answers, drifts>>

Drifts == drifts < MaxDrifts /\ drifts' = drifts + 1

GoesOnWithChat ==
  /\ Drifts
  /\ inputs.chat = "witnessed" /\ inputs' = [inputs EXCEPT !.chat = "progressed"]
  /\ UNCHANGED <<authority, marker, save, saves, session, runtime, ask, bills, answers>>

(* The card is written again, with the same content or with another one.   *)
WritesCard ==
  /\ Drifts
  /\ \E card \in {"touched", "edited"} :
       inputs.card # "edited" /\ inputs' = [inputs EXCEPT !.card = card]
  /\ UNCHANGED <<authority, marker, save, saves, session, runtime, ask, bills, answers>>

ReplacesRoot ==
  /\ Drifts
  /\ inputs.root = "witnessed" /\ inputs' = [inputs EXCEPT !.root = "replaced"]
  /\ save' = 0
  /\ UNCHANGED <<authority, marker, saves, session, runtime, ask, bills, answers>>

(* The directory is moved away; a copy of it is put back.                  *)
RemovesStore ==
  /\ Drifts
  /\ save # 0 /\ save' = 0
  /\ UNCHANGED <<inputs, authority, marker, saves, session, runtime, ask, bills, answers>>

RestoresStore ==
  /\ Drifts
  /\ save = 0 /\ 0 < saves /\ saves < MaxSaves
  /\ saves' = saves + 1 /\ save' = saves'
  /\ UNCHANGED <<inputs, authority, marker, session, runtime, ask, bills, answers>>

(* The state of the authority is lost, and its marker is not.              *)
LosesAuthority ==
  /\ Drifts
  /\ authority # Unset /\ authority' = Unset
  /\ UNCHANGED <<inputs, marker, save, saves, session, runtime, ask, bills, answers>>

AskStep(r) ==
  \/ \E s \in Source : AsksFor(r, s)
  \/ Compares(r) \/ FindsStore(r) \/ FindsNoStore(r) \/ Publishes(r)
  \/ Initializes(r) \/ OpensSession(r)
  \/ Asserts(r) \/ Captures(r) \/ MarksStore(r) \/ Confirms(r)
  \/ Claims(r) \/ Pays(r) \/ KeepsAnswer(r) \/ Fails(r)

AdmissionNext ==
  \/ \E r \in Ask : AskStep(r)
  \/ StartsGuarded \/ StartsOpen \/ StopsRuntime
  \/ GoesOnWithChat \/ WritesCard \/ ReplacesRoot
  \/ RemovesStore \/ RestoresStore \/ LosesAuthority

AdmissionSpec == AdmissionInit /\ [][AdmissionNext]_admissionVars

-----------------------------------------------------------------------------
(* Properties                                                              *)

(* authorize would let an intake of this source go on.                     *)
Admits(s) ==
  /\ InputsHold(FALSE, authority # Unset /\ marker # Unset)
  /\ authority = Unset => save = 0
  /\ authority # Unset =>
       authority = s /\ LifecycleHolds /\ (marker # Unset => MarkerCurrent(s))

(* The witness of a fresh chat is good for one intake: whatever was paid   *)
(* for on the strength of it, by whatever requests of whatever run of the  *)
(* runtime, was one source, and one directory, the one that is marked, and *)
(* an answer was kept in the directory that it was paid for only.  And     *)
(* where the health endpoint calls the guard ready, an intake is let in:   *)
(* of the bound source, or of any while none is bound.                     *)
OneFreshIntake ==
  /\ \A bill \in bills : bill = marker
  /\ answers \subseteq bills
  /\ Healthy(FALSE) => \A s \in Source : authority \in {s, Unset} => Admits(s)

=============================================================================
