--------------------------- MODULE CompanionProofs ---------------------------
(* The Companion's process and the page that reaches it.                   *)
(*                                                                         *)
(* Connection: KeyFitsUpstream for every set of profiles and of models,    *)
(* every number of runtimes and of steps: no interleaving of the send, of  *)
(* the card, of the user and of other pages lets a key reach the upstream  *)
(* of a profile with another model.  The assumptions say that the bounds   *)
(* are numbers, that a real url is not the address of a runtime, and that  *)
(* null is none of the values.                                             *)
(*                                                                         *)
(* Switch: every runtime that can take part is one that the plugin knows   *)
(* and that the configuration names, and a switch cuts only requests that  *)
(* were on their way before it: for any profiles, requests and numbers of  *)
(* runtimes and of faults.  What makes it inductive is what the supervisor *)
(* may rely on between two of its steps: which names it holds in which     *)
(* phase (Phases), that the stop it awaits is of the only child on its way *)
(* down (Closing), and that an exit event is either of the child it has or *)
(* of the one it waits for, as long as none was killed (Known).            *)
(*                                                                         *)
(* Generation: the enlarged window has an owner, and a bound request       *)
(* carries its own trace and none of the placeholders of isolated sources: *)
(* for every set of sends and of dry runs and every number of faults.      *)
(*                                                                         *)
(* The window is a matter of the shared record alone: every operator that  *)
(* rewrites the record keeps it sound, whatever the generations were doing.*)
(* What leaves is a matter of one generation at a time: nobody else writes *)
(* to its prompt, to its closure or to the fate of its request.            *)
EXTENDS ConnectionLease, RuntimeSwitch, Generation, TLAPS

(* The connection                                                          *)

(* A runtime that was started has a profile, and every place that names a  *)
(* runtime names one that was started.                                     *)
StartedInv ==
  /\ \A k \in RuntimeId : k <= spawned <=> served[k] # Nil
  /\ alive <= spawned /\ proxy <= spawned /\ transport <= spawned /\ card.at <= spawned

TaskInv ==
  /\ send.phase = "hashing" => send.want # Nil
  /\ send.phase = "binding" => send.at \in RuntimeId /\ send.at <= spawned
  /\ send.phase \in {"checking", "finalizing", "leaving"} => transport # Nowhere
  /\ send.phase = "leaving" => send.key # Nil
  /\ card.phase \in {"attesting", "capturing", "settling"} => card.at # Nowhere

(* A real url is only ever found where it belongs.                         *)
UrlInv ==
  /\ \A c \in Connection : saved[c].url \in Connection => saved[c].url = c
  /\ live.url \in Connection => live.url = selected
  /\ lease # Nil /\ lease.url \in Connection => lease.url = lease.profile

(* A profile that names a real url names the model that was saved with it. *)
Honest(w) == w # Nil /\ w.url \in Connection => w.model = OwnModel[w.url]

HonestInv ==
  /\ \A c \in Connection : saved[c].model = OwnModel[c]
  /\ Honest(stored) /\ Honest(send.want) /\ Honest(card.want) /\ Honest(card.input)
  /\ \A k \in RuntimeId : Honest(served[k])

(* The model that the host is held to is that of the runtime of the run,   *)
(* or of the runtime that it would talk to.                                *)
ModelInv ==
  /\ send.phase \in {"checking", "finalizing"} =>
       \/ expected = served[transport].model
       \/ proxy # Nowhere /\ expected = served[proxy].model
  /\ send.phase = "leaving" /\ send.at = transport =>
       OwnModel[send.key] = served[transport].model

ConnectionIInv ==
  /\ ConnectionTypeOK
  /\ StartedInv /\ TaskInv /\ UrlInv
  /\ ~mixed => HonestInv /\ ModelInv
  /\ KeyFitsUpstream

-----------------------------------------------------------------------------

LEMMA AddressesApart ==
  /\ \A n \in RuntimeId \cup {Nowhere} : n \notin Connection /\ n \in Address
  /\ Connection \subseteq Address
  /\ \A n \in RuntimeId : n # Nowhere /\ n \in Nat
BY CountsAssumption, AddressAssumption DEF Address, RuntimeId, Nowhere

LEMMA RecordsAreNotNil ==
  /\ \A c \in Connection : c # Nil
  /\ \A w \in Sealed : w # Nil
  /\ \A l \in Lease : l # Nil
  /\ \A d \in [key : Connection, upstream : Address] : d # Nil
BY NilAssumption DEF Lease

LEMMA ConnectionInitHolds == ConnectionInit => ConnectionIInv
<1> SUFFICES ASSUME ConnectionInit PROVE ConnectionIInv
  OBVIOUS
<1> USE ModelsAssumption, CountsAssumption
<1>1. saved \in [Connection -> Setting] /\ live \in Setting
  BY AddressesApart DEF ConnectionInit, Setting
<1>2. send \in SendState /\ card \in CardState
  BY AddressesApart DEF ConnectionInit, NoSend, NoCard, SendState, SendPhase, CardState, CardPhase
<1>3. served \in [RuntimeId -> Sealed \cup {Nil}]
  BY DEF ConnectionInit
<1>4. ConnectionTypeOK
  <2>1. lease = Nil /\ proxy = Nowhere /\ expected = Nil /\ transport = Nowhere
        /\ alive = Nowhere /\ stored = Nil /\ delivered = Nil
    BY DEF ConnectionInit
  <2>2. spawned \in 0 .. MaxRuntimes /\ steps \in 0 .. MaxSteps
    BY DEF ConnectionInit
  <2>3. loaded \in BOOLEAN /\ mixed \in BOOLEAN /\ selected \in Connection
    BY DEF ConnectionInit
  <2>4. QED
    BY <1>1, <1>2, <1>3, <2>1, <2>2, <2>3 DEF ConnectionTypeOK
<1>5. StartedInv
  BY DEF ConnectionInit, StartedInv, NoCard, Nowhere, RuntimeId
<1>6. TaskInv
  BY DEF ConnectionInit, TaskInv, NoSend, NoCard
<1>7. UrlInv
  BY DEF ConnectionInit, UrlInv
<1>8. HonestInv
  BY DEF ConnectionInit, HonestInv, Honest, NoSend, NoCard
<1>9. ModelInv /\ KeyFitsUpstream
  BY DEF ConnectionInit, ModelInv, KeyFitsUpstream, NoSend
<1>10. QED
  BY <1>4, <1>5, <1>6, <1>7, <1>8, <1>9 DEF ConnectionIInv

-----------------------------------------------------------------------------

(* The profiles after the leased one was restored: the real urls stay      *)
(* where they belong and no model changes.                                 *)
LEMMA RestoreKeeps ==
  ASSUME lease \in Lease \cup {Nil}, NEW profiles \in [Connection -> Setting]
  PROVE  /\ RestoredIn(profiles) \in [Connection -> Setting]
         /\ \A c \in Connection : RestoredIn(profiles)[c].model = profiles[c].model
         /\ (\A c \in Connection : profiles[c].url \in Connection => profiles[c].url = c)
              /\ (lease # Nil /\ lease.url \in Connection => lease.url = lease.profile)
            => \A c \in Connection :
                 RestoredIn(profiles)[c].url \in Connection => RestoredIn(profiles)[c].url = c
<1>1. CASE lease # Nil /\ profiles[lease.profile].url = proxy
  <2>1. lease.profile \in Connection /\ lease.url \in Address
    BY <1>1 DEF Lease
  <2>2. RestoredIn(profiles) = [profiles EXCEPT ![lease.profile].url = lease.url]
    BY <1>1 DEF RestoredIn
  <2>3. \A c \in Connection :
          /\ RestoredIn(profiles)[c].model = profiles[c].model
          /\ RestoredIn(profiles)[c].url =
               IF c = lease.profile THEN lease.url ELSE profiles[c].url
    BY <2>1, <2>2 DEF Setting
  <2>4. RestoredIn(profiles) \in [Connection -> Setting]
    BY <2>1, <2>2 DEF Setting
  <2>5. QED
    BY <1>1, <2>3, <2>4
<1>2. CASE ~(lease # Nil /\ profiles[lease.profile].url = proxy)
  BY <1>2 DEF RestoredIn
<1>3. QED
  BY <1>1, <1>2

(* What the page leases and wants is of the selected profile.              *)
LEMMA CaptureKeeps ==
  ASSUME ConnectionTypeOK, UrlInv, Capture
  PROVE  /\ saved' \in [Connection -> Setting] /\ lease' \in Lease \cup {Nil}
         /\ Wanted \in Sealed
         /\ \A c \in Connection : saved'[c].model = saved[c].model
         /\ \A c \in Connection : saved'[c].url \in Connection => saved'[c].url = c
         /\ lease' # Nil /\ lease'.url \in Connection => lease'.url = lease'.profile
         /\ HonestInv => Honest(Wanted)
<1> USE DEF ConnectionTypeOK
<1>1. UrlsRestored \in [Connection -> Setting]
  BY RestoreKeeps DEF UrlsRestored
<1>2. \A c \in Connection :
        /\ UrlsRestored[c].model = saved[c].model
        /\ UrlsRestored[c].url \in Connection => UrlsRestored[c].url = c
  BY RestoreKeeps DEF UrlsRestored, UrlInv
<1>3. UrlsRestored[selected].url \in Address /\ UrlsRestored[selected].model \in Model
  BY <1>1 DEF Setting
<1>4. Wanted \in Sealed
  BY <1>3 DEF Wanted, Sealed
<1>5. [profile |-> selected, url |-> UrlsRestored[selected].url] \in Lease
  BY <1>3 DEF Lease
<1>6. lease' \in Lease \cup {Nil}
  BY <1>5 DEF Capture
<1>7. lease' # Nil /\ lease'.url \in Connection => lease'.url = lease'.profile
  BY <1>2 DEF Capture, UrlInv
<1>8. HonestInv => Honest(Wanted)
  BY <1>2 DEF HonestInv, Honest, Wanted
<1>9. QED
  BY <1>1, <1>2, <1>4, <1>6, <1>7, <1>8 DEF Capture

(* The host is bound to a runtime that was started.                        *)
LEMMA BindKeeps ==
  ASSUME ConnectionTypeOK, StartedInv, UrlInv, NEW n \in RuntimeId, n <= spawned, BindTo(n)
  PROVE  /\ saved' \in [Connection -> Setting] /\ live' \in Setting
         /\ proxy' = n /\ n # Nowhere /\ expected' \in Model /\ expected' = served[n].model
         /\ \A c \in Connection : saved'[c].model = saved[c].model
         /\ \A c \in Connection : saved'[c].url \in Connection => saved'[c].url = c
         /\ live'.url \notin Connection
         /\ UNCHANGED <<lease, transport>>
<1> USE DEF ConnectionTypeOK
<1>1. served[n] \in Sealed
  BY DEF StartedInv
<1>2. served[n].model \in Model
  BY <1>1 DEF Sealed
<1>3. live' \in Setting /\ live'.url \notin Connection /\ n # Nowhere
  BY <1>2, AddressesApart DEF BindTo, Setting
<1>4. UrlsRestored \in [Connection -> Setting]
  BY RestoreKeeps DEF UrlsRestored
<1>5. \A c \in Connection :
        /\ UrlsRestored[c].model = saved[c].model
        /\ UrlsRestored[c].url \in Connection => UrlsRestored[c].url = c
  BY RestoreKeeps DEF UrlsRestored, UrlInv
<1>6. QED
  BY <1>2, <1>3, <1>4, <1>5 DEF BindTo

(* A runtime that is started leaves those that were started as they are.   *)
LEMMA SpawnKeeps ==
  ASSUME ConnectionTypeOK, StartedInv, NEW w \in Sealed, SpawnWith(w)
  PROVE  /\ alive' \in RuntimeId /\ spawned' \in 0 .. MaxRuntimes
         /\ served' \in [RuntimeId -> Sealed \cup {Nil}] /\ stored' = w
         /\ alive' = spawned' /\ spawned' = spawned + 1
         /\ \A k \in RuntimeId : k <= spawned' <=> served'[k] # Nil
         /\ \A k \in RuntimeId : k <= spawned => served'[k] = served[k]
         /\ \A k \in RuntimeId : served'[k] \in {served[k], w}
         /\ UNCHANGED loaded
<1> USE CountsAssumption DEF ConnectionTypeOK, RuntimeId
<1>1. spawned' = spawned + 1 /\ spawned' \in RuntimeId /\ alive' = spawned'
  BY DEF SpawnWith
<1>2. served' = [served EXCEPT ![spawned'] = w] /\ stored' = w
  BY DEF SpawnWith
<1>3. \A k \in RuntimeId : served'[k] = IF k = spawned' THEN w ELSE served[k]
  BY <1>1, <1>2
<1>4. \A k \in RuntimeId : k <= spawned' <=> served'[k] # Nil
  BY <1>1, <1>3, RecordsAreNotNil DEF StartedInv
<1>5. QED
  BY <1>1, <1>2, <1>3, <1>4 DEF SpawnWith

LEMMA NoTask ==
  /\ NoSend \in SendState /\ NoSend.phase = "idle" /\ NoSend.want = Nil
  /\ NoCard \in CardState /\ NoCard.phase = "idle" /\ NoCard.at = Nowhere
  /\ NoCard.want = Nil /\ NoCard.input = Nil
  /\ Honest(Nil)
BY AddressesApart
   DEF NoSend, NoCard, SendState, CardState, SendPhase, CardPhase, Honest, Nowhere, Address

(* A step that leaves the profiles, the page and the runtimes alone.       *)
LEMMA TasksOnly ==
  ASSUME ConnectionIInv,
         UNCHANGED <<saved, selected, pageVars, runtimeVars, delivered, mixed>>,
         send' \in SendState, card' \in CardState, steps' \in 0 .. MaxSteps,
         card'.at <= spawned, TaskInv',
         ~mixed => Honest(send'.want) /\ Honest(card'.want) /\ Honest(card'.input),
         ~mixed => ModelInv'
  PROVE  ConnectionIInv'
<1> USE DEF ConnectionIInv, pageVars, runtimeVars
<1>1. ConnectionTypeOK'
  BY DEF ConnectionTypeOK
<1>2. StartedInv'
  BY DEF StartedInv
<1>3. UrlInv'
  BY DEF UrlInv
<1>4. ~mixed => HonestInv'
  BY DEF HonestInv, Honest
<1>5. KeyFitsUpstream'
  BY DEF KeyFitsUpstream
<1>6. QED
  BY <1>1, <1>2, <1>3, <1>4, <1>5

LEMMA HeldStepHolds ==
  ASSUME ConnectionIInv, HeldStep
  PROVE  ConnectionIInv'
<1> USE DEF ConnectionIInv, pageVars, runtimeVars
<1>t. ConnectionTypeOK
  OBVIOUS
<1>s. send.want \in Sealed \cup {Nil} /\ send.at \in Address /\ card.at \in RuntimeId \cup {Nowhere}
  BY <1>t DEF ConnectionTypeOK, SendState, CardState
<1>1. CASE HoldSend
  <2>1. /\ saved' \in [Connection -> Setting] /\ lease' \in Lease \cup {Nil}
        /\ Wanted \in Sealed
        /\ \A c \in Connection : saved'[c].model = saved[c].model
        /\ \A c \in Connection : saved'[c].url \in Connection => saved'[c].url = c
        /\ lease' # Nil /\ lease'.url \in Connection => lease'.url = lease'.profile
        /\ HonestInv => Honest(Wanted)
    BY <1>1, CaptureKeeps DEF HoldSend
  <2>2. /\ send' \in SendState /\ send'.phase \in {"idle", "hashing"}
        /\ send'.phase = "hashing" => send'.want # Nil
        /\ HonestInv => Honest(send'.want)
    <3>1. [NoSend EXCEPT !.phase = "hashing", !.want = Wanted] \in SendState
      BY <2>1, AddressesApart DEF NoSend, SendState, SendPhase, Address
    <3>2. /\ [NoSend EXCEPT !.phase = "hashing", !.want = Wanted].phase = "hashing"
          /\ [NoSend EXCEPT !.phase = "hashing", !.want = Wanted].want = Wanted
      BY DEF NoSend
    <3>3. QED
      BY <1>1, <2>1, <3>1, <3>2, NoTask, RecordsAreNotNil DEF HoldSend, Deny
  <2>3. ConnectionTypeOK'
    <3>1. steps' \in 0 .. MaxSteps
      BY <1>1, <1>t, CountsAssumption DEF HoldSend, ConnectionTypeOK, BoundedStep
    <3>2. QED
      BY <1>1, <1>t, <2>1, <2>2, <3>1 DEF HoldSend, ConnectionTypeOK
  <2>4. StartedInv'
    BY <1>1 DEF HoldSend, StartedInv
  <2>5. TaskInv'
    BY <1>1, <2>2 DEF HoldSend, TaskInv
  <2>6. UrlInv'
    BY <1>1, <2>1 DEF HoldSend, UrlInv
  <2>7. ~mixed => HonestInv' /\ ModelInv'
    BY <1>1, <2>1, <2>2 DEF HoldSend, HonestInv, Honest, ModelInv
  <2>8. KeyFitsUpstream'
    BY <1>1 DEF HoldSend, KeyFitsUpstream
  <2>9. QED
    BY <1>1, <2>3, <2>4, <2>5, <2>6, <2>7, <2>8 DEF HoldSend
<1>2. [send EXCEPT !.phase = "resolving"] \in SendState
      /\ [send EXCEPT !.phase = "resolving"].want = send.want
      /\ [send EXCEPT !.phase = "resolving"].phase = "resolving"
  BY <1>t DEF ConnectionTypeOK, SendState, SendPhase
<1>3. CASE AlreadyActive
  <2>1. ConnectionTypeOK'
    BY <1>2, <1>3, <1>t DEF AlreadyActive, ConnectionTypeOK
  <2>2. StartedInv'
    BY <1>3, <1>t DEF AlreadyActive, StartedInv, ConnectionTypeOK, Nowhere
  <2>3. TaskInv'
    BY <1>2, <1>3 DEF AlreadyActive, TaskInv
  <2>4. UrlInv'
    BY <1>3 DEF AlreadyActive, UrlInv
  <2>5. ~mixed => HonestInv' /\ ModelInv'
    BY <1>2, <1>3 DEF AlreadyActive, HonestInv, Honest, ModelInv
  <2>6. KeyFitsUpstream'
    BY <1>3 DEF AlreadyActive, KeyFitsUpstream
  <2>7. QED
    BY <1>3, <2>1, <2>2, <2>3, <2>4, <2>5, <2>6 DEF AlreadyActive
<1>4. ASSUME NEW w \in Sealed, SpawnWith(w), HonestInv => Honest(w),
             transport' \in {transport, Nowhere},
             send' \in SendState, send'.phase \in {"idle", "resolving"},
             send'.want \in {send.want, Nil},
             UNCHANGED <<saved, selected, live, lease, proxy, expected, card, delivered, mixed, steps>>
      PROVE  ConnectionIInv'
  <2>1. /\ alive' \in RuntimeId /\ spawned' \in 0 .. MaxRuntimes
        /\ served' \in [RuntimeId -> Sealed \cup {Nil}] /\ stored' = w
        /\ alive' = spawned' /\ spawned' = spawned + 1
        /\ \A k \in RuntimeId : k <= spawned' <=> served'[k] # Nil
        /\ \A k \in RuntimeId : served'[k] \in {served[k], w}
        /\ UNCHANGED loaded
    BY <1>4, <1>t, SpawnKeeps
  <2>2. ConnectionTypeOK'
    BY <1>4, <1>t, <2>1 DEF ConnectionTypeOK
  <2>3. StartedInv'
    <3>1. /\ alive \in Nat /\ proxy \in Nat /\ transport \in Nat /\ card.at \in Nat
          /\ spawned \in Nat
      BY <1>t, <1>s, AddressesApart DEF ConnectionTypeOK, Nowhere
    <3>2. QED
      BY <1>4, <2>1, <3>1 DEF StartedInv, Nowhere
  <2>4. TaskInv'
    BY <1>4 DEF TaskInv
  <2>5. UrlInv'
    BY <1>4 DEF UrlInv
  <2>6. ~mixed => HonestInv' /\ ModelInv'
    BY <1>4, <2>1, NoTask DEF HonestInv, Honest, ModelInv
  <2>7. KeyFitsUpstream'
    BY <1>4 DEF KeyFitsUpstream
  <2>8. QED
    BY <1>4, <2>2, <2>3, <2>4, <2>5, <2>6, <2>7
<1>5. CASE Activated
  <2>1. send.want \in Sealed
    BY <1>s, <1>5 DEF Activated, TaskInv
  <2>2. QED
    BY <1>2, <1>4, <1>5, <2>1 DEF Activated, HonestInv
<1>6. CASE NotActivated
  <2>1. send.want \in Sealed /\ send' = NoSend
    BY <1>s, <1>6 DEF NotActivated, TaskInv, Deny
  <2>2. CASE UNCHANGED runtimeVars
    <3>1. TaskInv' /\ ModelInv'
      BY <1>6, <2>1, NoTask DEF NotActivated, TaskInv, ModelInv
    <3>2. QED
      BY <1>6, <1>t, <2>1, <2>2, <3>1, NoTask, TasksOnly
         DEF NotActivated, ConnectionTypeOK, StartedInv, HonestInv
  <2>3. CASE alive # Nowhere /\ SpawnWith(served[alive])
    <3>1. served[alive] \in Sealed /\ (HonestInv => Honest(served[alive]))
      BY <1>t, <2>3 DEF ConnectionTypeOK, StartedInv, HonestInv
    <3>2. QED
      BY <1>4, <1>6, <2>1, <2>3, <3>1, NoTask DEF NotActivated
  <2>4. CASE SpawnWith(send.want)
    BY <1>4, <1>6, <2>1, <2>4, NoTask DEF NotActivated, HonestInv
  <2>5. CASE alive' = Nowhere /\ stored' \in {stored, send.want} /\ UNCHANGED <<loaded, served, spawned>>
    <3>1. ConnectionTypeOK'
      BY <1>6, <1>t, <2>1, <2>5, NoTask DEF NotActivated, ConnectionTypeOK
    <3>2. StartedInv'
      BY <1>6, <1>t, <2>5 DEF NotActivated, StartedInv, ConnectionTypeOK, Nowhere
    <3>3. TaskInv'
      BY <1>6, <2>1, NoTask DEF NotActivated, TaskInv
    <3>4. UrlInv'
      BY <1>6 DEF NotActivated, UrlInv
    <3>5. ~mixed => HonestInv' /\ ModelInv'
      BY <1>6, <2>1, <2>5, NoTask DEF NotActivated, HonestInv, Honest, ModelInv
    <3>6. KeyFitsUpstream'
      BY <1>6 DEF NotActivated, KeyFitsUpstream
    <3>7. QED
      BY <1>6, <3>1, <3>2, <3>3, <3>4, <3>5, <3>6 DEF NotActivated
  <2>6. QED
    BY <1>6, <2>2, <2>3, <2>4, <2>5 DEF NotActivated
<1>7. CASE ResolveLease
  <2>1. Answering \in RuntimeId \cup {Nowhere} /\ Answering <= spawned
    BY <1>t DEF Answering, ConnectionTypeOK, StartedInv
  <2>2. CASE Answering = Nowhere
    <3>1. send' = NoSend
      BY <1>7, <2>2 DEF ResolveLease, Deny
    <3>2. TaskInv' /\ ModelInv'
      BY <1>7, <3>1, NoTask DEF ResolveLease, TaskInv, ModelInv
    <3>3. QED
      BY <1>7, <1>t, <3>1, <3>2, NoTask, TasksOnly
         DEF ResolveLease, ConnectionTypeOK, StartedInv, HonestInv
  <2>3. CASE Answering # Nowhere
    <3>1. send' = [send EXCEPT !.phase = "binding", !.at = Answering]
      BY <1>7, <2>3 DEF ResolveLease
    <3>2. /\ send' \in SendState /\ send'.phase = "binding" /\ send'.at = Answering
          /\ send'.want = send.want
      BY <1>t, <2>1, <3>1, AddressesApart DEF ConnectionTypeOK, SendState, SendPhase
    <3>3. TaskInv' /\ ModelInv'
      BY <1>7, <2>1, <2>3, <3>2 DEF ResolveLease, TaskInv, ModelInv
    <3>4. QED
      BY <1>7, <1>t, <3>2, <3>3, TasksOnly
         DEF ResolveLease, ConnectionTypeOK, StartedInv, HonestInv
  <2>4. QED
    BY <2>2, <2>3
<1>8. CASE Bind
  <2>0. send.at \in RuntimeId /\ send.at <= spawned
    BY <1>8 DEF Bind, TaskInv
  <2>1. /\ saved' \in [Connection -> Setting] /\ live' \in Setting
        /\ proxy' = send.at /\ expected' \in Model
        /\ \A c \in Connection : saved'[c].model = saved[c].model
        /\ \A c \in Connection : saved'[c].url \in Connection => saved'[c].url = c
        /\ live'.url \notin Connection
        /\ UNCHANGED <<lease, transport>>
    BY <1>8, <1>t, <2>0, BindKeeps DEF Bind
  <2>2. send' \in SendState /\ send'.phase = "gates" /\ send'.want = send.want
    BY <1>8, <1>t DEF Bind, ConnectionTypeOK, SendState, SendPhase
  <2>3. ConnectionTypeOK'
    BY <1>8, <1>t, <2>0, <2>1, <2>2 DEF Bind, ConnectionTypeOK
  <2>4. StartedInv'
    BY <1>8, <2>0, <2>1 DEF Bind, StartedInv
  <2>5. TaskInv'
    BY <1>8, <2>2 DEF Bind, TaskInv
  <2>6. UrlInv'
    BY <1>8, <2>1 DEF Bind, UrlInv
  <2>7. ~mixed => HonestInv' /\ ModelInv'
    BY <1>8, <2>1, <2>2 DEF Bind, HonestInv, Honest, ModelInv
  <2>8. KeyFitsUpstream'
    BY <1>8 DEF Bind, KeyFitsUpstream
  <2>9. QED
    BY <1>8, <2>3, <2>4, <2>5, <2>6, <2>7, <2>8 DEF Bind
<1>9. CASE BindMismatch \/ GatesRefuse
  <2>1. send' = NoSend
    BY <1>9 DEF BindMismatch, GatesRefuse, Deny
  <2>2. TaskInv' /\ ModelInv'
    BY <1>9, <2>1, NoTask DEF BindMismatch, GatesRefuse, TaskInv, ModelInv
  <2>3. QED
    BY <1>9, <1>t, <2>1, <2>2, NoTask, TasksOnly
       DEF BindMismatch, GatesRefuse, ConnectionTypeOK, StartedInv, HonestInv
<1>10. QED
  BY <1>1, <1>3, <1>5, <1>6, <1>7, <1>8, <1>9 DEF HeldStep

LEMMA GenerationStepHolds ==
  ASSUME ConnectionIInv, GenerationStep
  PROVE  ConnectionIInv'
<1> USE DEF ConnectionIInv, pageVars, runtimeVars
<1>t. ConnectionTypeOK
  OBVIOUS
<1>s. send.want \in Sealed \cup {Nil} /\ send.at \in Address /\ send.key \in Connection \cup {Nil}
      /\ card.at \in RuntimeId \cup {Nowhere}
  BY <1>t DEF ConnectionTypeOK, SendState, CardState
<1>a. /\ Answering \in RuntimeId \cup {Nowhere} /\ Answering <= spawned
      /\ Answering # Nowhere => served[Answering] \in Sealed /\ served[Answering].model \in Model
  <2>1. Answering \in RuntimeId \cup {Nowhere} /\ Answering <= spawned
    BY <1>t DEF Answering, ConnectionTypeOK, StartedInv
  <2>2. Answering # Nowhere => served[Answering] \in Sealed
    BY <1>t, <2>1 DEF ConnectionTypeOK, StartedInv
  <2>3. QED
    BY <2>1, <2>2 DEF Sealed
(* The run: its transport, its model and its task change.                  *)
<1>1. ASSUME UNCHANGED <<saved, selected, live, lease, proxy, runtimeVars, card, mixed>>,
             transport' \in RuntimeId \cup {Nowhere}, transport' <= spawned,
             expected' \in Model \cup {Nil}, send' \in SendState, steps' \in 0 .. MaxSteps,
             delivered' \in [key : Connection, upstream : Address] \cup {Nil},
             ~mixed => Honest(send'.want), TaskInv', ~mixed => ModelInv', KeyFitsUpstream'
      PROVE  ConnectionIInv'
  <2>1. ConnectionTypeOK'
    BY <1>1, <1>t DEF ConnectionTypeOK
  <2>2. StartedInv'
    BY <1>1 DEF StartedInv
  <2>3. UrlInv'
    BY <1>1 DEF UrlInv
  <2>4. ~mixed => HonestInv'
    BY <1>1 DEF HonestInv, Honest
  <2>5. QED
    BY <1>1, <2>1, <2>2, <2>3, <2>4
<1>2. ASSUME UNCHANGED <<delivered, mixed>> PROVE KeyFitsUpstream'
  BY <1>2 DEF KeyFitsUpstream
<1>n. Nowhere \in RuntimeId \cup {Nowhere} /\ Nowhere <= spawned
  BY <1>t DEF ConnectionTypeOK, Nowhere
(* The run ends.                                                           *)
<1>3. ASSUME EndRun,
             UNCHANGED <<saved, selected, live, lease, proxy, expected, runtimeVars, card,
                         mixed, steps>>,
             delivered' \in [key : Connection, upstream : Address] \cup {Nil},
             KeyFitsUpstream'
      PROVE  ConnectionIInv'
  <2>1. send' = NoSend /\ transport' = Nowhere
    BY <1>3 DEF EndRun, Deny
  <2>2. TaskInv' /\ ModelInv'
    BY <1>3, <2>1, NoTask DEF TaskInv, ModelInv
  <2>3. QED
    BY <1>1, <1>3, <1>t, <1>n, <2>1, <2>2, NoTask DEF ConnectionTypeOK
<1>4. CASE StartGeneration
  <2>1. /\ send' \in SendState /\ send'.phase = "generating" /\ send'.want = Nil
        /\ transport' = Nowhere
    BY <1>4, NoTask DEF StartGeneration, NoSend, SendState, SendPhase
  <2>2. steps' \in 0 .. MaxSteps
    BY <1>4, <1>t, CountsAssumption DEF StartGeneration, ConnectionTypeOK, BoundedStep
  <2>3. TaskInv' /\ ModelInv'
    BY <1>4, <2>1 DEF StartGeneration, TaskInv, ModelInv
  <2>4. QED
    BY <1>1, <1>2, <1>4, <1>t, <1>n, <2>1, <2>2, <2>3, NoTask DEF StartGeneration, ConnectionTypeOK
<1>5. CASE LoadHealth
  <2>1. CASE Answering = Nowhere
    BY <1>2, <1>3, <1>5, <1>t, <2>1 DEF LoadHealth, ConnectionTypeOK
  <2>2. CASE Answering # Nowhere
    <3>1. /\ transport' = Answering /\ expected' = served[Answering].model
          /\ send' = [send EXCEPT !.phase = "checking"] /\ send.phase = "generating"
      BY <1>5, <2>2 DEF LoadHealth
    <3>2. send' \in SendState /\ send'.phase = "checking" /\ send'.want = send.want
      BY <1>t, <3>1 DEF ConnectionTypeOK, SendState, SendPhase
    <3>3. TaskInv' /\ ModelInv'
      BY <1>5, <2>2, <3>1, <3>2 DEF LoadHealth, TaskInv, ModelInv
    <3>4. QED
      BY <1>1, <1>2, <1>5, <1>t, <1>a, <2>2, <3>1, <3>2, <3>3
         DEF LoadHealth, ConnectionTypeOK, HonestInv
  <2>3. QED
    BY <2>1, <2>2
<1>6. CASE CheckHost
  <2>1. CASE EndRun
    BY <1>2, <1>3, <1>6, <1>t, <2>1 DEF CheckHost, ConnectionTypeOK
  <2>2. CASE send' = [send EXCEPT !.phase = "finalizing"] /\ UNCHANGED transport
    <3>1. send' \in SendState /\ send'.phase = "finalizing" /\ send'.want = send.want
      BY <1>t, <2>2 DEF ConnectionTypeOK, SendState, SendPhase
    <3>2. TaskInv' /\ (~mixed => ModelInv')
      BY <1>6, <2>2, <3>1 DEF CheckHost, TaskInv, ModelInv
    <3>3. QED
      BY <1>1, <1>2, <1>6, <1>t, <2>2, <3>1, <3>2
         DEF CheckHost, ConnectionTypeOK, StartedInv, HonestInv
  <2>3. QED
    BY <1>6, <2>1, <2>2 DEF CheckHost
<1>7. CASE Finalize
  <2>1. CASE EndRun
    BY <1>2, <1>3, <1>7, <1>t, <2>1 DEF Finalize, ConnectionTypeOK
  <2>2. CASE /\ HostReady /\ Fits(live.model)
             /\ send' = [send EXCEPT !.phase = "leaving", !.at = live.url, !.key = lease.profile]
             /\ UNCHANGED transport
    <3>1. live.url \in Address /\ lease.profile \in Connection
      BY <1>t, <2>2 DEF ConnectionTypeOK, Setting, Lease, Fits
    <3>2. /\ send' \in SendState /\ send'.phase = "leaving" /\ send'.want = send.want
          /\ send'.at = live.url /\ send'.key = lease.profile
      BY <1>t, <2>2, <3>1 DEF ConnectionTypeOK, SendState, SendPhase
    <3>3. TaskInv'
      BY <1>7, <2>2, <3>1, <3>2, RecordsAreNotNil DEF Finalize, TaskInv
    (* The key is of a profile with the model that the host would ask for. *)
    <3>4. ~mixed => ModelInv'
      <4>1. ~mixed => OwnModel[lease.profile] = expected
        BY <2>2, <3>1 DEF Fits, HostReady, HonestInv
      <4>2. send'.at = proxy
        BY <2>2, <3>2 DEF HostReady
      <4>3. QED
        BY <1>7, <2>2, <3>2, <4>1, <4>2 DEF Finalize, ModelInv
    <3>5. QED
      BY <1>1, <1>2, <1>7, <1>t, <2>2, <3>2, <3>3, <3>4
         DEF Finalize, ConnectionTypeOK, StartedInv, HonestInv
  <2>3. QED
    BY <1>7, <2>1, <2>2 DEF Finalize
<1>8. CASE Leave
  <2>1. CASE UNCHANGED delivered
    BY <1>2, <1>3, <1>8, <1>t, <2>1 DEF Leave, ConnectionTypeOK
  <2>2. CASE /\ alive # Nowhere /\ Admits(send.at, transport)
             /\ delivered' = [key |-> send.key, upstream |-> served[alive].url]
    <3>1. served[alive] \in Sealed /\ alive \in RuntimeId /\ send.key \in Connection
      BY <1>8, <1>t, <1>s, <2>2 DEF ConnectionTypeOK, StartedInv, TaskInv, Leave
    <3>2. delivered' \in [key : Connection, upstream : Address] \cup {Nil}
      BY <2>2, <3>1 DEF Sealed
    <3>3. delivered'.key = send.key /\ delivered'.upstream = served[alive].url
      BY <2>2
    <3>4. ~mixed /\ served[alive].url \in Connection =>
            OwnModel[send.key] = OwnModel[served[alive].url]
      <4>1. ~mixed => OwnModel[send.key] = served[alive].model
        BY <1>8, <2>2 DEF Leave, Admits, ModelInv
      <4>2. ~mixed => Honest(served[alive])
        BY <3>1 DEF HonestInv
      <4>3. QED
        BY <3>1, <4>1, <4>2, RecordsAreNotNil DEF Honest
    <3>5. KeyFitsUpstream'
      BY <1>8, <3>3, <3>4 DEF Leave, KeyFitsUpstream
    <3>6. QED
      BY <1>3, <1>8, <3>2, <3>5 DEF Leave
  <2>3. QED
    BY <1>8, <2>1, <2>2 DEF Leave
<1>9. CASE IntakeHealth
  <2>1. TaskInv'
    BY <1>9, <1>a DEF IntakeHealth, TaskInv, InRun
  <2>2. ~mixed => ModelInv'
    BY <1>9 DEF IntakeHealth, ModelInv, InRun, TaskInv, Answering
  <2>3. QED
    BY <1>1, <1>2, <1>9, <1>t, <1>a, <2>1, <2>2
       DEF IntakeHealth, ConnectionTypeOK, StartedInv, HonestInv
<1>10. CASE IntakeCall
  <2>1. served[alive] \in Sealed /\ alive \in RuntimeId /\ lease.profile \in Connection
    BY <1>10, <1>t DEF ConnectionTypeOK, StartedInv, IntakeCall, Fits, Lease
  <2>2. delivered' = [key |-> lease.profile, upstream |-> served[alive].url]
    BY <1>10 DEF IntakeCall
  <2>3. delivered' \in [key : Connection, upstream : Address] \cup {Nil}
    BY <2>1, <2>2 DEF Sealed
  <2>4. ~mixed /\ served[alive].url \in Connection =>
          OwnModel[lease.profile] = OwnModel[served[alive].url]
    <3>1. ~mixed => OwnModel[lease.profile] = served[alive].model
      BY <1>10, <2>1 DEF IntakeCall, Fits, HonestInv
    <3>2. ~mixed => Honest(served[alive])
      BY <2>1 DEF HonestInv
    <3>3. QED
      BY <2>1, <3>1, <3>2, RecordsAreNotNil DEF Honest
  <2>5. KeyFitsUpstream'
    BY <1>10, <2>2, <2>4 DEF IntakeCall, KeyFitsUpstream
  <2>6. TaskInv' /\ (~mixed => ModelInv')
    BY <1>10 DEF IntakeCall, TaskInv, ModelInv
  <2>7. QED
    BY <1>1, <1>10, <1>t, <2>3, <2>5, <2>6
       DEF IntakeCall, ConnectionTypeOK, StartedInv, HonestInv
<1>11. QED
  BY <1>4, <1>5, <1>6, <1>7, <1>8, <1>9, <1>10 DEF GenerationStep

-----------------------------------------------------------------------------

(* A look that did not find the runtime ready.                             *)
LEMMA CardFailsKeeps ==
  ASSUME ConnectionTypeOK, CardFails
  PROVE  /\ card' \in CardState /\ card'.phase \in {"input", "writing"}
         /\ card'.want = Nil /\ card'.at = Nowhere /\ card'.input = card.input
<1> DEFINE next == IF card.input = Nil THEN "input" ELSE "writing"
<1>1. card' = [phase |-> next, want |-> Nil, at |-> Nowhere, input |-> card.input]
  BY DEF CardFails, ConnectionTypeOK, CardState
<1>2. card.input \in Sealed \cup {Nil}
  BY DEF ConnectionTypeOK, CardState
<1>3. QED
  BY <1>1, <1>2 DEF CardState, CardPhase

LEMMA CardStepHolds ==
  ASSUME ConnectionIInv, CardStep
  PROVE  ConnectionIInv'
<1> USE DEF ConnectionIInv, pageVars, runtimeVars
<1>t. ConnectionTypeOK
  OBVIOUS
<1>s. /\ card \in CardState /\ card.at \in RuntimeId \cup {Nowhere} /\ card.at <= spawned
      /\ card.want \in Sealed \cup {Nil} /\ card.input \in Sealed \cup {Nil}
      /\ 0 <= spawned /\ send \in SendState
  BY <1>t DEF ConnectionTypeOK, CardState, StartedInv
<1>h. ~mixed => Honest(send.want) /\ Honest(card.want) /\ Honest(card.input) /\ Honest(Nil)
  BY NoTask DEF HonestInv
(* The card alone moves on.                                                *)
<1>1. ASSUME UNCHANGED <<saved, selected, pageVars, runtimeVars, send, delivered, mixed>>,
             steps' \in 0 .. MaxSteps, card' \in CardState, card'.at <= spawned,
             card'.phase \in {"attesting", "capturing", "settling"} => card'.at # Nowhere,
             ~mixed => Honest(card'.want) /\ Honest(card'.input)
      PROVE  ConnectionIInv'
  <2>1. TaskInv' /\ (~mixed => ModelInv')
    BY <1>1 DEF TaskInv, ModelInv
  <2>2. QED
    BY <1>1, <1>s, <1>h, <2>1, TasksOnly
<1>2. ASSUME CardFails, UNCHANGED <<saved, selected, pageVars, runtimeVars, send, delivered, mixed>>,
             steps' \in 0 .. MaxSteps
      PROVE  ConnectionIInv'
  BY <1>1, <1>2, <1>t, <1>s, <1>h, CardFailsKeeps DEF Nowhere
(* The selected profile is captured, or cannot be.                         *)
<1>3. ASSUME Capture, card' \in CardState, card'.at <= spawned,
             card'.phase \in {"attesting", "capturing", "settling"} => card'.at # Nowhere,
             HonestInv => Honest(card'.want) /\ Honest(card'.input),
             UNCHANGED <<selected, live, proxy, expected, transport, runtimeVars, send, delivered,
                         mixed, steps>>
      PROVE  ConnectionIInv'
  <2>1. /\ saved' \in [Connection -> Setting] /\ lease' \in Lease \cup {Nil}
        /\ \A c \in Connection : saved'[c].model = saved[c].model
        /\ \A c \in Connection : saved'[c].url \in Connection => saved'[c].url = c
        /\ lease' # Nil /\ lease'.url \in Connection => lease'.url = lease'.profile
    BY <1>3, CaptureKeeps
  <2>2. ConnectionTypeOK'
    BY <1>3, <1>t, <2>1 DEF ConnectionTypeOK
  <2>3. StartedInv' /\ TaskInv'
    BY <1>3 DEF StartedInv, TaskInv
  <2>4. UrlInv'
    BY <1>3, <2>1 DEF UrlInv
  <2>5. ~mixed => HonestInv' /\ ModelInv'
    BY <1>3, <2>1 DEF HonestInv, Honest, ModelInv
  <2>6. KeyFitsUpstream'
    BY <1>3 DEF KeyFitsUpstream
  <2>7. QED
    BY <1>3, <2>2, <2>3, <2>4, <2>5, <2>6
<1>w. Capture => Wanted \in Sealed /\ (HonestInv => Honest(Wanted))
  BY CaptureKeeps
<1>4. CASE CardLook
  <2>1. steps' \in 0 .. MaxSteps
    BY <1>4, <1>t, CountsAssumption DEF CardLook, ConnectionTypeOK, BoundedStep
  <2>2. CASE CardFails
    BY <1>2, <1>4, <2>1, <2>2 DEF CardLook
  <2>3. CASE alive # Nowhere /\ card' = [card EXCEPT !.phase = "attesting", !.at = alive]
    <3>1. /\ card' \in CardState /\ card'.at = alive /\ card'.want = card.want
          /\ card'.input = card.input
      BY <1>t, <1>s, <2>3 DEF ConnectionTypeOK, CardState, CardPhase
    <3>2. QED
      BY <1>1, <1>4, <1>h, <2>1, <2>3, <3>1 DEF CardLook, StartedInv
  <2>4. QED
    BY <1>4, <2>2, <2>3 DEF CardLook
<1>5. CASE CardAttest
  <2>1. steps' \in 0 .. MaxSteps
    BY <1>5, <1>t DEF CardAttest, ConnectionTypeOK
  <2>2. CASE CardFails
    BY <1>2, <1>5, <2>1, <2>2 DEF CardAttest
  <2>3. CASE card' = [card EXCEPT !.phase = "capturing"]
    <3>1. /\ card' \in CardState /\ card'.at = card.at /\ card'.want = card.want
          /\ card'.input = card.input
      BY <1>s, <2>3 DEF CardState, CardPhase
    <3>2. QED
      BY <1>1, <1>5, <1>s, <1>h, <2>1, <3>1 DEF CardAttest, TaskInv
  <2>4. QED
    BY <1>5, <2>2, <2>3 DEF CardAttest
<1>6. CASE CardCapture
  <2>1. CASE Leasable
    <3>1. card' = [card EXCEPT !.phase = "settling", !.want = Wanted]
      BY <1>6, <2>1 DEF CardCapture
    <3>2. /\ card' \in CardState /\ card'.at = card.at /\ card'.want = Wanted
          /\ card'.input = card.input
      BY <1>6, <1>s, <1>w, <3>1 DEF CardCapture, CardState, CardPhase
    <3>3. QED
      BY <1>3, <1>6, <1>s, <1>w, <3>2 DEF CardCapture, HonestInv, TaskInv
  <2>2. CASE ~Leasable
    <3>1. CardFails
      BY <1>6, <2>2 DEF CardCapture
    <3>2. QED
      BY <1>3, <1>6, <1>t, <1>s, <3>1, CardFailsKeeps, NoTask DEF CardCapture, HonestInv, Nowhere
  <2>3. QED
    BY <2>1, <2>2
<1>7. CASE CardSettle
  <2>1. card' = NoCard /\ card.at \in RuntimeId /\ card.at <= spawned
    BY <1>7, <1>s DEF CardSettle, TaskInv
  <2>2. CASE UNCHANGED <<saved, pageVars>>
    BY <1>1, <1>7, <1>t, <1>s, <1>h, <2>1, <2>2, NoTask DEF CardSettle, ConnectionTypeOK, Nowhere
  <2>3. CASE BindTo(card.at)
    <3>1. /\ saved' \in [Connection -> Setting] /\ live' \in Setting
          /\ proxy' = card.at /\ card.at # Nowhere
          /\ expected' \in Model /\ expected' = served[card.at].model
          /\ \A c \in Connection : saved'[c].model = saved[c].model
          /\ \A c \in Connection : saved'[c].url \in Connection => saved'[c].url = c
          /\ live'.url \notin Connection
          /\ UNCHANGED <<lease, transport>>
      BY <1>t, <2>1, <2>3, BindKeeps
    <3>2. ConnectionTypeOK'
      BY <1>7, <1>t, <2>1, <3>1, NoTask DEF CardSettle, ConnectionTypeOK
    <3>3. StartedInv' /\ TaskInv'
      BY <1>7, <1>s, <2>1, <3>1, NoTask DEF CardSettle, StartedInv, TaskInv, Nowhere
    <3>4. UrlInv'
      BY <1>7, <3>1 DEF CardSettle, UrlInv
    <3>5. ~mixed => HonestInv' /\ ModelInv'
      BY <1>7, <2>1, <3>1, NoTask DEF CardSettle, HonestInv, Honest, ModelInv
    <3>6. KeyFitsUpstream'
      BY <1>7 DEF CardSettle, KeyFitsUpstream
    <3>7. QED
      BY <1>7, <3>2, <3>3, <3>4, <3>5, <3>6 DEF CardSettle
  <2>4. QED
    BY <1>7, <2>2, <2>3 DEF CardSettle
<1>8. CASE CardStale
  BY <1>2, <1>8, <1>t DEF CardStale, ConnectionTypeOK
<1>9. CASE CardInput
  <2>1. CASE Leasable
    <3>1. card' = [NoCard EXCEPT !.phase = "looking", !.input = Wanted]
      BY <1>9, <2>1 DEF CardInput
    <3>2. /\ card' \in CardState /\ card'.at = Nowhere /\ card'.want = Nil
          /\ card'.input = Wanted /\ card'.phase = "looking"
      BY <1>9, <1>w, <3>1 DEF CardInput, NoCard, CardState, CardPhase
    <3>3. QED
      BY <1>3, <1>9, <1>s, <1>w, <3>2, NoTask DEF CardInput, Nowhere
  <2>2. CASE ~Leasable
    BY <1>3, <1>9, <1>s, <2>2, NoTask DEF CardInput, Nowhere
  <2>3. QED
    BY <2>1, <2>2
<1>10. CASE CardGivesUp
  BY <1>1, <1>10, <1>t, <1>s, <1>h, NoTask DEF CardGivesUp, ConnectionTypeOK, Nowhere
<1>11. CASE CardWrite
  <2>1. card' = NoCard /\ stored' = card.input
    BY <1>11 DEF CardWrite
  <2>2. ConnectionTypeOK'
    BY <1>11, <1>t, <1>s, <2>1, NoTask DEF CardWrite, ConnectionTypeOK
  <2>3. StartedInv' /\ TaskInv' /\ UrlInv'
    BY <1>11, <1>s, <2>1, NoTask DEF CardWrite, StartedInv, TaskInv, UrlInv, Nowhere
  <2>4. ~mixed => HonestInv' /\ ModelInv'
    BY <1>11, <2>1, NoTask DEF CardWrite, HonestInv, Honest, ModelInv
  <2>5. KeyFitsUpstream'
    BY <1>11 DEF CardWrite, KeyFitsUpstream
  <2>6. QED
    BY <1>11, <2>2, <2>3, <2>4, <2>5 DEF CardWrite
<1>12. QED
  BY <1>4, <1>5, <1>6, <1>7, <1>8, <1>9, <1>10, <1>11 DEF CardStep

-----------------------------------------------------------------------------

(* The server restarts, the user selects and saves, another page switches. *)
LEMMA EnvironmentStepHolds ==
  ASSUME ConnectionIInv, EnvironmentStep
  PROVE  ConnectionIInv'
<1> USE DEF ConnectionIInv, pageVars, runtimeVars
<1>t. ConnectionTypeOK
  OBVIOUS
<1>b. BoundedStep => steps' \in 0 .. MaxSteps
  BY <1>t, CountsAssumption DEF ConnectionTypeOK, BoundedStep
<1>n. /\ alive \in Nat /\ proxy \in Nat /\ transport \in Nat /\ card.at \in Nat
      /\ spawned \in Nat
  BY <1>t, AddressesApart DEF ConnectionTypeOK, CardState, Nowhere
(* The runtimes change, and the runtime that is up.                        *)
<1>1. ASSUME alive' \in RuntimeId \cup {Nowhere}, alive' <= spawned',
             spawned' \in 0 .. MaxRuntimes, spawned <= spawned',
             served' \in [RuntimeId -> Sealed \cup {Nil}], stored' \in Sealed \cup {Nil},
             \A k \in RuntimeId : k <= spawned' <=> served'[k] # Nil,
             \A k \in RuntimeId : k <= spawned => served'[k] = served[k],
             HonestInv => Honest(stored') /\ \A k \in RuntimeId : Honest(served'[k]),
             loaded' \in BOOLEAN, steps' \in 0 .. MaxSteps,
             UNCHANGED <<saved, selected, pageVars, send, card, delivered, mixed>>
      PROVE  ConnectionIInv'
  <2>1. ConnectionTypeOK'
    BY <1>1, <1>t DEF ConnectionTypeOK
  <2>2. StartedInv'
    BY <1>1, <1>n DEF StartedInv
  <2>3. TaskInv'
    BY <1>1, <1>n, <1>t DEF TaskInv, ConnectionTypeOK, RuntimeId
  <2>4. UrlInv'
    BY <1>1 DEF UrlInv
  <2>5. ~mixed => HonestInv'
    BY <1>1 DEF HonestInv, Honest
  <2>6. ~mixed => ModelInv'
    <3>1. transport # Nowhere => served'[transport] = served[transport]
      BY <1>1, <1>t DEF ConnectionTypeOK, StartedInv
    <3>2. proxy # Nowhere => served'[proxy] = served[proxy]
      BY <1>1, <1>t DEF ConnectionTypeOK, StartedInv
    <3>3. QED
      BY <1>1, <3>1, <3>2 DEF ModelInv, TaskInv
  <2>7. KeyFitsUpstream'
    BY <1>1 DEF KeyFitsUpstream
  <2>8. QED
    BY <1>1, <2>1, <2>2, <2>3, <2>4, <2>5, <2>6, <2>7
<1>2. CASE RestartServer
  <2>1. stored \in Sealed /\ stored' = stored /\ loaded' \in BOOLEAN
    BY <1>2, <1>t DEF RestartServer, ConnectionTypeOK
  <2>2. CASE alive' = Nowhere /\ UNCHANGED <<served, spawned>>
    BY <1>1, <1>2, <1>b, <1>n, <1>t, <2>1, <2>2
       DEF RestartServer, ConnectionTypeOK, StartedInv, HonestInv, Nowhere
  <2>3. CASE /\ spawned < MaxRuntimes
             /\ spawned' = spawned + 1
             /\ alive' = spawned'
             /\ served' = [served EXCEPT ![spawned'] = stored]
    <3>1. spawned' \in RuntimeId /\ spawned' \in 0 .. MaxRuntimes
      BY <1>n, <2>3, CountsAssumption DEF RuntimeId
    <3>2. \A k \in RuntimeId : served'[k] = IF k = spawned' THEN stored ELSE served[k]
      BY <1>t, <2>3, <3>1 DEF ConnectionTypeOK
    <3>3. \A k \in RuntimeId : k <= spawned' <=> served'[k] # Nil
      BY <1>n, <2>1, <2>3, <3>1, <3>2, RecordsAreNotNil DEF StartedInv, RuntimeId
    <3>4. served' \in [RuntimeId -> Sealed \cup {Nil}]
      BY <1>t, <2>1, <2>3 DEF ConnectionTypeOK
    <3>5. \A k \in RuntimeId : k <= spawned => served'[k] = served[k]
      BY <1>n, <2>3, <3>2 DEF RuntimeId
    <3>6. HonestInv => Honest(stored') /\ \A k \in RuntimeId : Honest(served'[k])
      BY <2>1, <3>2 DEF HonestInv
    <3>7. QED
      BY <1>1, <1>2, <1>b, <1>n, <2>1, <2>3, <3>1, <3>3, <3>4, <3>5, <3>6 DEF RestartServer
  <2>4. QED
    BY <1>2, <2>2, <2>3 DEF RestartServer
<1>3. CASE Update
  <2> DEFINE overwritten == [saved EXCEPT ![selected] = live]
  <2>1. /\ overwritten \in [Connection -> Setting]
        /\ \A c \in Connection : overwritten[c] = IF c = selected THEN live ELSE saved[c]
    BY <1>t DEF ConnectionTypeOK
  <2>2. \A c \in Connection : overwritten[c].url \in Connection => overwritten[c].url = c
    BY <2>1 DEF UrlInv
  <2>3. saved' = RestoredIn(overwritten)
    BY <1>3 DEF Update
  <2> HIDE DEF overwritten
  <2>4. /\ saved' \in [Connection -> Setting]
        /\ \A c \in Connection : saved'[c].model = overwritten[c].model
        /\ \A c \in Connection : saved'[c].url \in Connection => saved'[c].url = c
    BY <1>t, <2>1, <2>2, <2>3, RestoreKeeps DEF ConnectionTypeOK, UrlInv
  <2>5. mixed' \in BOOLEAN /\ (~mixed' => ~mixed /\ live.model = OwnModel[selected])
    BY <1>3, <1>t DEF Update, ConnectionTypeOK
  <2>6. ConnectionTypeOK'
    BY <1>3, <1>b, <1>t, <2>4, <2>5 DEF Update, ConnectionTypeOK
  <2>7. StartedInv' /\ TaskInv'
    BY <1>3 DEF Update, StartedInv, TaskInv
  <2>8. UrlInv'
    BY <1>3, <2>4 DEF Update, UrlInv
  <2>9. ~mixed' => HonestInv' /\ ModelInv'
    <3>1. ~mixed' => \A c \in Connection : saved'[c].model = OwnModel[c]
      BY <2>1, <2>4, <2>5 DEF HonestInv
    <3>2. ~mixed' => HonestInv'
      BY <1>3, <2>5, <3>1 DEF Update, HonestInv, Honest
    <3>3. ~mixed' => ModelInv'
      BY <1>3, <2>5 DEF Update, ModelInv
    <3>4. QED
      BY <3>2, <3>3
  <2>10. KeyFitsUpstream'
    BY <1>3, <2>5 DEF Update, KeyFitsUpstream
  <2>11. QED
    BY <2>6, <2>7, <2>8, <2>9, <2>10
<1>4. ASSUME NEW c \in Connection, Select(c) PROVE ConnectionIInv'
  <2>1. ConnectionTypeOK'
    BY <1>4, <1>b, <1>t DEF Select, ConnectionTypeOK
  <2>2. StartedInv' /\ TaskInv'
    BY <1>4 DEF Select, StartedInv, TaskInv
  <2>3. UrlInv'
    BY <1>4 DEF Select, UrlInv
  <2>4. ~mixed => HonestInv' /\ ModelInv'
    BY <1>4 DEF Select, HonestInv, Honest, ModelInv
  <2>5. KeyFitsUpstream'
    BY <1>4 DEF Select, KeyFitsUpstream
  <2>6. QED
    BY <1>4, <2>1, <2>2, <2>3, <2>4, <2>5 DEF Select
<1>5. ASSUME NEW c \in Connection, OtherPageActivates(c) PROVE ConnectionIInv'
  <2> DEFINE other == [ref |-> c, url |-> c, model |-> OwnModel[c]]
  <2>1. other \in Sealed /\ Honest(other)
    BY AddressesApart, ModelsAssumption DEF Sealed, Honest
  <2>2. SpawnWith(other) /\ BoundedStep
        /\ UNCHANGED <<saved, selected, pageVars, send, card, delivered, mixed>>
    BY <1>5 DEF OtherPageActivates
  <2> HIDE DEF other
  <2>3. /\ alive' \in RuntimeId /\ spawned' \in 0 .. MaxRuntimes
        /\ served' \in [RuntimeId -> Sealed \cup {Nil}] /\ stored' = other
        /\ alive' = spawned' /\ spawned' = spawned + 1
        /\ \A k \in RuntimeId : k <= spawned' <=> served'[k] # Nil
        /\ \A k \in RuntimeId : k <= spawned => served'[k] = served[k]
        /\ \A k \in RuntimeId : served'[k] \in {served[k], other}
        /\ UNCHANGED loaded
    BY <1>t, <2>1, <2>2, SpawnKeeps
  <2>4. HonestInv => Honest(stored') /\ \A k \in RuntimeId : Honest(served'[k])
    BY <2>1, <2>3 DEF HonestInv
  <2>5. loaded' \in BOOLEAN
    BY <1>t, <2>3 DEF ConnectionTypeOK
  <2>6. QED
    BY <1>1, <1>b, <1>n, <2>1, <2>2, <2>3, <2>4, <2>5
<1>6. QED
  BY <1>2, <1>3, <1>4, <1>5 DEF EnvironmentStep

LEMMA ConnectionStepHolds ==
  ASSUME ConnectionIInv, [ConnectionNext]_connectionVars
  PROVE  ConnectionIInv'
<1>1. CASE ConnectionNext
  BY <1>1, HeldStepHolds, GenerationStepHolds, CardStepHolds, EnvironmentStepHolds
     DEF ConnectionNext
<1>2. CASE UNCHANGED connectionVars
  BY <1>2
     DEF connectionVars, pageVars, runtimeVars, ConnectionIInv, ConnectionTypeOK, StartedInv,
         TaskInv, UrlInv, HonestInv, Honest, ModelInv, KeyFitsUpstream
<1>3. QED
  BY <1>1, <1>2

-----------------------------------------------------------------------------

(* The inductive invariant of the page, the runtimes and their tasks.      *)
THEOREM ConnectionInvariant == ConnectionSpec => []ConnectionIInv
<1>1. ConnectionInit => ConnectionIInv
  BY ConnectionInitHolds
<1>2. ConnectionIInv /\ [ConnectionNext]_connectionVars => ConnectionIInv'
  BY ConnectionStepHolds
<1>3. QED
  BY <1>1, <1>2, PTL DEF ConnectionSpec

(* Every variable of the lease, the page and the runtimes keeps its type   *)
(* (upstream-connection-lease.js, the card and the send in index.js).      *)
THEOREM ConnectionTypes == ConnectionSpec => []ConnectionTypeOK
<1>1. ConnectionIInv => ConnectionTypeOK
  BY DEF ConnectionIInv
<1>2. QED
  BY <1>1, ConnectionInvariant, PTL

(* A forwarded request carries the key of a profile whose model is that of *)
(* the upstream it reaches, as long as no profile was saved with the model *)
(* of another (onSettingsReady, bindHostRequest,                           *)
(* assertGenerationTransportBinding), for any number of profiles, models,  *)
(* runtime processes and steps.                                            *)
THEOREM KeyFits == ConnectionSpec => []KeyFitsUpstream
<1>1. ConnectionIInv => KeyFitsUpstream
  BY DEF ConnectionIInv
<1>2. QED
  BY <1>1, ConnectionInvariant, PTL

-----------------------------------------------------------------------------
(* The switch of the runtime profile                                       *)

(* The bounds of the model are numbers.                                    *)
BoundsAreNumbers == MaxInstances \in Nat /\ MaxSwitchFaults \in Nat

Steps(S) == switch.phase \in S

(* Runtimes are started one after the other.                               *)
Numbered == \A n \in Instance : n > started => life[n] = "unborn"

(* A process that has died knows nothing, and none of its children is left *)
(* that could send it an event.                                            *)
Down ==
  ~ up =>
    /\ switch = NoSwitch /\ target = Null /\ child = NoInstance
    /\ ~ blocked /\ exited = {}
    /\ \A n \in Instance : life[n] \notin {"booting", "ready", "closing"}

(* What the supervisor holds in each phase.                                *)
Phases ==
  /\ blocked <=> ~ Steps({"idle", "init", "initVerifying"})
  /\ Steps({"init", "initVerifying"}) => target = Null
  /\ Steps({"starting", "verifying", "restarting", "rechecking", "init",
            "initVerifying"}) => switch.waits \in Instance
  /\ Steps({"stopping", "undoing"}) => child = NoInstance
  /\ Steps({"asking"}) => target = switch.previous
  /\ Steps({"asking", "stopping", "starting", "verifying"})
       => switch.want \in Profile

(* The configuration is the one of the profile that is being started, and  *)
(* the snapshot the one of the target that a rollback restores.            *)
Staged ==
  /\ Steps({"stopping", "starting", "verifying"}) => config = switch.want
  /\ Steps({"restarting", "rechecking"})
       => switch.previous # Null /\ config = switch.snapshot
  /\ ~ Steps({"idle", "asking", "init", "initVerifying"})
       /\ switch.previous # Null => switch.snapshot = switch.previous.profile

(* The target, while it may be routed to again, serves what is configured. *)
Served ==
  Steps({"idle", "asking"}) /\ target # Null =>
    /\ config = target.profile
    /\ life[target.instance] \in {"ready", "crashed"}
    /\ runs[target.instance] = target.profile

Closing ==
  \A n \in Instance :
    life[n] = "closing" => Steps({"stopping", "undoing"}) /\ switch.waits = n

Gone == \A n \in exited : life[n] \in {"crashed", "ended", "killed"}

NoneKilled == \A n \in Instance : life[n] # "killed"

(* No runtime is there that the plugin has forgotten, and no exit event on *)
(* its way could make it forget one.                                       *)
Known ==
  NoneKilled =>
    /\ \A n \in Instance : life[n] \in {"booting", "ready"} => child = n
    /\ \A n \in exited :
         child = n \/ (Steps({"stopping", "undoing"}) /\ switch.waits = n)

(* Nothing is routed during a switch, so all that is on its way is older.  *)
Early == blocked => \A r \in Request : ops[r].phase # "idle" => ops[r].earlier

IInv ==
  /\ SwitchTypeOK /\ Numbered /\ Down /\ Phases /\ Staged /\ Served
  /\ Closing /\ Gone /\ Known /\ Early

USE DEF BoundsAreNumbers

-----------------------------------------------------------------------------
LEMMA BecomeReadyKeeps ==
  ASSUME BoundsAreNumbers, NEW n \in Instance, IInv, BecomeReady(n)
  PROVE  IInv'
<1>1. SwitchTypeOK'
  <2>1. life' \in [Instance -> Life]
    BY DEF IInv, SwitchTypeOK, Instance, Life, BecomeReady, plugin
  <2>2. runs' \in [Instance -> Profile \cup {Null}]
    BY DEF IInv, SwitchTypeOK, Instance, BecomeReady, plugin
  <2>3. announced' \subseteq Instance
    BY DEF IInv, SwitchTypeOK, Instance, BecomeReady, plugin
  <2> QED
    BY <2>1, <2>2, <2>3 DEF IInv, SwitchTypeOK, BecomeReady, plugin
<1>2. Numbered' /\ Down'
  BY DEF IInv, Numbered, Down, NoSwitch, SwitchTypeOK, Instance, NoInstance,
    BecomeReady, plugin
<1>3. Phases' /\ Staged'
  BY DEF IInv, Phases, Staged, Steps, Down, NoSwitch, Target, Switch, SwitchTypeOK,
    Instance, NoInstance, BecomeReady, plugin
<1>4. Served'
  BY DEF IInv, Served, Phases, Staged, Steps, Down, Numbered, NoSwitch,
    Target, Switch, SwitchTypeOK, Instance, NoInstance, BecomeReady, plugin
<1>5. Closing' /\ Gone'
  BY DEF IInv, Closing, Gone, Steps, Phases, Down, Numbered, NoSwitch,
    Switch, SwitchTypeOK, Instance, NoInstance, BecomeReady, plugin
<1>6. Known'
  BY DEF IInv, Known, NoneKilled, Closing, Gone, Steps, Phases, Down,
    Numbered, NoSwitch, Switch, SwitchTypeOK, Instance, NoInstance, BecomeReady,
    plugin
<1>7. Early'
  BY DEF IInv, Early, Phases, Steps, NoOp, Op, SwitchTypeOK, Instance, NoInstance,
    BecomeReady, plugin
<1> QED  BY <1>1, <1>2, <1>3, <1>4, <1>5, <1>6, <1>7 DEF IInv

LEMMA CrashKeeps ==
  ASSUME BoundsAreNumbers, NEW n \in Instance, IInv, ChildCrash(n)
  PROVE  IInv'
<1>1. SwitchTypeOK'
  <2>1. life' \in [Instance -> Life]
    BY DEF IInv, SwitchTypeOK, Instance, Life, ChildCrash, Die, SwitchFault, Dropped, OpsAt,
      plugin
  <2>2. exited' \subseteq Instance
    BY DEF IInv, SwitchTypeOK, Instance, ChildCrash, Die, SwitchFault, Dropped, OpsAt, plugin
  <2>3. ops' \in [Request -> Op]
    BY DEF IInv, SwitchTypeOK, Instance, Op, NoOp, ChildCrash, Die, SwitchFault, Dropped,
      OpsAt, plugin
  <2>4. switchFaults' \in 0 .. MaxSwitchFaults
    BY DEF IInv, SwitchTypeOK, Instance, ChildCrash, Die, SwitchFault, Dropped, OpsAt, plugin
  <2> QED
    BY <2>1, <2>2, <2>3, <2>4 DEF IInv, SwitchTypeOK, ChildCrash, Die, SwitchFault, Dropped,
      OpsAt, plugin
<1>2. Numbered' /\ Down'
  BY DEF IInv, Numbered, Down, NoSwitch, SwitchTypeOK, Instance, NoInstance, ChildCrash,
    Die, SwitchFault, Dropped, OpsAt, plugin
<1>3. Phases' /\ Staged'
  BY DEF IInv, Phases, Staged, Steps, Down, NoSwitch, Target, Switch, SwitchTypeOK,
    Instance, NoInstance, ChildCrash, Die, SwitchFault, Dropped, OpsAt, plugin
<1>4. Served'
  BY DEF IInv, Served, Phases, Staged, Steps, Down, Numbered, NoSwitch,
    Target, Switch, SwitchTypeOK, Instance, NoInstance, ChildCrash, Die, SwitchFault, Dropped,
    OpsAt, plugin
<1>5. Closing' /\ Gone'
  BY DEF IInv, Closing, Gone, Steps, Phases, Down, Numbered, NoSwitch,
    Switch, SwitchTypeOK, Instance, NoInstance, ChildCrash, Die, SwitchFault, Dropped, OpsAt,
    plugin
<1>6. Known'
  BY DEF IInv, Known, NoneKilled, Closing, Gone, Steps, Phases, Down,
    Numbered, NoSwitch, Switch, SwitchTypeOK, Instance, NoInstance, ChildCrash, Die,
    SwitchFault, Dropped, OpsAt, plugin
<1>7. Early'
  BY DEF IInv, Early, Phases, Steps, NoOp, Op, SwitchTypeOK, Instance, NoInstance,
    ChildCrash, Die, SwitchFault, Dropped, OpsAt, plugin
<1> QED  BY <1>1, <1>2, <1>3, <1>4, <1>5, <1>6, <1>7 DEF IInv

LEMMA CloseKeeps ==
  ASSUME BoundsAreNumbers, NEW n \in Instance, IInv, Close(n)
  PROVE  IInv'
<1>1. SwitchTypeOK'
  <2>1. life' \in [Instance -> Life]
    BY DEF IInv, SwitchTypeOK, Instance, Life, Close, Die, Dropped, OpsAt, plugin
  <2>2. exited' \subseteq Instance
    BY DEF IInv, SwitchTypeOK, Instance, Close, Die, Dropped, OpsAt, plugin
  <2>3. ops' \in [Request -> Op]
    BY DEF IInv, SwitchTypeOK, Instance, Op, NoOp, Close, Die, Dropped, OpsAt,
      plugin
  <2> QED
    BY <2>1, <2>2, <2>3 DEF IInv, SwitchTypeOK, Close, Die, Dropped, OpsAt, plugin
<1>2. Numbered' /\ Down'
  BY DEF IInv, Numbered, Down, NoSwitch, SwitchTypeOK, Instance, NoInstance, Close,
    Die, Dropped, OpsAt, plugin
<1>3. Phases' /\ Staged'
  BY DEF IInv, Phases, Staged, Steps, Down, NoSwitch, Target, Switch, SwitchTypeOK,
    Instance, NoInstance, Close, Die, Dropped, OpsAt, plugin
<1>4. Served'
  BY DEF IInv, Served, Phases, Staged, Steps, Down, Numbered, NoSwitch,
    Target, Switch, SwitchTypeOK, Instance, NoInstance, Close, Die, Dropped, OpsAt,
    plugin
<1>5. Closing' /\ Gone'
  BY DEF IInv, Closing, Gone, Steps, Phases, Down, Numbered, NoSwitch,
    Switch, SwitchTypeOK, Instance, NoInstance, Close, Die, Dropped, OpsAt, plugin
<1>6. Known'
  BY DEF IInv, Known, NoneKilled, Closing, Gone, Steps, Phases, Down,
    Numbered, NoSwitch, Switch, SwitchTypeOK, Instance, NoInstance, Close, Die,
    Dropped, OpsAt, plugin
<1>7. Early'
  BY DEF IInv, Early, Phases, Steps, NoOp, Op, SwitchTypeOK, Instance, NoInstance,
    Close, Die, Dropped, OpsAt, plugin
<1> QED  BY <1>1, <1>2, <1>3, <1>4, <1>5, <1>6, <1>7 DEF IInv

LEMMA ResolveKeeps ==
  ASSUME BoundsAreNumbers, NEW r \in Request, IInv, Resolve(r)
  PROVE  IInv'
<1>1. SwitchTypeOK'
  <2>1. ops' \in [Request -> Op]
    BY DEF IInv, SwitchTypeOK, Instance, Op, Target, Resolve, Routed, processes,
      plugin, Continuing
  <2> QED
    BY <2>1 DEF IInv, SwitchTypeOK, Resolve, Routed, processes, plugin, Continuing
<1>2. Numbered' /\ Down'
  BY DEF IInv, Numbered, Down, NoSwitch, SwitchTypeOK, Instance, NoInstance,
    Resolve, Routed, processes, plugin, Continuing
<1>3. Phases' /\ Staged'
  BY DEF IInv, Phases, Staged, Steps, Down, NoSwitch, Target, Switch, SwitchTypeOK,
    Instance, NoInstance, Resolve, Routed, processes, plugin, Continuing
<1>4. Served'
  BY DEF IInv, Served, Phases, Staged, Steps, Down, Numbered, NoSwitch,
    Target, Switch, SwitchTypeOK, Instance, NoInstance, Resolve, Routed, processes,
    plugin, Continuing
<1>5. Closing' /\ Gone'
  BY DEF IInv, Closing, Gone, Steps, Phases, Down, Numbered, NoSwitch,
    Switch, SwitchTypeOK, Instance, NoInstance, Resolve, Routed, processes, plugin,
    Continuing
<1>6. Known'
  BY DEF IInv, Known, NoneKilled, Closing, Gone, Steps, Phases, Down,
    Numbered, NoSwitch, Switch, SwitchTypeOK, Instance, NoInstance, Resolve,
    Routed, processes, plugin, Continuing
<1>7. Early'
  BY DEF IInv, Early, Phases, Steps, NoOp, Op, SwitchTypeOK, Instance, NoInstance,
    Resolve, Routed, processes, plugin, Continuing
<1> QED  BY <1>1, <1>2, <1>3, <1>4, <1>5, <1>6, <1>7 DEF IInv

LEMMA ArriveKeeps ==
  ASSUME BoundsAreNumbers, NEW r \in Request, IInv, Arrive(r)
  PROVE  IInv'
<1>1. SwitchTypeOK'
  <2>1. ops' \in [Request -> Op]
    BY DEF IInv, SwitchTypeOK, Instance, Op, NoOp, Arrive, processes, plugin
  <2> QED
    BY <2>1 DEF IInv, SwitchTypeOK, Arrive, processes, plugin
<1>2. Numbered' /\ Down'
  BY DEF IInv, Numbered, Down, NoSwitch, SwitchTypeOK, Instance, NoInstance,
    Arrive, processes, plugin
<1>3. Phases' /\ Staged'
  BY DEF IInv, Phases, Staged, Steps, Down, NoSwitch, Target, Switch, SwitchTypeOK,
    Instance, NoInstance, Arrive, processes, plugin
<1>4. Served'
  BY DEF IInv, Served, Phases, Staged, Steps, Down, Numbered, NoSwitch,
    Target, Switch, SwitchTypeOK, Instance, NoInstance, Arrive, processes, plugin
<1>5. Closing' /\ Gone'
  BY DEF IInv, Closing, Gone, Steps, Phases, Down, Numbered, NoSwitch,
    Switch, SwitchTypeOK, Instance, NoInstance, Arrive, processes, plugin
<1>6. Known'
  BY DEF IInv, Known, NoneKilled, Closing, Gone, Steps, Phases, Down,
    Numbered, NoSwitch, Switch, SwitchTypeOK, Instance, NoInstance, Arrive,
    processes, plugin
<1>7. Early'
  BY DEF IInv, Early, Phases, Steps, NoOp, Op, SwitchTypeOK, Instance, NoInstance,
    Arrive, processes, plugin
<1> QED  BY <1>1, <1>2, <1>3, <1>4, <1>5, <1>6, <1>7 DEF IInv

LEMMA FinishKeeps ==
  ASSUME BoundsAreNumbers, NEW r \in Request, IInv, Finish(r)
  PROVE  IInv'
<1>1. SwitchTypeOK'
  <2>1. ops' \in [Request -> Op]
    BY DEF IInv, SwitchTypeOK, Instance, Op, NoOp, Finish, processes, plugin
  <2> QED
    BY <2>1 DEF IInv, SwitchTypeOK, Finish, processes, plugin
<1>2. Numbered' /\ Down'
  BY DEF IInv, Numbered, Down, NoSwitch, SwitchTypeOK, Instance, NoInstance,
    Finish, processes, plugin
<1>3. Phases' /\ Staged'
  BY DEF IInv, Phases, Staged, Steps, Down, NoSwitch, Target, Switch, SwitchTypeOK,
    Instance, NoInstance, Finish, processes, plugin
<1>4. Served'
  BY DEF IInv, Served, Phases, Staged, Steps, Down, Numbered, NoSwitch,
    Target, Switch, SwitchTypeOK, Instance, NoInstance, Finish, processes, plugin
<1>5. Closing' /\ Gone'
  BY DEF IInv, Closing, Gone, Steps, Phases, Down, Numbered, NoSwitch,
    Switch, SwitchTypeOK, Instance, NoInstance, Finish, processes, plugin
<1>6. Known'
  BY DEF IInv, Known, NoneKilled, Closing, Gone, Steps, Phases, Down,
    Numbered, NoSwitch, Switch, SwitchTypeOK, Instance, NoInstance, Finish,
    processes, plugin
<1>7. Early'
  BY DEF IInv, Early, Phases, Steps, NoOp, Op, SwitchTypeOK, Instance, NoInstance,
    Finish, processes, plugin
<1> QED  BY <1>1, <1>2, <1>3, <1>4, <1>5, <1>6, <1>7 DEF IInv

LEMMA ActivateKeeps ==
  ASSUME BoundsAreNumbers, NEW p \in Profile, IInv, ActivateProfile(p)
  PROVE  IInv'
<1>1. SwitchTypeOK'
  <2>1. switch' \in Switch
    BY DEF IInv, SwitchTypeOK, Instance, Switch, Phase, NoSwitch, NoInstance,
      Steps, Phases, ActivateProfile, processes
  <2>2. ops' \in [Request -> Op]
    BY DEF IInv, SwitchTypeOK, Instance, Op, NoOp, ActivateProfile, processes
  <2>3. blocked' \in BOOLEAN /\ (blocked' => switch'.phase # "idle")
    BY DEF IInv, SwitchTypeOK, Instance, NoSwitch, Phases, Steps, Switch, ActivateProfile,
      processes
  <2> QED
    BY <2>1, <2>2, <2>3 DEF IInv, SwitchTypeOK, ActivateProfile, processes
<1>2. Numbered' /\ Down'
  BY DEF IInv, Numbered, Down, NoSwitch, SwitchTypeOK, Instance, NoInstance,
    ActivateProfile, processes
<1>3. Phases' /\ Staged'
  BY DEF IInv, Phases, Staged, Steps, Down, NoSwitch, Target, Switch, SwitchTypeOK,
    Instance, NoInstance, ActivateProfile, processes
<1>4. Served'
  BY DEF IInv, Served, Phases, Staged, Steps, Down, Numbered, NoSwitch,
    Target, Switch, SwitchTypeOK, Instance, NoInstance, ActivateProfile, processes
<1>5. Closing' /\ Gone'
  BY DEF IInv, Closing, Gone, Steps, Phases, Down, Numbered, NoSwitch,
    Switch, SwitchTypeOK, Instance, NoInstance, ActivateProfile, processes
<1>6. Known'
  BY DEF IInv, Known, NoneKilled, Closing, Gone, Steps, Phases, Down,
    Numbered, NoSwitch, Switch, SwitchTypeOK, Instance, NoInstance, ActivateProfile,
    processes
<1>7. Early'
  BY DEF IInv, Early, Phases, Steps, NoOp, Op, SwitchTypeOK, Instance, NoInstance,
    ActivateProfile, processes
<1> QED  BY <1>1, <1>2, <1>3, <1>4, <1>5, <1>6, <1>7 DEF IInv

LEMMA AnswerHealthKeeps ==
  ASSUME BoundsAreNumbers, IInv, AnswerHealth
  PROVE  IInv'
<1>1. SwitchTypeOK'
  <2>1. switch' \in Switch
    BY DEF IInv, SwitchTypeOK, Instance, Switch, Phase, NoSwitch, NoInstance,
      Steps, Phases, AnswerHealth, processes, plugin, Asked, HealthOf
  <2>2. blocked' \in BOOLEAN /\ (blocked' => switch'.phase # "idle")
    BY DEF IInv, SwitchTypeOK, Instance, NoSwitch, Phases, Steps, Switch,
      AnswerHealth, processes, plugin, Asked, HealthOf
  <2> QED
    BY <2>1, <2>2 DEF IInv, SwitchTypeOK, AnswerHealth, processes, plugin, Asked,
      HealthOf
<1>2. Numbered' /\ Down'
  BY DEF IInv, Numbered, Down, NoSwitch, SwitchTypeOK, Instance, NoInstance,
    AnswerHealth, processes, plugin, Asked, HealthOf
<1>3. Phases' /\ Staged'
  BY DEF IInv, Phases, Staged, Steps, Down, NoSwitch, Target, Switch, SwitchTypeOK,
    Instance, NoInstance, AnswerHealth, processes, plugin, Asked, HealthOf
<1>4. Served'
  BY DEF IInv, Served, Phases, Staged, Steps, Down, Numbered, NoSwitch,
    Target, Switch, SwitchTypeOK, Instance, NoInstance, AnswerHealth, processes,
    plugin, Asked, HealthOf
<1>5. Closing' /\ Gone'
  BY DEF IInv, Closing, Gone, Steps, Phases, Down, Numbered, NoSwitch,
    Switch, SwitchTypeOK, Instance, NoInstance, AnswerHealth, processes, plugin,
    Asked, HealthOf
<1>6. Known'
  BY DEF IInv, Known, NoneKilled, Closing, Gone, Steps, Phases, Down,
    Numbered, NoSwitch, Switch, SwitchTypeOK, Instance, NoInstance, AnswerHealth,
    processes, plugin, Asked, HealthOf
<1>7. Early'
  BY DEF IInv, Early, Phases, Steps, NoOp, Op, SwitchTypeOK, Instance, NoInstance,
    AnswerHealth, processes, plugin, Asked, HealthOf
<1> QED  BY <1>1, <1>2, <1>3, <1>4, <1>5, <1>6, <1>7 DEF IInv

LEMMA RefuseBusyKeeps ==
  ASSUME BoundsAreNumbers, IInv, RefuseBusy
  PROVE  IInv'
<1>1. SwitchTypeOK'
  <2>1. switch' \in Switch
    BY DEF IInv, SwitchTypeOK, Instance, Switch, Phase, NoSwitch, NoInstance,
      Steps, Phases, RefuseBusy, processes
  <2>2. blocked' \in BOOLEAN /\ (blocked' => switch'.phase # "idle")
    BY DEF IInv, SwitchTypeOK, Instance, NoSwitch, Phases, Steps, Switch,
      RefuseBusy, processes
  <2> QED
    BY <2>1, <2>2 DEF IInv, SwitchTypeOK, RefuseBusy, processes
<1>2. Numbered' /\ Down'
  BY DEF IInv, Numbered, Down, NoSwitch, SwitchTypeOK, Instance, NoInstance,
    RefuseBusy, processes
<1>3. Phases' /\ Staged'
  BY DEF IInv, Phases, Staged, Steps, Down, NoSwitch, Target, Switch, SwitchTypeOK,
    Instance, NoInstance, RefuseBusy, processes
<1>4. Served'
  BY DEF IInv, Served, Phases, Staged, Steps, Down, Numbered, NoSwitch,
    Target, Switch, SwitchTypeOK, Instance, NoInstance, RefuseBusy, processes
<1>5. Closing' /\ Gone'
  BY DEF IInv, Closing, Gone, Steps, Phases, Down, Numbered, NoSwitch,
    Switch, SwitchTypeOK, Instance, NoInstance, RefuseBusy, processes
<1>6. Known'
  BY DEF IInv, Known, NoneKilled, Closing, Gone, Steps, Phases, Down,
    Numbered, NoSwitch, Switch, SwitchTypeOK, Instance, NoInstance, RefuseBusy,
    processes
<1>7. Early'
  BY DEF IInv, Early, Phases, Steps, NoOp, Op, SwitchTypeOK, Instance, NoInstance,
    RefuseBusy, processes
<1> QED  BY <1>1, <1>2, <1>3, <1>4, <1>5, <1>6, <1>7 DEF IInv

LEMMA StageAndStopKeeps ==
  ASSUME BoundsAreNumbers, IInv, StageAndStop
  PROVE  IInv'
<1>1. SwitchTypeOK'
  <2>1. config' \in Profile \cup {Null}
    BY DEF IInv, SwitchTypeOK, Instance, Switch, Phases, Steps, StageAndStop,
      StopCompanion, Terminate
  <2>2. life' \in [Instance -> Life]
    BY DEF IInv, SwitchTypeOK, Instance, Life, StageAndStop, StopCompanion,
      Terminate
  <2>3. switch' \in Switch
    BY DEF IInv, SwitchTypeOK, Instance, Switch, Phase, NoSwitch, NoInstance,
      Steps, Phases, StageAndStop, StopCompanion, Terminate
  <2>4. child' \in Instance \cup {NoInstance}
    BY DEF IInv, SwitchTypeOK, Instance, NoInstance, StageAndStop, StopCompanion,
      Terminate
  <2>5. url' \in Instance \cup {NoInstance}
    BY DEF IInv, SwitchTypeOK, Instance, NoInstance, StageAndStop, StopCompanion,
      Terminate
  <2>6. blocked' \in BOOLEAN /\ (blocked' => switch'.phase # "idle")
    BY DEF IInv, SwitchTypeOK, Instance, NoSwitch, Phases, Steps, Switch,
      StageAndStop, StopCompanion, Terminate
  <2> QED
    BY <2>1, <2>2, <2>3, <2>4, <2>5, <2>6 DEF IInv, SwitchTypeOK, StageAndStop,
      StopCompanion, Terminate
<1>2. Numbered' /\ Down'
  BY DEF IInv, Numbered, Down, NoSwitch, SwitchTypeOK, Instance, NoInstance,
    StageAndStop, StopCompanion, Terminate
<1>3. Phases' /\ Staged'
  BY DEF IInv, Phases, Staged, Served, Steps, Down, NoSwitch, Target, Switch, SwitchTypeOK,
    Instance, NoInstance, StageAndStop, StopCompanion, Terminate
<1>4. Served'
  BY DEF IInv, Served, Phases, Staged, Steps, Down, Numbered, NoSwitch,
    Target, Switch, SwitchTypeOK, Instance, NoInstance, StageAndStop,
    StopCompanion, Terminate
<1>5. Closing' /\ Gone'
  BY DEF IInv, Closing, Gone, Steps, Phases, Down, Numbered, NoSwitch,
    Switch, SwitchTypeOK, Instance, NoInstance, StageAndStop, StopCompanion,
    Terminate
<1>6. Known'
  BY DEF IInv, Known, NoneKilled, Closing, Gone, Steps, Phases, Down,
    Numbered, NoSwitch, Switch, SwitchTypeOK, Instance, NoInstance, StageAndStop,
    StopCompanion, Terminate
<1>7. Early'
  BY DEF IInv, Early, Phases, Steps, NoOp, Op, SwitchTypeOK, Instance, NoInstance,
    StageAndStop, StopCompanion, Terminate
<1> QED  BY <1>1, <1>2, <1>3, <1>4, <1>5, <1>6, <1>7 DEF IInv

LEMMA StagingFailsKeeps ==
  ASSUME BoundsAreNumbers, IInv, StagingFails
  PROVE  IInv'
<1>1. SwitchTypeOK'
  <2>1. target' \in Target \cup {Null}
    BY DEF IInv, SwitchTypeOK, Instance, Target, Switch, Phases, Steps,
      StagingFails, SwitchFault, processes
  <2>2. switch' \in Switch
    BY DEF IInv, SwitchTypeOK, Instance, Switch, Phase, NoSwitch, NoInstance,
      Steps, Phases, StagingFails, SwitchFault, processes
  <2>3. switchFaults' \in 0 .. MaxSwitchFaults
    BY DEF IInv, SwitchTypeOK, Instance, StagingFails, SwitchFault, processes
  <2>4. blocked' \in BOOLEAN /\ (blocked' => switch'.phase # "idle")
    BY DEF IInv, SwitchTypeOK, Instance, NoSwitch, Phases, Steps, Switch,
      StagingFails, SwitchFault, processes
  <2> QED
    BY <2>1, <2>2, <2>3, <2>4 DEF IInv, SwitchTypeOK, StagingFails, SwitchFault,
      processes
<1>2. Numbered' /\ Down'
  BY DEF IInv, Numbered, Down, NoSwitch, SwitchTypeOK, Instance, NoInstance,
    StagingFails, SwitchFault, processes
<1>3. Phases' /\ Staged'
  BY DEF IInv, Phases, Staged, Steps, Down, NoSwitch, Target, Switch, SwitchTypeOK,
    Instance, NoInstance, StagingFails, SwitchFault, processes
<1>4. Served'
  BY DEF IInv, Served, Phases, Staged, Steps, Down, Numbered, NoSwitch,
    Target, Switch, SwitchTypeOK, Instance, NoInstance, StagingFails, SwitchFault,
    processes
<1>5. Closing' /\ Gone'
  BY DEF IInv, Closing, Gone, Steps, Phases, Down, Numbered, NoSwitch,
    Switch, SwitchTypeOK, Instance, NoInstance, StagingFails, SwitchFault, processes
<1>6. Known'
  BY DEF IInv, Known, NoneKilled, Closing, Gone, Steps, Phases, Down,
    Numbered, NoSwitch, Switch, SwitchTypeOK, Instance, NoInstance, StagingFails,
    SwitchFault, processes
<1>7. Early'
  BY DEF IInv, Early, Phases, Steps, NoOp, Op, SwitchTypeOK, Instance, NoInstance,
    StagingFails, SwitchFault, processes
<1> QED  BY <1>1, <1>2, <1>3, <1>4, <1>5, <1>6, <1>7 DEF IInv

LEMMA StartCandidateKeeps ==
  ASSUME BoundsAreNumbers, IInv, StartCandidate
  PROVE  IInv'
<1>a. started' = started + 1 /\ started' \in Instance /\ child' = started'
  BY DEF IInv, SwitchTypeOK, Instance, StartCandidate, Spawn
<1>1. SwitchTypeOK'
  <2>1. target' \in Target \cup {Null}
    BY DEF IInv, SwitchTypeOK, Instance, Target, Switch, Phases, Steps,
      StartCandidate, Continuing, Spawn
  <2>2. life' \in [Instance -> Life]
    BY DEF IInv, SwitchTypeOK, Instance, Life, StartCandidate, Continuing, Spawn
  <2>3. started' \in 0 .. MaxInstances
    BY DEF IInv, SwitchTypeOK, Instance, StartCandidate, Continuing, Spawn
  <2>4. child' \in Instance \cup {NoInstance}
    BY DEF IInv, SwitchTypeOK, Instance, NoInstance, StartCandidate, Continuing,
      Spawn
  <2>5. switch' \in Switch
    BY <1>a DEF IInv, SwitchTypeOK, Instance, Switch, Phase, NoSwitch, NoInstance,
      Steps, Phases, StartCandidate, Continuing, Spawn
  <2>6. blocked' \in BOOLEAN /\ (blocked' => switch'.phase # "idle")
    BY DEF IInv, SwitchTypeOK, Instance, NoSwitch, Phases, Steps, Switch,
      StartCandidate, Continuing, Spawn
  <2> QED
    BY <2>1, <2>2, <2>3, <2>4, <2>5, <2>6 DEF IInv, SwitchTypeOK, StartCandidate,
      Continuing, Spawn
<1>2. Numbered' /\ Down'
  BY DEF IInv, Numbered, Down, NoSwitch, SwitchTypeOK, Instance, NoInstance,
    StartCandidate, Continuing, Spawn
<1>3. Phases' /\ Staged'
  BY DEF IInv, Phases, Staged, Steps, Down, NoSwitch, Target, Switch, SwitchTypeOK,
    Instance, NoInstance, StartCandidate, Continuing, Spawn
<1>4. Served'
  BY DEF IInv, Served, Phases, Staged, Steps, Down, Numbered, NoSwitch,
    Target, Switch, SwitchTypeOK, Instance, NoInstance, StartCandidate, Continuing,
    Spawn
<1>5. Closing' /\ Gone'
  BY DEF IInv, Closing, Gone, Steps, Phases, Down, Numbered, NoSwitch,
    Switch, SwitchTypeOK, Instance, NoInstance, StartCandidate, Continuing, Spawn
<1>6. Known'
  BY DEF IInv, Known, NoneKilled, Closing, Gone, Steps, Phases, Down,
    Numbered, NoSwitch, Switch, SwitchTypeOK, Instance, NoInstance, StartCandidate,
    Continuing, Spawn
<1>7. Early'
  BY DEF IInv, Early, Phases, Steps, NoOp, Op, SwitchTypeOK, Instance, NoInstance,
    StartCandidate, Continuing, Spawn
<1> QED  BY <1>1, <1>2, <1>3, <1>4, <1>5, <1>6, <1>7 DEF IInv

LEMMA RestartPreviousKeeps ==
  ASSUME BoundsAreNumbers, IInv, RestartPrevious
  PROVE  IInv'
<1>a. started' = started + 1 /\ started' \in Instance /\ child' = started'
  BY DEF IInv, SwitchTypeOK, Instance, RestartPrevious, Spawn
<1>1. SwitchTypeOK'
  <2>1. config' \in Profile \cup {Null}
    BY DEF IInv, SwitchTypeOK, Instance, Switch, Phases, Steps, RestartPrevious,
      Continuing, Spawn, Restored
  <2>2. life' \in [Instance -> Life]
    BY DEF IInv, SwitchTypeOK, Instance, Life, RestartPrevious, Continuing, Spawn,
      Restored
  <2>3. started' \in 0 .. MaxInstances
    BY DEF IInv, SwitchTypeOK, Instance, RestartPrevious, Continuing, Spawn,
      Restored
  <2>4. child' \in Instance \cup {NoInstance}
    BY DEF IInv, SwitchTypeOK, Instance, NoInstance, RestartPrevious, Continuing,
      Spawn, Restored
  <2>5. switch' \in Switch
    BY <1>a DEF IInv, SwitchTypeOK, Instance, Switch, Phase, NoSwitch, NoInstance,
      Steps, Phases, RestartPrevious, Continuing, Spawn, Restored
  <2>6. blocked' \in BOOLEAN /\ (blocked' => switch'.phase # "idle")
    BY DEF IInv, SwitchTypeOK, Instance, NoSwitch, Phases, Steps, Switch,
      RestartPrevious, Continuing, Spawn, Restored
  <2> QED
    BY <2>1, <2>2, <2>3, <2>4, <2>5, <2>6 DEF IInv, SwitchTypeOK, RestartPrevious,
      Continuing, Spawn, Restored
<1>2. Numbered' /\ Down'
  BY DEF IInv, Numbered, Down, NoSwitch, SwitchTypeOK, Instance, NoInstance,
    RestartPrevious, Continuing, Spawn, Restored
<1>3. Phases' /\ Staged'
  BY DEF IInv, Phases, Staged, Steps, Down, NoSwitch, Target, Switch, SwitchTypeOK,
    Instance, NoInstance, RestartPrevious, Continuing, Spawn, Restored
<1>4. Served'
  BY DEF IInv, Served, Phases, Staged, Steps, Down, Numbered, NoSwitch,
    Target, Switch, SwitchTypeOK, Instance, NoInstance, RestartPrevious,
    Continuing, Spawn, Restored
<1>5. Closing' /\ Gone'
  BY DEF IInv, Closing, Gone, Steps, Phases, Down, Numbered, NoSwitch,
    Switch, SwitchTypeOK, Instance, NoInstance, RestartPrevious, Continuing, Spawn,
    Restored
<1>6. Known'
  BY DEF IInv, Known, NoneKilled, Closing, Gone, Steps, Phases, Down,
    Numbered, NoSwitch, Switch, SwitchTypeOK, Instance, NoInstance,
    RestartPrevious, Continuing, Spawn, Restored
<1>7. Early'
  BY DEF IInv, Early, Phases, Steps, NoOp, Op, SwitchTypeOK, Instance, NoInstance,
    RestartPrevious, Continuing, Spawn, Restored
<1> QED  BY <1>1, <1>2, <1>3, <1>4, <1>5, <1>6, <1>7 DEF IInv

LEMMA NothingToRestartKeeps ==
  ASSUME BoundsAreNumbers, IInv, NothingToRestart
  PROVE  IInv'
<1>1. SwitchTypeOK'
  <2>1. config' \in Profile \cup {Null}
    BY DEF IInv, SwitchTypeOK, Instance, Switch, Phases, Steps, NothingToRestart,
      Continuing, Restored, EndSwitch, processes
  <2>2. target' \in Target \cup {Null}
    BY DEF IInv, SwitchTypeOK, Instance, Target, Switch, Phases, Steps,
      NothingToRestart, Continuing, Restored, EndSwitch, processes
  <2>3. switch' \in Switch
    BY DEF IInv, SwitchTypeOK, Instance, Switch, Phase, NoSwitch, NoInstance,
      Steps, Phases, NothingToRestart, Continuing, Restored, EndSwitch,
      processes
  <2>4. blocked' \in BOOLEAN /\ (blocked' => switch'.phase # "idle")
    BY DEF IInv, SwitchTypeOK, Instance, NoSwitch, Phases, Steps, Switch,
      NothingToRestart, Continuing, Restored, EndSwitch, processes
  <2> QED
    BY <2>1, <2>2, <2>3, <2>4 DEF IInv, SwitchTypeOK, NothingToRestart, Continuing,
      Restored, EndSwitch, processes
<1>2. Numbered' /\ Down'
  BY DEF IInv, Numbered, Down, NoSwitch, SwitchTypeOK, Instance, NoInstance,
    NothingToRestart, Continuing, Restored, EndSwitch, processes
<1>3. Phases' /\ Staged'
  BY DEF IInv, Phases, Staged, Steps, Down, NoSwitch, Target, Switch, SwitchTypeOK,
    Instance, NoInstance, NothingToRestart, Continuing, Restored, EndSwitch,
    processes
<1>4. Served'
  BY DEF IInv, Served, Phases, Staged, Steps, Down, Numbered, NoSwitch,
    Target, Switch, SwitchTypeOK, Instance, NoInstance, NothingToRestart,
    Continuing, Restored, EndSwitch, processes
<1>5. Closing' /\ Gone'
  BY DEF IInv, Closing, Gone, Steps, Phases, Down, Numbered, NoSwitch,
    Switch, SwitchTypeOK, Instance, NoInstance, NothingToRestart, Continuing,
    Restored, EndSwitch, processes
<1>6. Known'
  BY DEF IInv, Known, NoneKilled, Closing, Gone, Steps, Phases, Down,
    Numbered, NoSwitch, Switch, SwitchTypeOK, Instance, NoInstance,
    NothingToRestart, Continuing, Restored, EndSwitch, processes
<1>7. Early'
  BY DEF IInv, Early, Phases, Steps, NoOp, Op, SwitchTypeOK, Instance, NoInstance,
    NothingToRestart, Continuing, Restored, EndSwitch, processes
<1> QED  BY <1>1, <1>2, <1>3, <1>4, <1>5, <1>6, <1>7 DEF IInv

LEMMA RestoreFailsKeeps ==
  ASSUME BoundsAreNumbers, IInv, RestoreFails
  PROVE  IInv'
<1>1. SwitchTypeOK'
  <2>1. target' \in Target \cup {Null}
    BY DEF IInv, SwitchTypeOK, Instance, Target, Switch, Phases, Steps,
      RestoreFails, Continuing, SwitchFault, EndSwitch, processes
  <2>2. switch' \in Switch
    BY DEF IInv, SwitchTypeOK, Instance, Switch, Phase, NoSwitch, NoInstance,
      Steps, Phases, RestoreFails, Continuing, SwitchFault, EndSwitch, processes
  <2>3. switchFaults' \in 0 .. MaxSwitchFaults
    BY DEF IInv, SwitchTypeOK, Instance, RestoreFails, Continuing, SwitchFault,
      EndSwitch, processes
  <2>4. blocked' \in BOOLEAN /\ (blocked' => switch'.phase # "idle")
    BY DEF IInv, SwitchTypeOK, Instance, NoSwitch, Phases, Steps, Switch,
      RestoreFails, Continuing, SwitchFault, EndSwitch, processes
  <2> QED
    BY <2>1, <2>2, <2>3, <2>4 DEF IInv, SwitchTypeOK, RestoreFails, Continuing,
      SwitchFault, EndSwitch, processes
<1>2. Numbered' /\ Down'
  BY DEF IInv, Numbered, Down, NoSwitch, SwitchTypeOK, Instance, NoInstance,
    RestoreFails, Continuing, SwitchFault, EndSwitch, processes
<1>3. Phases' /\ Staged'
  BY DEF IInv, Phases, Staged, Steps, Down, NoSwitch, Target, Switch, SwitchTypeOK,
    Instance, NoInstance, RestoreFails, Continuing, SwitchFault, EndSwitch,
    processes
<1>4. Served'
  BY DEF IInv, Served, Phases, Staged, Steps, Down, Numbered, NoSwitch,
    Target, Switch, SwitchTypeOK, Instance, NoInstance, RestoreFails, Continuing,
    SwitchFault, EndSwitch, processes
<1>5. Closing' /\ Gone'
  BY DEF IInv, Closing, Gone, Steps, Phases, Down, Numbered, NoSwitch,
    Switch, SwitchTypeOK, Instance, NoInstance, RestoreFails, Continuing, SwitchFault,
    EndSwitch, processes
<1>6. Known'
  BY DEF IInv, Known, NoneKilled, Closing, Gone, Steps, Phases, Down,
    Numbered, NoSwitch, Switch, SwitchTypeOK, Instance, NoInstance, RestoreFails,
    Continuing, SwitchFault, EndSwitch, processes
<1>7. Early'
  BY DEF IInv, Early, Phases, Steps, NoOp, Op, SwitchTypeOK, Instance, NoInstance,
    RestoreFails, Continuing, SwitchFault, EndSwitch, processes
<1> QED  BY <1>1, <1>2, <1>3, <1>4, <1>5, <1>6, <1>7 DEF IInv

LEMMA HandleExitKeeps ==
  ASSUME BoundsAreNumbers, NEW n \in Instance, IInv, HandleExit(n)
  PROVE  IInv'
<1>a. /\ up /\ n \in exited /\ exited' = exited \ {n} /\ child' = NoInstance
      /\ UNCHANGED <<config, life, runs, announced, started, up, ops, switchFaults>>
      /\ url' \in {url, NoInstance}
  BY DEF HandleExit, EndSwitch
<1>b. \/ /\ switch' = switch /\ UNCHANGED <<target, blocked>>
         /\ Steps({"stopping", "undoing"}) => switch.waits # n
      \/ /\ Steps({"stopping", "undoing"}) /\ switch.waits = n
         /\ switch' = [switch EXCEPT !.waits = NoInstance]
         /\ UNCHANGED <<target, blocked>>
      \/ /\ Steps({"starting"})
         /\ switch' = [switch EXCEPT !.phase = "undoing", !.waits = NoInstance]
         /\ UNCHANGED <<target, blocked>>
      \/ /\ Steps({"restarting", "init"})
         /\ switch' = NoSwitch /\ target' = Null /\ blocked' = FALSE
  BY DEF HandleExit, EndSwitch, Steps
<1>c. switch' \in Switch
  <2>1. CASE switch' = switch
    BY <2>1 DEF IInv, SwitchTypeOK
  <2>2. CASE switch' = [switch EXCEPT !.waits = NoInstance]
    BY <2>2 DEF IInv, SwitchTypeOK, Switch, NoInstance
  <2>3. CASE switch' = [switch EXCEPT !.phase = "undoing", !.waits = NoInstance]
    BY <2>3 DEF IInv, SwitchTypeOK, Switch, NoInstance, Phase
  <2>4. CASE switch' = NoSwitch
    BY <2>4 DEF NoSwitch, Switch, NoInstance, Phase
  <2> QED  BY <1>b, <2>1, <2>2, <2>3, <2>4
<1>d. \/ /\ switch' = switch /\ UNCHANGED <<target, blocked>>
         /\ Steps({"stopping", "undoing"}) => switch.waits # n
      \/ /\ Steps({"stopping", "undoing"}) /\ switch.waits = n
         /\ switch'.phase = switch.phase /\ switch'.waits = NoInstance
         /\ UNCHANGED <<target, blocked>>
         /\ switch'.want = switch.want /\ switch'.previous = switch.previous
         /\ switch'.snapshot = switch.snapshot
      \/ /\ Steps({"starting"})
         /\ switch'.phase = "undoing" /\ switch'.waits = NoInstance
         /\ UNCHANGED <<target, blocked>>
         /\ switch'.want = switch.want /\ switch'.previous = switch.previous
         /\ switch'.snapshot = switch.snapshot
      \/ /\ Steps({"restarting", "init"}) /\ switch'.phase = "idle"
         /\ target' = Null /\ blocked' = FALSE
  <2>0. switch \in Switch
    BY DEF IInv, SwitchTypeOK
  <2>1. CASE switch' = switch /\ UNCHANGED <<target, blocked>>
             /\ (Steps({"stopping", "undoing"}) => switch.waits # n)
    BY <2>1
  <2>2. CASE /\ Steps({"stopping", "undoing"}) /\ switch.waits = n
             /\ switch' = [switch EXCEPT !.waits = NoInstance]
             /\ UNCHANGED <<target, blocked>>
    BY <2>0, <2>2 DEF Switch
  <2>3. CASE /\ Steps({"starting"})
             /\ switch' = [switch EXCEPT !.phase = "undoing",
                                          !.waits = NoInstance]
             /\ UNCHANGED <<target, blocked>>
    BY <2>0, <2>3 DEF Switch
  <2>4. CASE /\ Steps({"restarting", "init"})
             /\ switch' = NoSwitch /\ target' = Null /\ blocked' = FALSE
    BY <2>4 DEF NoSwitch
  <2> QED  BY <1>b, <2>1, <2>2, <2>3, <2>4
<1>1. SwitchTypeOK'
  <2>1. switch' \in Switch
    BY <1>a, <1>c, <1>d DEF IInv, SwitchTypeOK, Instance, Switch, Phase, NoSwitch,
      NoInstance, Steps, Phases
  <2>2. target' \in Target \cup {Null}
    BY <1>a, <1>c, <1>d DEF IInv, SwitchTypeOK, Instance, Target, Switch, Phases,
      Steps
  <2>3. child' \in Instance \cup {NoInstance}
    BY <1>a, <1>c, <1>d DEF IInv, SwitchTypeOK, Instance, NoInstance, Steps
  <2>4. exited' \subseteq Instance
    BY <1>a, <1>c, <1>d DEF IInv, SwitchTypeOK, Instance, Steps
  <2>5. url' \in Instance \cup {NoInstance}
    BY <1>a, <1>c, <1>d DEF IInv, SwitchTypeOK, Instance, NoInstance, Steps
  <2>6. blocked' \in BOOLEAN
    BY <1>d DEF IInv, SwitchTypeOK
  <2>7. blocked' => switch'.phase # "idle"
    BY <1>d DEF IInv, Phases, Steps
  <2> QED
    BY <1>a, <1>c, <1>d, <2>7, <2>1, <2>2, <2>3, <2>4, <2>5, <2>6 DEF IInv, SwitchTypeOK
<1>2. Numbered' /\ Down'
  BY <1>a, <1>c, <1>d DEF IInv, Numbered, Down, NoSwitch, SwitchTypeOK, Instance,
    NoInstance
<1>3. Phases' /\ Staged'
  BY <1>a, <1>c, <1>d DEF IInv, Phases, Staged, Steps, Down, NoSwitch,
    Target, Switch, SwitchTypeOK, Instance, NoInstance
<1>4. Served'
  BY <1>a, <1>c, <1>d DEF IInv, Served, Phases, Staged, Steps, Down,
    Numbered, NoSwitch, Target, Switch, SwitchTypeOK, Instance, NoInstance
<1>5. Closing' /\ Gone'
  BY <1>a, <1>c, <1>d DEF IInv, Closing, Gone, Steps, Phases, Down, Numbered,
    NoSwitch, Switch, SwitchTypeOK, Instance, NoInstance
<1>6. Known'
  BY <1>a, <1>c, <1>d DEF IInv, Known, NoneKilled, Closing, Gone, Steps,
    Phases, Down, Numbered, NoSwitch, Switch, SwitchTypeOK, Instance, NoInstance
<1>7. Early'
  BY <1>a, <1>c, <1>d DEF IInv, Early, Phases, Steps, NoOp, Op, SwitchTypeOK,
    Instance, NoInstance
<1> QED  BY <1>1, <1>2, <1>3, <1>4, <1>5, <1>6, <1>7 DEF IInv

LEMMA HandleReadyKeeps ==
  ASSUME BoundsAreNumbers, NEW n \in Instance, IInv, HandleReady(n)
  PROVE  IInv'
<1>a. /\ up /\ n \in announced /\ announced' = announced \ {n} /\ url' = n
      /\ UNCHANGED <<config, life, runs, exited, started, up, child, target,
                     blocked, ops, switchFaults>>
  BY DEF HandleReady
<1>b. \/ switch' = switch
      \/ /\ Steps({"starting"})
         /\ switch' = [switch EXCEPT !.phase = "verifying"]
      \/ /\ Steps({"restarting"})
         /\ switch' = [switch EXCEPT !.phase = "rechecking"]
      \/ /\ Steps({"init"})
         /\ switch' = [switch EXCEPT !.phase = "initVerifying"]
  BY DEF HandleReady, Starting, Steps
<1>1. SwitchTypeOK'
  <2>1. switch' \in Switch
    BY <1>a, <1>b DEF IInv, SwitchTypeOK, Instance, Switch, Phase, NoSwitch,
      NoInstance, Steps, Phases
  <2>2. announced' \subseteq Instance
    BY <1>a, <1>b DEF IInv, SwitchTypeOK, Instance, Steps
  <2>3. url' \in Instance \cup {NoInstance}
    BY <1>a, <1>b DEF IInv, SwitchTypeOK, Instance, NoInstance, Steps
  <2>4. blocked' \in BOOLEAN /\ (blocked' => switch'.phase # "idle")
    BY <1>a, <1>b DEF IInv, SwitchTypeOK, Instance, NoSwitch, Phases, Steps, Switch
  <2> QED
    BY <1>a, <1>b, <2>1, <2>2, <2>3, <2>4 DEF IInv, SwitchTypeOK
<1>2. Numbered' /\ Down'
  BY <1>a, <1>b DEF IInv, Numbered, Down, NoSwitch, SwitchTypeOK, Instance,
    NoInstance
<1>3. Phases' /\ Staged'
  BY <1>a, <1>b DEF IInv, Phases, Staged, Steps, Down, NoSwitch, Target,
    Switch, SwitchTypeOK, Instance, NoInstance
<1>4. Served'
  BY <1>a, <1>b DEF IInv, Served, Phases, Staged, Steps, Down, Numbered,
    NoSwitch, Target, Switch, SwitchTypeOK, Instance, NoInstance
<1>5. Closing' /\ Gone'
  BY <1>a, <1>b DEF IInv, Closing, Gone, Steps, Phases, Down, Numbered,
    NoSwitch, Switch, SwitchTypeOK, Instance, NoInstance
<1>6. Known'
  BY <1>a, <1>b DEF IInv, Known, NoneKilled, Closing, Gone, Steps, Phases,
    Down, Numbered, NoSwitch, Switch, SwitchTypeOK, Instance, NoInstance
<1>7. Early'
  BY <1>a, <1>b DEF IInv, Early, Phases, Steps, NoOp, Op, SwitchTypeOK, Instance,
    NoInstance
<1> QED  BY <1>1, <1>2, <1>3, <1>4, <1>5, <1>6, <1>7 DEF IInv

LEMMA StartTimeoutKeeps ==
  ASSUME BoundsAreNumbers, IInv, StartTimeout
  PROVE  IInv'
<1>a. /\ up /\ switchFaults' = switchFaults + 1 /\ switchFaults < MaxSwitchFaults
      /\ UNCHANGED <<config, runs, announced, exited, started, up, ops>>
  BY DEF StartTimeout, SwitchFault, Starting, IInv, Down, NoSwitch
<1>b. \/ /\ Steps({"starting"})
         /\ switch' = [switch EXCEPT !.phase = "undoing", !.waits = child]
         /\ url' = NoInstance /\ child' = NoInstance
         /\ life' = IF child = NoInstance THEN life
                    ELSE IF life[child] \in {"booting", "ready"}
                         THEN [life EXCEPT ![child] = "closing"] ELSE life
         /\ UNCHANGED <<target, blocked>>
      \/ /\ Steps({"restarting", "init"})
         /\ switch' = NoSwitch /\ target' = Null /\ blocked' = FALSE
         /\ UNCHANGED <<life, child, url>>
  BY DEF StartTimeout, Starting, StartFails, StopCompanion, Terminate,
         EndSwitch, Steps
<1>c. switch' \in Switch
  <2>1. CASE switch' = [switch EXCEPT !.phase = "undoing", !.waits = child]
    BY <2>1 DEF IInv, SwitchTypeOK, Switch, Phase
  <2>2. CASE switch' = NoSwitch
    BY <2>2 DEF NoSwitch, Switch, NoInstance, Phase
  <2> QED  BY <1>b, <2>1, <2>2
<1>d. \/ /\ Steps({"starting"})
         /\ switch'.phase = "undoing" /\ switch'.waits = child
         /\ switch'.want = switch.want /\ switch'.previous = switch.previous
         /\ switch'.snapshot = switch.snapshot
         /\ url' = NoInstance /\ child' = NoInstance
         /\ life' = IF child = NoInstance THEN life
                    ELSE IF life[child] \in {"booting", "ready"}
                         THEN [life EXCEPT ![child] = "closing"] ELSE life
         /\ UNCHANGED <<target, blocked>>
      \/ /\ Steps({"restarting", "init"}) /\ switch'.phase = "idle"
         /\ target' = Null /\ blocked' = FALSE
         /\ UNCHANGED <<life, child, url>>
  <2>0. switch \in Switch
    BY DEF IInv, SwitchTypeOK
  <2>1. CASE switch' = [switch EXCEPT !.phase = "undoing", !.waits = child]
    BY <1>b, <2>0, <2>1 DEF Switch, NoSwitch
  <2>2. CASE switch' = NoSwitch
    BY <1>b, <2>0, <2>2 DEF Switch, NoSwitch
  <2> QED  BY <1>b, <2>1, <2>2
<1>1. SwitchTypeOK'
  <2>1. switch' \in Switch
    BY <1>a, <1>c, <1>d DEF IInv, SwitchTypeOK, Instance, Switch, Phase, NoSwitch,
      NoInstance, Steps, Phases
  <2>2. life' \in [Instance -> Life]
    BY <1>a, <1>c, <1>d DEF IInv, SwitchTypeOK, Instance, Life, Steps
  <2>3. target' \in Target \cup {Null}
    BY <1>a, <1>c, <1>d DEF IInv, SwitchTypeOK, Instance, Target, Switch, Phases,
      Steps
  <2>4. child' \in Instance \cup {NoInstance}
    BY <1>a, <1>c, <1>d DEF IInv, SwitchTypeOK, Instance, NoInstance, Steps
  <2>5. url' \in Instance \cup {NoInstance}
    BY <1>a, <1>c, <1>d DEF IInv, SwitchTypeOK, Instance, NoInstance, Steps
  <2>6. switchFaults' \in 0 .. MaxSwitchFaults
    BY <1>a, <1>c, <1>d DEF IInv, SwitchTypeOK, Instance, Steps
  <2>7. blocked' \in BOOLEAN /\ (blocked' => switch'.phase # "idle")
    BY <1>a, <1>c, <1>d DEF IInv, SwitchTypeOK, Instance, NoSwitch, Phases, Steps,
      Switch
  <2> QED
    BY <1>a, <1>c, <1>d, <2>1, <2>2, <2>3, <2>4, <2>5, <2>6, <2>7 DEF IInv,
      SwitchTypeOK
<1>2. Numbered' /\ Down'
  BY <1>a, <1>c, <1>d DEF IInv, Numbered, Down, NoSwitch, SwitchTypeOK, Instance,
    NoInstance
<1>3. Phases' /\ Staged'
  BY <1>a, <1>c, <1>d DEF IInv, Phases, Staged, Steps, Down, NoSwitch,
    Target, Switch, SwitchTypeOK, Instance, NoInstance
<1>4. Served'
  BY <1>a, <1>c, <1>d DEF IInv, Served, Phases, Staged, Steps, Down,
    Numbered, NoSwitch, Target, Switch, SwitchTypeOK, Instance, NoInstance
<1>5. Closing' /\ Gone'
  BY <1>a, <1>c, <1>d DEF IInv, Closing, Gone, Steps, Phases, Down, Numbered,
    NoSwitch, Switch, SwitchTypeOK, Instance, NoInstance
<1>6. Known'
  <2> SUFFICES ASSUME NoneKilled'
               PROVE  /\ \A n \in Instance :
                           life'[n] \in {"booting", "ready"} => child' = n
                      /\ \A n \in exited :
                           \/ child' = n
                           \/ Steps({"stopping", "undoing"})' /\ switch'.waits = n
    BY <1>a DEF Known
  <2>1. NoneKilled
    BY <1>d DEF NoneKilled, IInv, SwitchTypeOK
  <2>2. /\ \A n \in Instance : life[n] \in {"booting", "ready"} => child = n
        /\ Steps({"starting", "restarting", "init"})
             => \A n \in exited : child = n
    BY <2>1 DEF IInv, Known, Steps
  <2>3. CASE Steps({"starting"})
    <3>1. \A n \in Instance : life'[n] \notin {"booting", "ready"}
      BY <1>d, <2>2, <2>3 DEF IInv, SwitchTypeOK, Instance, NoInstance, Steps
    <3> QED  BY <1>d, <2>2, <2>3, <3>1 DEF Steps
  <2>4. CASE Steps({"restarting", "init"})
    BY <1>d, <2>2, <2>4 DEF Steps
  <2> QED  BY <1>d, <2>3, <2>4
<1>7. Early'
  BY <1>a, <1>c, <1>d DEF IInv, Early, Phases, Steps, NoOp, Op, SwitchTypeOK,
    Instance, NoInstance
<1> QED  BY <1>1, <1>2, <1>3, <1>4, <1>5, <1>6, <1>7 DEF IInv

LEMMA KillTimerKeeps ==
  ASSUME BoundsAreNumbers, IInv, KillTimer
  PROVE  IInv'
<1>1. SwitchTypeOK'
  <2>1. life' \in [Instance -> Life]
    BY DEF IInv, SwitchTypeOK, Instance, Life, KillTimer, Continuing, SwitchFault,
      Dropped, OpsAt, plugin
  <2>2. exited' \subseteq Instance
    BY DEF IInv, SwitchTypeOK, Instance, NoInstance, Switch, KillTimer, Continuing,
      SwitchFault, Dropped,
      OpsAt, plugin
  <2>3. ops' \in [Request -> Op]
    BY DEF IInv, SwitchTypeOK, Instance, Op, NoOp, KillTimer, Continuing, SwitchFault,
      Dropped, OpsAt, plugin
  <2>4. switch' \in Switch
    BY DEF IInv, SwitchTypeOK, Instance, Switch, Phase, NoSwitch, NoInstance,
      Steps, Phases, KillTimer, Continuing, SwitchFault, Dropped, OpsAt, plugin
  <2>5. switchFaults' \in 0 .. MaxSwitchFaults
    BY DEF IInv, SwitchTypeOK, Instance, NoInstance, Switch, KillTimer, Continuing,
      SwitchFault, Dropped,
      OpsAt, plugin
  <2>6. blocked' \in BOOLEAN /\ (blocked' => switch'.phase # "idle")
    BY DEF IInv, SwitchTypeOK, Instance, NoSwitch, Phases, Steps, Switch,
      KillTimer, Continuing, SwitchFault, Dropped, OpsAt, plugin
  <2> QED
    BY <2>1, <2>2, <2>3, <2>4, <2>5, <2>6 DEF IInv, SwitchTypeOK, KillTimer,
      Continuing, SwitchFault, Dropped, OpsAt, plugin
<1>2. Numbered' /\ Down'
  BY DEF IInv, Numbered, Down, NoSwitch, SwitchTypeOK, Instance, NoInstance,
    KillTimer, Continuing, SwitchFault, Dropped, OpsAt, plugin
<1>3. Phases' /\ Staged'
  BY DEF IInv, Phases, Staged, Steps, Down, NoSwitch, Target, Switch, SwitchTypeOK,
    Instance, NoInstance, KillTimer, Continuing, SwitchFault, Dropped, OpsAt,
    plugin
<1>4. Served'
  BY DEF IInv, Served, Phases, Staged, Steps, Down, Numbered, NoSwitch,
    Target, Switch, SwitchTypeOK, Instance, NoInstance, KillTimer, Continuing,
    SwitchFault, Dropped, OpsAt, plugin
<1>5. Closing' /\ Gone'
  BY DEF IInv, Closing, Gone, Steps, Phases, Down, Numbered, NoSwitch,
    Switch, SwitchTypeOK, Instance, NoInstance, KillTimer, Continuing, SwitchFault,
    Dropped, OpsAt, plugin
<1>6. Known'
  BY DEF IInv, Known, NoneKilled, Closing, Gone, Steps, Phases, Down,
    Numbered, NoSwitch, Switch, SwitchTypeOK, Instance, NoInstance, KillTimer,
    Continuing, SwitchFault, Dropped, OpsAt, plugin
<1>7. Early'
  BY DEF IInv, Early, Phases, Steps, NoOp, Op, SwitchTypeOK, Instance, NoInstance,
    KillTimer, Continuing, SwitchFault, Dropped, OpsAt, plugin
<1> QED  BY <1>1, <1>2, <1>3, <1>4, <1>5, <1>6, <1>7 DEF IInv

LEMMA VerifyCandidateKeeps ==
  ASSUME BoundsAreNumbers, IInv, VerifyCandidate
  PROVE  IInv'
<1>1. SwitchTypeOK'
  <2>1. target' \in Target \cup {Null}
    BY DEF IInv, SwitchTypeOK, Instance, Target, Switch, Phases, Steps,
      VerifyCandidate, Verified, Verifies, EndSwitch, processes
  <2>2. switch' \in Switch
    BY DEF IInv, SwitchTypeOK, Instance, Switch, Phase, NoSwitch, NoInstance,
      Steps, Phases, VerifyCandidate, Verified, Verifies, EndSwitch,
      processes
  <2>3. blocked' \in BOOLEAN /\ (blocked' => switch'.phase # "idle")
    BY DEF IInv, SwitchTypeOK, Instance, NoSwitch, Phases, Steps, Switch,
      VerifyCandidate, Verified, Verifies, EndSwitch, processes
  <2> QED
    BY <2>1, <2>2, <2>3 DEF IInv, SwitchTypeOK, VerifyCandidate, Verified,
      Verifies, EndSwitch, processes
<1>2. Numbered' /\ Down'
  BY DEF IInv, Numbered, Down, NoSwitch, SwitchTypeOK, Instance, NoInstance,
    VerifyCandidate, Verified, Verifies, EndSwitch, processes
<1>3. Phases' /\ Staged'
  BY DEF IInv, Phases, Staged, Steps, Down, NoSwitch, Target, Switch, SwitchTypeOK,
    Instance, NoInstance, VerifyCandidate, Verified, Verifies, EndSwitch,
    processes
<1>4. Served'
  BY DEF IInv, Served, Phases, Staged, Steps, Down, Numbered, NoSwitch,
    Target, Switch, SwitchTypeOK, Instance, NoInstance, VerifyCandidate, Verified,
    Verifies, EndSwitch, processes
<1>5. Closing' /\ Gone'
  BY DEF IInv, Closing, Gone, Steps, Phases, Down, Numbered, NoSwitch,
    Switch, SwitchTypeOK, Instance, NoInstance, VerifyCandidate, Verified,
    Verifies, EndSwitch, processes
<1>6. Known'
  BY DEF IInv, Known, NoneKilled, Closing, Gone, Steps, Phases, Down,
    Numbered, NoSwitch, Switch, SwitchTypeOK, Instance, NoInstance,
    VerifyCandidate, Verified, Verifies, EndSwitch, processes
<1>7. Early'
  BY DEF IInv, Early, Phases, Steps, NoOp, Op, SwitchTypeOK, Instance, NoInstance,
    VerifyCandidate, Verified, Verifies, EndSwitch, processes
<1> QED  BY <1>1, <1>2, <1>3, <1>4, <1>5, <1>6, <1>7 DEF IInv

LEMMA CandidateMismatchKeeps ==
  ASSUME BoundsAreNumbers, IInv, CandidateMismatch
  PROVE  IInv'
<1>1. SwitchTypeOK'
  <2>1. life' \in [Instance -> Life]
    BY DEF IInv, SwitchTypeOK, Instance, Life, CandidateMismatch, NotVerified,
      Verifies, SwitchFault, StopCompanion, Terminate
  <2>2. child' \in Instance \cup {NoInstance}
    BY DEF IInv, SwitchTypeOK, Instance, NoInstance, CandidateMismatch,
      NotVerified, Verifies, SwitchFault, StopCompanion, Terminate
  <2>3. url' \in Instance \cup {NoInstance}
    BY DEF IInv, SwitchTypeOK, Instance, NoInstance, CandidateMismatch,
      NotVerified, Verifies, SwitchFault, StopCompanion, Terminate
  <2>4. switch' \in Switch
    BY DEF IInv, SwitchTypeOK, Instance, Switch, Phase, NoSwitch, NoInstance,
      Steps, Phases, CandidateMismatch, NotVerified, Verifies, SwitchFault,
      StopCompanion, Terminate
  <2>5. switchFaults' \in 0 .. MaxSwitchFaults
    BY DEF IInv, SwitchTypeOK, Instance, CandidateMismatch, NotVerified, Verifies,
      SwitchFault, StopCompanion, Terminate
  <2>6. blocked' \in BOOLEAN /\ (blocked' => switch'.phase # "idle")
    BY DEF IInv, SwitchTypeOK, Instance, NoSwitch, Phases, Steps, Switch,
      CandidateMismatch, NotVerified, Verifies, SwitchFault, StopCompanion,
      Terminate
  <2> QED
    BY <2>1, <2>2, <2>3, <2>4, <2>5, <2>6 DEF IInv, SwitchTypeOK,
      CandidateMismatch, NotVerified, Verifies, SwitchFault, StopCompanion,
      Terminate
<1>2. Numbered' /\ Down'
  BY DEF IInv, Numbered, Down, NoSwitch, SwitchTypeOK, Instance, NoInstance,
    CandidateMismatch, NotVerified, Verifies, SwitchFault, StopCompanion, Terminate
<1>3. Phases' /\ Staged'
  BY DEF IInv, Phases, Staged, Steps, Down, NoSwitch, Target, Switch, SwitchTypeOK,
    Instance, NoInstance, CandidateMismatch, NotVerified, Verifies, SwitchFault,
    StopCompanion, Terminate
<1>4. Served'
  BY DEF IInv, Served, Phases, Staged, Steps, Down, Numbered, NoSwitch,
    Target, Switch, SwitchTypeOK, Instance, NoInstance, CandidateMismatch,
    NotVerified, Verifies, SwitchFault, StopCompanion, Terminate
<1>5. Closing' /\ Gone'
  BY DEF IInv, Closing, Gone, Steps, Phases, Down, Numbered, NoSwitch,
    Switch, SwitchTypeOK, Instance, NoInstance, CandidateMismatch, NotVerified,
    Verifies, SwitchFault, StopCompanion, Terminate
<1>6. Known'
  BY DEF IInv, Known, NoneKilled, Closing, Gone, Steps, Phases, Down,
    Numbered, NoSwitch, Switch, SwitchTypeOK, Instance, NoInstance,
    CandidateMismatch, NotVerified, Verifies, SwitchFault, StopCompanion, Terminate
<1>7. Early'
  BY DEF IInv, Early, Phases, Steps, NoOp, Op, SwitchTypeOK, Instance, NoInstance,
    CandidateMismatch, NotVerified, Verifies, SwitchFault, StopCompanion, Terminate
<1> QED  BY <1>1, <1>2, <1>3, <1>4, <1>5, <1>6, <1>7 DEF IInv

LEMMA VerifyRestartedKeeps ==
  ASSUME BoundsAreNumbers, IInv, VerifyRestarted
  PROVE  IInv'
<1>1. SwitchTypeOK'
  <2>1. target' \in Target \cup {Null}
    BY DEF IInv, SwitchTypeOK, Instance, Target, Switch, Phases, Staged, Steps,
      VerifyRestarted, Verified, Verifies, EndSwitch, processes
  <2>2. switch' \in Switch
    BY DEF IInv, SwitchTypeOK, Instance, Switch, Phase, NoSwitch, NoInstance,
      Steps, Phases, VerifyRestarted, Verified, Verifies, EndSwitch,
      processes
  <2>3. blocked' \in BOOLEAN /\ (blocked' => switch'.phase # "idle")
    BY DEF IInv, SwitchTypeOK, Instance, NoSwitch, Phases, Steps, Switch,
      VerifyRestarted, Verified, Verifies, EndSwitch, processes
  <2> QED
    BY <2>1, <2>2, <2>3 DEF IInv, SwitchTypeOK, VerifyRestarted, Verified,
      Verifies, EndSwitch, processes
<1>2. Numbered' /\ Down'
  BY DEF IInv, Numbered, Down, NoSwitch, SwitchTypeOK, Instance, NoInstance,
    VerifyRestarted, Verified, Verifies, EndSwitch, processes
<1>3. Phases' /\ Staged'
  BY DEF IInv, Phases, Staged, Steps, Down, NoSwitch, Target, Switch, SwitchTypeOK,
    Instance, NoInstance, VerifyRestarted, Verified, Verifies, EndSwitch,
    processes
<1>4. Served'
  BY DEF IInv, Served, Phases, Staged, Steps, Down, Numbered, NoSwitch,
    Target, Switch, SwitchTypeOK, Instance, NoInstance, VerifyRestarted, Verified,
    Verifies, EndSwitch, processes
<1>5. Closing' /\ Gone'
  BY DEF IInv, Closing, Gone, Steps, Phases, Down, Numbered, NoSwitch,
    Switch, SwitchTypeOK, Instance, NoInstance, VerifyRestarted, Verified,
    Verifies, EndSwitch, processes
<1>6. Known'
  BY DEF IInv, Known, NoneKilled, Closing, Gone, Steps, Phases, Down,
    Numbered, NoSwitch, Switch, SwitchTypeOK, Instance, NoInstance,
    VerifyRestarted, Verified, Verifies, EndSwitch, processes
<1>7. Early'
  BY DEF IInv, Early, Phases, Steps, NoOp, Op, SwitchTypeOK, Instance, NoInstance,
    VerifyRestarted, Verified, Verifies, EndSwitch, processes
<1> QED  BY <1>1, <1>2, <1>3, <1>4, <1>5, <1>6, <1>7 DEF IInv

LEMMA RollbackMismatchKeeps ==
  ASSUME BoundsAreNumbers, IInv, RollbackMismatch
  PROVE  IInv'
<1>1. SwitchTypeOK'
  <2>1. target' \in Target \cup {Null}
    BY DEF IInv, SwitchTypeOK, Instance, Target, Switch, Phases, Steps,
      RollbackMismatch, NotVerified, Verifies, SwitchFault, EndSwitch, processes
  <2>2. switch' \in Switch
    BY DEF IInv, SwitchTypeOK, Instance, Switch, Phase, NoSwitch, NoInstance,
      Steps, Phases, RollbackMismatch, NotVerified, Verifies, SwitchFault,
      EndSwitch, processes
  <2>3. switchFaults' \in 0 .. MaxSwitchFaults
    BY DEF IInv, SwitchTypeOK, Instance, RollbackMismatch, NotVerified, Verifies,
      SwitchFault, EndSwitch, processes
  <2>4. blocked' \in BOOLEAN /\ (blocked' => switch'.phase # "idle")
    BY DEF IInv, SwitchTypeOK, Instance, NoSwitch, Phases, Steps, Switch,
      RollbackMismatch, NotVerified, Verifies, SwitchFault, EndSwitch, processes
  <2> QED
    BY <2>1, <2>2, <2>3, <2>4 DEF IInv, SwitchTypeOK, RollbackMismatch,
      NotVerified, Verifies, SwitchFault, EndSwitch, processes
<1>2. Numbered' /\ Down'
  BY DEF IInv, Numbered, Down, NoSwitch, SwitchTypeOK, Instance, NoInstance,
    RollbackMismatch, NotVerified, Verifies, SwitchFault, EndSwitch, processes
<1>3. Phases' /\ Staged'
  BY DEF IInv, Phases, Staged, Steps, Down, NoSwitch, Target, Switch, SwitchTypeOK,
    Instance, NoInstance, RollbackMismatch, NotVerified, Verifies, SwitchFault,
    EndSwitch, processes
<1>4. Served'
  BY DEF IInv, Served, Phases, Staged, Steps, Down, Numbered, NoSwitch,
    Target, Switch, SwitchTypeOK, Instance, NoInstance, RollbackMismatch,
    NotVerified, Verifies, SwitchFault, EndSwitch, processes
<1>5. Closing' /\ Gone'
  BY DEF IInv, Closing, Gone, Steps, Phases, Down, Numbered, NoSwitch,
    Switch, SwitchTypeOK, Instance, NoInstance, RollbackMismatch, NotVerified,
    Verifies, SwitchFault, EndSwitch, processes
<1>6. Known'
  BY DEF IInv, Known, NoneKilled, Closing, Gone, Steps, Phases, Down,
    Numbered, NoSwitch, Switch, SwitchTypeOK, Instance, NoInstance,
    RollbackMismatch, NotVerified, Verifies, SwitchFault, EndSwitch, processes
<1>7. Early'
  BY DEF IInv, Early, Phases, Steps, NoOp, Op, SwitchTypeOK, Instance, NoInstance,
    RollbackMismatch, NotVerified, Verifies, SwitchFault, EndSwitch, processes
<1> QED  BY <1>1, <1>2, <1>3, <1>4, <1>5, <1>6, <1>7 DEF IInv

LEMMA VerifyInitialKeeps ==
  ASSUME BoundsAreNumbers, IInv, VerifyInitial
  PROVE  IInv'
<1>1. SwitchTypeOK'
  <2>1. target' \in Target \cup {Null}
    BY DEF IInv, SwitchTypeOK, Instance, Target, Switch, Phases, Steps,
      VerifyInitial, Verified, Verifies, EndSwitch, processes
  <2>2. switch' \in Switch
    BY DEF IInv, SwitchTypeOK, Instance, Switch, Phase, NoSwitch, NoInstance,
      Steps, Phases, VerifyInitial, Verified, Verifies, EndSwitch, processes
  <2>3. blocked' \in BOOLEAN /\ (blocked' => switch'.phase # "idle")
    BY DEF IInv, SwitchTypeOK, Instance, NoSwitch, Phases, Steps, Switch,
      VerifyInitial, Verified, Verifies, EndSwitch, processes
  <2> QED
    BY <2>1, <2>2, <2>3 DEF IInv, SwitchTypeOK, VerifyInitial, Verified, Verifies,
      EndSwitch, processes
<1>2. Numbered' /\ Down'
  BY DEF IInv, Numbered, Down, NoSwitch, SwitchTypeOK, Instance, NoInstance,
    VerifyInitial, Verified, Verifies, EndSwitch, processes
<1>3. Phases' /\ Staged'
  BY DEF IInv, Phases, Staged, Steps, Down, NoSwitch, Target, Switch, SwitchTypeOK,
    Instance, NoInstance, VerifyInitial, Verified, Verifies, EndSwitch,
    processes
<1>4. Served'
  BY DEF IInv, Served, Phases, Staged, Steps, Down, Numbered, NoSwitch,
    Target, Switch, SwitchTypeOK, Instance, NoInstance, VerifyInitial, Verified,
    Verifies, EndSwitch, processes
<1>5. Closing' /\ Gone'
  BY DEF IInv, Closing, Gone, Steps, Phases, Down, Numbered, NoSwitch,
    Switch, SwitchTypeOK, Instance, NoInstance, VerifyInitial, Verified, Verifies,
    EndSwitch, processes
<1>6. Known'
  BY DEF IInv, Known, NoneKilled, Closing, Gone, Steps, Phases, Down,
    Numbered, NoSwitch, Switch, SwitchTypeOK, Instance, NoInstance, VerifyInitial,
    Verified, Verifies, EndSwitch, processes
<1>7. Early'
  BY DEF IInv, Early, Phases, Steps, NoOp, Op, SwitchTypeOK, Instance, NoInstance,
    VerifyInitial, Verified, Verifies, EndSwitch, processes
<1> QED  BY <1>1, <1>2, <1>3, <1>4, <1>5, <1>6, <1>7 DEF IInv

LEMMA StartWithoutTargetKeeps ==
  ASSUME BoundsAreNumbers, IInv, StartWithoutTarget
  PROVE  IInv'
<1>1. SwitchTypeOK'
  <2>1. target' \in Target \cup {Null}
    BY DEF IInv, SwitchTypeOK, Instance, Target, Switch, Phases, Steps,
      StartWithoutTarget, NotVerified, Verifies, SwitchFault, EndSwitch, processes
  <2>2. switch' \in Switch
    BY DEF IInv, SwitchTypeOK, Instance, Switch, Phase, NoSwitch, NoInstance,
      Steps, Phases, StartWithoutTarget, NotVerified, Verifies, SwitchFault,
      EndSwitch, processes
  <2>3. switchFaults' \in 0 .. MaxSwitchFaults
    BY DEF IInv, SwitchTypeOK, Instance, StartWithoutTarget, NotVerified, Verifies,
      SwitchFault, EndSwitch, processes
  <2>4. blocked' \in BOOLEAN /\ (blocked' => switch'.phase # "idle")
    BY DEF IInv, SwitchTypeOK, Instance, NoSwitch, Phases, Steps, Switch,
      StartWithoutTarget, NotVerified, Verifies, SwitchFault, EndSwitch, processes
  <2> QED
    BY <2>1, <2>2, <2>3, <2>4 DEF IInv, SwitchTypeOK, StartWithoutTarget,
      NotVerified, Verifies, SwitchFault, EndSwitch, processes
<1>2. Numbered' /\ Down'
  BY DEF IInv, Numbered, Down, NoSwitch, SwitchTypeOK, Instance, NoInstance,
    StartWithoutTarget, NotVerified, Verifies, SwitchFault, EndSwitch, processes
<1>3. Phases' /\ Staged'
  BY DEF IInv, Phases, Staged, Steps, Down, NoSwitch, Target, Switch, SwitchTypeOK,
    Instance, NoInstance, StartWithoutTarget, NotVerified, Verifies, SwitchFault,
    EndSwitch, processes
<1>4. Served'
  BY DEF IInv, Served, Phases, Staged, Steps, Down, Numbered, NoSwitch,
    Target, Switch, SwitchTypeOK, Instance, NoInstance, StartWithoutTarget,
    NotVerified, Verifies, SwitchFault, EndSwitch, processes
<1>5. Closing' /\ Gone'
  BY DEF IInv, Closing, Gone, Steps, Phases, Down, Numbered, NoSwitch,
    Switch, SwitchTypeOK, Instance, NoInstance, StartWithoutTarget, NotVerified,
    Verifies, SwitchFault, EndSwitch, processes
<1>6. Known'
  BY DEF IInv, Known, NoneKilled, Closing, Gone, Steps, Phases, Down,
    Numbered, NoSwitch, Switch, SwitchTypeOK, Instance, NoInstance,
    StartWithoutTarget, NotVerified, Verifies, SwitchFault, EndSwitch, processes
<1>7. Early'
  BY DEF IInv, Early, Phases, Steps, NoOp, Op, SwitchTypeOK, Instance, NoInstance,
    StartWithoutTarget, NotVerified, Verifies, SwitchFault, EndSwitch, processes
<1> QED  BY <1>1, <1>2, <1>3, <1>4, <1>5, <1>6, <1>7 DEF IInv

LEMMA StartPluginKeeps ==
  ASSUME BoundsAreNumbers, IInv, StartPlugin
  PROVE  IInv'
<1>a. started' = started + 1 /\ started' \in Instance /\ child' = started'
  BY DEF IInv, SwitchTypeOK, Instance, StartPlugin, Spawn
<1>1. SwitchTypeOK'
  <2>1. life' \in [Instance -> Life]
    BY DEF IInv, SwitchTypeOK, Instance, Life, StartPlugin, Spawn
  <2>2. started' \in 0 .. MaxInstances
    BY DEF IInv, SwitchTypeOK, Instance, StartPlugin, Spawn
  <2>3. child' \in Instance \cup {NoInstance}
    BY DEF IInv, SwitchTypeOK, Instance, NoInstance, StartPlugin, Spawn
  <2>4. switch' \in Switch
    BY <1>a DEF IInv, SwitchTypeOK, Instance, Switch, Phase, NoSwitch, NoInstance,
      Steps, Phases, StartPlugin, Spawn
  <2>5. blocked' \in BOOLEAN /\ (blocked' => switch'.phase # "idle")
    BY DEF IInv, SwitchTypeOK, Instance, NoSwitch, Phases, Steps, Switch,
      StartPlugin, Spawn
  <2> QED
    BY <2>1, <2>2, <2>3, <2>4, <2>5 DEF IInv, SwitchTypeOK, StartPlugin, Spawn
<1>2. Numbered' /\ Down'
  BY DEF IInv, Numbered, Down, NoSwitch, SwitchTypeOK, Instance, NoInstance,
    StartPlugin, Spawn
<1>3. Phases' /\ Staged'
  BY DEF IInv, Phases, Staged, Steps, Down, NoSwitch, Target, Switch, SwitchTypeOK,
    Instance, NoInstance, StartPlugin, Spawn
<1>4. Served'
  BY DEF IInv, Served, Phases, Staged, Steps, Down, Numbered, NoSwitch,
    Target, Switch, SwitchTypeOK, Instance, NoInstance, StartPlugin, Spawn
<1>5. Closing' /\ Gone'
  BY DEF IInv, Closing, Gone, Steps, Phases, Down, Numbered, NoSwitch,
    Switch, SwitchTypeOK, Instance, NoInstance, StartPlugin, Spawn
<1>6. Known'
  BY DEF IInv, Known, NoneKilled, Closing, Gone, Steps, Phases, Down,
    Numbered, NoSwitch, Switch, SwitchTypeOK, Instance, NoInstance, StartPlugin,
    Spawn
<1>7. Early'
  BY DEF IInv, Early, Phases, Steps, NoOp, Op, SwitchTypeOK, Instance, NoInstance,
    StartPlugin, Spawn
<1> QED  BY <1>1, <1>2, <1>3, <1>4, <1>5, <1>6, <1>7 DEF IInv

LEMMA PluginDiesKeeps ==
  ASSUME BoundsAreNumbers, IInv, PluginDies
  PROVE  IInv'
<1>1. SwitchTypeOK'
  <2>1. child' \in Instance \cup {NoInstance}
    BY DEF IInv, SwitchTypeOK, Instance, NoInstance, PluginDies, SwitchFault
  <2>2. url' \in Instance \cup {NoInstance}
    BY DEF IInv, SwitchTypeOK, Instance, NoInstance, PluginDies, SwitchFault
  <2>3. target' \in Target \cup {Null}
    BY DEF IInv, SwitchTypeOK, Instance, Target, Switch, Phases, Steps, PluginDies,
      SwitchFault
  <2>4. switch' \in Switch
    BY DEF IInv, SwitchTypeOK, Instance, Switch, Phase, NoSwitch, NoInstance,
      Steps, Phases, PluginDies, SwitchFault
  <2>5. ops' \in [Request -> Op]
    BY DEF IInv, SwitchTypeOK, Instance, Op, NoOp, PluginDies, SwitchFault
  <2>6. exited' \subseteq Instance
    BY DEF IInv, SwitchTypeOK, Instance, PluginDies, SwitchFault
  <2>7. announced' \subseteq Instance
    BY DEF IInv, SwitchTypeOK, Instance, PluginDies, SwitchFault
  <2>8. life' \in [Instance -> Life]
    BY DEF IInv, SwitchTypeOK, Instance, Life, PluginDies, SwitchFault
  <2>9. switchFaults' \in 0 .. MaxSwitchFaults
    BY DEF IInv, SwitchTypeOK, Instance, PluginDies, SwitchFault
  <2>10. blocked' \in BOOLEAN /\ (blocked' => switch'.phase # "idle")
    BY DEF IInv, SwitchTypeOK, Instance, NoSwitch, Phases, Steps, Switch,
      PluginDies, SwitchFault
  <2> QED
    BY <2>1, <2>2, <2>3, <2>4, <2>5, <2>6, <2>7, <2>8, <2>9, <2>10 DEF IInv,
      SwitchTypeOK, PluginDies, SwitchFault
<1>2. Numbered' /\ Down'
  BY DEF IInv, Numbered, Down, NoSwitch, SwitchTypeOK, Instance, NoInstance,
    PluginDies, SwitchFault
<1>3. Phases' /\ Staged'
  BY DEF IInv, Phases, Staged, Steps, Down, NoSwitch, Target, Switch, SwitchTypeOK,
    Instance, NoInstance, PluginDies, SwitchFault
<1>4. Served'
  BY DEF IInv, Served, Phases, Staged, Steps, Down, Numbered, NoSwitch,
    Target, Switch, SwitchTypeOK, Instance, NoInstance, PluginDies, SwitchFault
<1>5. Closing' /\ Gone'
  BY DEF IInv, Closing, Gone, Steps, Phases, Down, Numbered, NoSwitch,
    Switch, SwitchTypeOK, Instance, NoInstance, PluginDies, SwitchFault
<1>6. Known'
  BY DEF IInv, Known, NoneKilled, Closing, Gone, Steps, Phases, Down,
    Numbered, NoSwitch, Switch, SwitchTypeOK, Instance, NoInstance, PluginDies,
    SwitchFault
<1>7. Early'
  BY DEF IInv, Early, Phases, Steps, NoOp, Op, SwitchTypeOK, Instance, NoInstance,
    PluginDies, SwitchFault
<1> QED  BY <1>1, <1>2, <1>3, <1>4, <1>5, <1>6, <1>7 DEF IInv

-----------------------------------------------------------------------------

LEMMA InitEstablishes ==
  ASSUME BoundsAreNumbers, SwitchInit
  PROVE  IInv
<1>1. NoSwitch \in Switch /\ NoOp \in Op
  BY DEF NoSwitch, Switch, Phase, NoOp, Op, NoInstance
<1>2. SwitchTypeOK
  <2>1. /\ life \in [Instance -> Life] /\ runs \in [Instance -> Profile \cup {Null}]
        /\ ops \in [Request -> Op] /\ switch \in Switch
    BY <1>1 DEF SwitchInit, Life
  <2>2. /\ started \in 0 .. MaxInstances /\ switchFaults \in 0 .. MaxSwitchFaults
        /\ child \in Instance \cup {NoInstance} /\ url \in Instance \cup {NoInstance}
    BY DEF SwitchInit, NoInstance
  <2> QED  BY <2>1, <2>2 DEF SwitchInit, SwitchTypeOK
<1>3. Numbered /\ Down /\ Closing /\ Gone /\ Known /\ Early
  BY DEF SwitchInit, Numbered, Down, Closing, Gone, Known, Early
<1>4. Phases /\ Staged /\ Served
  BY DEF SwitchInit, Phases, Staged, Served, Steps, NoSwitch
<1> QED  BY <1>2, <1>3, <1>4 DEF IInv

LEMMA StutterKeeps ==
  ASSUME IInv, UNCHANGED switchVars
  PROVE  IInv'
BY DEF switchVars, processes, plugin, IInv, SwitchTypeOK, Numbered, Down, Phases, Staged,
       Served, Closing, Gone, NoneKilled, Known, Early, Steps

LEMMA NextKeeps ==
  ASSUME BoundsAreNumbers, IInv, [SwitchNext]_switchVars
  PROVE  IInv'
<1>1. CASE \E p \in Profile : ActivateProfile(p)
  BY <1>1, ActivateKeeps
<1>2. CASE SwitchStep
  BY <1>2, AnswerHealthKeeps, RefuseBusyKeeps, StageAndStopKeeps,
     StagingFailsKeeps, StartCandidateKeeps, RestartPreviousKeeps,
     NothingToRestartKeeps, RestoreFailsKeeps, KillTimerKeeps,
     StartTimeoutKeeps, VerifyCandidateKeeps, CandidateMismatchKeeps,
     VerifyRestartedKeeps, RollbackMismatchKeeps, VerifyInitialKeeps,
     StartWithoutTargetKeeps
     DEF SwitchStep
<1>3. CASE \E n \in Instance : ChildEvent(n) \/ ChildCrash(n)
  BY <1>3, CloseKeeps, BecomeReadyKeeps, HandleExitKeeps, HandleReadyKeeps,
     CrashKeeps
     DEF ChildEvent
<1>4. CASE \E r \in Request : Resolve(r) \/ Arrive(r) \/ Finish(r)
  BY <1>4, ResolveKeeps, ArriveKeeps, FinishKeeps
<1>5. CASE StartPlugin \/ PluginDies
  BY <1>5, StartPluginKeeps, PluginDiesKeeps
<1>6. CASE UNCHANGED switchVars
  BY <1>6, StutterKeeps
<1> QED  BY <1>1, <1>2, <1>3, <1>4, <1>5, <1>6 DEF SwitchNext

LEMMA Invariance == ASSUME BoundsAreNumbers PROVE SwitchSpec => []IInv
<1>1. SwitchInit => IInv
  BY InitEstablishes
<1>2. IInv /\ [SwitchNext]_switchVars => IInv'
  BY NextKeeps
<1> QED  BY <1>1, <1>2, PTL DEF SwitchSpec

(* The names that the plugin holds are runtimes and profiles in every      *)
(* phase of a switch (companion-supervisor.js).                            *)
THEOREM TypeCorrect == ASSUME BoundsAreNumbers PROVE SwitchSpec => []SwitchTypeOK
<1>1. IInv => SwitchTypeOK
  BY DEF IInv
<1> QED  BY <1>1, Invariance, PTL

(* Whatever the profiles that are switched to, the starts that fail, the   *)
(* answers that get lost and the processes that die, a request is routed   *)
(* only to a runtime of the configured profile that was never told to stop,*)
(* and as long as none had to be killed no runtime runs that the next stop *)
(* would not reach (activate and rollback of companion-supervisor.js with  *)
(* stopCompanion and the exit handler of the plugin).                      *)
THEOREM OnlyKnownRuntimes ==
  ASSUME BoundsAreNumbers PROVE SwitchSpec => []RuntimesAreKnown
<1>1. ASSUME IInv PROVE RoutedIsConfigured
  <2> SUFFICES ASSUME Routed # Null
               PROVE  /\ config = Routed.profile
                      /\ life[Routed.instance] \in {"ready", "crashed"}
                      /\ runs[Routed.instance] = Routed.profile
    BY DEF RoutedIsConfigured
  <2>1. ~ blocked /\ Routed = target /\ target # Null
    BY DEF Routed
  <2>2. Steps({"idle"})
    BY <1>1, <2>1 DEF IInv, Phases, Steps, SwitchTypeOK, Switch, Phase
  <2> QED  BY <1>1, <2>1, <2>2 DEF IInv, Served, Steps
<1>2. ASSUME IInv PROVE NoStrayRuntime
  BY <1>2 DEF IInv, Known, NoneKilled, NoStrayRuntime
<1>3. IInv => RuntimesAreKnown
  BY <1>1, <1>2 DEF RuntimesAreKnown
<1> QED  BY <1>3, Invariance, PTL

(* A step that kills a runtime which was told to stop is the one after five*)
(* seconds, it kills the runtime that the switch waits for, and what that  *)
(* runtime was serving had taken its target before the switch began        *)
(* (routingBlocked of companion-supervisor.js, startCompanion's stop).     *)
THEOREM CutsOnlyEarlier ==
  ASSUME BoundsAreNumbers PROVE SwitchSpec => OnlyEarlierRequestsAreCut
<1>1. ASSUME IInv, NEW n \in Instance, life[n] = "closing",
             NEW r \in OpsAt(n)
      PROVE  ops[r].earlier
  <2>1. blocked
    BY <1>1 DEF IInv, Closing, Phases, Steps
  <2>2. r \in Request /\ ops[r].phase # "idle"
    BY <1>1 DEF OpsAt
  <2> QED  BY <1>1, <2>1, <2>2 DEF IInv, Early
<1>2. IInv => \A n \in Instance :
                life[n] = "closing" /\ life'[n] = "killed"
                  => \A r \in OpsAt(n) : ops[r].earlier
  BY <1>1
<1> QED  BY <1>2, Invariance, PTL DEF OnlyEarlierRequestsAreCut
-----------------------------------------------------------------------------

(* The generation                                                          *)

RunName == Generation \cup {None}

HostLease ==
  [by : Generation, run : RunName, marker : RunName,
   original : {"own", "other"}, overlay : BOOLEAN,
   seal : {0, 1, None}, scan : RunName]

(* null is neither a lease nor the fate of a request.                      *)
NoneIsNothing == None \notin HostLease /\ None # "bound"

PageFields ==
  {"run", "marker", "bound", "context", "inputs", "grants", "isolation",
   "fence", "blocked", "stamp", "abort", "lease", "frames", "base",
   "checking", "pending", "settings", "slots", "sources"}

ViewFields == {"run", "lease", "context", "sources", "data"}

(* A record whose large window belongs to a lease that remembers settings  *)
(* of the host's own.                                                      *)
Sound(p) ==
  /\ DOMAIN p = PageFields
  /\ p.run \in RunName /\ p.marker \in RunName
  /\ p.sources \in {0, 1}
  /\ p.settings \in {"own", "other", "overlay"}
  /\ p.lease \in HostLease \cup {None}
  /\ p.settings = "overlay" => p.lease # None /\ p.lease.overlay = TRUE

Shapes ==
  /\ DOMAIN at = Generation /\ DOMAIN prompt = Generation
  /\ DOMAIN how = Generation /\ DOMAIN view = Generation
  /\ \A g \in Generation : DOMAIN view[g] = ViewFields

(* From the moment at which the trace is made until the request has left   *)
(* the closure holds what this very prompt was assembled for.              *)
Carried(g) ==
  /\ view[g].run = prompt[g]
  /\ "source" \notin view[g].data

LeavingInv(g) ==
  /\ at[g] = "merging" => Carried(g)
  /\ how[g] = "bound" => at[g] = "closing" /\ Carried(g)

GenerationIInv == Sound(page) /\ Shapes /\ \A g \in Sends : LeavingInv(g)

USE SortsAssumption DEF NoneIsNothing

-----------------------------------------------------------------------------
(* The operators on the record.                                            *)

LEMMA SettledSound ==
  ASSUME NEW p, Sound(p)
  PROVE  /\ Sound(Settled(p))
         /\ Settled(p).lease = None /\ Settled(p).settings # "overlay"
  BY DEF Sound, Settled, Expected, HostLease, PageFields

LEMMA NoSlotsSound ==
  ASSUME NEW p, Sound(p)
  PROVE  /\ Sound(NoFrames(p)) /\ Sound(NoSlots(p))
         /\ NoSlots(p).lease = p.lease /\ NoSlots(p).settings = p.settings
  BY DEF Sound, NoSlots, NoFrames, PageFields

LEMMA ClearedSound ==
  ASSUME NEW p, Sound(p)
  PROVE  /\ Sound(Cleared(p)) /\ Cleared(p).lease = None
         /\ Cleared(p).settings # "overlay"
<1> DEFINE s == NoSlots(Settled(p))
<1>1. Sound(s) /\ s.lease = None /\ s.settings # "overlay"
  BY SettledSound, NoSlotsSound
<1> HIDE DEF s
<1>2. Cleared(p) =
        [s EXCEPT !.context = None, !.inputs = None, !.grants = FALSE,
           !.isolation = None, !.fence = None,
           !.marker = None, !.bound = FALSE, !.stamp = FALSE]
  BY DEF Cleared, s
<1>3. QED
  BY <1>1, <1>2 DEF Sound, PageFields, RunName

LEMMA EndsSound ==
  ASSUME NEW p, Sound(p)
  PROVE  /\ Sound(Stamped(p)) /\ Sound(DroppedRun(p)) /\ Sound(Finished(p))
  BY ClearedSound DEF Sound, Stamped, DroppedRun, Finished, PageFields, RunName

LEMMA FrameBlockedSound ==
  ASSUME NEW p, NEW v, Sound(p)
  PROVE  Sound(FrameBlocked(p, v))
  BY SettledSound DEF Sound, FrameBlocked, PageFields

LEMMA OverlaidSound ==
  ASSUME NoneIsNothing, NEW p, Sound(p), p.lease # None
  PROVE  /\ Sound(Overlaid(p)) /\ Overlaid(p).lease # None
         /\ Overlaid(p).sources = p.sources
         /\ Overlaid(p).lease \in HostLease
<1>1. [p.lease EXCEPT !.overlay = TRUE] \in HostLease
  BY DEF Sound, HostLease
<1>2. [p.lease EXCEPT !.overlay = TRUE].overlay = TRUE
  BY DEF Sound, HostLease
<1>3. Overlaid(p).lease = [p.lease EXCEPT !.overlay = TRUE]
  BY DEF Overlaid, Sound, PageFields
<1>4. QED
  BY <1>1, <1>2, <1>3 DEF Sound, Overlaid, PageFields

LEMMA FramesSound ==
  ASSUME NEW p, NEW d, Sound(p)
  PROVE  /\ Sound(FrameBegun(p, d)) /\ Sound(FrameSettled(p, d))
         /\ Sound(FramesSettled(p)) /\ Sound(DryCompleted(p, d))
  BY NoSlotsSound DEF Sound, FrameBegun, FrameSettled, FramesSettled, DryCompleted,
     NoFrames, NoSlots, PageFields, RunName

-----------------------------------------------------------------------------
(* The record stays sound.                                                 *)

LEMMA EntersSound ==
  ASSUME NEW g \in Generation, Sound(page),
         \/ \E permitted : SendEnters(g, permitted)
         \/ DryEnters(g, page)
         \/ Begins(g, page)
  PROVE  Sound(page')
<1>1. Sound([page EXCEPT !.abort = FALSE])
  BY DEF Sound, PageFields
<1>2. ASSUME Begins(g, page)  PROVE Sound(page')
  <2>1. CASE page.marker # None
    BY <1>1, <1>2, <2>1, EndsSound DEF Begins, Goes
  <2>2. CASE page.marker = None
    <3>1. page' = [Cleared(page) EXCEPT !.abort = FALSE, !.run = g, !.marker = g,
                                        !.blocked = FALSE]
      BY <1>2, <2>2 DEF Begins, Goes
    <3>2. QED
      BY <3>1, ClearedSound DEF Sound, PageFields, RunName
  <2>3. QED
    BY <2>1, <2>2
<1>3. ASSUME NEW permitted, SendEnters(g, permitted)  PROVE Sound(page')
  BY <1>2, <1>3, EndsSound DEF SendEnters, Goes
<1>4. ASSUME DryEnters(g, page)  PROVE Sound(page')
  <2>1. Sound([Cleared(page) EXCEPT !.run = None])
    BY ClearedSound DEF Sound, PageFields, RunName
  <2>2. QED
    BY <1>4, <2>1, FramesSound DEF DryEnters, Goes
<1>5. QED
  BY <1>2, <1>3, <1>4

LEMMA CheckSound ==
  ASSUME NEW g \in Generation, Sound(page), DryCheck(g)
  PROVE  Sound(page')
  BY DEF DryCheck, Goes, Sound, PageFields

LEMMA HealthSound ==
  ASSUME NEW g \in Generation, Sound(page), Health(g)
  PROVE  Sound(page')
<1>1. PICK ok \in BOOLEAN : Health(g)!(ok)
  BY DEF Health
<1>2. CASE page' = Leased(g) /\ page.settings # "overlay"
  <2>1. [by |-> g, run |-> page.run, marker |-> page.marker,
         original |-> page.settings, overlay |-> FALSE,
         seal |-> None, scan |-> None] \in HostLease
    BY <1>2 DEF Sound, HostLease, RunName
  <2>2. QED
    BY <1>2, <2>1 DEF Leased, Sound, PageFields
<1>3. CASE page' = DroppedRun(page)
  BY <1>3, EndsSound
<1>4. QED
  BY <1>1, <1>2, <1>3 DEF Goes

LEMMA ContextSound ==
  ASSUME NEW g \in Generation, Sound(page), Context(g)
  PROVE  Sound(page')
<1>1. Sound(Loaded(g))
  BY DEF Loaded, Sound, PageFields
<1>2. page' \in {DroppedRun(page), Loaded(g), DroppedRun(Loaded(g))}
  BY DEF Context, Goes
<1>3. QED
  BY <1>1, <1>2, EndsSound

LEMMA BaseSound ==
  ASSUME NoneIsNothing, NEW g \in Generation, Sound(page), Base(g)
  PROVE  Sound(page')
<1>1. \/ page' = page \/ page' = DroppedRun(page)
      \/ /\ FrameIsCurrent(page, view[g]) /\ page.sources = view[g].sources
         /\ page' = [Overlaid(page) EXCEPT !.lease.seal = view[g].sources]
  BY DEF Base, Goes
<1>2. CASE /\ FrameIsCurrent(page, view[g]) /\ page.sources = view[g].sources
           /\ page' = [Overlaid(page) EXCEPT !.lease.seal = view[g].sources]
  <2> DEFINE o == Overlaid(page)
  <2>1. /\ Sound(o) /\ o.lease # None /\ o.lease \in HostLease
        /\ view[g].sources \in {0, 1}
    BY <1>2, OverlaidSound DEF FrameIsCurrent, Sound
  <2> HIDE DEF o
  <2>2. /\ [o.lease EXCEPT !.seal = view[g].sources] \in HostLease
        /\ [o.lease EXCEPT !.seal = view[g].sources].overlay = o.lease.overlay
    BY <2>1 DEF HostLease
  <2>3. page' = [o EXCEPT !.lease = [o.lease EXCEPT !.seal = view[g].sources]]
    BY <1>2 DEF o
  <2>4. QED
    BY <2>1, <2>2, <2>3 DEF Sound, PageFields
<1>3. QED
  BY <1>1, <1>2, EndsSound

LEMMA ScanSound ==
  ASSUME NoneIsNothing, NEW g \in Generation, Sound(page), Scan(g)
  PROVE  Sound(page')
<1>1. \/ page' = page \/ page' = FrameBlocked(page, Seen(g, page))
      \/ /\ FrameIsCurrent(page, Seen(g, page))
         /\ page' = [page EXCEPT !.lease.scan = g]
  BY DEF Scan, Goes
<1>2. CASE /\ FrameIsCurrent(page, Seen(g, page))
           /\ page' = [page EXCEPT !.lease.scan = g]
  <2>1. page.lease \in HostLease
    BY <1>2 DEF FrameIsCurrent, Sound
  <2>2. /\ [page.lease EXCEPT !.scan = g] \in HostLease
        /\ [page.lease EXCEPT !.scan = g].overlay = page.lease.overlay
    BY <2>1 DEF HostLease, RunName
  <2>3. page' = [page EXCEPT !.lease = [page.lease EXCEPT !.scan = g]]
    BY <1>2
  <2>4. QED
    BY <2>2, <2>3 DEF Sound, PageFields
<1>3. QED
  BY <1>1, <1>2, FrameBlockedSound

LEMMA ReleasedSound ==
  ASSUME NoneIsNothing, NEW p, NEW g \in Generation, Sound(p)
  PROVE  Sound(Released(p, g))
<1>1. CASE p.lease # None /\ p.lease.scan = g
  <2>1. /\ [p.lease EXCEPT !.scan = None] \in HostLease
        /\ [p.lease EXCEPT !.scan = None].overlay = p.lease.overlay
    BY <1>1 DEF Sound, HostLease, RunName
  <2>2. Released(p, g) = [p EXCEPT !.lease = [p.lease EXCEPT !.scan = None]]
    BY <1>1 DEF Released
  <2> DEFINE l == [p.lease EXCEPT !.scan = None]
  <2> HIDE DEF l
  <2>3. l \in HostLease /\ l # None /\ l.overlay = p.lease.overlay
    BY <2>1 DEF l
  <2>4. Sound([p EXCEPT !.lease = l])
    BY <2>3 DEF Sound, PageFields
  <2>5. QED
    BY <2>2, <2>4 DEF l
<1>2. CASE ~ (p.lease # None /\ p.lease.scan = g)
  BY <1>2 DEF Released
<1>3. QED
  BY <1>1, <1>2

LEMMA MeasuringSound ==
  ASSUME NoneIsNothing, NEW g \in Generation, Sound(page), Measuring(g)
  PROVE  Sound(page')
<1>1. \/ page' = Released(page, g) \/ page' = FrameBlocked(page, view[g])
      \/ /\ FrameIsCurrent(page, view[g])
         /\ page' = Released(Overlaid(page), g)
  BY DEF Measuring, Goes
<1>2. FrameIsCurrent(page, view[g]) => Sound(Overlaid(page))
  BY OverlaidSound DEF FrameIsCurrent
<1>3. QED
  BY <1>1, <1>2, ReleasedSound, FrameBlockedSound

LEMMA PromptSound ==
  ASSUME NEW g \in Generation, Sound(page), PromptReady(g)
  PROVE  Sound(page')
<1> DEFINE r == page.marker
           p == IF prompt[g] = r THEN FramesSettled(page) ELSE page
<1>1. Sound(p) /\ Sound(PromptBlocked(p))
  BY FramesSound DEF PromptBlocked, Sound, PageFields
<1>2. \/ page' = page \/ page' = FrameSettled(page, prompt[g][1])
      \/ page' = p \/ page' = Settled(p)
      \/ page' = Ready(g, r, Settled(PromptBlocked(p)))
  BY DEF PromptReady, Goes
<1> HIDE DEF r, p
<1>3. QED
  BY <1>1, <1>2, SettledSound, FramesSound DEF Ready

LEMMA GrantingSound ==
  ASSUME NEW g \in Generation, Sound(page), Granting(g)
  PROVE  Sound(page')
<1>1. PICK ok \in BOOLEAN, sources \in {{"source"}, {"fence"}} :
        Granting(g)!(ok, sources)
  BY DEF Granting
<1> DEFINE v == view[g]
           p == [page EXCEPT !.inputs = v.run, !.bound = TRUE,
                             !.grants = ("source" \in sources)]
<1>2. Sound(p) /\ Sound(PromptFailed(p)) /\ Sound(PromptFailed(page))
  BY DEF PromptFailed, PromptBlocked, Sound, PageFields
<1>3. \/ page' = Ready(g, v.run, page) \/ page' = Ready(g, v.run, p)
      \/ page' = Ready(g, v.run, PromptFailed(page))
      \/ page' = PromptFailed(p) \/ page' = p
  BY <1>1 DEF Goes
<1> HIDE DEF v, p
<1>4. QED
  BY <1>2, <1>3, FramesSound DEF Ready

LEMMA FencingSound ==
  ASSUME NEW g \in Generation, Sound(page), Fencing(g)
  PROVE  Sound(page')
<1>1. PICK ok \in BOOLEAN : Fencing(g)!(ok)
  BY DEF Fencing
<1>2. CASE ok
  BY <1>1, <1>2 DEF Goes, Sound, PageFields
<1>3. CASE ~ ok
  BY <1>1, <1>3 DEF Goes, PromptFailed, PromptBlocked, Sound, PageFields
<1>4. QED
  BY <1>2, <1>3

LEMMA SettingsSound ==
  ASSUME NEW g \in Generation, Sound(page), SettingsReady(g) \/ Merging(g)
  PROVE  Sound(page')
<1>1. \A x : /\ Sound([page EXCEPT !.stamp = FALSE])
             /\ Sound([page EXCEPT !.blocked = TRUE])
             /\ Sound([page EXCEPT !.inputs = x])
  BY DEF Sound, PageFields
<1>2. ASSUME NEW p, Sound(p)
      PROVE  Sound(NoLeases(p)) /\ Sound(NoLeases([p EXCEPT !.blocked = TRUE]))
  BY <1>2 DEF NoLeases, Sound, PageFields
<1>3. CASE SettingsReady(g)
  <2> DEFINE p == [page EXCEPT !.stamp = FALSE]
  <2>1. page' = p \/ page' = NoLeases([p EXCEPT !.blocked = TRUE])
    BY <1>3 DEF SettingsReady, Refused, Goes
  <2> HIDE DEF p
  <2>2. QED
    BY <1>1, <1>2, <2>1 DEF p
<1>4. CASE Merging(g)
  <2>1. \/ page' = NoLeases([page EXCEPT !.inputs = view[g].run])
        \/ page' = NoLeases([page EXCEPT !.blocked = TRUE])
    BY <1>4 DEF Merging, Refused, Goes
  <2>2. QED
    BY <1>1, <1>2, <2>1
<1>5. QED
  BY <1>3, <1>4

LEMMA InterceptSound ==
  ASSUME NEW g \in Generation, Sound(page), Intercept(g)
  PROVE  Sound(page')
<1>1. Sound([Cleared(page) EXCEPT !.abort = FALSE])
  BY ClearedSound DEF Sound, PageFields
<1>2. QED
  BY <1>1 DEF Intercept, Goes

LEMMA CloseSound ==
  ASSUME NEW g \in Generation, Sound(page), CloseGeneration(g) \/ Stop(g)
  PROVE  Sound(page')
<1>1. Sound([page EXCEPT !.checking = None, !.pending = FALSE])
  BY DEF Sound, PageFields
<1>2. QED
  BY <1>1, EndsSound DEF CloseGeneration, Stop, Goes

LEMMA MeddleSound ==
  ASSUME Sound(page), Meddle
  PROVE  Sound(page')
  BY DEF Meddle, Sound, PageFields

LEMMA PageKept ==
  ASSUME NoneIsNothing, Sound(page), Next
  PROVE  Sound(page')
<1>1. ASSUME NEW g \in Generation,
             Type(g) \/ Press(g) \/ DryRun(g) \/ DryCheck(g) \/ Stop(g)
      PROVE  Sound(page')
  BY <1>1, EntersSound, CheckSound, CloseSound DEF Type, Press, DryRun
<1>2. ASSUME NEW g \in Generation, Step(g)  PROVE Sound(page')
  <2>1. CASE Preflight(g) \/ Dispatch(g) \/ Checking(g) \/ Gates(g)
    <3>1. CASE Preflight(g)
      BY <3>1 DEF Preflight
    <3>2. CASE Dispatch(g)
      BY <3>2, EntersSound DEF Dispatch
    <3>3. CASE Checking(g)
      BY <3>3, EntersSound DEF Checking, Goes
    <3>4. CASE Gates(g)
      BY <3>4, EntersSound, EndsSound DEF Gates, Goes
    <3>5. QED
      BY <2>1, <3>1, <3>2, <3>3, <3>4
  <2>2. CASE Assemble(g)
    BY <2>2 DEF Assemble
  <2>3. QED
    BY <1>2, <2>1, <2>2, HealthSound, ContextSound, BaseSound, InterceptSound,
       ScanSound, MeasuringSound, PromptSound, GrantingSound, FencingSound,
       SettingsSound, CloseSound DEF Step
<1>3. QED
  BY <1>1, <1>2, MeddleSound DEF Next

-----------------------------------------------------------------------------
(* What leaves.                                                            *)

(* A step of generation g leaves the other ones alone.                     *)
Alone(g) ==
  /\ Shapes'
  /\ \A h \in Generation \ {g} :
       /\ at'[h] = at[h] /\ prompt'[h] = prompt[h]
       /\ how'[h] = how[h] /\ view'[h] = view[h]

(* Besides, it neither prepares a request nor sends one off.               *)
Quiet(g) == Alone(g) /\ (g \in Sends => at'[g] # "merging" /\ how'[g] # "bound")

LEMMA ViewShapes ==
  ASSUME NEW g \in Generation, NEW p
  PROVE  /\ DOMAIN Nothing = ViewFields
         /\ DOMAIN Seen(g, p) = ViewFields
  BY DEF Nothing, Seen, ViewFields

LEMMA QuietSteps ==
  ASSUME NoneIsNothing, Shapes, NEW g \in Generation,
         g \in Sends => LeavingInv(g),
         \/ Type(g) \/ Press(g) \/ DryRun(g) \/ DryCheck(g) \/ Preflight(g)
         \/ Dispatch(g) \/ Checking(g) \/ Gates(g) \/ Health(g) \/ Context(g)
         \/ Base(g) \/ Intercept(g) \/ Scan(g) \/ Measuring(g) \/ Assemble(g)
         \/ PromptReady(g) \/ Granting(g) \/ Fencing(g) \/ CloseGeneration(g)
  PROVE  Quiet(g)
<1> USE ViewShapes DEF Shapes, Quiet, Alone, LeavingInv
<1>1. CASE Type(g)
  BY <1>1 DEF Type
<1>2. CASE Press(g)
  BY <1>2 DEF Press, SendEnters, Begins, Goes, Onward, Leaves
<1>3. CASE DryRun(g)
  BY <1>3 DEF DryRun, DryEnters, Goes
<1>4. CASE DryCheck(g)
  BY <1>4 DEF DryCheck, Goes
<1>5. CASE Preflight(g)
  BY <1>5 DEF Preflight
<1>6. CASE Dispatch(g)
  BY <1>6 DEF Dispatch, SendEnters, Begins, Goes, Onward, Leaves
<1>7. CASE Checking(g)
  BY <1>7 DEF Checking, DryEnters, Goes
<1>8. CASE Gates(g)
  BY <1>8 DEF Gates, Begins, Goes, Onward, Leaves
<1>9. CASE Health(g)
  BY <1>9 DEF Health, Goes, Onward
<1>10. CASE Context(g)
  BY <1>10 DEF Context, Goes, Onward, Forgets
<1>11. CASE Base(g)
  BY <1>11 DEF Base, Goes, Onward, Forgets
<1>12. CASE Intercept(g)
  BY <1>12 DEF Intercept, Goes, Leaves
<1>13. CASE Scan(g)
  BY <1>13 DEF Scan, Goes
<1>14. CASE Measuring(g)
  BY <1>14 DEF Measuring, Goes, Forgets
<1>15. CASE Assemble(g)
  BY <1>15 DEF Assemble
<1>16. CASE PromptReady(g)
  BY <1>16 DEF PromptReady, Goes, AfterPrompt
<1>17. CASE Granting(g)
  BY <1>17 DEF Granting, Goes, AfterPrompt, Forgets
<1>18. CASE Fencing(g)
  BY <1>18 DEF Fencing, Goes, AfterPrompt
<1>19. CASE CloseGeneration(g)
  BY <1>19 DEF CloseGeneration, Goes, Forgets
<1>20. QED
  BY <1>1, <1>2, <1>3, <1>4, <1>5, <1>6, <1>7, <1>8, <1>9, <1>10, <1>11, <1>12, <1>13, <1>14, <1>15, <1>16, <1>17, <1>18, <1>19

(* SettingsReady checks what merging needs.                                *)
LEMMA SettingsCarry ==
  ASSUME Shapes, NEW g \in Generation, g \in Sends => LeavingInv(g),
         SettingsReady(g)
  PROVE  Alone(g) /\ (g \in Sends => LeavingInv(g)')
<1>1. PICK profiled \in BOOLEAN, ok \in BOOLEAN : SettingsReady(g)!(profiled, ok)
  BY DEF SettingsReady
<1>2. at[g] = "settings" /\ (g \in Sends => how[g] # "bound")
  BY <1>1 DEF LeavingInv
<1>3. CASE at'[g] = "merging"
  <2>1. /\ Restorable(g)
        /\ at' = [at EXCEPT ![g] = "merging"]
        /\ view' = [view EXCEPT ![g].run = page.inputs, ![g].data = Unrestored(g)]
        /\ UNCHANGED <<how, prompt>>
    BY <1>1, <1>3 DEF Goes, Refused, Shapes
  <2>2. "source" \notin Unrestored(g)
    BY <2>1 DEF Restorable, Unrestored
  <2>3. /\ view'[g].run = page.inputs /\ view'[g].data = Unrestored(g)
        /\ DOMAIN view'[g] = ViewFields
    BY <2>1 DEF Shapes, ViewFields
  <2>4. Shapes'
    BY <2>1, <2>3 DEF Shapes
  <2>5. Alone(g)
    BY <2>1, <2>4 DEF Alone, Shapes
  <2>6. QED
    BY <1>2, <2>1, <2>2, <2>3, <2>5 DEF Restorable, LeavingInv, Carried
<1>4. CASE at'[g] # "merging"
  <2>1. /\ at' = [at EXCEPT ![g] = "closing"]
        /\ \E way \in {"blocked", "plain"} : Leaves(g, way)
        /\ UNCHANGED <<view, prompt>>
    BY <1>1, <1>4 DEF Goes, Refused, Shapes
  <2>2. how'[g] # "bound" /\ DOMAIN how' = Generation
        /\ \A h \in Generation \ {g} : how'[h] = how[h]
    BY <2>1 DEF Leaves, Shapes
  <2>3. QED
    BY <2>1, <2>2 DEF Alone, Shapes, LeavingInv
<1>5. QED
  BY <1>3, <1>4

LEMMA MergingCarries ==
  ASSUME Shapes, NEW g \in Generation, g \in Sends => LeavingInv(g), Merging(g)
  PROVE  Alone(g) /\ (g \in Sends => LeavingInv(g)')
<1>1. /\ at[g] = "merging"
      /\ at' = [at EXCEPT ![g] = "closing"]
      /\ \E way \in {"blocked", "bound"} : Leaves(g, way)
      /\ UNCHANGED <<view, prompt>>
  BY DEF Merging, Goes, Refused
<1>2. /\ DOMAIN how' = Generation
      /\ \A h \in Generation \ {g} : how'[h] = how[h]
  BY <1>1 DEF Leaves, Shapes
<1>3. QED
  BY <1>1, <1>2 DEF Alone, Shapes, LeavingInv, Carried

LEMMA LeavingKept ==
  ASSUME NoneIsNothing, Shapes, \A g \in Sends : LeavingInv(g), Next
  PROVE  Shapes' /\ \A g \in Sends : LeavingInv(g)'
<1>1. CASE Meddle
  BY <1>1 DEF Meddle, Shapes, LeavingInv, Carried
<1>2. CASE \E g \in Generation :
             Type(g) \/ Press(g) \/ DryRun(g) \/ DryCheck(g) \/ Step(g) \/ Stop(g)
  <2>1. PICK g \in Generation :
             Type(g) \/ Press(g) \/ DryRun(g) \/ DryCheck(g) \/ Step(g) \/ Stop(g)
    BY <1>2
  <2>2. g \in Sends => LeavingInv(g)
    OBVIOUS
  <2>3. CASE Stop(g)
    BY <2>3 DEF Stop, Shapes, LeavingInv, Carried
  <2>4. CASE ~ Stop(g)
    <3>1. Alone(g) /\ (g \in Sends => LeavingInv(g)')
      BY <2>1, <2>2, <2>4, QuietSteps, SettingsCarry, MergingCarries
      DEF Step, Quiet, LeavingInv
    <3>2. \A h \in Sends \ {g} : LeavingInv(h)'
      BY <3>1 DEF Alone, LeavingInv, Carried, Generation
    <3>3. QED
      BY <3>1, <3>2 DEF Alone
  <2>5. QED
    BY <2>3, <2>4
<1>3. QED
  BY <1>1, <1>2 DEF Next

-----------------------------------------------------------------------------
(* The theorems.                                                           *)

LEMMA GenerationInvariance ==
  ASSUME NoneIsNothing
  PROVE  Spec => []GenerationIInv
<1>1. Init => GenerationIInv
  <2> SUFFICES ASSUME Init  PROVE GenerationIInv
    OBVIOUS
  <2>1. Sound(page)
    BY DEF Init, Sound, PageFields, RunName
  <2>2. Shapes
    BY DEF Init, Shapes, Nothing, ViewFields
  <2>3. \A g \in Sends : LeavingInv(g)
    BY DEF Init, LeavingInv, Generation
  <2>4. QED
    BY <2>1, <2>2, <2>3 DEF GenerationIInv
<1>2. GenerationIInv /\ [Next]_vars => GenerationIInv'
  <2> SUFFICES ASSUME GenerationIInv, [Next]_vars  PROVE  GenerationIInv'
    OBVIOUS
  <2>1. CASE UNCHANGED vars
    BY <2>1 DEF GenerationIInv, Shapes, LeavingInv, Carried, vars
  <2>2. CASE Next
    BY <2>2, PageKept, LeavingKept DEF GenerationIInv
  <2>3. QED
    BY <2>1, <2>2
<1>3. QED
  BY <1>1, <1>2, PTL DEF Spec

(* Whatever number of sends, dry runs and checks share the page, whoever   *)
(* stops and whatever others do to PromptManager's settings: while it      *)
(* works on the enlarged copy, the lease that remembers the host's own     *)
(* settings exists (beginAssembly to settleFrame of                        *)
(* host-assembly-lease.js).                                                *)
THEOREM WindowHasOwner ==
  ASSUME NoneIsNothing
  PROVE  Spec => []OverlayHasOwner
<1>1. GenerationIInv => OverlayHasOwner
  BY DEF GenerationIInv, Sound, OverlayHasOwner
<1>2. QED
  BY <1>1, GenerationInvariance, PTL

(* A bound request carries the trace of the run whose payload the host put *)
(* into its prompt, although onSettingsReady looks both up in a record     *)
(* that any other generation rewrites between its awaits.                  *)
THEOREM BoundCarriesItsTrace ==
  ASSUME NoneIsNothing
  PROVE  Spec => []TraceFitsPayload
<1>1. GenerationIInv => TraceFitsPayload
  BY DEF GenerationIInv, LeavingInv, Carried, TraceFitsPayload, Left
<1>2. QED
  BY <1>1, GenerationInvariance, PTL

(* A bound request leaves with every isolated author source put back,      *)
(* whichever generation the leases in the record belong to by then.        *)
THEOREM BoundHasItsSources ==
  ASSUME NoneIsNothing
  PROVE  Spec => []SourcesComeBack
<1>1. GenerationIInv => SourcesComeBack
  BY DEF GenerationIInv, LeavingInv, Carried, SourcesComeBack, Left
<1>2. QED
  BY <1>1, GenerationInvariance, PTL

=============================================================================
