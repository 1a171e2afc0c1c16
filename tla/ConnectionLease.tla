--------------------------- MODULE ConnectionLease ---------------------------
(***************************************************************************)
(* Which upstream the page, the key and the runtime stand for while the    *)
(* user switches connection profiles                                       *)
(* (integrations/sillytavern-extension: upstream-connection-lease.js,      *)
(* main-runtime-profile-router.js, mnemosyne-control-client.js, the        *)
(* preflight, the start and the finalizer of a generation in index.js, the *)
(* provisioning card; the admission of generation-transport-binding.js).   *)
(*                                                                         *)
(* While Mnemosyne is enabled the host talks to the runtime, not to the    *)
(* upstream: the live custom_url is overwritten with the runtime's address *)
(* (a new port for every runtime process), and the lease remembers which   *)
(* profile was selected and its real url.  The host attaches the key of    *)
(* the leased profile to the request; the runtime forwards the request,    *)
(* key included, to the upstream it was started for.                       *)
(*                                                                         *)
(* Two tasks of the page interleave at their awaits with the user and with *)
(* each other: a send (held and then generated, or generated at once), and *)
(* the provisioning card (its inspections, its input and its polls).  The  *)
(* Static Lore intake runs beside them.  The switch itself is              *)
(* RuntimeSwitch's, here one step; other pages only appear as switches     *)
(* they cause.  Mnemosyne is enabled and a profile is always selected; the *)
(* preset, the budget and the build of a runtime are data, so a check of   *)
(* them may fail at any time.  resolveForProvisioning and the recoveries   *)
(* it calls have no caller and are left out.                               *)
(***************************************************************************)
EXTENDS Naturals

CONSTANTS
  Connection,     \* connection profiles, each with an upstream of its own
  Model,          \* the models they name
  OwnModel,       \* profile -> the model it was saved with
  Nil,            \* null
  MaxRuntimes,    \* bound: runtime processes
  MaxSteps        \* bound: steps of the user, of other pages and tasks of the card

RuntimeId == 1 .. MaxRuntimes

(* No runtime; as an address, the default of proxyBaseUrl.                 *)
Nowhere == 0

(* A profile stands for its real url, a runtime for its own.               *)
Address == Connection \cup RuntimeId \cup {Nowhere}

(* buildMainRuntimeProfile: what the hash of a main runtime profile covers. *)
Sealed == [ref : Connection, url : Address, model : Model]

ASSUME CountsAssumption == MaxRuntimes \in Nat /\ MaxSteps \in Nat
ASSUME ModelsAssumption == OwnModel \in [Connection -> Model]
ASSUME AddressAssumption == Connection \cap (RuntimeId \cup {Nowhere}) = {}
ASSUME NilAssumption ==
  /\ Nil \notin Connection \cup Model \cup Sealed
  /\ Nil \notin [profile : Connection, url : Address]
  /\ Nil \notin [key : Connection, upstream : Address]

VARIABLES
  saved,      \* the connection manager: profile -> its api-url and model
  selected,   \* the connection manager: the selected profile
  live,       \* oai_settings: the custom_url and custom_model of the host
  lease,      \* settings: upstreamConnectionProfileId and -Url, or Nil
  proxy,      \* settings: proxyBaseUrl
  expected,   \* memory: the model of state.mainHostBinding, or Nil
  transport,  \* memory: the runtime of state.transportLease
  loaded,     \* has SillyTavern loaded the plugin?
  alive,      \* the runtime that the plugin routes to
  served,     \* runtime -> the profile it was started for
  stored,     \* disk: the profile of runtime.json, or Nil
  spawned,    \* how many runtimes there have been
  send,       \* the send and the generation that follows it
  card,       \* the task of the provisioning card
  delivered,  \* the last request that a runtime forwarded, or Nil
  mixed,      \* observed: a profile was saved with the model of another one
  steps       \* how many bounded steps there have been

pageVars == <<live, lease, proxy, expected, transport>>
runtimeVars == <<loaded, alive, served, stored, spawned>>
connectionVars ==
  <<saved, selected, pageVars, runtimeVars, send, card, delivered, mixed, steps>>

-----------------------------------------------------------------------------

Setting == [url : Address, model : Model]
Lease == [profile : Connection, url : Address]

SendPhase == {"idle", "hashing", "resolving", "binding", "gates", "generating",
              "checking", "finalizing", "leaving"}
CardPhase == {"idle", "looking", "attesting", "capturing", "settling", "input", "writing"}

(* want: the profile to run; input: the profile to write; at: the runtime  *)
(* that the task has to do with; key: whose secret the request carries.    *)
NoSend == [phase |-> "idle", want |-> Nil, at |-> Nowhere, key |-> Nil]
NoCard == [phase |-> "idle", want |-> Nil, at |-> Nowhere, input |-> Nil]

SendState ==
  [phase : SendPhase, want : Sealed \cup {Nil}, at : Address, key : Connection \cup {Nil}]
CardState ==
  [phase : CardPhase, want : Sealed \cup {Nil}, at : RuntimeId \cup {Nowhere},
   input : Sealed \cup {Nil}]

ConnectionTypeOK ==
  /\ saved \in [Connection -> Setting]
  /\ selected \in Connection
  /\ live \in Setting
  /\ lease \in Lease \cup {Nil}
  /\ proxy \in RuntimeId \cup {Nowhere}
  /\ expected \in Model \cup {Nil}
  /\ transport \in RuntimeId \cup {Nowhere}
  /\ loaded \in BOOLEAN
  /\ alive \in RuntimeId \cup {Nowhere}
  /\ served \in [RuntimeId -> Sealed \cup {Nil}]
  /\ stored \in Sealed \cup {Nil}
  /\ spawned \in 0 .. MaxRuntimes
  /\ send \in SendState
  /\ card \in CardState
  /\ delivered \in [key : Connection, upstream : Address] \cup {Nil}
  /\ mixed \in BOOLEAN
  /\ steps \in 0 .. MaxSteps

ConnectionInit ==
  /\ saved = [c \in Connection |-> [url |-> c, model |-> OwnModel[c]]]
  /\ selected \in Connection
  /\ live = saved[selected]
  /\ lease = Nil /\ proxy = Nowhere /\ expected = Nil /\ transport = Nowhere
  /\ loaded = FALSE /\ alive = Nowhere
  /\ served = [n \in RuntimeId |-> Nil] /\ stored = Nil /\ spawned = 0
  /\ send = NoSend /\ card = NoCard
  /\ delivered = Nil /\ mixed = FALSE
  /\ steps = 0

BoundedStep == steps < MaxSteps /\ steps' = steps + 1

-----------------------------------------------------------------------------
(* The lease                                                               *)

(* restoreSelectedProfile: the leased profile, saved while the live url    *)
(* was the runtime's, gets its real url back.                              *)
RestoredIn(profiles) ==
  IF lease # Nil /\ profiles[lease.profile].url = proxy
    THEN [profiles EXCEPT ![lease.profile].url = lease.url]
    ELSE profiles

UrlsRestored == RestoredIn(saved)

(* captureSelectedProfile: not the runtime that is configured now.         *)
Leasable == UrlsRestored[selected].url # proxy

(* selectedMainRuntimeProfile up to its first await.                       *)
Capture ==
  /\ saved' = UrlsRestored
  /\ lease' = IF Leasable THEN [profile |-> selected, url |-> UrlsRestored[selected].url]
              ELSE lease

Wanted == [ref |-> selected, url |-> UrlsRestored[selected].url,
           model |-> UrlsRestored[selected].model]

(* MUTANT of Fits: the model of the request is not compared.               *)
FitsAnyModel(model) == lease # Nil /\ saved[lease.profile].url = lease.url

(* resolveLeasedBinding: the lease still names a profile as it was leased, *)
(* and that profile names the model of the request.                        *)
Fits(model) ==
  /\ lease # Nil
  /\ saved[lease.profile].url = lease.url
  /\ saved[lease.profile].model = model

(* bindProvisionedGenerationEndpoint: the host talks to runtime n.         *)
BindTo(n) ==
  /\ saved' = UrlsRestored
  /\ proxy' = n
  /\ live' = [url |-> n, model |-> served[n].model]
  /\ expected' = served[n].model
  /\ UNCHANGED <<lease, transport>>

-----------------------------------------------------------------------------
(* The runtime                                                             *)

(* The runtime that the plugin routes to runs this profile.                *)
Runs(profile) == alive # Nowhere /\ served[alive] = profile

(* A runtime process that reads the given profile from runtime.json.       *)
SpawnWith(profile) ==
  /\ spawned < MaxRuntimes
  /\ spawned' = spawned + 1
  /\ alive' = spawned'
  /\ served' = [served EXCEPT ![spawned'] = profile]
  /\ stored' = profile
  /\ UNCHANGED loaded

(* SillyTavern is restarted; the runtime of its plugin may fail to start.  *)
RestartServer ==
  /\ BoundedStep
  /\ stored # Nil
  /\ loaded' = TRUE
  /\ UNCHANGED stored
  /\ \/ /\ spawned < MaxRuntimes
        /\ spawned' = spawned + 1
        /\ alive' = spawned'
        /\ served' = [served EXCEPT ![spawned'] = stored]
     \/ alive' = Nowhere /\ UNCHANGED <<served, spawned>>
  /\ UNCHANGED <<saved, selected, pageVars, send, card, delivered, mixed>>

(* Another page sends with the profile that is selected there.             *)
OtherPageActivates(c) ==
  LET other == [ref |-> c, url |-> c, model |-> OwnModel[c]] IN
  /\ BoundedStep
  /\ loaded /\ ~Runs(other)
  /\ SpawnWith(other)
  /\ UNCHANGED <<saved, selected, pageVars, send, card, delivered, mixed>>

(* assertGenerationTransportBinding: the runtime that the body names.      *)
Admits(to, sealed) == to = alive /\ sealed = alive

-----------------------------------------------------------------------------
(* The user and the connection manager                                     *)

(* The host applies a profile that is selected: its url becomes live.      *)
Select(c) ==
  /\ BoundedStep
  /\ c # selected
  /\ selected' = c
  /\ live' = saved[c]
  /\ UNCHANGED <<saved, lease, proxy, expected, transport, runtimeVars, send, card,
                 delivered, mixed>>

(* The selected profile is saved from the live settings, and the event     *)
(* restores the url of the leased one.                                     *)
Update ==
  /\ BoundedStep
  /\ saved' = RestoredIn([saved EXCEPT ![selected] = live])
  /\ mixed' = (mixed \/ live.model # OwnModel[selected])
  /\ UNCHANGED <<selected, pageVars, runtimeVars, send, card, delivered>>

-----------------------------------------------------------------------------
(* A held send: preflightInteractiveSend                                   *)

Deny == send' = NoSend

(* ensureSelectedMainRuntimeProfile: the profile that is selected now.     *)
HoldSend ==
  /\ BoundedStep
  /\ send.phase = "idle"
  /\ Capture
  /\ IF Leasable THEN send' = [NoSend EXCEPT !.phase = "hashing", !.want = Wanted]
     ELSE Deny
  /\ UNCHANGED <<selected, live, proxy, expected, transport, runtimeVars, card,
                 delivered, mixed>>

(* ensure: the runtime that is up already runs the profile.                *)
AlreadyActive ==
  /\ send.phase = "hashing"
  /\ Runs(send.want)
  /\ send' = [send EXCEPT !.phase = "resolving"]
  /\ transport' = Nowhere
  /\ UNCHANGED <<saved, selected, live, lease, proxy, expected, runtimeVars, card,
                 delivered, mixed, steps>>

(* ensure: the plugin starts a runtime for it and verifies it.             *)
Activated ==
  /\ send.phase = "hashing"
  /\ loaded /\ ~Runs(send.want)
  /\ SpawnWith(send.want)
  /\ send' = [send EXCEPT !.phase = "resolving"]
  /\ transport' = Nowhere
  /\ UNCHANGED <<saved, selected, live, lease, proxy, expected, card, delivered, mixed, steps>>

(* ensure: blocked.  Busy or unreachable; the switch rolled back and the   *)
(* old profile has a new process; it ends after the page gave up waiting;  *)
(* or the old profile did not come back.                                   *)
NotActivated ==
  /\ send.phase = "hashing"
  /\ ~Runs(send.want)
  /\ Deny
  /\ \/ UNCHANGED runtimeVars
     \/ loaded /\ alive # Nowhere /\ SpawnWith(served[alive])
     \/ loaded /\ SpawnWith(send.want)
     \/ /\ loaded /\ alive' = Nowhere
        /\ stored' \in {stored, send.want}
        /\ UNCHANGED <<loaded, served, spawned>>
  /\ UNCHANGED <<saved, selected, pageVars, card, delivered, mixed, steps>>

(* resolveControlLease: the lease of the run, or what answers now.         *)
Answering == IF transport # Nowhere THEN transport ELSE alive

ResolveLease ==
  /\ send.phase = "resolving"
  /\ IF Answering = Nowhere THEN Deny
     ELSE send' = [send EXCEPT !.phase = "binding", !.at = Answering]
  /\ UNCHANGED <<saved, selected, pageVars, runtimeVars, card, delivered, mixed, steps>>

Bind ==
  /\ send.phase = "binding"
  /\ served[send.at] = send.want
  /\ BindTo(send.at)
  /\ send' = [send EXCEPT !.phase = "gates"]
  /\ UNCHANGED <<selected, runtimeVars, card, delivered, mixed, steps>>

BindMismatch ==
  /\ send.phase = "binding"
  /\ served[send.at] # send.want
  /\ Deny
  /\ UNCHANGED <<saved, selected, pageVars, runtimeVars, card, delivered, mixed, steps>>

GatesRefuse ==
  /\ send.phase = "gates"
  /\ Deny
  /\ UNCHANGED <<saved, selected, pageVars, runtimeVars, card, delivered, mixed, steps>>

-----------------------------------------------------------------------------
(* The generation: onGenerationStarted, onSettingsReady                    *)

EndRun == Deny /\ transport' = Nowhere

(* A send that was let go, or a generation that is not held (a swipe, a    *)
(* regeneration): what an earlier run left is cleared.                     *)
StartGeneration ==
  /\ \/ send.phase = "gates" /\ UNCHANGED steps
     \/ send.phase = "idle" /\ BoundedStep
  /\ send' = [NoSend EXCEPT !.phase = "generating"]
  /\ transport' = Nowhere
  /\ UNCHANGED <<saved, selected, live, lease, proxy, expected, runtimeVars, card,
                 delivered, mixed>>

(* loadProxyHealth: the transport of the root run.                         *)
LoadHealth ==
  /\ send.phase = "generating"
  /\ IF Answering = Nowhere
       THEN EndRun /\ UNCHANGED expected
       ELSE /\ transport' = Answering
            /\ expected' = served[Answering].model
            /\ send' = [send EXCEPT !.phase = "checking"]
  /\ UNCHANGED <<saved, selected, live, lease, proxy, runtimeVars, card, delivered,
                 mixed, steps>>

(* inspectHostProfile: the host would talk to the proxy, with its model.   *)
HostReady == live.url = proxy /\ live.model = expected

(* The host is inspected once the provider's budget is bound; whatever is  *)
(* assembled afterwards may fail as well.                                  *)
CheckHost ==
  /\ send.phase = "checking"
  /\ \/ HostReady /\ send' = [send EXCEPT !.phase = "finalizing"] /\ UNCHANGED transport
     \/ EndRun
  /\ UNCHANGED <<saved, selected, live, lease, proxy, expected, runtimeVars, card,
                 delivered, mixed, steps>>

(* onSettingsReady up to its awaits: the key goes into the request.        *)
Finalize ==
  /\ send.phase = "finalizing"
  /\ \/ /\ HostReady /\ Fits(live.model)
        /\ send' = [send EXCEPT !.phase = "leaving", !.at = live.url, !.key = lease.profile]
        /\ UNCHANGED transport
     \/ EndRun
  /\ UNCHANGED <<saved, selected, live, lease, proxy, expected, runtimeVars, card,
                 delivered, mixed, steps>>

(* The host posts the request; a runtime that does not admit it refuses,   *)
(* and so may what is still awaited before it is posted.                   *)
Leave ==
  /\ send.phase = "leaving"
  /\ \/ /\ alive # Nowhere /\ Admits(send.at, transport)
        /\ delivered' = [key |-> send.key, upstream |-> served[alive].url]
     \/ UNCHANGED delivered
  /\ EndRun
  /\ UNCHANGED <<saved, selected, live, lease, proxy, expected, runtimeVars, card, mixed,
                 steps>>

-----------------------------------------------------------------------------
(* The Static Lore intake, from its button or from the gates               *)

InRun == send.phase \in {"generating", "checking", "finalizing", "leaving"}

(* Its loadProxyHealth.                                                    *)
IntakeHealth ==
  /\ Answering # Nowhere
  /\ expected' = served[Answering].model
  /\ transport' = IF InRun THEN Answering ELSE transport
  /\ UNCHANGED <<saved, selected, live, lease, proxy, runtimeVars, send, card, delivered,
                 mixed, steps>>

(* A call of the intake: only the runtime that prepared it takes it, with  *)
(* its model, and the key is leased for that model.                        *)
IntakeCall ==
  /\ alive # Nowhere /\ proxy = alive
  /\ Fits(served[alive].model)
  /\ delivered' = [key |-> lease.profile, upstream |-> served[alive].url]
  /\ UNCHANGED <<saved, selected, pageVars, runtimeVars, send, card, mixed, steps>>

-----------------------------------------------------------------------------
(* The provisioning card: an inspection, its input, a second inspection,   *)
(* the installation; a poll, and a page that was loaded, only inspect.     *)

(* What the look did not find ready is installed, once there is an input.  *)
CardFails ==
  card' = [card EXCEPT !.phase = IF card.input = Nil THEN "input" ELSE "writing",
                       !.want = Nil, !.at = Nowhere]

(* inspect or verify: the runtime that answers, unless it is none or not   *)
(* of the build that is shipped.                                           *)
CardLook ==
  /\ \/ card.phase = "idle" /\ BoundedStep
     \/ card.phase = "looking" /\ UNCHANGED steps
  /\ \/ alive # Nowhere /\ card' = [card EXCEPT !.phase = "attesting", !.at = alive]
     \/ CardFails
  /\ UNCHANGED <<saved, selected, pageVars, runtimeVars, send, delivered, mixed>>

(* assertRuntimeBinding, with the selected profile required.               *)
Attested(n) ==
  /\ lease # Nil /\ lease.profile = selected
  /\ Fits(served[n].model)
  /\ lease.url = served[n].url

CardAttest ==
  /\ card.phase = "attesting"
  /\ \/ Attested(card.at) /\ card' = [card EXCEPT !.phase = "capturing"]
     \/ CardFails
  /\ UNCHANGED <<saved, selected, pageVars, runtimeVars, send, delivered, mixed, steps>>

(* validateReadyLease after it attested: the profile selected now.         *)
CardCapture ==
  /\ card.phase = "capturing"
  /\ Capture
  /\ IF Leasable THEN card' = [card EXCEPT !.phase = "settling", !.want = Wanted]
     ELSE CardFails
  /\ UNCHANGED <<selected, live, proxy, expected, transport, runtimeVars, send, delivered,
                 mixed, steps>>

(* settleProvisioningReady: the runtime runs the profile.  A resumption    *)
(* that nobody asked to enable binds nothing.                              *)
CardSettle ==
  /\ card.phase = "settling"
  /\ served[card.at] = card.want
  /\ \/ BindTo(card.at)
     \/ card.input = Nil /\ UNCHANGED <<saved, pageVars>>
  /\ card' = NoCard
  /\ UNCHANGED <<selected, runtimeVars, send, delivered, mixed, steps>>

CardStale ==
  /\ card.phase = "settling"
  /\ served[card.at] # card.want
  /\ CardFails
  /\ UNCHANGED <<saved, selected, pageVars, runtimeVars, send, delivered, mixed, steps>>

(* browserFolderProvisioningInput, then the second inspection.             *)
CardInput ==
  /\ card.phase = "input"
  /\ Capture
  /\ card' = IF Leasable THEN [NoCard EXCEPT !.phase = "looking", !.input = Wanted]
             ELSE NoCard
  /\ UNCHANGED <<selected, live, proxy, expected, transport, runtimeVars, send, delivered,
                 mixed, steps>>

(* No folder, or only a poll; or the installation fails.                   *)
CardGivesUp ==
  /\ card.phase \in {"input", "writing"}
  /\ card' = NoCard
  /\ UNCHANGED <<saved, selected, pageVars, runtimeVars, send, delivered, mixed, steps>>

(* provisionBrowserFolder: the configuration of the next start.            *)
CardWrite ==
  /\ card.phase = "writing"
  /\ stored' = card.input
  /\ card' = NoCard
  /\ UNCHANGED <<saved, selected, pageVars, loaded, alive, served, spawned, send,
                 delivered, mixed, steps>>

-----------------------------------------------------------------------------

HeldStep ==
  \/ HoldSend \/ AlreadyActive \/ Activated \/ NotActivated \/ ResolveLease
  \/ Bind \/ BindMismatch \/ GatesRefuse

GenerationStep ==
  \/ StartGeneration \/ LoadHealth \/ CheckHost \/ Finalize \/ Leave
  \/ IntakeHealth \/ IntakeCall

CardStep ==
  \/ CardLook \/ CardAttest \/ CardCapture \/ CardSettle \/ CardStale
  \/ CardInput \/ CardGivesUp \/ CardWrite

EnvironmentStep ==
  \/ RestartServer \/ Update
  \/ \E c \in Connection : Select(c) \/ OtherPageActivates(c)

ConnectionNext == HeldStep \/ GenerationStep \/ CardStep \/ EnvironmentStep

ConnectionSpec == ConnectionInit /\ [][ConnectionNext]_connectionVars

-----------------------------------------------------------------------------

(* The key of a profile only reaches the upstream of that profile, or of   *)
(* one that names the same model: the request that a runtime forwards      *)
(* carries the key that was leased for the upstream this runtime was       *)
(* started for, whatever the user selects, saves or installs while the     *)
(* send is held, and whatever another page switches (onSettingsReady,      *)
(* bindHostRequest, assertGenerationTransportBinding).  It rests on the    *)
(* model alone: once a profile was saved with the model of another, the    *)
(* two are not told apart.                                                 *)
KeyFitsUpstream ==
  delivered # Nil /\ delivered.upstream \in Connection /\ ~mixed =>
    \/ delivered.key = delivered.upstream
    \/ OwnModel[delivered.key] = OwnModel[delivered.upstream]

(* What does not hold.  The real url of every profile is in the profile or *)
(* in the lease (restoreSelectedProfile and the event that calls it): a    *)
(* bind that ends after the user selected another profile makes the        *)
(* runtime's url live for it, and saving that profile forgets its own.     *)
RealUrlsAreKept ==
  \A c \in Connection :
    \/ saved[c].url = c
    \/ lease # Nil /\ lease.profile = c /\ lease.url = c

(* What does not hold: the lease names an upstream, never a runtime (the   *)
(* comment at DEFAULT_SETTINGS); captureSelectedProfile only knows the     *)
(* address that is configured now, and every process has a new port.       *)
LeaseIsUpstream == lease # Nil => lease.url \in Connection
=============================================================================
