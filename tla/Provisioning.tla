---------------------------- MODULE Provisioning ----------------------------
(***************************************************************************)
(* The installation of the runtime from the browser, its removal after the *)
(* extension is gone, and the starts of the server in between              *)
(* (integrations/sillytavern-extension: provisioning-orchestrator.js,      *)
(* browser-folder-provisioning.js, the provisioning card of index.js;      *)
(* distribution: browser-folder-bootstrap, server-plugin;                  *)
(* runtime/companion-teardown.js).                                         *)
(*                                                                         *)
(* The page writes four files through a directory handle, one after the    *)
(* other, and promises that a restart of the server brings the runtime.    *)
(* The bootstrap of the next start resolves them against the clone of the  *)
(* extension and fetches the build; a watcher of the running server takes  *)
(* everything away once the clone is gone.  Between any two of these steps *)
(* the user edits config.yaml, updates or removes the clone, switches the  *)
(* card off and on, selects another profile, sends, reloads the page or    *)
(* restarts the server.                                                    *)
(*                                                                         *)
(* A write is verified by reading it back and is one step; so is the       *)
(* validation of the folder, and an inspection of the server.  The staged  *)
(* copies, the backup of config.yaml, the receipts and the saved directory *)
(* handle are read by nobody that decides anything; a build stands for its *)
(* manifest and version, and which of a profile's fields are checked is    *)
(* ConnectionLease's.  The page is local, so the folder is always eligible.*)
(***************************************************************************)
EXTENDS Naturals

CONSTANTS
  Build,            \* builds of the extension and of the runtime it ships
  Profile,          \* connection profiles
  Install,          \* switches of the card to on, with what each one starts
  Nil,          \* null
  MaxChanges,       \* bound: steps of the user
  MaxInstallFaults  \* bound: failed steps of the machine

ASSUME NothingAssumption ==
  /\ Nil \notin Build \cup Profile
  /\ Nil \notin [plugins : BOOLEAN, edits : Nat]
  /\ Nil \notin [build : Build, profile : Profile]
ASSUME ChangesAssumption == MaxChanges \in Nat /\ MaxInstallFaults \in Nat

VARIABLES
  clone,      \* disk: the build of data/default-user/extensions, or Nil
  stub,       \* disk: is plugins/tavern-mnemosyne/index.mjs there?
  binding,    \* disk: the build that binding.json names, or Nil
  note,       \* disk: is uninstall-pending.json there?
  yaml,       \* disk: config.yaml: server plugins, and the user's edits
  configured, \* disk: the profile of runtime.json, or Nil
  installed,  \* disk: build -> the state of its runtime directory
  server,     \* the SillyTavern process and the plugin in it
  selected,   \* page: the selected connection profile
  card,       \* settings: enabled, provisioningPending; and the checkbox
  install,    \* memory of the page: switch to on -> its state
  resume,     \* memory of the page: resumeProvisioningVerification
  promised,   \* observed: what the last undisturbed installation promised
  changes, installFaults

diskVars == <<clone, stub, binding, note, yaml, configured, installed>>
cardVars == <<selected, card, install, resume>>
provisionVars == <<diskVars, server, cardVars, promised, changes, installFaults>>

-----------------------------------------------------------------------------

Yaml == [plugins : BOOLEAN, edits : Nat]
Promise == [build : Build, profile : Profile]

Writing == {"runtime", "checking", "stub", "binding", "yaml", "ending"}
InstallPhase ==
  Writing \cup {"idle", "inspecting", "input", "validating", "expecting", "polling"}

Resting == [at |-> "idle", build |-> Nil, profile |-> Nil, yaml |-> Nil,
            alone |-> FALSE]
NoResume == [at |-> "idle", pending |-> FALSE, requested |-> FALSE, build |-> Nil]
CardOff == [enabled |-> FALSE, pending |-> FALSE, box |-> FALSE]
Down == [phase |-> "down", build |-> Nil, profile |-> Nil, why |-> "fine",
         watching |-> FALSE, leaving |-> FALSE, due |-> Nil]

ServerState ==
  [phase : {"down", "fetching", "up"}, build : Build \cup {Nil},
   profile : Profile \cup {Nil}, why : {"fine", "refused", "damaged", "network"},
   watching : BOOLEAN, leaving : BOOLEAN, due : Promise \cup {Nil}]
CardState == [enabled : BOOLEAN, pending : BOOLEAN, box : BOOLEAN]
InstallState ==
  [at : InstallPhase, build : Build \cup {Nil}, profile : Profile \cup {Nil},
   yaml : Yaml \cup {Nil}, alone : BOOLEAN]
ResumeState ==
  [at : {"idle", "inspecting", "expecting", "polling"}, pending : BOOLEAN,
   requested : BOOLEAN, build : Build \cup {Nil}]

ProvisionTypeOK ==
  /\ clone \in Build \cup {Nil} /\ binding \in Build \cup {Nil}
  /\ stub \in BOOLEAN /\ note \in BOOLEAN
  /\ yaml \in Yaml
  /\ configured \in Profile \cup {Nil}
  /\ installed \in [Build -> {"absent", "whole", "damaged"}]
  /\ server \in ServerState
  /\ selected \in Profile
  /\ card \in CardState
  /\ install \in [Install -> InstallState]
  /\ resume \in ResumeState
  /\ promised \in Promise \cup {Nil}
  /\ changes \in 0 .. MaxChanges /\ installFaults \in 0 .. MaxInstallFaults

(* The extension was just cloned and the server knows no plugin yet.       *)
Fresh ==
  /\ stub = FALSE /\ binding = Nil
  /\ yaml = [plugins |-> FALSE, edits |-> 0]
  /\ configured = Nil /\ installed = [b \in Build |-> "absent"]
  /\ server = [Down EXCEPT !.phase = "up", !.why = "refused"]
  /\ card = CardOff

(* An earlier installation runs; the card is on or off.                    *)
Running ==
  /\ stub = TRUE /\ binding = clone
  /\ yaml = [plugins |-> TRUE, edits |-> 0]
  /\ configured = selected
  /\ installed = [b \in Build |-> IF b = clone THEN "whole" ELSE "absent"]
  /\ server = [Down EXCEPT !.phase = "up", !.build = clone, !.profile = configured,
                           !.watching = TRUE]
  /\ \E on \in BOOLEAN : card = [enabled |-> on, pending |-> FALSE, box |-> on]

ProvisionInit ==
  /\ clone \in Build /\ selected \in Profile /\ note = FALSE
  /\ Fresh \/ Running
  /\ install = [t \in Install |-> Resting]
  /\ resume = NoResume
  /\ promised = Nil /\ changes = 0 /\ installFaults = 0

Change == changes < MaxChanges /\ changes' = changes + 1 /\ UNCHANGED installFaults
MachineFault ==
  installFaults < MaxInstallFaults /\ installFaults' = installFaults + 1 /\ UNCHANGED changes
Quiet == UNCHANGED <<changes, installFaults>>

(* What is promised, or under way, may be broken by what just happened;    *)
(* s and a are the server and the installations otherwise.                 *)
Disturb(s, a) ==
  /\ promised' = Nil
  /\ server' = [s EXCEPT !.due = Nil]
  /\ install' = [t \in Install |-> [a[t] EXCEPT !.alone = FALSE]]

-----------------------------------------------------------------------------
(* The server                                                              *)

Refused(why) == [Down EXCEPT !.phase = "up", !.why = why, !.due = promised]

(* MUTANT of UninstallStands: a reinstallation does not undo it.           *)
AlwaysStands == note

(* completePendingCompanionRemoval: the extension did not come back.       *)
UninstallStands == note /\ clone = Nil

(* init of the plugin: it ends an uninstallation, or it starts the         *)
(* Companion, which may fail, and watches the clone.                       *)
Load(b, due) ==
  IF UninstallStands
    THEN /\ stub' = FALSE /\ binding' = Nil /\ note' = FALSE
         /\ server' = [Refused("refused") EXCEPT !.due = due]
    ELSE /\ note' = FALSE
         /\ \E p \in {configured, Nil} :
              server' = [Down EXCEPT !.phase = "up", !.build = b, !.profile = p,
                                     !.watching = TRUE, !.due = due]
         /\ UNCHANGED <<stub, binding>>

(* resolveBinding of the bootstrap: the binding names the clone as it is.  *)
BindingResolves == binding # Nil /\ clone = binding

Loadable == yaml.plugins /\ stub /\ BindingResolves

StartRefused ==
  /\ server.phase = "down"
  /\ \/ ~Loadable /\ server' = Refused("refused")
     \/ Loadable /\ installed[binding] = "damaged" /\ server' = Refused("damaged")
  /\ Quiet
  /\ UNCHANGED <<diskVars, cardVars, promised>>

StartInstalled ==
  /\ server.phase = "down"
  /\ Loadable /\ installed[binding] = "whole"
  /\ Load(binding, promised)
  /\ Quiet
  /\ UNCHANGED <<clone, yaml, configured, installed, cardVars, promised>>

StartFetch ==
  /\ server.phase = "down"
  /\ Loadable /\ installed[binding] = "absent"
  /\ server' = [Down EXCEPT !.phase = "fetching", !.build = binding, !.due = promised]
  /\ Quiet
  /\ UNCHANGED <<diskVars, cardVars, promised>>

(* installRuntimeReleaseAsset: staged, verified and renamed as a whole.    *)
FetchDone ==
  /\ server.phase = "fetching"
  /\ installed' = [installed EXCEPT ![server.build] = "whole"]
  /\ Load(server.build, server.due)
  /\ Quiet
  /\ UNCHANGED <<clone, yaml, configured, cardVars, promised>>

FetchFails ==
  /\ server.phase = "fetching"
  /\ server' = [Refused("network") EXCEPT !.due = server.due]
  /\ MachineFault
  /\ UNCHANGED <<diskVars, cardVars, promised>>

StopServer ==
  /\ server.phase # "down"
  /\ server' = Down
  /\ Change
  /\ UNCHANGED <<diskVars, cardVars, promised>>

(* watchForExtensionUninstall: the clone is gone; the Companion is stopped. *)
NoticeUninstall ==
  /\ server.watching /\ clone = Nil
  /\ server' = [server EXCEPT !.watching = FALSE, !.leaving = TRUE, !.profile = Nil]
  /\ Quiet
  /\ UNCHANGED <<diskVars, cardVars, promised>>

(* runCompanionTeardown after stopCompanion.                               *)
Remove ==
  /\ server.leaving
  /\ installed' = [b \in Build |-> "absent"]
  /\ configured' = Nil /\ binding' = Nil /\ note' = TRUE
  /\ Disturb([server EXCEPT !.leaving = FALSE], install)
  /\ Quiet
  /\ UNCHANGED <<clone, stub, yaml, selected, card, resume>>

(* What is left of the builds while they are removed.                      *)
LeftOf(state) == IF state = "absent" THEN {"absent"} ELSE {state, "damaged", "absent"}

(* It is cut short by the end of the process, or by a file that cannot be  *)
(* removed: while the builds go, or after them, or before the note.        *)
RemoveCut ==
  /\ server.leaving
  /\ \/ /\ installed' \in [Build -> {"absent", "whole", "damaged"}]
        /\ \A b \in Build : installed'[b] \in LeftOf(installed[b])
        /\ UNCHANGED <<configured, binding>>
     \/ /\ installed' = [b \in Build |-> "absent"]
        /\ configured' = Nil
        /\ binding' \in {binding, Nil}
  /\ \E s \in {Down, [server EXCEPT !.leaving = FALSE]} : Disturb(s, install)
  /\ MachineFault
  /\ UNCHANGED <<clone, stub, note, yaml, selected, card, resume>>

-----------------------------------------------------------------------------
(* The user                                                                *)

(* Installs, updates or removes the clone of the extension.                *)
ChangeClone ==
  /\ clone' \in (Build \cup {Nil}) \ {clone}
  /\ Disturb(server, install)
  /\ Change
  /\ UNCHANGED <<stub, binding, note, yaml, configured, installed, selected, card, resume>>

EditYaml ==
  /\ Change
  /\ \E plugins \in BOOLEAN : yaml' = [plugins |-> plugins, edits |-> yaml.edits + 1]
  /\ Disturb(server, install)
  /\ UNCHANGED <<clone, stub, binding, note, configured, installed, selected, card, resume>>

Select ==
  /\ selected' \in Profile \ {selected}
  /\ Change
  /\ UNCHANGED <<diskVars, server, card, install, resume, promised>>

(* A send switches the runtime to the selected profile: it stages its      *)
(* configuration, and may fail to start it and the one before.             *)
SwitchProfile ==
  /\ card.enabled
  /\ server.watching /\ server.profile # selected
  /\ configured' \in {configured, selected}
  /\ \E p \in {selected, Nil} :
       /\ p = selected => configured' = selected
       /\ Disturb([server EXCEPT !.profile = p], install)
  /\ Change
  /\ UNCHANGED <<clone, stub, binding, note, yaml, installed, selected, card, resume>>

SwitchOff ==
  /\ card.box
  /\ card' = CardOff
  /\ Change
  /\ UNCHANGED <<diskVars, server, selected, install, resume, promised>>

SwitchOn(t) ==
  /\ ~card.box
  /\ install[t].at = "idle"
  /\ card' = [card EXCEPT !.box = TRUE, !.enabled = FALSE]
  /\ install' = [install EXCEPT ![t] = [Resting EXCEPT !.at = "inspecting"]]
  /\ Change
  /\ UNCHANGED <<diskVars, server, selected, resume, promised>>

(* The page is loaded again: with the extension, it resumes.               *)
Reload ==
  /\ install' = [t \in Install |-> Resting]
  /\ card' = [card EXCEPT !.box = card.enabled \/ card.pending]
  /\ resume' = [NoResume EXCEPT !.at = IF clone = Nil THEN "idle" ELSE "inspecting",
                                !.pending = card.pending,
                                !.requested = card.enabled \/ card.pending]
  /\ Change
  /\ UNCHANGED <<diskVars, server, selected, promised>>

-----------------------------------------------------------------------------
(* A switch of the card to on                                              *)

(* attestReadyLease: the runtime that answers is of the build this         *)
(* extension ships, and runs the selected profile.                         *)
Ready(build) ==
  /\ server.phase = "up"
  /\ build # Nil /\ server.build = build
  /\ server.profile = selected

(* settleProvisioningReady                                                 *)
Settled == [enabled |-> TRUE, pending |-> FALSE, box |-> TRUE]

Advance(t, phase) == install' = [install EXCEPT ![t].at = phase]
Settle(t) == card' = Settled /\ install' = [install EXCEPT ![t] = Resting]

(* A file is written: whatever else was promised or under way may break.   *)
Wrote(t, phase) ==
  /\ promised' = Nil
  /\ server' = [server EXCEPT !.due = Nil]
  /\ install' = [u \in Install |-> IF u = t THEN [install[t] EXCEPT !.at = phase]
                                   ELSE [install[u] EXCEPT !.alone = FALSE]]

(* Not ready, or not with the budget that the host has now.                *)
InspectFirst(t) ==
  /\ install[t].at = "inspecting"
  /\ \/ Ready(clone) /\ Settle(t)
     \/ Advance(t, "input") /\ UNCHANGED card
  /\ Quiet
  /\ UNCHANGED <<diskVars, server, selected, resume, promised>>

(* loadBrowserFolderInput: the profile that is selected now.               *)
ReadInput(t) ==
  /\ install[t].at = "input" /\ clone # Nil
  /\ install' = [install EXCEPT ![t].at = "validating", ![t].profile = selected]
  /\ Quiet
  /\ UNCHANGED <<diskVars, server, selected, card, resume, promised>>

(* The second inspection, then validateSelectedRoot and the plan.          *)
Validate(t) ==
  /\ install[t].at = "validating"
  /\ \/ Ready(clone) /\ Settle(t)
     \/ /\ clone # Nil
        /\ install' = [install EXCEPT ![t].at = "runtime", ![t].build = clone,
                                      ![t].yaml = yaml, ![t].alone = TRUE]
        /\ UNCHANGED card
  /\ Quiet
  /\ UNCHANGED <<diskVars, server, selected, resume, promised>>

WriteRuntime(t) ==
  /\ install[t].at = "runtime"
  /\ configured' = install[t].profile
  /\ Wrote(t, "checking")
  /\ Quiet
  /\ UNCHANGED <<clone, stub, binding, note, yaml, installed, selected, card, resume>>

(* The backup is written and config.yaml is read a second time.            *)
CheckYaml(t) ==
  /\ install[t].at = "checking"
  /\ yaml = install[t].yaml
  /\ Advance(t, "stub")
  /\ Quiet
  /\ UNCHANGED <<diskVars, server, selected, card, resume, promised>>

WriteStub(t) ==
  /\ install[t].at = "stub"
  /\ stub' = TRUE
  /\ Wrote(t, "binding")
  /\ Quiet
  /\ UNCHANGED <<clone, binding, note, yaml, configured, installed, selected, card, resume>>

WriteBinding(t) ==
  /\ install[t].at = "binding"
  /\ binding' = install[t].build
  /\ Wrote(t, "yaml")
  /\ Quiet
  /\ UNCHANGED <<clone, stub, note, yaml, configured, installed, selected, card, resume>>

(* rewriteServerPluginConfig of the text as it was validated.              *)
WriteYaml(t) ==
  /\ install[t].at = "yaml"
  /\ yaml' = [install[t].yaml EXCEPT !.plugins = TRUE]
  /\ Wrote(t, "ending")
  /\ Quiet
  /\ UNCHANGED <<clone, stub, binding, note, configured, installed, selected, card, resume>>

(* The receipt; the card asks for a restart.                               *)
Complete(t) ==
  /\ install[t].at = "ending"
  /\ Advance(t, "expecting")
  /\ card' = [card EXCEPT !.enabled = FALSE, !.pending = TRUE]
  /\ promised' = IF install[t].alone
                   THEN [build |-> install[t].build, profile |-> install[t].profile]
                   ELSE promised
  /\ Quiet
  /\ UNCHANGED <<diskVars, server, selected, resume>>

(* A step that throws: a precondition that does not hold, or a fault.      *)
FailInstall(t) ==
  /\ \/ install[t].at \in {"input", "validating"} /\ clone = Nil /\ Quiet
     \/ install[t].at = "checking" /\ yaml # install[t].yaml /\ Quiet
     \/ install[t].at \in {"input", "validating"} \cup Writing /\ MachineFault
  /\ card' = CardOff
  /\ install' = [install EXCEPT ![t] = Resting]
  /\ UNCHANGED <<diskVars, server, selected, resume, promised>>

(* verify: the build to wait for is the one that is shipped now.           *)
PollBegins(t) ==
  /\ install[t].at = "expecting"
  /\ install' = [install EXCEPT
       ![t] = IF clone = Nil THEN Resting
              ELSE [Resting EXCEPT !.at = "polling", !.build = clone]]
  /\ Quiet
  /\ UNCHANGED <<diskVars, server, selected, card, resume, promised>>

(* It is ready, or ten minutes have passed.                                *)
PollEnds(t) ==
  /\ install[t].at = "polling"
  /\ \/ Ready(install[t].build) /\ Settle(t)
     \/ install' = [install EXCEPT ![t] = Resting] /\ UNCHANGED card
  /\ Quiet
  /\ UNCHANGED <<diskVars, server, selected, resume, promised>>

InstallStep(t) ==
  \/ InspectFirst(t) \/ ReadInput(t) \/ Validate(t) \/ WriteRuntime(t) \/ CheckYaml(t)
  \/ WriteStub(t) \/ WriteBinding(t) \/ WriteYaml(t) \/ Complete(t)
  \/ FailInstall(t) \/ PollBegins(t) \/ PollEnds(t)

-----------------------------------------------------------------------------
(* resumeProvisioningVerification                                          *)

ResumeReady ==
  /\ resume.at = "inspecting"
  /\ Ready(clone)
  /\ card' = IF resume.requested THEN Settled ELSE card
  /\ resume' = NoResume
  /\ Quiet
  /\ UNCHANGED <<diskVars, server, selected, install, promised>>

ResumeNotReady ==
  /\ resume.at = "inspecting"
  /\ card' = IF ~resume.pending /\ card.enabled
               THEN [card EXCEPT !.enabled = FALSE, !.box = FALSE] ELSE card
  /\ resume' = IF resume.pending THEN [resume EXCEPT !.at = "expecting"] ELSE NoResume
  /\ Quiet
  /\ UNCHANGED <<diskVars, server, selected, install, promised>>

ResumePollBegins ==
  /\ resume.at = "expecting"
  /\ resume' = IF clone = Nil THEN NoResume
               ELSE [resume EXCEPT !.at = "polling", !.build = clone]
  /\ Quiet
  /\ UNCHANGED <<diskVars, server, selected, card, install, promised>>

ResumePollEnds ==
  /\ resume.at = "polling"
  /\ card' \in {card, IF Ready(resume.build) /\ card.pending THEN Settled ELSE card}
  /\ resume' = NoResume
  /\ Quiet
  /\ UNCHANGED <<diskVars, server, selected, install, promised>>

-----------------------------------------------------------------------------

ServerStep ==
  \/ StartRefused \/ StartInstalled \/ StartFetch \/ FetchDone \/ FetchFails \/ StopServer
  \/ NoticeUninstall \/ Remove \/ RemoveCut

UserStep ==
  \/ ChangeClone \/ EditYaml \/ Select \/ SwitchProfile \/ SwitchOff \/ Reload
  \/ \E t \in Install : SwitchOn(t)

ResumeStep == ResumeReady \/ ResumeNotReady \/ ResumePollBegins \/ ResumePollEnds

ProvisionNext ==
  \/ ServerStep \/ UserStep
  \/ \E t \in Install : InstallStep(t)
  \/ ResumeStep

ProvisionSpec == ProvisionInit /\ [][ProvisionNext]_provisionVars

-----------------------------------------------------------------------------

(* "Please restart SillyTavern once": unless something changed the clone,  *)
(* config.yaml, the profile or the installation after it was validated,    *)
(* the server that is started next runs the promised build and the         *)
(* promised profile, or none because its Companion does not start; or it   *)
(* could not fetch the build, or found a damaged one that an earlier       *)
(* removal left.  What an earlier uninstallation left behind (its note,    *)
(* its empty directories, the stub) never stands in the way                *)
(* (enableMnemosyneFromProvisioningCard, resolveBinding,                   *)
(* completePendingCompanionRemoval).                                       *)
PromiseKept ==
  server.phase = "up" /\ server.due # Nil =>
    \/ server.build = server.due.build /\ server.profile \in {server.due.profile, Nil}
    \/ server.why \in {"network", "damaged"}

(* What does not hold: a runtime that is switched off stays off (the card  *)
(* says so).  The poll of the card, and an inspection of the resumption,   *)
(* settle although the user switched off meanwhile.                        *)
OffStaysOff == [][card'.enabled /\ ~card.enabled => card.box]_card

(* What does not hold: an installation fails rather than overwrite an edit *)
(* of config.yaml ("changed while Mnemosyne was being installed"): it is   *)
(* compared before the stub and the binding are written.                   *)
EditsSurvive == [][yaml'.edits >= yaml.edits]_yaml

(* What does not hold: the removal only takes away what was uninstalled.   *)
(* It looked before it waited for the Companion to stop.                   *)
RemovesOnlyUninstalled == [][note' /\ ~note => clone = Nil]_note

(* What does not hold: the note that a removal leaves is acted on by the   *)
(* next start.  The bootstrap needs the binding, which is removed with it. *)
NextStartActs ==
  [][server.phase = "down" /\ server'.phase = "up" /\ note /\ stub /\ yaml.plugins
       => ~note']_server
=============================================================================
