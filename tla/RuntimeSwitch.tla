---------------------------- MODULE RuntimeSwitch ----------------------------
(***************************************************************************)
(* How the SillyTavern plugin replaces the Companion runtime when another  *)
(* profile is selected (src/runtime/companion-supervisor.js with the       *)
(* dependencies that distribution/server-plugin/index.mjs gives it,        *)
(* main-runtime-configuration-store.js, runtime-operation-tracker.js and   *)
(* the target that the bridge asks for).                                   *)
(*                                                                         *)
(* activate asks the running runtime whether it is busy, writes the new    *)
(* configuration, stops the runtime, starts another one and verifies by    *)
(* its health that it runs the profile; an error rolls back.  The plugin   *)
(* knows a runtime by three names: the target the bridge routes to, the    *)
(* child process that stopCompanion would stop, and the base url that the  *)
(* last start reported.                                                    *)
(*                                                                         *)
(* An await that needs the outside world (a health answer, the exit of a   *)
(* child, its ready message, a timer) ends in a step of its own; awaits of *)
(* functions that only touch the disk synchronously do not let any event   *)
(* in between.  The external runtime of the cloud image is not modelled.   *)
(***************************************************************************)
EXTENDS Naturals

CONSTANTS
  Profile,        \* runtime profiles (profile_hash)
  Request,        \* requests that the bridge forwards
  Null,           \* null
  MaxInstances,   \* bound: runtime processes that are ever started
  MaxSwitchFaults \* bound: failures, timeouts and crashes

Instance == 1 .. MaxInstances
NoInstance == 0

VARIABLES
  config,    \* disk: the profile of config/runtime.json, or Null
  life,      \* processes: instance -> how it lives or died
  runs,      \* processes: instance -> the profile it read at its start
  announced, \* channel: instances whose runtime-ready message is on its way
  exited,    \* channel: instances whose exit event is on its way
  up,        \* is the SillyTavern process running?
  child,     \* memory: companionProcess
  url,       \* memory: currentRuntimeBaseUrl, by its instance
  target,    \* memory: the target of the supervisor, or Null
  blocked,   \* memory: routingBlocked
  switch,    \* memory: the activation in flight, or the start of the plugin
  ops,       \* the requests of the bridge
  started,   \* how many instances there have been
  switchFaults     \* how many faults there have been

processes == <<life, runs, announced, exited, started>>
plugin == <<child, url, target, blocked>>
switchVars == <<config, processes, up, plugin, switch, ops, switchFaults>>

-----------------------------------------------------------------------------

(* An orphaned process outlived the plugin that started it.                *)
Life == {"unborn", "booting", "ready", "closing", "ended", "killed", "crashed",
         "orphaned"}

Target == [instance : Instance, profile : Profile]

(* The phases of activate; "restoring" and after are rollback, "init" and  *)
(* after the start of the plugin.                                          *)
Phase == {"idle", "asking", "stopping", "starting", "verifying",
          "undoing", "restarting", "rechecking", "init", "initVerifying"}

Switch == [phase    : Phase,
           want     : Profile \cup {Null},
           previous : Target \cup {Null},
           snapshot : Profile \cup {Null},
           waits    : Instance \cup {NoInstance}, \* the child of this await
           busy     : {"unknown", "no", "yes"}]   \* the health answer

NoSwitch == [phase |-> "idle", want |-> Null, previous |-> Null,
             snapshot |-> Null, waits |-> NoInstance, busy |-> "unknown"]

Op == [phase : {"idle", "resolved", "running"},
       at : Instance \cup {NoInstance},
       earlier : BOOLEAN]      \* resolved before the switch in flight began?

NoOp == [phase |-> "idle", at |-> NoInstance, earlier |-> FALSE]

SwitchTypeOK ==
  /\ config \in Profile \cup {Null}
  /\ life \in [Instance -> Life]
  /\ runs \in [Instance -> Profile \cup {Null}]
  /\ announced \subseteq Instance
  /\ exited \subseteq Instance
  /\ up \in BOOLEAN
  /\ child \in Instance \cup {NoInstance}
  /\ url \in Instance \cup {NoInstance}
  /\ target \in Target \cup {Null}
  /\ blocked \in BOOLEAN
  /\ switch \in Switch
  /\ ops \in [Request -> Op]
  /\ started \in 0 .. MaxInstances
  /\ switchFaults \in 0 .. MaxSwitchFaults
  /\ blocked => switch.phase # "idle"

(* The stop that was awaited is over: activate goes on before any event.   *)
Continuing == switch.phase \in {"stopping", "undoing"} /\ switch.waits = NoInstance

(* The operations that a runtime counts (active_operation_count).          *)
OpsAt(n) == {r \in Request : ops[r].phase = "running" /\ ops[r].at = n}

(* Requests of a process that ends are answered with an error.             *)
Dropped(n) ==
  [r \in Request |-> IF r \in OpsAt(n) THEN NoOp ELSE ops[r]]

SwitchFault == switchFaults < MaxSwitchFaults /\ switchFaults' = switchFaults + 1

(* The plugin of a new installation: no configuration and no runtime yet.  *)
SwitchInit ==
  /\ config = Null
  /\ life = [n \in Instance |-> "unborn"]
  /\ runs = [n \in Instance |-> Null]
  /\ announced = {} /\ exited = {} /\ started = 0
  /\ up = FALSE
  /\ child = NoInstance /\ url = NoInstance /\ target = Null /\ blocked = FALSE
  /\ switch = NoSwitch
  /\ ops = [r \in Request |-> NoOp]
  /\ switchFaults = 0

-----------------------------------------------------------------------------
(* The processes                                                           *)

(* startCompanion up to its first await: the child is there, not ready.    *)
Spawn ==
  /\ started < MaxInstances
  /\ started' = started + 1
  /\ life' = [life EXCEPT ![started'] = "booting"]
  /\ child' = started'

(* The launcher reads the configuration file, listens and reports.         *)
BecomeReady(n) ==
  /\ life[n] = "booting"
  /\ life' = [life EXCEPT ![n] = "ready"]
  /\ runs' = [runs EXCEPT ![n] = config]
  /\ announced' = announced \cup {n}
  /\ UNCHANGED <<config, exited, started, up, plugin, switch, ops, switchFaults>>

Die(n, how) ==
  /\ life' = [life EXCEPT ![n] = how]
  /\ exited' = exited \cup {n}
  /\ ops' = Dropped(n)
  /\ UNCHANGED <<config, runs, announced, started, up, plugin, switch>>

(* A crash, or a start that fails (a port, a broken configuration).        *)
ChildCrash(n) == SwitchFault /\ life[n] \in {"booting", "ready"} /\ Die(n, "crashed")

(* shutdown: the server stops listening and waits for what it is serving.  *)
Close(n) == life[n] = "closing" /\ OpsAt(n) = {} /\ Die(n, "ended")
            /\ UNCHANGED switchFaults

(* SIGTERM                                                                 *)
Terminate(n) ==
  life' = IF life[n] \in {"booting", "ready"}
          THEN [life EXCEPT ![n] = "closing"] ELSE life

-----------------------------------------------------------------------------
(* The bridge                                                              *)

(* Mutant: requests are routed during a switch.                            *)
RoutedAlways == target

(* currentTarget                                                           *)
Routed == IF blocked THEN Null ELSE target

Resolve(r) ==
  /\ up /\ ~ Continuing /\ ops[r].phase = "idle"
  /\ Routed # Null
  /\ ops' = [ops EXCEPT ![r] = [phase |-> "resolved", at |-> Routed.instance,
                               earlier |-> FALSE]]
  /\ UNCHANGED <<config, processes, up, plugin, switch, switchFaults>>

(* runtimeOperations.begin, or bridge_runtime_unreachable                  *)
Arrive(r) ==
  /\ ops[r].phase = "resolved"
  /\ ops' = [ops EXCEPT ![r] = IF life[ops[r].at] = "ready"
                               THEN [@ EXCEPT !.phase = "running"] ELSE NoOp]
  /\ UNCHANGED <<config, processes, up, plugin, switch, switchFaults>>

(* The response finishes or closes: release.                               *)
Finish(r) ==
  /\ ops[r].phase = "running"
  /\ ops' = [ops EXCEPT ![r] = NoOp]
  /\ UNCHANGED <<config, processes, up, plugin, switch, switchFaults>>

-----------------------------------------------------------------------------
(* activate                                                                *)

(* A profile that the target has already, or that is being switched to, is *)
(* answered without a switch; so is any other while one is in flight.      *)
ActivateProfile(p) ==
  /\ up /\ switch.phase = "idle"
  /\ target # Null => target.profile # p
  /\ started + 2 <= MaxInstances
  /\ blocked' = TRUE
  /\ switch' = [NoSwitch EXCEPT !.phase = "asking", !.want = p,
                                !.previous = target]
  /\ ops' = [r \in Request |->
               IF ops[r].phase = "idle" THEN NoOp
               ELSE [ops[r] EXCEPT !.earlier = TRUE]]
  /\ UNCHANGED <<config, processes, up, child, url, target, switchFaults>>

(* isRuntimeBusy: whom it asks                                             *)
Asked == IF switch.previous # Null THEN switch.previous.instance ELSE url

(* The answer of GET /health; none counts as busy.                         *)
HealthOf(n) == IF life[n] = "ready" /\ OpsAt(n) = {} THEN "no" ELSE "yes"

AnswerHealth ==
  /\ switch.phase = "asking" /\ switch.busy = "unknown"
  /\ switch' = [switch EXCEPT !.busy = IF Asked = NoInstance THEN "no"
                                       ELSE HealthOf(Asked)]
  /\ UNCHANGED <<config, processes, up, plugin, ops, switchFaults>>

(* runtime_profile_operation_busy                                          *)
RefuseBusy ==
  /\ switch.phase = "asking" /\ switch.busy = "yes"
  /\ blocked' = FALSE
  /\ switch' = NoSwitch
  /\ UNCHANGED <<config, processes, up, child, url, target, ops, switchFaults>>

(* stopCompanion up to its await: a child is told to end.                  *)
StopCompanion ==
  /\ url' = NoInstance
  /\ child' = NoInstance
  /\ IF child = NoInstance THEN UNCHANGED life ELSE Terminate(child)

(* snapshotConfiguration, stageProfile and the start of stopRuntime follow *)
(* each other without an event in between.                                 *)
StageAndStop ==
  /\ switch.phase = "asking" /\ switch.busy = "no"
  /\ config' = switch.want
  /\ StopCompanion
  /\ switch' = [switch EXCEPT !.phase = "stopping", !.snapshot = config,
                              !.waits = child]
  /\ UNCHANGED <<runs, announced, exited, started, up, target, blocked, ops,
                 switchFaults>>

(* stageProfile fails: nothing has been stopped and the previous target    *)
(* stays, unless restoreConfiguration fails as well.                       *)
StagingFails ==
  /\ switch.phase = "asking" /\ switch.busy = "no"
  /\ SwitchFault
  /\ target' \in {switch.previous, Null}
  /\ blocked' = FALSE
  /\ switch' = NoSwitch
  /\ UNCHANGED <<config, processes, up, child, url, ops>>

(* The answer to an activation; nothing is routed before it.               *)
EndSwitch(newTarget) ==
  /\ target' = newTarget
  /\ blocked' = FALSE
  /\ switch' = NoSwitch

(* The prior runtime has ended: the target is dropped and the new one      *)
(* starts.                                                                 *)
StartCandidate ==
  /\ switch.phase = "stopping" /\ Continuing
  /\ target' = Null
  /\ Spawn
  /\ switch' = [switch EXCEPT !.phase = "starting", !.waits = started']
  /\ UNCHANGED <<config, runs, announced, exited, up, url, blocked, ops, switchFaults>>

(* restoreConfiguration                                                    *)
Restored == switch.snapshot

RestartPrevious ==
  /\ switch.phase = "undoing" /\ Continuing
  /\ switch.previous # Null
  /\ config' = Restored
  /\ Spawn
  /\ switch' = [switch EXCEPT !.phase = "restarting", !.waits = started']
  /\ UNCHANGED <<runs, announced, exited, up, url, target, blocked, ops, switchFaults>>

NothingToRestart ==
  /\ switch.phase = "undoing" /\ Continuing
  /\ switch.previous = Null
  /\ config' = Restored
  /\ EndSwitch(Null)
  /\ UNCHANGED <<processes, up, child, url, ops, switchFaults>>

(* Mutant: a rollback that fails keeps announcing the old target.          *)
RestoreFailsKeepsTarget ==
  /\ switch.phase = "undoing" /\ Continuing
  /\ SwitchFault
  /\ EndSwitch(switch.previous)
  /\ UNCHANGED <<config, processes, up, child, url, ops>>

RestoreFails ==
  /\ switch.phase = "undoing" /\ Continuing
  /\ SwitchFault
  /\ EndSwitch(Null)
  /\ UNCHANGED <<config, processes, up, child, url, ops>>

-----------------------------------------------------------------------------
(* Events of the children                                                  *)

(* The error of an awaited start: activate rolls back and stops the        *)
(* candidate, rollback gives up the target, the plugin starts without one. *)
StartFails ==
  IF switch.phase = "starting"
  THEN /\ StopCompanion
       /\ switch' = [switch EXCEPT !.phase = "undoing", !.waits = child]
       /\ UNCHANGED <<target, blocked>>
  ELSE /\ EndSwitch(Null)
       /\ UNCHANGED <<life, child, url>>

Starting == switch.phase \in {"starting", "restarting", "init"}

(* The exit of any child makes the plugin forget the one it has.           *)
HandleExit(n) ==
  /\ up /\ ~ Continuing
  /\ n \in exited
  /\ exited' = exited \ {n}
  /\ child' = NoInstance
  /\ UNCHANGED <<config, life, runs, announced, started, up, ops, switchFaults>>
  /\ CASE switch.phase \in {"stopping", "undoing"} /\ switch.waits = n ->
            /\ switch' = [switch EXCEPT !.waits = NoInstance]
            /\ UNCHANGED <<url, target, blocked>>
       [] switch.phase = "starting" /\ switch.waits = n ->
            /\ url' = NoInstance
            /\ switch' = [switch EXCEPT !.phase = "undoing", !.waits = NoInstance]
            /\ UNCHANGED <<target, blocked>>
       [] switch.phase \in {"restarting", "init"} /\ switch.waits = n ->
            EndSwitch(Null) /\ UNCHANGED url
       [] OTHER -> UNCHANGED <<url, target, blocked, switch>>

(* The ready message of any child names the url, late or not.              *)
HandleReady(n) ==
  /\ up /\ ~ Continuing
  /\ n \in announced
  /\ announced' = announced \ {n}
  /\ url' = n
  /\ switch' = IF Starting /\ switch.waits = n
               THEN [switch EXCEPT !.phase =
                       [starting |-> "verifying", restarting |-> "rechecking",
                        init |-> "initVerifying"][switch.phase]]
               ELSE switch
  /\ UNCHANGED <<config, life, runs, exited, started, up, child, target, blocked,
                 ops, switchFaults>>

(* COMPANION_START_TIMEOUT_MS                                              *)
StartTimeout ==
  /\ Starting
  /\ SwitchFault
  /\ StartFails
  /\ UNCHANGED <<config, runs, announced, exited, started, up, ops>>

(* Mutant: a runtime that still serves is not killed.                      *)
KillTimerPatient ==
  /\ switch.phase \in {"stopping", "undoing"} /\ ~ Continuing
  /\ life[switch.waits] = "closing" /\ OpsAt(switch.waits) = {}
  /\ SwitchFault
  /\ life' = [life EXCEPT ![switch.waits] = "killed"]
  /\ exited' = exited \cup {switch.waits}
  /\ switch' = [switch EXCEPT !.waits = NoInstance]
  /\ UNCHANGED <<config, runs, announced, started, up, plugin, ops>>

(* Five seconds after SIGTERM the child is killed and not waited for.  A   *)
(* child that still serves takes that long, any other may.                 *)
KillTimer ==
  /\ switch.phase \in {"stopping", "undoing"} /\ ~ Continuing
  /\ life[switch.waits] = "closing"
  /\ IF OpsAt(switch.waits) # {} THEN UNCHANGED switchFaults ELSE SwitchFault
  /\ life' = [life EXCEPT ![switch.waits] = "killed"]
  /\ exited' = exited \cup {switch.waits}
  /\ ops' = Dropped(switch.waits)
  /\ switch' = [switch EXCEPT !.waits = NoInstance]
  /\ UNCHANGED <<config, runs, announced, started, up, plugin>>

(* verifyRuntime: the health names the profile that the runtime read.      *)
Verifies(n, p) == life[n] = "ready" /\ runs[n] = p

(* A health answer may also be lost; that is a fault.                      *)
Verified(p) == Verifies(switch.waits, p) /\ UNCHANGED switchFaults
NotVerified(p) == 
  IF Verifies(switch.waits, p) THEN SwitchFault ELSE UNCHANGED switchFaults

VerifyCandidate ==
  /\ switch.phase = "verifying"
  /\ Verified(switch.want)
  /\ EndSwitch([instance |-> switch.waits, profile |-> switch.want])
  /\ UNCHANGED <<config, processes, up, child, url, ops>>

CandidateMismatch ==
  /\ switch.phase = "verifying"
  /\ NotVerified(switch.want)
  /\ StopCompanion
  /\ switch' = [switch EXCEPT !.phase = "undoing", !.waits = child]
  /\ UNCHANGED <<config, runs, announced, exited, started, up, target, blocked,
                 ops>>

VerifyRestarted ==
  /\ switch.phase = "rechecking"
  /\ Verified(switch.previous.profile)
  /\ EndSwitch([switch.previous EXCEPT !.instance = switch.waits])
  /\ UNCHANGED <<config, processes, up, child, url, ops>>

RollbackMismatch ==
  /\ switch.phase = "rechecking"
  /\ NotVerified(switch.previous.profile)
  /\ EndSwitch(Null)
  /\ UNCHANGED <<config, processes, up, child, url, ops>>

-----------------------------------------------------------------------------
(* init of the plugin, and the death of its process                        *)

StartPlugin ==
  /\ ~ up
  /\ up' = TRUE
  /\ Spawn
  /\ switch' = [NoSwitch EXCEPT !.phase = "init", !.waits = started']
  /\ UNCHANGED <<config, runs, announced, exited, url, target, blocked, ops,
                 switchFaults>>

(* readProfile: no configuration, no initial target.                       *)
VerifyInitial ==
  /\ switch.phase = "initVerifying"
  /\ config # Null /\ Verified(config)
  /\ EndSwitch([instance |-> switch.waits, profile |-> config])
  /\ UNCHANGED <<config, processes, up, child, url, ops>>

StartWithoutTarget ==
  /\ switch.phase = "initVerifying"
  /\ IF config = Null THEN UNCHANGED switchFaults ELSE NotVerified(config)
  /\ EndSwitch(Null)
  /\ UNCHANGED <<config, processes, up, child, url, ops>>

(* The children of a dead plugin live on, out of reach of the next one.    *)
PluginDies ==
  /\ up /\ SwitchFault
  /\ up' = FALSE
  /\ child' = NoInstance /\ url' = NoInstance
  /\ target' = Null /\ blocked' = FALSE
  /\ switch' = NoSwitch
  /\ ops' = [r \in Request |-> NoOp]
  /\ announced' = {} /\ exited' = {}
  /\ life' = [n \in Instance |->
               IF life[n] \in {"booting", "ready"} THEN "orphaned"
               ELSE IF life[n] = "closing" THEN "ended" ELSE life[n]]
  /\ UNCHANGED <<config, runs, started>>

-----------------------------------------------------------------------------

SwitchStep ==
  \/ AnswerHealth \/ RefuseBusy \/ StageAndStop \/ StagingFails
  \/ StartCandidate \/ RestartPrevious \/ NothingToRestart \/ RestoreFails
  \/ KillTimer \/ StartTimeout
  \/ VerifyCandidate \/ CandidateMismatch
  \/ VerifyRestarted \/ RollbackMismatch
  \/ VerifyInitial \/ StartWithoutTarget

ChildEvent(n) == Close(n) \/ BecomeReady(n) \/ HandleExit(n) \/ HandleReady(n)

SwitchNext ==
  \/ \E p \in Profile : ActivateProfile(p)
  \/ SwitchStep
  \/ \E n \in Instance : ChildEvent(n) \/ ChildCrash(n)
  \/ \E r \in Request : Resolve(r) \/ Arrive(r) \/ Finish(r)
  \/ StartPlugin \/ PluginDies

SwitchSpec == SwitchInit /\ [][SwitchNext]_switchVars

(* Awaits end, by an answer, an event or their timer; a child starts, ends *)
(* when it is told to and serves nothing, or crashes.  That a request ever *)
(* finishes is not assumed.                                                *)
SwitchFairSpec ==
  /\ SwitchSpec
  /\ WF_switchVars(SwitchStep)
  /\ \A n \in Instance : WF_switchVars(ChildEvent(n))

-----------------------------------------------------------------------------
(* Properties                                                              *)

(* A request goes to a runtime that runs the profile the supervisor        *)
(* announces and that was never told to stop, and the configuration file   *)
(* names the same profile, so that a restart starts it again: through      *)
(* switches, failed rollbacks and restarts of the plugin (activate and     *)
(* rollback with snapshotConfiguration and restoreConfiguration).          *)
RoutedIsConfigured ==
  Routed # Null =>
    /\ config = Routed.profile
    /\ life[Routed.instance] \in {"ready", "crashed"}
    /\ runs[Routed.instance] = Routed.profile

(* The runtime that runs is the one that the next stop reaches, as long as *)
(* no runtime had to be killed: the exit event of a killed one arrives     *)
(* after the next start and makes the plugin forget the new child          *)
(* (stopCompanion and the exit handler of startCompanion).                 *)
NoStrayRuntime ==
  (\A m \in Instance : life[m] # "killed") =>
    \A n \in Instance : life[n] \in {"booting", "ready"} => child = n

(* Both together: every runtime that can take part is one the plugin knows *)
(* and the configuration names.                                            *)
RuntimesAreKnown == RoutedIsConfigured /\ NoStrayRuntime

(* Only a request that had taken its target before the switch began can    *)
(* lose its runtime to the switch (routingBlocked and isRuntimeBusy).      *)
OnlyEarlierRequestsAreCut ==
  [][\A n \in Instance :
       life[n] = "closing" /\ life'[n] = "killed"
         => \A r \in OpsAt(n) : ops[r].earlier]_switchVars

(* Every activation is answered and the plugin always comes up, with       *)
(* requests that never finish, children that never start and lost answers. *)
SwitchEnds == switch.phase # "idle" ~> switch.phase = "idle"
=============================================================================
