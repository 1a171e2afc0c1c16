------------------------------ MODULE Generation ------------------------------
(***************************************************************************)
(* One browser page: the SillyTavern host assembles prompts, and the       *)
(* extension (integrations/sillytavern-extension/index.js) owns at most    *)
(* one of those assemblies as its active run.  For that run it enlarges    *)
(* the host's token window, fills two prompt slots with the runtime        *)
(* contract and the continuity payload, replaces absorbed author sources   *)
(* by placeholders, and binds the request that leaves to the run.          *)
(*                                                                         *)
(* Every handler is an async function over one shared record, so an await  *)
(* ends in a step of its own: a handler reads the record, waits, and goes  *)
(* on with what it finds then and with what its closure remembers.  Awaits *)
(* of digests alone belong to the step before them, but for the one that   *)
(* ends in the placeholders (fencing), which looks at nothing again.       *)
(*                                                                         *)
(* A generation is a call of the host's Generate.  Sends are requests for  *)
(* a story reply, typed ones go through the send coordinator; dries are    *)
(* assemblies that send nothing: those of the host and of other            *)
(* extensions, and the user's own dry check.  A generation that becomes a  *)
(* run gives the run its name, for every run has a fresh id.               *)
(***************************************************************************)
EXTENDS Naturals, FiniteSets

CONSTANTS
  Sends,       \* real generations
  Dries,       \* dry generations
  None,        \* null
  MaxFaults    \* bound: stops, answers that fail, changes made by others

ASSUME SortsAssumption ==
  Sends \cap Dries = {} /\ None \notin Sends \cup Dries
ASSUME BoundAssumption == MaxFaults \in Nat

Generation == Sends \cup Dries

\* What a prompt slot can hold besides nothing (None) and the payload of a
\* run (the run's name): the frame that stands in for it during a dry run.
Frame(d) == <<d>>

VARIABLES
  page,     \* the extension's state record, the host's settings and slots
  box,      \* the send coordinator: who is in flight, who holds the permit
  at,       \* generation -> the await it is in, or the host's phase
  view,     \* generation -> what the closure of its pending handler holds
  prompt,   \* generation -> the prompt that the host assembled for it
  how,      \* generation -> how its request left
  stopped,  \* generations that the user stopped
  faults    \* faults so far

vars == <<page, box, at, view, prompt, how, stopped, faults>>

Nothing == [run |-> None, lease |-> None, context |-> None,
            sources |-> 0, data |-> {}]

Init ==
  /\ page = [run |-> None, marker |-> None, bound |-> FALSE,
             context |-> None, inputs |-> None, grants |-> FALSE,
             isolation |-> None, fence |-> None,
             blocked |-> FALSE, stamp |-> FALSE, abort |-> FALSE,
             lease |-> None, frames |-> {}, base |-> None,
             checking |-> None, pending |-> FALSE,
             settings |-> "own", slots |-> None,
             sources |-> 0]
  /\ box = [flight |-> None, permit |-> None]
  /\ at = [g \in Generation |-> "idle"]
  /\ view = [g \in Generation |-> Nothing]
  /\ prompt = [g \in Generation |-> None]
  /\ how = [g \in Generation |-> None]
  /\ stopped = {}
  /\ faults = 0

Resting(g) == at[g] \in {"idle", "over"}
\* The listeners of a real generation have run and it was not stopped: the
\* host shows the stop button and takes no other send.
Busy == \E g \in Sends \ stopped :
          at[g] \in {"intercept", "scan", "measuring", "assemble",
                    "ready", "granting", "fencing", "settings", "merging",
                    "closing"}

-----------------------------------------------------------------------------
(* The budget lease: while a run is prepared, PromptManager works on a     *)
(* copy of its settings with a larger window.                              *)

Expected(p) == IF p.lease.overlay THEN "overlay" ELSE p.lease.original
Owned(p) == p.settings = Expected(p)

\* Mutant: the lease goes and the window stays large.
SettledUnrestored(p) == [p EXCEPT !.lease = None]

\* settleFrame: settings that somebody else put there stay.
Settled(p) ==
  IF p.lease = None THEN p
  ELSE [p EXCEPT !.lease = None,
          !.settings = IF @ = Expected(p) THEN p.lease.original ELSE @]

NoFrames(p) == [p EXCEPT !.frames = {}, !.base = None]
NoSlots(p) == [NoFrames(p) EXCEPT !.slots = None]

Cleared(p) ==
  [NoSlots(Settled(p)) EXCEPT
     !.context = None, !.inputs = None, !.grants = FALSE,
     !.isolation = None, !.fence = None,
     !.marker = None, !.bound = FALSE, !.stamp = FALSE]

\* A block decided before a run marker exists.
Stamped(p) ==
  [Cleared(p) EXCEPT !.run = None, !.abort = TRUE, !.blocked = TRUE,
                     !.stamp = TRUE]
\* A block that ends the run that was being prepared.
DroppedRun(p) == [Cleared(p) EXCEPT !.run = None, !.blocked = TRUE]

Finished(p) == [Cleared(p) EXCEPT !.run = None, !.abort = FALSE]

FrameIsCurrent(p, v) ==
  /\ p.lease # None
  /\ p.lease.by = v.lease
  /\ v.run # None
  /\ p.marker = v.run /\ p.run = v.run
  /\ p.lease.run = v.run /\ p.lease.marker = v.run
  /\ p.context = v.context /\ v.context # None
  /\ ~p.blocked

\* blockOwnedHostAssemblyFrame
FrameBlocked(p, v) ==
  IF /\ p.lease # None /\ p.lease.by = v.lease
     /\ p.marker = v.run /\ p.run = v.run
  THEN [Settled(p) EXCEPT !.blocked = TRUE, !.pending = FALSE]
  ELSE p

Overlaid(p) ==
  [p EXCEPT !.settings = "overlay", !.lease.overlay = TRUE]

-----------------------------------------------------------------------------
(* Frames of foreign dry runs: while a run is active, a dry run of anybody *)
(* else must not assemble the run's payload.                               *)

SlotsOfFrame(p) == \E d \in p.frames : p.slots = Frame(d)
FramesPending(p) == p.frames # {} \/ SlotsOfFrame(p)

FrameBegun(p, d) ==
  IF p.frames # {} /\ p.base.marker # p.marker THEN p
  ELSE [p EXCEPT
          !.base = IF p.frames = {}
                   THEN [marker |-> p.marker, slots |-> p.slots] ELSE @,
          !.frames = @ \cup {d},
          !.slots = Frame(d)]

FrameSettled(p, d) ==
  [p EXCEPT
     !.slots = IF @ = Frame(d) THEN p.base.slots ELSE @,
     !.frames = @ \ {d},
     !.base = IF p.frames = {d} THEN None ELSE @]

FramesSettled(p) ==
  IF p.base = None \/ p.base.marker # p.marker THEN p
  ELSE NoFrames([p EXCEPT
         !.slots = IF SlotsOfFrame(p) THEN p.base.slots ELSE @])

\* completeDryRunLifecycle, then clearExtensionPromptSlots.
DryCompleted(p, r) ==
  IF r \in Dries /\ p.marker = r /\ p.run = r
  THEN NoSlots([p EXCEPT !.run = None, !.marker = None, !.bound = FALSE,
                         !.context = None, !.inputs = None,
                         !.grants = FALSE, !.pending = FALSE])
  ELSE p

-----------------------------------------------------------------------------
(* A generation starts.                                                    *)

\* Where the host goes on after the listeners of GENERATION_AFTER_COMMANDS.
Onward(g) == IF g \in Sends THEN "intercept" ELSE "scan"

Goes(g, p, phase) ==
  /\ page' = p
  /\ at' = [at EXCEPT ![g] = phase]

\* What becomes of a request; one that was stopped never leaves.
Leaves(g, way) ==
  how' = [how EXCEPT ![g] = IF g \in stopped THEN "cancelled" ELSE way]

\* An await ends; the answer may be an error.
Answer(ok) ==
  IF ok THEN UNCHANGED faults
  ELSE faults < MaxFaults /\ faults' = faults + 1

\* Admitted: a run of its own, unless another one is active.
Begins(g, p) ==
  IF p.marker # None
  THEN Goes(g, DroppedRun([p EXCEPT !.abort = FALSE]), Onward(g))
  ELSE Goes(g, [Cleared(p) EXCEPT !.abort = FALSE, !.run = g, !.marker = g,
                                  !.blocked = FALSE], "health")

\* onGenerationStarted up to its first await.
SendEnters(g, permitted) ==
  CASE page.checking # None ->
         Goes(g, Stamped(page), "intercept") /\ Leaves(g, "refused")
    [] page.checking = None /\ permitted ->
         Begins(g, page) /\ UNCHANGED how
    [] OTHER -> Goes(g, page, "gates") /\ UNCHANGED how

\* Any dry run that meets a pending check before a marker passes for it.
DryEnters(g, p) ==
  CASE p.marker # None -> Goes(g, FrameBegun(p, g), "scan")
    [] p.marker = None /\ p.pending -> Goes(g, p, "gates")
    [] OTHER -> Goes(g, [Cleared(p) EXCEPT !.run = None], "scan")

\* The send button or Enter: an intent of its own when none is in flight;
\* the same intent joins the promise in flight, another one is refused.
Type(g) ==
  /\ g \in Sends /\ at[g] = "idle" /\ box.flight = None
  /\ IF page.checking # None
     THEN at' = [at EXCEPT ![g] = "over"] /\ UNCHANGED box
     ELSE /\ at' = [at EXCEPT ![g] = "preflight"]
          /\ box' = [box EXCEPT !.flight = g]
  /\ UNCHANGED <<page, view, prompt, how, stopped, faults>>

\* The profile is active, the gates let the send pass, the intent is the same.
Preflight(g) == \E ok \in BOOLEAN :
  /\ at[g] = "preflight"
  /\ Answer(ok)
  /\ IF ok THEN /\ box' = [box EXCEPT !.permit = g]
                /\ at' = [at EXCEPT ![g] = "dispatch"]
     ELSE /\ box' = [box EXCEPT !.flight = None]
          /\ at' = [at EXCEPT ![g] = "over"]
  /\ UNCHANGED <<page, view, prompt, how, stopped>>

\* sendTextareaMessage returns at once while the host is generating.
Dispatch(g) ==
  /\ at[g] = "dispatch"
  /\ IF Busy THEN /\ at' = [at EXCEPT ![g] = "over"]
                  /\ box' = [flight |-> None, permit |-> None]
                  /\ UNCHANGED <<page, how>>
     ELSE /\ SendEnters(g, box.permit = g)
          /\ box' = [box EXCEPT !.permit = None]
  /\ UNCHANGED <<view, prompt, stopped, faults>>

\* A swipe, a regeneration, a slash command: past the send coordinator.  A
\* permit stands for its intent, and an equal one consumes it.
Press(g) == \E permitted \in BOOLEAN :
  /\ g \in Sends /\ at[g] = "idle" /\ ~Busy
  /\ permitted => box.permit # None
  /\ SendEnters(g, permitted)
  /\ box' = IF permitted THEN [box EXCEPT !.permit = None] ELSE box
  /\ UNCHANGED <<view, prompt, stopped, faults>>

\* The host or another extension assembles a prompt without sending it.
DryRun(g) ==
  /\ g \in Dries /\ at[g] = "idle"
  /\ DryEnters(g, page)
  /\ UNCHANGED <<box, view, prompt, how, stopped, faults>>

\* runDryCheck claims the exclusive operation.
DryCheck(g) ==
  /\ g \in Dries /\ at[g] = "idle" /\ page.checking = None
  /\ Goes(g, [page EXCEPT !.checking = g, !.pending = TRUE], "checking")
  /\ UNCHANGED <<box, view, prompt, how, stopped, faults>>

Checking(g) == \E ok \in BOOLEAN :
  /\ at[g] = "checking"
  /\ Answer(ok)
  /\ IF ok THEN DryEnters(g, page) ELSE Goes(g, page, "closing")
  /\ UNCHANGED <<box, view, prompt, how, stopped>>

-----------------------------------------------------------------------------
(* onGenerationStarted                                                     *)

\* runGenerationAdmissionGates
Gates(g) == \E ok \in BOOLEAN :
  /\ at[g] = "gates"
  /\ Answer(ok)
  /\ CASE ok -> Begins(g, page) /\ UNCHANGED how
       [] ~ok /\ g \in Sends ->
            Goes(g, Stamped(page), "intercept") /\ Leaves(g, "refused")
       [] OTHER -> Goes(g, DroppedRun(page), "scan") /\ UNCHANGED how
  /\ UNCHANGED <<box, view, prompt, stopped>>

\* loadProxyHealth; then the lease is taken, the budget bound and the context
\* asked for, all for the run that is there now.
Leased(g) ==
  [page EXCEPT !.lease =
     [by |-> g, run |-> page.run, marker |-> page.marker,
      original |-> page.settings, overlay |-> FALSE,
      seal |-> None, scan |-> None]]

Health(g) == \E ok \in BOOLEAN :
  /\ at[g] = "health"
  /\ Answer(ok)
  /\ IF ok /\ page.run # None /\ page.marker # None
           /\ page.lease = None /\ page.settings # "overlay"
     THEN /\ Goes(g, Leased(g), "context")
          /\ view' = [view EXCEPT ![g].run = page.run]
     ELSE Goes(g, DroppedRun(page), Onward(g)) /\ UNCHANGED view
  /\ UNCHANGED <<box, prompt, how, stopped>>

\* A handler returns: its closure is gone.
Forgets(g) == view' = [view EXCEPT ![g] = Nothing]

\* The answer of readContext fills the slots; the frame is looked up anew.
Loaded(g) == [page EXCEPT !.context = g, !.slots = view[g].run]
Seen(g, p) ==
  [Nothing EXCEPT !.run = p.marker, !.context = p.context,
                  !.sources = p.sources,
                  !.lease = IF p.lease = None THEN None ELSE p.lease.by]

Context(g) == \E ok \in BOOLEAN :
  /\ at[g] = "context"
  /\ Answer(ok)
  /\ LET p == Loaded(g)
         v == Seen(g, p)
     IN CASE ~ok -> Goes(g, DroppedRun(page), Onward(g)) /\ Forgets(g)
          [] ok /\ ~FrameIsCurrent(p, v) ->
               Goes(g, p, Onward(g)) /\ Forgets(g)
          [] ok /\ FrameIsCurrent(p, v) /\ ~Owned(p) ->
               Goes(g, DroppedRun(p), Onward(g)) /\ Forgets(g)
          [] OTHER -> Goes(g, p, "base") /\ view' = [view EXCEPT ![g] = v]
  /\ UNCHANGED <<box, prompt, how, stopped>>

\* measureAndInstallHostAssemblyOverlay, phase base
Base(g) == \E ok \in BOOLEAN :
  /\ at[g] = "base"
  /\ Answer(ok)
  /\ LET v == view[g]
     IN CASE ~FrameIsCurrent(page, v) -> Goes(g, page, Onward(g))
          [] /\ FrameIsCurrent(page, v)
             /\ ok /\ page.lease.seal = None
             /\ page.sources = v.sources /\ Owned(page) ->
               Goes(g, [Overlaid(page) EXCEPT !.lease.seal = v.sources],
                    Onward(g))
          [] OTHER -> Goes(g, DroppedRun(page), Onward(g))
  /\ Forgets(g)
  /\ UNCHANGED <<box, prompt, how, stopped>>

-----------------------------------------------------------------------------
(* The host interceptor and the end of the World Info scan.                *)

Intercept(g) == \E ok \in BOOLEAN :
  /\ at[g] = "intercept"
  /\ Answer(ok)
  /\ IF ok /\ ~page.abort /\ ~page.blocked /\ page.context # None
     THEN Goes(g, page, "scan") /\ UNCHANGED how
     ELSE /\ Goes(g, [Cleared(page) EXCEPT !.abort = FALSE], "closing")
          /\ Leaves(g, "aborted")
  /\ UNCHANGED <<box, view, prompt, stopped>>

\* The scan of any generation measures for the run that is active.
Scan(g) ==
  /\ at[g] = "scan"
  /\ LET v == Seen(g, page)
     IN CASE ~FrameIsCurrent(page, v) ->
               Goes(g, page, "assemble") /\ UNCHANGED view
          [] /\ FrameIsCurrent(page, v)
             /\ FramesPending(page) \/ page.lease.scan # None ->
               Goes(g, FrameBlocked(page, v), "assemble") /\ UNCHANGED view
          [] OTHER -> /\ Goes(g, [page EXCEPT !.lease.scan = g], "measuring")
                      /\ view' = [view EXCEPT ![g] = v]
  /\ UNCHANGED <<box, prompt, how, stopped, faults>>

Released(p, g) ==
  IF p.lease # None /\ p.lease.scan = g
  THEN [p EXCEPT !.lease.scan = None] ELSE p

\* What each resumption of the final measurement demands.
Measurable(p, v) ==
  ~FramesPending(p) /\ p.sources = p.lease.seal /\ Owned(p)

\* The raw sources are loaded and the tokens counted, with the same tests
\* after every await: the final overlay.
Measuring(g) == \E ok \in BOOLEAN :
  /\ at[g] = "measuring"
  /\ Answer(ok)
  /\ LET v == view[g]
     IN CASE ~FrameIsCurrent(page, v) ->
               Goes(g, Released(page, g), "assemble")
          [] FrameIsCurrent(page, v) /\ ok /\ Measurable(page, v) ->
               Goes(g, Released(Overlaid(page), g), "assemble")
          [] OTHER -> Goes(g, FrameBlocked(page, v), "assemble")
  /\ Forgets(g)
  /\ UNCHANGED <<box, prompt, how, stopped>>

\* The host puts the slots into the prompt, or leaves them out.
Assemble(g) == \E ok \in BOOLEAN :
  /\ at[g] = "assemble"
  /\ Answer(ok)
  /\ prompt' = [prompt EXCEPT ![g] = IF ok THEN page.slots ELSE None]
  /\ at' = [at EXCEPT ![g] = "ready"]
  /\ UNCHANGED <<page, box, view, how, stopped>>

-----------------------------------------------------------------------------
(* onPromptReady                                                           *)

\* What the host does once its prompt is ready.
AfterPrompt(g) == IF g \in Sends THEN "settings" ELSE "closing"

IsFrame(x) == \E d \in Dries : x = Frame(d)
SameKind(g, r) == (g \in Dries) = (r \in Dries)

\* classifyPromptReadyOwnership
Foreign(g, r) == r \in Sends /\ g \in Dries /\ prompt[g] = None
OwnedBy(g, r) == prompt[g] = r /\ SameKind(g, r)

\* blockOwnedPrompt, and the fields its error path puts back.
PromptBlocked(p) == [p EXCEPT !.blocked = TRUE, !.pending = FALSE]
PromptFailed(p) ==
  [PromptBlocked(p) EXCEPT !.inputs = None, !.bound = FALSE,
                           !.isolation = None, !.fence = None]

\* The finally block: a dry run's life ends.
Ready(g, r, p) == IF g \in Dries THEN DryCompleted(p, r) ELSE p

Accepts(p, r) ==
  /\ p.lease # None /\ p.lease.marker = r /\ p.lease.run = r
  /\ Owned(p)
  /\ ~p.blocked
  /\ p.context # None /\ p.run = r

PromptReady(g) ==
  /\ at[g] = "ready"
  /\ LET r == page.marker
         p == IF prompt[g] = r THEN FramesSettled(page) ELSE page
     IN CASE r = None ->
               Goes(g, page, AfterPrompt(g)) /\ UNCHANGED view
          [] r # None /\ IsFrame(prompt[g]) ->
               /\ Goes(g, IF \E d \in page.frames : prompt[g] = Frame(d)
                             /\ g \in Dries /\ page.base.marker = r
                          THEN FrameSettled(page, prompt[g][1]) ELSE page,
                       AfterPrompt(g))
               /\ UNCHANGED view
          [] r # None /\ ~IsFrame(prompt[g]) /\ Foreign(g, r) ->
               Goes(g, p, AfterPrompt(g)) /\ UNCHANGED view
          [] r # None /\ OwnedBy(g, r) /\ Accepts(p, r) ->
               /\ Goes(g, Settled(p), "granting")
               /\ view' = [view EXCEPT ![g] = Seen(g, p)]
          [] OTHER ->
               /\ Goes(g, Ready(g, r, Settled(PromptBlocked(p))), AfterPrompt(g))
               /\ UNCHANGED view
  /\ UNCHANGED <<box, prompt, how, stopped, faults>>

\* assertCurrentStoryRunLease
RunLeaseHolds(p, v) ==
  p.marker = v.run /\ p.run = v.run /\ p.context = v.context

\* The history is bound, the removals are granted and the trace is made.
Granting(g) == \E ok \in BOOLEAN, sources \in {{"source"}, {"fence"}} :
  /\ at[g] = "granting"
  /\ Answer(ok)
  /\ LET v == view[g]
         p == [page EXCEPT !.inputs = v.run, !.bound = TRUE,
                           !.grants = ("source" \in sources)]
     IN CASE ~RunLeaseHolds(page, v) ->
               Goes(g, Ready(g, v.run, page), AfterPrompt(g))
               /\ Forgets(g)
          [] RunLeaseHolds(page, v) /\ ~ok ->
               Goes(g, Ready(g, v.run, PromptFailed(page)), AfterPrompt(g))
               /\ Forgets(g)
          [] RunLeaseHolds(page, v) /\ ok /\ g \in Dries ->
               Goes(g, Ready(g, v.run, p), AfterPrompt(g)) /\ Forgets(g)
          [] RunLeaseHolds(page, v) /\ ok /\ g \in Sends
             /\ (p.isolation # None \/ p.fence # None) ->
               Goes(g, PromptFailed(p), AfterPrompt(g)) /\ Forgets(g)
          [] OTHER -> /\ Goes(g, p, "fencing")
                      /\ view' = [view EXCEPT ![g].data = sources]
  /\ UNCHANGED <<box, prompt, how, stopped>>

\* The placeholders go into the prompt, whatever happened to the run.
Fencing(g) == \E ok \in BOOLEAN :
  /\ at[g] = "fencing"
  /\ Answer(ok)
  /\ LET v == view[g]
     IN IF ok
        THEN /\ Goes(g, [page EXCEPT
                   !.isolation = IF "source" \in v.data THEN g ELSE None,
                   !.fence = IF "fence" \in v.data THEN g ELSE None],
                 AfterPrompt(g))
             /\ UNCHANGED view
        ELSE /\ Goes(g, IF RunLeaseHolds(page, v) THEN PromptFailed(page)
                        ELSE page, AfterPrompt(g))
             /\ view' = [view EXCEPT ![g].data = {}]
  /\ UNCHANGED <<box, prompt, how, stopped>>

-----------------------------------------------------------------------------
(* onSettingsReady                                                         *)

NoLeases(p) == [p EXCEPT !.isolation = None, !.fence = None]
Refused(g, p) ==
  /\ Goes(g, NoLeases([p EXCEPT !.blocked = TRUE]), "closing")
  /\ Leaves(g, "blocked")

\* Mutant: placeholders of another prompt count as well.
RestorableLoosely(g) ==
  /\ page.isolation \in {None, g} /\ page.fence \in {None, g}
  /\ page.inputs = prompt[g]

\* The sources come back if the placeholders that the page knows of are the
\* ones in this prompt, and the trace is made once more from the inputs that
\* the page holds now.
Restorable(g) ==
  /\ page.grants => page.isolation # None
  /\ page.isolation \in {None, g} /\ page.fence \in {None, g}
  /\ "source" \in view[g].data => page.isolation = g
  /\ page.inputs = prompt[g]
Unrestored(g) ==
  view[g].data \ {x \in {"source", "fence"} :
                    IF x = "source" THEN page.isolation = g
                    ELSE page.fence = g}

\* Whose request is it, was its prompt traced for this run, and is the
\* history still the one it was bound to?
SettingsReady(g) == \E profiled, ok \in BOOLEAN :
  /\ at[g] = "settings"
  /\ Answer(profiled /\ ok)
  /\ LET r == page.marker
         p == [page EXCEPT !.stamp = FALSE]
     IN CASE r = None \/ prompt[g] # r ->
               /\ Goes(g, p, "closing")
               /\ Leaves(g, IF page.stamp THEN "blocked" ELSE "plain")
               /\ UNCHANGED view
          [] r # None /\ prompt[g] = r /\ (~profiled \/ p.inputs = None) ->
               /\ Goes(g, p, "closing")
               /\ Leaves(g, "blocked")
               /\ UNCHANGED view
          [] /\ r # None /\ prompt[g] = r /\ profiled /\ p.inputs # None
             /\ p.run = r /\ p.inputs = r /\ p.bound /\ ok /\ Restorable(g) ->
               /\ Goes(g, p, "merging")
               /\ view' = [view EXCEPT ![g].run = page.inputs,
                                       ![g].data = Unrestored(g)]
               /\ UNCHANGED how
          [] OTHER -> Refused(g, p) /\ UNCHANGED view
  /\ UNCHANGED <<box, prompt, stopped>>

\* Mutant: the trace is read from the record after the await.
MergingFromRecord(g) == \E ok \in BOOLEAN :
  /\ at[g] = "merging"
  /\ Answer(ok)
  /\ IF ok THEN Goes(g, NoLeases(page), "closing") /\ Leaves(g, "bound")
     ELSE Refused(g, page)
  /\ view' = [view EXCEPT ![g].run = page.inputs]
  /\ UNCHANGED <<box, prompt, stopped>>

\* The transport lease is there: the trace and the binding go out.
Merging(g) == \E ok \in BOOLEAN :
  /\ at[g] = "merging"
  /\ Answer(ok)
  /\ IF ok
     THEN /\ Goes(g, NoLeases([page EXCEPT !.inputs = view[g].run]), "closing")
          /\ Leaves(g, "bound")
     ELSE Refused(g, page)
  /\ UNCHANGED <<box, view, prompt, stopped>>

-----------------------------------------------------------------------------
(* The end of a generation, and what others do.                            *)

\* The host announces the end when its stop button disappears.
CloseGeneration(g) ==
  /\ at[g] = "closing"
  /\ Goes(g, CASE g \in Sends /\ Busy -> Finished(page)
               [] g = page.checking ->
                    [page EXCEPT !.checking = None, !.pending = FALSE]
               [] OTHER -> page, "over")
  /\ box' = IF box.flight = g THEN [flight |-> None, permit |-> None] ELSE box
  /\ Forgets(g)
  /\ prompt' = [prompt EXCEPT ![g] = None]
  /\ how' = [how EXCEPT ![g] = None]
  /\ stopped' = stopped \ {g}
  /\ UNCHANGED faults

\* The user stops: its handlers that wait will still go on.
Stop(g) ==
  /\ g \in Sends \ stopped
  /\ at[g] \notin {"idle", "over", "preflight", "dispatch", "closing"}
  /\ Answer(FALSE)
  /\ page' = Finished(page)
  /\ stopped' = stopped \cup {g}
  /\ UNCHANGED <<box, at, view, prompt, how>>

\* Others put settings of their own into PromptManager, change the ones that
\* are leased, or edit an author source.
Meddle ==
  /\ faults < MaxFaults
  /\ faults' = faults + 1
  /\ \/ page.lease # None /\ page' = [page EXCEPT !.settings = "other"]
     \/ page.lease # None /\ page' = [page EXCEPT !.sources = 1]
  /\ UNCHANGED <<box, at, view, prompt, how, stopped>>

Step(g) ==
  \/ Preflight(g) \/ Dispatch(g) \/ Checking(g)
  \/ Gates(g) \/ Health(g) \/ Context(g)
  \/ Base(g) \/ Intercept(g) \/ Scan(g) \/ Measuring(g)
  \/ Assemble(g) \/ PromptReady(g) \/ Granting(g) \/ Fencing(g)
  \/ SettingsReady(g) \/ Merging(g) \/ CloseGeneration(g)

Next ==
  \/ \E g \in Generation :
       Type(g) \/ Press(g) \/ DryRun(g) \/ DryCheck(g) \/ Step(g) \/ Stop(g)
  \/ Meddle

Spec == Init /\ [][Next]_vars

-----------------------------------------------------------------------------
(* Properties                                                              *)

\* The enlarged window is never orphaned: as long as PromptManager works on
\* the copy with the larger window, the lease that remembers the host's own
\* settings exists, whatever run claimed it, whoever stopped and whichever
\* late handler (onGenerationStarted, onWorldInfoScanDone) still installs it.
OverlayHasOwner ==
  page.settings = "overlay" => page.lease # None /\ page.lease.overlay

\* A bound request carries its own trace: the run whose trace and transport
\* binding onSettingsReady merges is the run whose payload the host put into
\* this very prompt, though both are looked up in the shared record after
\* awaits in which other generations came, were stopped or took it over.
Left(g, way) == at[g] = "closing" /\ how[g] = way
TraceFitsPayload ==
  \A g \in Sends : Left(g, "bound") => view[g].run = prompt[g]

\* No absorbed author source is lost: a request never leaves bound with the
\* placeholder of an isolated source still in it, even when the leases of
\* source-isolation-lease.js in the record are another generation's.
SourcesComeBack ==
  \A g \in Sends : Left(g, "bound") => "source" \notin view[g].data

\* Two claims that do not hold.  No fence marker of the placeholders leaves
\* with a bound request: a late onSettingsReady nulls the fence lease that
\* another prompt put into the record.  The host's own window is back when
\* every generation is over: a stopped send that goes on after loadProxyHealth
\* enlarges the window for the run of a dry check that does not restore it.
FencesComeBack ==
  \A g \in Sends : Left(g, "bound") => "fence" \notin view[g].data
WindowRestored ==
  (\A g \in Generation : Resting(g)) => page.settings # "overlay"

\* What the comment in blockCurrentGeneration promises: a send that was
\* refused before it had a run does not leave like another extension's, with
\* no transport binding and no blocked marker at all.
RefusalHolds ==
  [][\A g \in Sends :
       how[g] = "refused" /\ at'[g] # "over" =>
         how'[g] \in {"refused", "aborted", "blocked", "cancelled"}]_vars
=============================================================================
