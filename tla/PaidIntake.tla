------------------------------ MODULE PaidIntake ------------------------------
(***************************************************************************)
(* The paid extraction of Static Lore, batch by batch                      *)
(* (src/intake/static-lore-extraction-service.js, its endpoints in         *)
(* src/proxy/server.js and the session and artifact files of               *)
(* src/storage/chat-save-store.js).                                        *)
(*                                                                         *)
(* A session file holds the progress.  prepare registers the next model    *)
(* request in memory and hands out a capability for it; the model call     *)
(* claims the capability, writes the attempt into the session, asks the    *)
(* upstream, stores the response as an artifact and applies it: a round    *)
(* that leaves gaps asks for another one, a terminal one settles the       *)
(* batch, and after the last batch the aggregate is compiled into the      *)
(* story memory.  Failures are recorded and need an explicit retry, or the *)
(* recovery of an artifact that was paid for already.                      *)
(*                                                                         *)
(* Every endpoint may be called at any time from any tab.  A handler reads *)
(* the session file, changes its copy and writes the whole file back, with *)
(* no lock, so a step ends where the handler awaits one of these accesses. *)
(* The model is that of contract revision 8 under one partition and with   *)
(* capabilities; the primitives that no client reaches (abandon, replay,   *)
(* rebase, reprocess) are left out.  Two writers that overlap may make the *)
(* write of one fail (they share a temporary file): a fault here.          *)
(***************************************************************************)
EXTENDS Naturals, FiniteSets

CONSTANTS
  Tab,          \* who calls the endpoints, one call at a time
  NBatches,     \* batches of the source packet
  MaxRounds,    \* max_gleaning_rounds
  None,         \* null
  MaxAttempts,  \* bound: attempts of a batch
  MaxFaults     \* bound: writes that fail and restarts of the Companion

ASSUME BoundsAssumption ==
  /\ NBatches \in Nat \ {0} /\ MaxRounds \in Nat \ {0}
  /\ MaxAttempts \in Nat \ {0} /\ MaxFaults \in Nat

Batch == 0 .. NBatches - 1
Round == 1 .. MaxRounds
Attempt == 1 .. MaxAttempts
Id == [batch : Batch, attempt : Attempt]      \* a request id

ASSUME NoneAssumption == None \notin Id

VARIABLES
  file,      \* disk: the session
  artifact,  \* disk: request id -> the response that was stored, or None
  active,    \* disk: is the snapshot of this session the active one?
  pending,   \* memory: the request that is prepared, or None
  consumed,  \* memory: the request ids that were answered
  call,      \* tab -> its call, with the copy of the session it works on
  token,     \* tab -> the request id it has a capability for, or None
  paid,      \* history: request id -> calls of the upstream
  behind,    \* history: tabs whose copy is older than the file
  lost,      \* history: has a write overwritten another one?
  crossed,   \* history: has a write come between two steps of another call?
  faults

memory == <<pending, consumed>>
writes == <<behind, lost, crossed>>
vars == <<file, artifact, active, memory, call, token, paid, writes, faults>>

-----------------------------------------------------------------------------

Response == {"closes", "gaps"}    \* does it close every gap of its batch?

Request == [id : Id, round : Round]

(* A record of pending is free until somebody starts it.                   *)
Pending == [id : Id, round : Round, by : Tab \cup {None}]

Capability == [id : Id, tab : Tab,
               state : {"issued", "dispatch_started", "expired", "completed",
                        "failed"}]

Session ==
  [status : {"active", "batch_failed", "compile_pending", "completed",
             "reconcile_approval_required", "reconcile_blocked"},
   batch : 0 .. NBatches,              \* next_batch_index
   inFlight : Id \cup {None},          \* in_flight_attempt
   attempts : [Batch -> Nat],          \* batch_attempt_counts
   rounds : SUBSET [id : Id, round : Round, terminal : BOOLEAN],
   failed : SUBSET [id : Id, kept : BOOLEAN],  \* kept: it has an artifact_ref
   capability : Capability \cup {None}]

NewSession ==
  [status |-> "active", batch |-> 0, inFlight |-> None,
   attempts |-> [b \in Batch |-> 1], rounds |-> {}, failed |-> {},
   capability |-> None]

Writing == {"declareWrite", "issueWrite", "expireWrite", "dispatchWrite",
            "transportWrite", "processWrite", "failWrite", "compileWrite",
            "resultWrite", "retryWrite", "loseWrite"}

Call ==
  [at : {"idle", "register", "issue", "claim", "dispatch", "upstream",
         "process", "fail", "applying", "replay"} \cup Writing,
   mem : Session,
   rec : Request,
   on : {"nothing", "answer", "replay"},  \* which response it is to apply
   kept : BOOLEAN]                         \* is that response an artifact?

NoCall == [at |-> "idle", mem |-> NewSession,
           rec |-> [id |-> [batch |-> 0, attempt |-> 1], round |-> 1],
           on |-> "nothing", kept |-> FALSE]

TypeOK ==
  /\ file \in Session
  /\ DOMAIN artifact = Id
  /\ \A id \in Id : artifact[id] \in [round : Round, kind : Response] \cup {None}
  /\ active \in BOOLEAN
  /\ pending \in Pending \cup {None}
  /\ consumed \subseteq Id
  /\ DOMAIN call = Tab /\ \A t \in Tab : call[t] \in Call
  /\ token \in [Tab -> Id \cup {None}]
  /\ paid \in [Id -> Nat]
  /\ behind \subseteq Tab
  /\ lost \in BOOLEAN /\ crossed \in BOOLEAN
  /\ faults \in 0 .. MaxFaults
  /\ file.status \in {"active", "batch_failed"} <=> file.batch < NBatches

Init ==
  /\ file = NewSession
  /\ artifact = [id \in Id |-> None]
  /\ active = FALSE
  /\ pending = None /\ consumed = {}
  /\ call = [t \in Tab |-> NoCall]
  /\ token = [t \in Tab |-> None]
  /\ paid = [id \in Id |-> 0]
  /\ behind = {} /\ lost = FALSE /\ crossed = FALSE
  /\ faults = 0

-----------------------------------------------------------------------------
(* Request ids                                                             *)

(* reservedRequestIds                                                      *)
Reserved(s) ==
  consumed \cup {r.id : r \in s.rounds} \cup {f.id : f \in s.failed}
           \cup ({s.inFlight} \ {None})

(* requestAttemptFor walks past every id that is taken.                    *)
Free(s) ==
  {id \in Id : /\ id.batch = s.batch /\ id.attempt >= s.attempts[s.batch]
               /\ id \notin Reserved(s)}

NextId(s) == CHOOSE id \in Free(s) : \A other \in Free(s) : id.attempt <= other.attempt

NextRound(s) == 1 + Cardinality({r \in s.rounds : r.id.batch = s.batch})

Runnable(s) ==
  /\ s.status = "active" /\ s.batch < NBatches /\ s.inFlight = None
  /\ Free(s) # {}

(* registerPending replaces what was prepared for the chat before.         *)
Registered(s) == [id |-> NextId(s), round |-> NextRound(s), by |-> None]

-----------------------------------------------------------------------------
(* Steps of a call                                                         *)

At(t, at) == call[t].at = at
Ended == NoCall
Step(t, new) == call' = [call EXCEPT ![t] = new]
End(t) == Step(t, Ended)

(* The call goes on with a session that it read just now ...               *)
Copies(t, at, s) ==
  /\ Step(t, [call[t] EXCEPT !.at = at, !.mem = s])
  /\ behind' = behind \ {t}
  /\ UNCHANGED <<lost, crossed>>

(* ... or has seen enough of it.                                           *)
Leaves(t) == End(t) /\ behind' = behind \ {t} /\ UNCHANGED <<lost, crossed>>

(* persistSession                                                          *)
Persists(t) ==
  /\ file' = call[t].mem
  /\ lost' = (lost \/ t \in behind)
  /\ crossed' = (crossed \/ \E u \in Tab \ {t} : call[u].at \notin {"idle", "upstream"})
  /\ behind' = {u \in Tab \ {t} : call[u].at \in Writing \cup {"applying"}}

(* registerPending; the endpoint then issues a capability.                 *)
Registers(t) ==
  IF Runnable(call[t].mem)
  THEN LET new == Registered(call[t].mem) IN
       /\ pending' = new
       /\ Step(t, [Ended EXCEPT !.at = "issue",
                                !.rec = [id |-> new.id, round |-> new.round]])
  ELSE UNCHANGED pending /\ End(t)

Forget(id) == IF pending # None /\ pending.id = id THEN None ELSE pending

(* settleIntakeCapability                                                  *)
Settled(s, id, state) ==
  IF s.capability # None /\ s.capability.id = id
  THEN [s EXCEPT !.capability.state = state] ELSE s

Grounded(s, id) == IF s.inFlight = id THEN [s EXCEPT !.inFlight = None] ELSE s

FailedAt(s, id, kept) ==
  [Grounded(Settled(s, id, "failed"), id) EXCEPT
     !.status = "batch_failed", !.failed = @ \cup {[id |-> id, kept |-> kept]}]

-----------------------------------------------------------------------------
(* POST /intake/prepare                                                    *)

(* Mutant: the interrupted attempt is dropped and not recorded.            *)
DropInterrupted(t) ==
  /\ At(t, "idle") /\ file.inFlight # None
  /\ file.status = "active" /\ Forget(file.inFlight) = pending
  /\ Copies(t, "declareWrite", [file EXCEPT !.status = "batch_failed", !.inFlight = None])
  /\ UNCHANGED <<file, artifact, active, memory, token, paid, faults>>

(* recoverInterruptedAttempt                                               *)
DeclareInterrupted(t) ==
  /\ At(t, "idle") /\ file.inFlight # None
  /\ IF (pending # None /\ pending.id = file.inFlight) \/ file.status # "active"
     THEN Leaves(t) /\ UNCHANGED consumed
     ELSE /\ Copies(t, "declareWrite",
                [file EXCEPT !.status = "batch_failed", !.inFlight = None,
                   !.failed = @ \cup {[id |-> file.inFlight, kept |-> FALSE]}])
          /\ consumed' = consumed \cup {file.inFlight}
  /\ UNCHANGED <<file, artifact, active, pending, token, paid, faults>>

Declared(t) ==
  /\ At(t, "declareWrite")
  /\ Persists(t)
  /\ End(t)
  /\ UNCHANGED <<artifact, active, memory, token, paid, faults>>

(* The rebuild of the aggregate reads the artifacts of every round before  *)
(* the status is looked at; an answer that is only reported changes        *)
(* nothing.                                                                *)
Prepare(t) ==
  /\ At(t, "idle") /\ file.inFlight = None
  /\ \/ file.status = "active" /\ Copies(t, "register", file)
     \/ /\ \/ file.status \in {"compile_pending", "reconcile_blocked"}
           \/ file.status = "completed" /\ ~ active
        /\ Copies(t, "compileWrite", [file EXCEPT !.status = "compile_pending"])
  /\ UNCHANGED <<file, artifact, active, memory, token, paid, faults>>

Register(t) ==
  /\ At(t, "register")
  /\ Registers(t)
  /\ UNCHANGED <<file, artifact, active, consumed, token, paid, writes, faults>>

(* issueIntakeCapability                                                   *)
Issue(t) ==
  /\ At(t, "issue")
  /\ LET id == call[t].rec.id IN
     IF /\ file.status = "active" /\ file.batch = id.batch
        /\ file.inFlight = None
     THEN Copies(t, "issueWrite",
            [file EXCEPT !.capability = [id |-> id, tab |-> t, state |-> "issued"]])
     ELSE Leaves(t)
  /\ UNCHANGED <<file, artifact, active, memory, token, paid, faults>>

Issued(t) ==
  /\ At(t, "issueWrite")
  /\ Persists(t)
  /\ token' = [token EXCEPT ![t] = call[t].rec.id]
  /\ End(t)
  /\ UNCHANGED <<artifact, active, memory, paid, faults>>

(* confirmReconcile                                                        *)
Confirm(t) ==
  /\ At(t, "idle") /\ file.status = "reconcile_approval_required"
  /\ Copies(t, "compileWrite", [file EXCEPT !.status = "compile_pending"])
  /\ UNCHANGED <<file, artifact, active, memory, token, paid, faults>>

(* prepareRetry                                                            *)
Retry(t) ==
  /\ At(t, "idle")
  /\ file.status = "batch_failed" /\ file.inFlight = None
  /\ file.attempts[file.batch] < MaxAttempts
  /\ Copies(t, "retryWrite",
            [file EXCEPT !.status = "active", !.attempts[file.batch] = @ + 1])
  /\ UNCHANGED <<file, artifact, active, memory, token, paid, faults>>

Retried(t) ==
  /\ At(t, "retryWrite")
  /\ Persists(t)
  /\ Registers(t)
  /\ UNCHANGED <<artifact, active, consumed, token, paid, faults>>

-----------------------------------------------------------------------------
(* POST /intake/chat/completions                                           *)

(* verifyPreparedModelRequest and assertPreparedRequestDispatchable        *)
Complete(t) ==
  /\ At(t, "idle")
  /\ token[t] # None
  /\ pending # None /\ pending.id = token[t] /\ pending.by = None
  /\ token[t] \notin consumed
  /\ token[t] \notin Reserved([file EXCEPT !.inFlight = None])
  /\ Step(t, [Ended EXCEPT !.at = "claim",
                !.rec = [id |-> pending.id, round |-> pending.round]])
  /\ UNCHANGED <<file, artifact, active, memory, token, paid, writes, faults>>

Matches(s, t, id) ==
  s.capability # None /\ s.capability.id = id /\ s.capability.tab = t

(* claimIntakeCapability, up to starting = true                            *)
Claimable(t) ==
  /\ Matches(file, t, call[t].rec.id)
  /\ file.capability.state = "issued"
  /\ pending.by = None

Claim(t) ==
  /\ At(t, "claim")
  /\ IF pending # None /\ pending.id = call[t].rec.id /\ Claimable(t)
     THEN /\ pending' = [pending EXCEPT !.by = t]
          /\ Step(t, [call[t] EXCEPT !.at = "dispatch", !.rec.round = pending.round])
     ELSE UNCHANGED pending /\ End(t)
  /\ UNCHANGED <<file, artifact, active, consumed, token, paid, writes, faults>>

(* The capability has been issued for too long.                            *)
ClaimTooLate(t) ==
  /\ At(t, "claim")
  /\ Matches(file, t, call[t].rec.id) /\ file.capability.state = "issued"
  /\ Copies(t, "expireWrite", [file EXCEPT !.capability.state = "expired"])
  /\ UNCHANGED <<file, artifact, active, memory, token, paid, faults>>

Expired(t) ==
  /\ At(t, "expireWrite")
  /\ Persists(t)
  /\ End(t)
  /\ UNCHANGED <<artifact, active, memory, token, paid, faults>>

(* finally: starting = false                                               *)
Released(t) ==
  IF pending # None /\ pending.by = t THEN [pending EXCEPT !.by = None] ELSE pending

Dispatch(t) ==
  /\ At(t, "dispatch")
  /\ LET id == call[t].rec.id IN
     IF /\ file.status = "active" /\ file.batch = id.batch
        /\ file.inFlight = None
        /\ Matches(file, t, id) /\ file.capability.state = "issued"
        /\ id \notin Reserved(file)
     THEN /\ Copies(t, "dispatchWrite",
                    [file EXCEPT !.inFlight = id,
                                 !.capability.state = "dispatch_started"])
          /\ UNCHANGED pending
     ELSE /\ Leaves(t)
          /\ pending' = Released(t)
  /\ UNCHANGED <<file, artifact, active, consumed, token, paid, faults>>

(* started = true, and the upstream is asked.                              *)
Dispatched(t) ==
  /\ At(t, "dispatchWrite")
  /\ Persists(t)
  /\ paid' = [paid EXCEPT ![call[t].rec.id] = @ + 1]
  /\ Step(t, [Ended EXCEPT !.at = "upstream", !.rec = call[t].rec])
  /\ UNCHANGED <<artifact, active, memory, token, faults>>

(* recordPendingTransportFailure: no answer, an error, or none that can be *)
(* parsed.                                                                 *)
TransportFails(t) ==
  /\ At(t, "upstream")
  /\ LET id == call[t].rec.id IN
     IF /\ pending # None /\ pending.id = id /\ id \notin consumed
        /\ file.status = "active" /\ file.batch = id.batch
     THEN /\ Copies(t, "transportWrite", FailedAt(file, id, FALSE))
          /\ consumed' = consumed \cup {id}
          /\ pending' = None
     ELSE Leaves(t) /\ UNCHANGED memory
  /\ UNCHANGED <<file, artifact, active, token, paid, faults>>

TransportFailed(t) ==
  /\ At(t, "transportWrite")
  /\ Persists(t)
  /\ End(t)
  /\ UNCHANGED <<artifact, active, memory, token, paid, faults>>

(* complete, up to the artifact.  Another response to the same id is not   *)
(* stored (writeOnce), and a response to a request that is not pending any *)
(* more is dropped.                                                        *)
Respond(t, kind) ==
  /\ At(t, "upstream")
  /\ LET id == call[t].rec.id IN
     IF id \in consumed \/ pending = None \/ Forget(id) # None
     THEN End(t) /\ UNCHANGED <<artifact, memory>>
     ELSE IF artifact[id] # None
     THEN /\ Step(t, [call[t] EXCEPT !.at = "fail", !.on = "answer"])
          /\ UNCHANGED <<artifact, memory>>
     ELSE /\ artifact' = [artifact EXCEPT ![id] = [round |-> pending.round,
                                                   kind |-> kind]]
          /\ consumed' = consumed \cup {id}
          /\ pending' = None
          /\ Step(t, [call[t] EXCEPT !.at = "process", !.on = "answer",
                                     !.kept = TRUE, !.rec.round = pending.round])
  /\ UNCHANGED <<file, active, token, paid, writes, faults>>

(* The artifact cannot be written.                                         *)
NotStored(t) ==
  /\ At(t, "upstream")
  /\ pending # None /\ pending.id = call[t].rec.id
  /\ call[t].rec.id \notin consumed
  /\ faults < MaxFaults /\ faults' = faults + 1
  /\ Step(t, [call[t] EXCEPT !.at = "fail", !.on = "answer"])
  /\ UNCHANGED <<file, artifact, active, memory, token, paid, writes>>

-----------------------------------------------------------------------------
(* Applying a response                                                     *)

(* compileStaticLoreV8Patch: round_terminal                                *)
IsTerminal(response) == response.kind = "closes" \/ response.round = MaxRounds

(* processV8BatchResponse                                                  *)
Applied(s, id) ==
  LET response == artifact[id]
      terminal == IsTerminal(response)
      settled == Grounded(Settled(s, id, "completed"), id)
  IN  [settled EXCEPT
         !.status = "active",
         !.rounds = @ \cup {[id |-> id, round |-> response.round,
                             terminal |-> terminal]},
         !.batch = IF terminal THEN @ + 1 ELSE @,
         !.attempts[id.batch] = IF terminal THEN @ ELSE @ + 1]

(* The attempt of this artifact is the one that failed the batch, or one   *)
(* before it.                                                              *)
Recovering(s, t) ==
  /\ call[t].on = "replay"
  /\ s.status = "batch_failed"
  /\ [id |-> call[t].rec.id, kept |-> TRUE] \in s.failed

Processable(s, t) ==
  /\ s.status = "active" \/ Recovering(s, t)
  /\ s.batch = call[t].rec.id.batch
  /\ call[t].rec.round = NextRound(s)

Process(t) ==
  /\ At(t, "process")
  /\ IF Processable(file, t)
     THEN LET new == Applied(file, call[t].rec.id) IN
          IF new.batch < NBatches
          THEN Copies(t, "processWrite", new)
          ELSE Copies(t, "compileWrite", [new EXCEPT !.status = "compile_pending"])
     ELSE Copies(t, "fail", NewSession)
  /\ UNCHANGED <<file, artifact, active, memory, token, paid, faults>>

(* A replay marks its id as answered in the end.                           *)
Answered(t) ==
  consumed' = IF call[t].on = "replay" THEN consumed \cup {call[t].rec.id}
              ELSE consumed

Processed(t) ==
  /\ At(t, "processWrite")
  /\ Persists(t)
  /\ Registers(t)
  /\ Answered(t)
  /\ UNCHANGED <<artifact, active, token, paid, faults>>

(* recordBatchFailure; only a response that could not be stored is still   *)
(* to be marked as answered after it.                                      *)
Unanswered(t) ==
  IF call[t].kept THEN UNCHANGED memory
  ELSE /\ consumed' = consumed \cup {call[t].rec.id}
       /\ pending' = Forget(call[t].rec.id)

Fail(t) ==
  /\ At(t, "fail")
  /\ IF file.status = "active" /\ file.batch = call[t].rec.id.batch
     THEN /\ Copies(t, "failWrite",
                    FailedAt(file, call[t].rec.id, call[t].kept))
          /\ UNCHANGED memory
     ELSE Leaves(t) /\ Unanswered(t)
  /\ UNCHANGED <<file, artifact, active, token, paid, faults>>

Failed(t) ==
  /\ At(t, "failWrite")
  /\ Persists(t)
  /\ Unanswered(t)
  /\ End(t)
  /\ UNCHANGED <<artifact, active, token, paid, faults>>

(* finalizeSession                                                         *)
StartCompiling(t) ==
  /\ At(t, "compileWrite")
  /\ Persists(t)
  /\ Step(t, [call[t] EXCEPT !.at = "applying"])
  /\ UNCHANGED <<artifact, active, memory, token, paid, faults>>

(* applyExtraction publishes, or asks for an approval, or refuses.         *)
Compile(t, status) ==
  /\ At(t, "applying")
  /\ status \in {"completed", "reconcile_approval_required", "reconcile_blocked"}
  /\ active' = (active \/ status = "completed")
  /\ active => status = "completed"
  /\ Step(t, [call[t] EXCEPT !.at = "resultWrite", !.mem.status = status])
  /\ UNCHANGED <<file, artifact, memory, token, paid, writes, faults>>

Compiled(t) ==
  /\ At(t, "resultWrite")
  /\ Persists(t)
  /\ End(t)
  /\ Answered(t)
  /\ UNCHANGED <<artifact, active, pending, token, paid, faults>>

-----------------------------------------------------------------------------
(* POST /intake/recover                                                    *)

Replayable(s) ==
  {id \in Id : id.batch = s.batch /\ [id |-> id, kept |-> TRUE] \in s.failed}

(* A retry that was prepared is lost on a restart.                         *)
RetryLost(s) ==
  /\ s.status = "active" /\ s.batch < NBatches
  /\ Replayable(s) # {}
  /\ Free(s) # {} /\ Forget(NextId(s)) = pending

(* The failed attempts of the batch are tried from the latest on.          *)
Candidate(s) ==
  CHOOSE id \in Replayable(s) : \A other \in Replayable(s) : other.attempt <= id.attempt

Recover(t) ==
  /\ At(t, "idle")
  /\ file.inFlight = None /\ Replayable(file) # {}
  /\ LET id == Candidate(file)
         replay == [call[t] EXCEPT !.on = "replay", !.kept = TRUE,
                      !.rec = [id |-> id, round |-> artifact[id].round]]
     IN  \/ /\ file.status = "batch_failed"
            /\ Step(t, [replay EXCEPT !.at = "replay"])
         \/ /\ RetryLost(file)
            /\ Step(t, [replay EXCEPT !.at = "loseWrite",
                          !.mem = [file EXCEPT !.status = "batch_failed"]])
  /\ UNCHANGED <<file, artifact, active, memory, token, paid, writes, faults>>

RetryDropped(t) ==
  /\ At(t, "loseWrite")
  /\ Persists(t)
  /\ Step(t, [call[t] EXCEPT !.at = "replay"])
  /\ UNCHANGED <<artifact, active, memory, token, paid, faults>>

(* replayArtifact                                                          *)
Replay(t) ==
  /\ At(t, "replay")
  /\ IF file.batch = call[t].rec.id.batch
     THEN Step(t, [call[t] EXCEPT !.at = "process", !.mem = NewSession])
          /\ UNCHANGED writes
     ELSE IF file.status = "compile_pending" /\ file.batch = call[t].rec.id.batch + 1
     THEN Copies(t, "compileWrite", file)
     ELSE Leaves(t)
  /\ UNCHANGED <<file, artifact, active, memory, token, paid, faults>>

-----------------------------------------------------------------------------
(* Faults and the environment                                              *)

WriteFails(t) ==
  /\ call[t].at \in Writing
  /\ faults < MaxFaults /\ faults' = faults + 1
  /\ behind' = behind \ {t}
  /\ pending' = IF At(t, "dispatchWrite") THEN Released(t) ELSE pending
  /\ IF At(t, "processWrite")
        \/ (call[t].at \in {"compileWrite", "resultWrite"} /\ call[t].on # "nothing")
     THEN Step(t, [call[t] EXCEPT !.at = "fail", !.mem = NewSession])
     ELSE End(t)
  /\ UNCHANGED <<file, artifact, active, consumed, token, paid, lost, crossed>>

(* applyExtraction fails (its staged files are taken back).                *)
CompileFails(t) ==
  /\ At(t, "applying")
  /\ faults < MaxFaults /\ faults' = faults + 1
  /\ IF call[t].on = "nothing" THEN End(t)
     ELSE Step(t, [call[t] EXCEPT !.at = "fail", !.mem = NewSession])
  /\ behind' = behind \ {t}
  /\ UNCHANGED <<file, artifact, active, memory, token, paid, lost, crossed>>

(* Another snapshot of the chat is published.                              *)
Supersede ==
  /\ active
  /\ active' = FALSE
  /\ UNCHANGED <<file, artifact, memory, call, token, paid, writes, faults>>

(* A capability of the runtime before this one is never accepted.          *)
Crash ==
  /\ faults < MaxFaults /\ faults' = faults + 1
  /\ pending' = None /\ consumed' = {}
  /\ call' = [t \in Tab |-> NoCall]
  /\ token' = [t \in Tab |-> None]
  /\ behind' = {}
  /\ UNCHANGED <<file, artifact, active, paid, lost, crossed>>

-----------------------------------------------------------------------------

Asks(t) ==
  \/ DeclareInterrupted(t) \/ Prepare(t) \/ Confirm(t) \/ Retry(t)
  \/ Complete(t) \/ Recover(t)

Works(t) ==
  \/ Declared(t) \/ Register(t) \/ Issue(t) \/ Issued(t) \/ Retried(t)
  \/ Claim(t) \/ ClaimTooLate(t) \/ Expired(t) \/ Dispatch(t) \/ Dispatched(t)
  \/ TransportFails(t) \/ TransportFailed(t) \/ \E kind \in Response : Respond(t, kind)
  \/ Process(t) \/ Processed(t) \/ Fail(t) \/ Failed(t)
  \/ StartCompiling(t) \/ Compiled(t)
  \/ \E status \in {"completed", "reconcile_approval_required",
                    "reconcile_blocked"} : Compile(t, status)
  \/ RetryDropped(t) \/ Replay(t)

Faulty(t) == NotStored(t) \/ WriteFails(t) \/ CompileFails(t)

Next ==
  \/ \E t \in Tab : Asks(t) \/ Works(t) \/ Faulty(t)
  \/ Supersede
  \/ Crash

Spec == Init /\ [][Next]_vars

-----------------------------------------------------------------------------
(* Properties                                                              *)

(* A request id is dispatched once, through retries, recoveries, restarts  *)
(* and calls of several tabs, as long as no call overwrites the session    *)
(* with a copy older than the file ("a reused id must never reach a paid   *)
(* call", assertPreparedRequestDispatchable and claimIntakeCapability).    *)
PaidOnce == ~ lost => \A id \in Id : paid[id] <= 1

(* What was paid for is in the file: in flight, as a round or as a failed  *)
(* attempt; so the id is never minted again (reservedRequestIds).          *)
PaidIsOnRecord ==
  ~ lost =>
    \A id \in Id : paid[id] > 0 =>
      \/ file.inFlight = id
      \/ id \in {r.id : r \in file.rounds} \cup {f.id : f \in file.failed}

(* Both together: money is spent once for an id, and the session knows it. *)
PaidIsAccounted == PaidOnce /\ PaidIsOnRecord

(* An attempt that is in flight on disk and pending in memory is somebody's *)
(* work: otherwise every prepare would refuse it as being in progress until *)
(* the next restart (complete: "so the session never strands").  It fails  *)
(* with two failed writes (MaxFaults = 2): the failure record of an        *)
(* artifact that could not be stored cannot be stored either.              *)
Stranded ==
  /\ file.inFlight # None /\ pending # None /\ pending.id = file.inFlight
  /\ \A t \in Tab : ~ (/\ call[t].rec.id = file.inFlight
                       /\ call[t].at \in {"upstream", "fail", "failWrite"})

NeverStrands == ~ crossed => ~ Stranded
=============================================================================
