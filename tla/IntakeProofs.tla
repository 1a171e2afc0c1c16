----------------------------- MODULE IntakeProofs -----------------------------
(***************************************************************************)
(* PaidIsAccounted for every set of tabs, every number of batches, rounds  *)
(* and attempts, and every number of failed writes and restarts.           *)
(*                                                                         *)
(* Nothing guards the session file, so the argument is about copies.  A    *)
(* call that is about to write has a copy in which every request id of the *)
(* file still has its place, unless somebody wrote in between; and a call  *)
(* that is about to record a dispatch found its id nowhere in the file.    *)
(* Whoever writes an older copy over the file sets lost, after which the   *)
(* property says nothing.                                                  *)
(*                                                                         *)
(* And OneFreshIntake, for every set of sources, of requests, and every    *)
(* number of directories made; and the promises of StaticReconcile, for    *)
(* every set of sources, of concepts and of pages: below.                  *)
(***************************************************************************)
EXTENDS PaidIntake, FreshIntake, StaticReconcile, FiniteSetTheorems, TLAPS

SessionFields ==
  {"status", "batch", "inFlight", "attempts", "rounds", "failed", "capability"}

CallFields == {"at", "mem", "rec", "on", "kept"}

Shapes ==
  /\ DOMAIN file = SessionFields
  /\ DOMAIN call = Tab
  /\ \A t \in Tab : /\ DOMAIN call[t] = CallFields
                    /\ DOMAIN call[t].mem = SessionFields
  /\ DOMAIN paid = Id

(* The places in a session where a request id that was used can be.        *)
OnRecord(s, id) ==
  \/ s.inFlight = id
  \/ \E r \in s.rounds : r.id = id
  \/ \E f \in s.failed : f.id = id

(* Session new still knows every id that session old knows.                *)
Preserves(old, new) ==
  /\ DOMAIN new = SessionFields
  /\ \A id \in Id : OnRecord(old, id) => OnRecord(new, id)

WillWrite == Writing \cup {"applying"}

PaidInv ==
  \A id \in Id : /\ paid[id] \in {0, 1}
                 /\ paid[id] = 1 => OnRecord(file, id)

(* What the copy of a call is good for.                                    *)
CopyInv(t) ==
  /\ call[t].at \in WillWrite => Preserves(file, call[t].mem)
  /\ At(t, "dispatchWrite") =>
       /\ call[t].rec.id \in Id => ~ OnRecord(file, call[t].rec.id)
       /\ call[t].mem.inFlight = call[t].rec.id

IInv ==
  /\ Shapes
  /\ ~ lost => PaidInv /\ \A t \in Tab \ behind : CopyInv(t)

USE NoneAssumption

-----------------------------------------------------------------------------
(* What a handler makes of the session that it read keeps every id.        *)

LEMMA SettledKeeps ==
  ASSUME NEW s, DOMAIN s = SessionFields, NEW id, NEW state
  PROVE  LET new == Settled(s, id, state) IN
         /\ DOMAIN new = SessionFields
         /\ new.inFlight = s.inFlight /\ new.rounds = s.rounds /\ new.failed = s.failed
  BY DEF Settled, SessionFields

LEMMA GroundedShape ==
  ASSUME NEW s, DOMAIN s = SessionFields, NEW id, NEW state
  PROVE  LET new == Grounded(Settled(s, id, state), id) IN
         /\ DOMAIN new = SessionFields
         /\ new.rounds = s.rounds /\ new.failed = s.failed
         /\ s.inFlight # id => new.inFlight = s.inFlight
  BY SettledKeeps DEF Grounded, SessionFields

(* recordBatchFailure, recordPendingTransportFailure: the attempt leaves   *)
(* the flight and joins the failed ones.                                   *)
LEMMA FailedAtKeeps ==
  ASSUME NEW s, DOMAIN s = SessionFields, NEW id, NEW kept
  PROVE  Preserves(s, FailedAt(s, id, kept))
<1> DEFINE new == Grounded(Settled(s, id, "failed"), id)
<1>1. /\ DOMAIN new = SessionFields
      /\ new.rounds = s.rounds /\ new.failed = s.failed
      /\ s.inFlight # id => new.inFlight = s.inFlight
  BY GroundedShape
<1>2. FailedAt(s, id, kept) =
        [new EXCEPT !.status = "batch_failed",
                    !.failed = @ \cup {[id |-> id, kept |-> kept]}]
  BY DEF FailedAt
<1> HIDE DEF new
<1>3. [id |-> id, kept |-> kept].id = id
  OBVIOUS
<1>4. QED
  BY <1>1, <1>2, <1>3 DEF Preserves, OnRecord, SessionFields

(* processV8BatchResponse: the attempt becomes a round.                    *)
LEMMA AppliedKeeps ==
  ASSUME NEW s, DOMAIN s = SessionFields, NEW id
  PROVE  /\ Preserves(s, Applied(s, id))
         /\ Preserves(s, [Applied(s, id) EXCEPT !.status = "compile_pending"])
<1> DEFINE new == Grounded(Settled(s, id, "completed"), id)
           round == [id |-> id, round |-> artifact[id].round,
                     terminal |-> IsTerminal(artifact[id])]
<1>1. /\ DOMAIN new = SessionFields
      /\ new.rounds = s.rounds /\ new.failed = s.failed
      /\ s.inFlight # id => new.inFlight = s.inFlight
  BY GroundedShape
<1>2. /\ DOMAIN Applied(s, id) = SessionFields
      /\ Applied(s, id).rounds = new.rounds \cup {round}
      /\ Applied(s, id).failed = new.failed
      /\ Applied(s, id).inFlight = new.inFlight
  BY <1>1 DEF Applied, SessionFields
<1>3. round.id = id
  OBVIOUS
<1> HIDE DEF new, round
<1>4. Preserves(s, Applied(s, id))
  BY <1>1, <1>2, <1>3 DEF Preserves, OnRecord
<1>5. QED
  BY <1>2, <1>4 DEF Preserves, OnRecord, SessionFields

(* Changes of other fields keep every id, and so does nothing at all.      *)
LEMMA OtherFieldsKeep ==
  ASSUME NEW s, DOMAIN s = SessionFields, NEW x
  PROVE  /\ Preserves(s, s)
         /\ Preserves(s, [s EXCEPT !.status = x])
         /\ Preserves(s, [s EXCEPT !.capability = x])
         /\ Preserves(s, [s EXCEPT !.capability.state = x])
         /\ \A b : Preserves(s, [s EXCEPT !.status = "active", !.attempts[b] = @ + 1])
  BY DEF Preserves, OnRecord, SessionFields

(* recoverInterruptedAttempt                                               *)
LEMMA DeclaredKeeps ==
  ASSUME NEW s, DOMAIN s = SessionFields
  PROVE  Preserves(s, [s EXCEPT !.status = "batch_failed", !.inFlight = None,
                     !.failed = @ \cup {[id |-> s.inFlight, kept |-> FALSE]}])
<1>1. [id |-> s.inFlight, kept |-> FALSE].id = s.inFlight
  OBVIOUS
<1>2. QED
  BY <1>1 DEF Preserves, OnRecord, SessionFields

-----------------------------------------------------------------------------
(* The two sorts of steps.                                                 *)

(* Call t goes on without a write.  A copy that it means to write keeps    *)
(* what is in the file, and a dispatch is of an id that is not.            *)
Prepares(t) ==
  /\ UNCHANGED <<file, paid, lost>>
  /\ DOMAIN call' = Tab /\ DOMAIN call'[t] = CallFields
  /\ DOMAIN call'[t].mem = SessionFields
  /\ \A u \in Tab \ {t} : call'[u] = call[u]
  /\ behind \ {t} \subseteq behind'
  /\ ~ lost /\ t \notin behind' => CopyInv(t)'

(* Call t writes its copy to the file and does not mean to write another.  *)
Writes(t) ==
  /\ call[t].at \in Writing
  /\ Persists(t)
  /\ DOMAIN call' = Tab /\ DOMAIN call'[t] = CallFields
  /\ DOMAIN call'[t].mem = SessionFields
  /\ \A u \in Tab \ {t} : call'[u] = call[u]
  /\ \/ call'[t].at = "applying" /\ call'[t].mem = call[t].mem
     \/ call'[t].at \notin WillWrite
  /\ IF At(t, "dispatchWrite")
     THEN paid' = [paid EXCEPT ![call[t].rec.id] = @ + 1]
     ELSE UNCHANGED paid

LEMMA PreparesKeeps ==
  ASSUME IInv, NEW t \in Tab, Prepares(t)
  PROVE  IInv'
<1>1. Shapes'
  BY DEF IInv, Shapes, Prepares
<1>2. CASE ~ lost
  <2>1. PaidInv'
    BY <1>2 DEF IInv, PaidInv, Prepares, OnRecord
  <2>2. \A u \in (Tab \ {t}) \ behind' : CopyInv(u)'
    BY <1>2 DEF IInv, CopyInv, Prepares, At, Preserves, OnRecord
  <2>3. QED
    BY <1>1, <1>2, <2>1, <2>2 DEF IInv, Prepares
<1>3. QED
  BY <1>1, <1>2 DEF IInv, Prepares

(* Nobody else has a copy of the file as it is now; what was paid for      *)
(* before is in the copy, and what is paid for now was not in the file.    *)
LEMMA WritesKeeps ==
  ASSUME IInv, NEW t \in Tab, Writes(t)
  PROVE  IInv'
<1>1. Shapes'
  BY DEF IInv, Shapes, Writes, Persists
<1>2. CASE ~ lost'
  <2>1. ~ lost /\ t \notin behind /\ file' = call[t].mem
    BY <1>2 DEF Writes, Persists
  <2>2. PaidInv /\ CopyInv(t)
    BY <2>1 DEF IInv
  <2>3. Preserves(file, file')
    BY <2>1, <2>2 DEF CopyInv, Writes, WillWrite
  <2>4. PaidInv'
    <3>1. CASE At(t, "dispatchWrite")
      <4>1. /\ call[t].rec.id \in Id => ~ OnRecord(file, call[t].rec.id)
            /\ file'.inFlight = call[t].rec.id
            /\ paid' = [paid EXCEPT ![call[t].rec.id] = @ + 1]
        BY <2>1, <2>2, <3>1 DEF CopyInv, Writes
      <4>2. SUFFICES ASSUME NEW id \in Id
                     PROVE  /\ paid'[id] \in {0, 1}
                            /\ paid'[id] = 1 => OnRecord(file', id)
        BY DEF PaidInv, OnRecord
      <4>3. CASE id = call[t].rec.id
        <5>1. paid[id] = 0
          BY <2>2, <4>1, <4>3 DEF PaidInv
        <5>2. QED
          BY <4>1, <4>3, <5>1 DEF IInv, Shapes, OnRecord
      <4>4. CASE id # call[t].rec.id
        BY <2>2, <2>3, <4>1, <4>4 DEF PaidInv, Preserves, IInv, Shapes
      <4>5. QED
        BY <4>3, <4>4
    <3>2. CASE ~ At(t, "dispatchWrite")
      <4>1. UNCHANGED paid
        BY <3>2 DEF Writes
      <4>2. \A id \in Id : OnRecord(file, id) => OnRecord(file', id)
        BY <2>3 DEF Preserves
      <4>3. QED
        BY <2>2, <4>1, <4>2 DEF PaidInv, OnRecord
    <3>3. QED
      BY <3>1, <3>2
  <2>5. \A u \in Tab \ {t} : u \notin behind' => call'[u].at \notin WillWrite
    BY DEF Writes, Persists, WillWrite
  <2>6. \A u \in Tab \ behind' : CopyInv(u)'
    <3>1. Preserves(file', file')
      BY <1>1, OtherFieldsKeep DEF Shapes
    <3>2. CopyInv(t)'
      BY <2>1, <3>1 DEF CopyInv, Writes, At, Preserves, OnRecord, WillWrite, Writing
    <3>3. QED
      BY <2>5, <3>2 DEF CopyInv, At, WillWrite, Writing
  <2>7. QED
    BY <1>1, <2>4, <2>6 DEF IInv
<1>3. QED
  BY <1>1, <1>2 DEF IInv

-----------------------------------------------------------------------------
(* Every step is of one of the two sorts.                                  *)

LEMMA EndedShape ==
  /\ DOMAIN Ended = CallFields /\ DOMAIN Ended.mem = SessionFields
  /\ Ended.at = "idle"
  BY DEF Ended, NoCall, NewSession, CallFields, SessionFields

LEMMA EndedGoesOn ==
  ASSUME NEW at, NEW rec
  PROVE  LET new == [Ended EXCEPT !.at = at, !.rec = rec] IN
         DOMAIN new = CallFields /\ DOMAIN new.mem = SessionFields /\ new.at = at
  BY EndedShape DEF CallFields

(* A call that moves on keeps its shape.                                   *)
LEMMA StepShape ==
  ASSUME Shapes, NEW t \in Tab, NEW new, Step(t, new)
  PROVE  /\ DOMAIN call' = Tab /\ call'[t] = new
         /\ \A u \in Tab \ {t} : call'[u] = call[u]
  BY DEF Shapes, Step

LEMMA RegistersShape ==
  ASSUME Shapes, NEW t \in Tab, Registers(t)
  PROVE  /\ DOMAIN call' = Tab /\ DOMAIN call'[t] = CallFields
         /\ DOMAIN call'[t].mem = SessionFields
         /\ \A u \in Tab \ {t} : call'[u] = call[u]
         /\ call'[t].at \in {"idle", "issue"}
<1>1. CASE Runnable(call[t].mem)
  <2> DEFINE reg == Registered(call[t].mem)
             rec == [id |-> reg.id, round |-> reg.round]
             new == [Ended EXCEPT !.at = "issue", !.rec = rec]
  <2>1. Step(t, new)
    BY <1>1 DEF Registers
  <2>2. DOMAIN new = CallFields /\ DOMAIN new.mem = SessionFields /\ new.at = "issue"
    BY EndedGoesOn
  <2> HIDE DEF new
  <2>3. QED
    BY <2>1, <2>2, StepShape
<1>2. CASE ~ Runnable(call[t].mem)
  BY <1>2, StepShape, EndedShape DEF Registers, End
<1>3. QED
  BY <1>1, <1>2

LEMMA WritesSteps ==
  ASSUME IInv, NEW t \in Tab,
         \/ Declared(t) \/ Issued(t) \/ Retried(t) \/ Expired(t)
         \/ Dispatched(t) \/ TransportFailed(t) \/ Processed(t) \/ Failed(t)
         \/ StartCompiling(t) \/ Compiled(t) \/ RetryDropped(t)
  PROVE  Writes(t)
<1>s. Shapes
  BY DEF IInv
<1> USE <1>s, EndedShape, StepShape, RegistersShape
    DEF Writes, At, WillWrite, Writing
<1>1. CASE Declared(t)
  BY <1>1 DEF End, Declared
<1>2. CASE Issued(t)
  BY <1>2 DEF End, Issued
<1>3. CASE Retried(t)
  BY <1>3 DEF Retried
<1>4. CASE Expired(t)
  BY <1>4 DEF End, Expired
<1>5. CASE Dispatched(t)
  <2> DEFINE new == [Ended EXCEPT !.at = "upstream", !.rec = call[t].rec]
  <2>1. /\ DOMAIN new = CallFields /\ DOMAIN new.mem = SessionFields
        /\ new.at = "upstream"
    BY EndedGoesOn
  <2>2. Step(t, new)
    BY <1>5 DEF Dispatched
  <2> HIDE DEF new
  <2>3. QED
    BY <1>5, <2>1, <2>2 DEF Dispatched
<1>6. CASE TransportFailed(t)
  BY <1>6 DEF End, TransportFailed
<1>7. CASE Processed(t)
  BY <1>7 DEF Processed
<1>8. CASE Failed(t)
  BY <1>8 DEF End, Failed
<1>9. CASE StartCompiling(t)
  BY <1>9 DEF CallFields, Shapes, StartCompiling
<1>10. CASE Compiled(t)
  BY <1>10 DEF End, Compiled
<1>11. CASE RetryDropped(t)
  BY <1>11 DEF CallFields, Shapes, RetryDropped
<1>12. QED
  BY <1>1, <1>2, <1>3, <1>4, <1>5, <1>6, <1>7, <1>8, <1>9, <1>10, <1>11

(* A copy of the file, changed so that it keeps every id.                  *)
LEMMA CopiesPrepares ==
  ASSUME IInv, NEW t \in Tab, NEW at \in WillWrite \ {"dispatchWrite"}, NEW s,
         Copies(t, at, s), Preserves(file, s), UNCHANGED <<file, paid>>
  PROVE  Prepares(t)
<1>1. Shapes /\ DOMAIN call[t] = CallFields
  BY DEF IInv, Shapes
<1>2. /\ DOMAIN call' = Tab
      /\ \A u \in Tab \ {t} : call'[u] = call[u]
      /\ call'[t] = [call[t] EXCEPT !.at = at, !.mem = s]
  BY <1>1, StepShape DEF Copies
<1>3. /\ DOMAIN call'[t] = CallFields /\ call'[t].at = at /\ call'[t].mem = s
  BY <1>1, <1>2 DEF CallFields
<1>4. QED
  BY <1>2, <1>3 DEF Prepares, CopyInv, Preserves, OnRecord, Copies, At

(* A call that is not to write next.                                       *)
LEMMA IdlePrepares ==
  ASSUME IInv, NEW t \in Tab, NEW new, Step(t, new),
         DOMAIN new = CallFields, DOMAIN new.mem = SessionFields,
         new.at \notin WillWrite, UNCHANGED <<file, paid, lost>>,
         behind \ {t} \subseteq behind'
  PROVE  Prepares(t)
  BY StepShape DEF IInv, Prepares, CopyInv, At, WillWrite, Writing

LEMMA LeavesPrepares ==
  ASSUME IInv, NEW t \in Tab, UNCHANGED <<file, paid>>,
         Leaves(t) \/ (End(t) /\ UNCHANGED writes)
  PROVE  Prepares(t)
  BY IdlePrepares, EndedShape DEF Leaves, End, writes, WillWrite, Writing

(* A call whose fields other than its copy change, to no writing phase.    *)
LEMMA MovesPrepares ==
  ASSUME IInv, NEW t \in Tab, NEW new, NEW at, Step(t, new),
         DOMAIN new = DOMAIN call[t],
         new.mem \in {call[t].mem, NewSession, Ended.mem},
         new.at = at, at \notin WillWrite,
         UNCHANGED <<file, paid, writes>>
  PROVE  Prepares(t)
  BY IdlePrepares, EndedShape DEF IInv, Shapes, writes, NewSession, SessionFields

LEMMA AsksKeeps ==
  ASSUME IInv, NEW t \in Tab, Asks(t)
  PROVE  Prepares(t)
<1>s. DOMAIN file = SessionFields /\ DOMAIN call[t] = CallFields
  BY DEF IInv, Shapes
<1>k. /\ Preserves(file, file)
      /\ \A x : Preserves(file, [file EXCEPT !.status = x])
      /\ \A b : Preserves(file, [file EXCEPT !.status = "active", !.attempts[b] = @ + 1])
  BY <1>s, OtherFieldsKeep
<1>1. CASE DeclareInterrupted(t)
  BY <1>1, <1>s, DeclaredKeeps, CopiesPrepares, LeavesPrepares
  DEF DeclareInterrupted, WillWrite, Writing
<1>2. CASE Prepare(t)
  <2>1. CASE Copies(t, "register", file)
    <3>1. DOMAIN [call[t] EXCEPT !.at = "register", !.mem = file] = CallFields
          /\ [call[t] EXCEPT !.at = "register", !.mem = file].mem = file
          /\ [call[t] EXCEPT !.at = "register", !.mem = file].at = "register"
      BY <1>s DEF CallFields
    <3>2. QED
      BY <1>2, <2>1, <1>s, <3>1, IdlePrepares DEF Prepare, Copies, WillWrite, Writing
  <2>2. CASE Copies(t, "compileWrite", [file EXCEPT !.status = "compile_pending"])
    BY <1>2, <1>k, <2>2, CopiesPrepares DEF Prepare, WillWrite, Writing
  <2>3. QED
    BY <1>2, <2>1, <2>2 DEF Prepare
<1>3. CASE Confirm(t)
  BY <1>3, <1>k, CopiesPrepares DEF Confirm, WillWrite, Writing
<1>4. CASE Retry(t)
  BY <1>4, <1>k, CopiesPrepares DEF Retry, WillWrite, Writing
<1>5. CASE Complete(t)
  <2> DEFINE rec == [id |-> pending.id, round |-> pending.round]
             new == [Ended EXCEPT !.at = "claim", !.rec = rec]
  <2>1. /\ DOMAIN new = CallFields /\ DOMAIN new.mem = SessionFields
        /\ new.at = "claim"
    BY EndedGoesOn
  <2>2. Step(t, new)
    BY <1>5 DEF Complete
  <2> HIDE DEF new
  <2>3. QED
    BY <1>5, <2>1, <2>2, IdlePrepares DEF Complete, writes, WillWrite, Writing
<1>6. CASE Recover(t)
  <2> DEFINE rec == [id |-> Candidate(file), round |-> artifact[Candidate(file)].round]
             replay == [call[t] EXCEPT !.on = "replay", !.kept = TRUE, !.rec = rec]
             lose == [file EXCEPT !.status = "batch_failed"]
  <2>1. /\ DOMAIN replay = CallFields /\ replay.mem = call[t].mem
    BY <1>s DEF CallFields
  <2>2. \/ Step(t, [replay EXCEPT !.at = "replay"])
        \/ Step(t, [replay EXCEPT !.at = "loseWrite", !.mem = lose])
    BY <1>6 DEF Recover
  <2>3. UNCHANGED <<file, paid, writes>>
    BY <1>6 DEF Recover
  <2>4. Preserves(file, lose)
    BY <1>k
  <2> HIDE DEF replay, lose
  <2>5. CASE Step(t, [replay EXCEPT !.at = "replay"])
    <3>1. /\ DOMAIN [replay EXCEPT !.at = "replay"] = CallFields
          /\ [replay EXCEPT !.at = "replay"].mem = call[t].mem
          /\ [replay EXCEPT !.at = "replay"].at = "replay"
      BY <2>1 DEF CallFields
    <3>2. QED
      BY <1>s, <2>3, <2>5, <3>1, MovesPrepares DEF WillWrite, Writing
  <2>6. CASE Step(t, [replay EXCEPT !.at = "loseWrite", !.mem = lose])
    <3> DEFINE new == [replay EXCEPT !.at = "loseWrite", !.mem = lose]
    <3>1. DOMAIN new = CallFields /\ new.mem = lose /\ new.at = "loseWrite"
      BY <2>1 DEF CallFields
    <3>2. Step(t, new)
      BY <2>6
    <3> HIDE DEF new
    <3>3. /\ DOMAIN call' = Tab /\ call'[t] = new
          /\ \A u \in Tab \ {t} : call'[u] = call[u]
      BY <3>2, StepShape DEF IInv
    <3>4. QED
      BY <2>3, <2>4, <3>1, <3>3
      DEF Prepares, CopyInv, Preserves, OnRecord, At, writes
  <2>7. QED
    BY <2>2, <2>5, <2>6
<1>7. QED
  BY <1>1, <1>2, <1>3, <1>4, <1>5, <1>6 DEF Asks

(* dispatchWrite is the one copy that is made for an id of its own: the id *)
(* is in no place of the file, where nothing is in flight.                 *)
LEMMA DispatchPrepares ==
  ASSUME IInv, NEW t \in Tab, Dispatch(t)
  PROVE  Prepares(t)
<1> DEFINE id == call[t].rec.id
           s == [file EXCEPT !.inFlight = id, !.capability.state = "dispatch_started"]
<1>s. /\ DOMAIN file = SessionFields /\ DOMAIN call[t] = CallFields
  BY DEF IInv, Shapes
<1>1. CASE Copies(t, "dispatchWrite", s) /\ file.inFlight = None /\ id \notin Reserved(file)
  <2>1. /\ DOMAIN s = SessionFields /\ s.inFlight = id
        /\ s.rounds = file.rounds /\ s.failed = file.failed
    BY <1>s DEF SessionFields
  <2>2. ~ (\E r \in file.rounds : r.id = id) /\ ~ (\E f \in file.failed : f.id = id)
    BY <1>1 DEF Reserved
  <2>3. Preserves(file, s) /\ (id \in Id => ~ OnRecord(file, id))
    BY <1>1, <2>1, <2>2 DEF Preserves, OnRecord
  <2>4. /\ DOMAIN call' = Tab /\ call'[t] = [call[t] EXCEPT !.at = "dispatchWrite", !.mem = s]
        /\ \A u \in Tab \ {t} : call'[u] = call[u]
    BY <1>1, StepShape DEF Copies, IInv
  <2>5. /\ DOMAIN call'[t] = CallFields /\ call'[t].at = "dispatchWrite"
        /\ call'[t].mem = s /\ call'[t].rec = call[t].rec
    BY <1>s, <2>4 DEF CallFields
  <2> HIDE DEF s
  <2>6. UNCHANGED <<file, paid, lost>> /\ behind' = behind \ {t}
    BY <1>1 DEF Dispatch, Copies
  <2>7. CopyInv(t)'
    BY <2>1, <2>3, <2>5, <2>6 DEF CopyInv, At, Preserves, OnRecord
  <2>8. QED
    BY <2>1, <2>4, <2>5, <2>6, <2>7 DEF Prepares
<1>2. CASE Leaves(t)
  BY <1>2, LeavesPrepares DEF Dispatch
<1>3. QED
  BY <1>1, <1>2 DEF Dispatch

(* Between the copy of applying and its last write only the status of the  *)
(* copy changes.                                                           *)
LEMMA CompilePrepares ==
  ASSUME IInv, NEW t \in Tab, NEW status, Compile(t, status)
  PROVE  Prepares(t)
<1> DEFINE new == [call[t] EXCEPT !.at = "resultWrite", !.mem.status = status]
<1>s. /\ DOMAIN call[t] = CallFields /\ DOMAIN call[t].mem = SessionFields
  BY DEF IInv, Shapes
<1>1. /\ DOMAIN new = CallFields /\ new.at = "resultWrite"
      /\ DOMAIN new.mem = SessionFields /\ new.mem.inFlight = call[t].mem.inFlight
      /\ new.mem.rounds = call[t].mem.rounds /\ new.mem.failed = call[t].mem.failed
  BY <1>s DEF CallFields, SessionFields
<1>2. Step(t, new) /\ At(t, "applying") /\ UNCHANGED <<file, paid, writes>>
  BY DEF Compile
<1> HIDE DEF new
<1>3. /\ DOMAIN call' = Tab /\ call'[t] = new
      /\ \A u \in Tab \ {t} : call'[u] = call[u]
  BY <1>2, StepShape DEF IInv
<1>4. ~ lost /\ t \notin behind' => CopyInv(t)'
  BY <1>1, <1>2, <1>3 DEF IInv, CopyInv, At, Preserves, OnRecord, WillWrite, writes
<1>5. QED
  BY <1>1, <1>2, <1>3, <1>4 DEF Prepares, writes

LEMMA WorksKeeps ==
  ASSUME IInv, NEW t \in Tab, Works(t)
  PROVE  Prepares(t) \/ Writes(t)
<1>s. /\ DOMAIN file = SessionFields /\ DOMAIN call[t] = CallFields
      /\ DOMAIN call[t].mem = SessionFields
  BY DEF IInv, Shapes
<1>k. /\ Preserves(file, file)
      /\ \A x : Preserves(file, [file EXCEPT !.capability = x])
      /\ \A x : Preserves(file, [file EXCEPT !.capability.state = x])
      /\ \A id, kept : Preserves(file, FailedAt(file, id, kept))
      /\ \A id : /\ Preserves(file, Applied(file, id))
                 /\ Preserves(file, [Applied(file, id) EXCEPT !.status = "compile_pending"])
  BY <1>s, OtherFieldsKeep, FailedAtKeeps, AppliedKeeps
<1>1. CASE Register(t)
  BY <1>1, RegistersShape DEF Register, IInv, Prepares, CopyInv, At, writes, WillWrite, Writing
<1>2. CASE Issue(t)
  BY <1>2, <1>k, CopiesPrepares, LeavesPrepares DEF Issue, WillWrite, Writing
<1>3. CASE Claim(t)
  <2> DEFINE new == [call[t] EXCEPT !.at = "dispatch", !.rec.round = pending.round]
  <2>1. DOMAIN new = CallFields /\ new.mem = call[t].mem /\ new.at = "dispatch"
    BY <1>s DEF CallFields
  <2>2. Step(t, new) \/ End(t)
    BY <1>3 DEF Claim
  <2> HIDE DEF new
  <2>3. UNCHANGED <<file, paid, writes>>
    BY <1>3 DEF Claim
  <2>4. QED
    BY <1>s, <2>1, <2>2, <2>3, MovesPrepares, LeavesPrepares DEF WillWrite, Writing
<1>4. CASE ClaimTooLate(t)
  BY <1>4, <1>k, CopiesPrepares DEF ClaimTooLate, WillWrite, Writing
<1>5. CASE TransportFails(t)
  BY <1>5, <1>k, CopiesPrepares, LeavesPrepares DEF TransportFails, WillWrite, Writing
<1>6. ASSUME NEW kind, Respond(t, kind)  PROVE Prepares(t)
  <2> DEFINE new == [call[t] EXCEPT !.at = "fail", !.on = "answer"]
             ans == [call[t] EXCEPT !.at = "process", !.on = "answer",
                                    !.kept = TRUE, !.rec.round = pending.round]
  <2>1. /\ DOMAIN new = CallFields /\ new.mem = call[t].mem /\ new.at = "fail"
        /\ DOMAIN ans = CallFields /\ ans.mem = call[t].mem /\ ans.at = "process"
    BY <1>s DEF CallFields
  <2>2. Step(t, new) \/ Step(t, ans) \/ End(t)
    BY <1>6 DEF Respond
  <2> HIDE DEF new, ans
  <2>3. UNCHANGED <<file, paid, writes>>
    BY <1>6 DEF Respond
  <2>4. QED
    BY <1>s, <2>1, <2>2, <2>3, MovesPrepares, LeavesPrepares DEF WillWrite, Writing
<1>7. CASE Process(t)
  <2>1. CASE Copies(t, "fail", NewSession)
    <3> DEFINE new == [call[t] EXCEPT !.at = "fail", !.mem = NewSession]
    <3>1. DOMAIN new = CallFields /\ new.mem = NewSession /\ new.at = "fail"
      BY <1>s DEF CallFields
    <3>2. Step(t, new) /\ UNCHANGED <<file, paid, lost>> /\ behind' = behind \ {t}
      BY <1>7, <2>1 DEF Process, Copies
    <3> HIDE DEF new
    <3>3. DOMAIN NewSession = SessionFields
      BY DEF NewSession, SessionFields
    <3>4. QED
      BY <3>1, <3>2, <3>3, IdlePrepares DEF WillWrite, Writing
  <2>2. CASE ~ Copies(t, "fail", NewSession)
    BY <1>7, <1>k, <2>2, CopiesPrepares DEF Process, WillWrite, Writing
  <2>3. QED
    BY <2>1, <2>2
<1>8. CASE Fail(t)
  BY <1>8, <1>k, CopiesPrepares, LeavesPrepares DEF Fail, WillWrite, Writing
<1>9. CASE Replay(t)
  <2> DEFINE new == [call[t] EXCEPT !.at = "process", !.mem = NewSession]
  <2>1. DOMAIN new = CallFields /\ new.mem = NewSession /\ new.at = "process"
    BY <1>s DEF CallFields
  <2>2. \/ Step(t, new) /\ UNCHANGED writes
        \/ Copies(t, "compileWrite", file) \/ Leaves(t)
    BY <1>9 DEF Replay
  <2> HIDE DEF new
  <2>3. UNCHANGED <<file, paid>>
    BY <1>9 DEF Replay
  <2>4. QED
    BY <1>s, <1>k, <2>1, <2>2, <2>3, MovesPrepares, CopiesPrepares, LeavesPrepares
    DEF WillWrite, Writing
<1>10. QED
  BY <1>1, <1>2, <1>3, <1>4, <1>5, <1>6, <1>7, <1>8, <1>9, WritesSteps,
     DispatchPrepares, CompilePrepares DEF Works

LEMMA FaultsKeep ==
  ASSUME IInv, NEW t \in Tab, Faulty(t)
  PROVE  Prepares(t)
<1>s. /\ DOMAIN call[t] = CallFields /\ DOMAIN call[t].mem = SessionFields
  BY DEF IInv, Shapes
<1> DEFINE new == [call[t] EXCEPT !.at = "fail", !.mem = NewSession]
           ans == [call[t] EXCEPT !.at = "fail", !.on = "answer"]
<1>1. /\ DOMAIN new = CallFields /\ new.mem = NewSession /\ new.at = "fail"
      /\ DOMAIN ans = CallFields /\ ans.mem = call[t].mem /\ ans.at = "fail"
  BY <1>s DEF CallFields
<1>2. DOMAIN NewSession = SessionFields
  BY DEF NewSession, SessionFields
<1>3. /\ Step(t, new) \/ Step(t, ans) \/ End(t)
      /\ UNCHANGED <<file, paid, lost>>
      /\ behind \ {t} \subseteq behind'
  BY DEF Faulty, NotStored, WriteFails, CompileFails, writes
<1> HIDE DEF new, ans
<1>4. QED
  BY <1>s, <1>1, <1>2, <1>3, IdlePrepares, EndedShape DEF End, WillWrite, Writing

-----------------------------------------------------------------------------

LEMMA Invariance == Spec => []IInv
<1>1. Init => IInv
  <2> SUFFICES ASSUME Init  PROVE IInv
    OBVIOUS
  <2>1. Shapes
    BY DEF Init, Shapes, NoCall, NewSession, CallFields, SessionFields
  <2>2. PaidInv
    BY DEF Init, PaidInv
  <2>3. \A t \in Tab : CopyInv(t)
    BY DEF Init, CopyInv, At, NoCall, WillWrite, Writing
  <2>4. QED
    BY <2>1, <2>2, <2>3 DEF IInv
<1>2. IInv /\ [Next]_vars => IInv'
  <2> SUFFICES ASSUME IInv, [Next]_vars  PROVE  IInv'
    OBVIOUS
  <2>1. CASE UNCHANGED vars
    BY <2>1 DEF vars, writes, IInv, Shapes, PaidInv, CopyInv, Preserves, OnRecord, At
  <2>2. ASSUME NEW t \in Tab, Asks(t) \/ Works(t) \/ Faulty(t)  PROVE IInv'
    BY <2>2, AsksKeeps, WorksKeeps, FaultsKeep, PreparesKeeps, WritesKeeps
  <2>3. CASE Supersede
    BY <2>3 DEF Supersede, writes, IInv, Shapes, PaidInv, CopyInv, Preserves, OnRecord, At
  <2>4. CASE Crash
    <3>1. /\ UNCHANGED <<file, paid, lost>>
          /\ call' = [t \in Tab |-> NoCall]
      BY <2>4 DEF Crash
    <3>2. \A t \in Tab : CopyInv(t)'
      BY <3>1 DEF CopyInv, At, NoCall, WillWrite, Writing
    <3>3. Shapes'
      BY <3>1 DEF IInv, Shapes, NoCall, NewSession, CallFields, SessionFields
    <3>4. PaidInv' \/ lost
      BY <3>1 DEF IInv, PaidInv, OnRecord
    <3>5. QED
      BY <3>1, <3>2, <3>3, <3>4 DEF IInv
  <2>5. QED
    BY <2>1, <2>2, <2>3, <2>4 DEF Next
<1>3. QED
  BY <1>1, <1>2, PTL DEF Spec

(* Whatever the tabs ask for at the same time, whatever fails and however  *)
(* often the Companion restarts: as long as no write fell upon another     *)
(* one, the upstream was asked once at most for a request id, and the      *)
(* session file knows every id that it was asked for, as in flight, as a   *)
(* round or as a failed attempt (reservedRequestIds,                       *)
(* claimIntakeCapability, recoverInterruptedAttempt).                      *)
THEOREM PaidOnceAndKnown == Spec => []PaidIsAccounted
<1>1. IInv => PaidIsAccounted
  <2> SUFFICES ASSUME IInv, ~ lost, NEW id \in Id
               PROVE  /\ paid[id] <= 1
                      /\ paid[id] > 0 =>
                           \/ file.inFlight = id
                           \/ id \in {r.id : r \in file.rounds} \cup {f.id : f \in file.failed}
    BY DEF PaidIsAccounted, PaidOnce, PaidIsOnRecord
  <2>1. paid[id] \in {0, 1} /\ (paid[id] = 1 => OnRecord(file, id))
    BY DEF IInv, PaidInv
  <2>2. QED
    BY <2>1 DEF OnRecord
<1>2. QED
  BY <1>1, Invariance, PTL

-----------------------------------------------------------------------------
(* The admission of the first intake.  The marker is never replaced, so    *)
(* what a request compared with it when it was let pass is true for good:  *)
(* a request that may pay holds the mark, and whatever was paid for has    *)
(* it.                                                                     *)

(* A request that may pay, or has paid, holds the mark; whatever was paid  *)
(* for has it.                                                             *)
Holds(r) == marker = [source |-> ask[r].source, save |-> ask[r].save]

PassInv ==
  /\ \A r \in Ask : ask[r].at \in {"claim", "upstream"} => Holds(r)
  /\ \A r \in Ask : ask[r].at = "upstream" => marker \in bills
  /\ \A r \in Ask : ask[r].at # "idle" => ask[r].source \in Source
  /\ \A bill \in bills : bill = marker
  /\ answers \subseteq bills

AdmissionIInv == AdmissionTypeOK /\ PassInv

USE UnsetAssumption, SavesAssumption

LEMMA HealthAdmits == Healthy(FALSE) => \A s \in Source : authority \in {s, Unset} => Admits(s)
BY DEF Healthy, Admits

LEMMA AdmissionStart == AdmissionInit => AdmissionIInv
BY DEF AdmissionInit, AdmissionIInv, AdmissionTypeOK, PassInv, Witnessed, Inputs, NoSession, NoAsk,
       AskState, AskPhase, Mark

LEMMA AskTypes ==
  ASSUME ask \in [Ask -> AskState], NEW r \in Ask, NEW x \in AskState
  PROVE  /\ [ask EXCEPT ![r] = x] \in [Ask -> AskState]
         /\ \A q \in Ask : [ask EXCEPT ![r] = x][q] = IF q = r THEN x ELSE ask[q]
  OBVIOUS

LEMMA Idles == NoAsk \in AskState /\ NoAsk.at = "idle"
BY DEF NoAsk, AskState, AskPhase


(* A request that goes on keeps what it asks for.                          *)
Onward(r, at, s) ==
  [at |-> at, source |-> ask[r].source, known |-> ask[r].known, marked |-> ask[r].marked,
   save |-> s]

LEMMA TwoFields ==
  ASSUME NEW a \in AskState, NEW at, NEW s
  PROVE  [a EXCEPT !.at = at, !.save = s] =
           [at |-> at, source |-> a.source, known |-> a.known, marked |-> a.marked, save |-> s]
<1>1. [a EXCEPT !.at = at, !.save = s] = [[a EXCEPT !.at = at] EXCEPT !.save = s]
  BY Zenon
<1>2. [a EXCEPT !.at = at] =
        [at |-> at, source |-> a.source, known |-> a.known, marked |-> a.marked, save |-> a.save]
  BY DEF AskState
<1> DEFINE b == [at |-> at, source |-> a.source, known |-> a.known, marked |-> a.marked,
                 save |-> a.save]
<1>3. [b EXCEPT !.save = s] =
        [at |-> at, source |-> a.source, known |-> a.known, marked |-> a.marked, save |-> s]
  OBVIOUS
<1> QED BY <1>1, <1>2, <1>3

LEMMA OnwardTypes ==
  ASSUME ask \in [Ask -> AskState], NEW r \in Ask, NEW at \in AskPhase, NEW s \in Nat
  PROVE  /\ Onward(r, at, s) \in AskState
         /\ [ask[r] EXCEPT !.at = at] = Onward(r, at, ask[r].save)
         /\ [ask[r] EXCEPT !.at = at, !.save = s] = Onward(r, at, s)
         /\ ask[r].save \in Nat
<1>1. ask[r] \in AskState OBVIOUS
<1>2. /\ ask[r].source \in Source \cup {Unset} /\ ask[r].known \in Source \cup {Unset}
      /\ ask[r].marked \in BOOLEAN /\ ask[r].save \in Nat
  BY <1>1 DEF AskState
<1>3. Onward(r, at, s) \in AskState BY <1>2 DEF AskState, Onward
<1>4. ask[r] = [at |-> ask[r].at, source |-> ask[r].source, known |-> ask[r].known,
                marked |-> ask[r].marked, save |-> ask[r].save]
  BY <1>1 DEF AskState
<1>5. [ask[r] EXCEPT !.at = at] = Onward(r, at, ask[r].save) BY <1>4 DEF Onward
<1>6. [ask[r] EXCEPT !.at = at, !.save = s] = Onward(r, at, s)
  BY <1>1, TwoFields DEF Onward
<1> QED BY <1>2, <1>3, <1>5, <1>6

LEMMA GoesOn ==
  ASSUME ask \in [Ask -> AskState], NEW r \in Ask, NEW at \in AskPhase, NEW h,
         GoOnIf(r, h, at)
  PROVE  ask' = [ask EXCEPT ![r] = IF h THEN Onward(r, at, ask[r].save) ELSE NoAsk]
<1>1. [ask[r] EXCEPT !.at = at] = Onward(r, at, ask[r].save) BY OnwardTypes, 0 \in Nat
<1> QED BY <1>1, Zenon DEF GoOnIf

LEMMA GoesOnWith ==
  ASSUME ask \in [Ask -> AskState], NEW r \in Ask, NEW at \in AskPhase, NEW h,
         save \in Nat, GoOnWith(r, h, at)
  PROVE  ask' = [ask EXCEPT ![r] = IF h THEN Onward(r, at, save) ELSE NoAsk]
<1>1. [ask[r] EXCEPT !.at = at, !.save = save] = Onward(r, at, save) BY OnwardTypes
<1> QED BY <1>1, Zenon DEF GoOnWith

(* What a step of one request leaves of the invariant, if the marker and   *)
(* what was observed only grow with it.                                    *)
LEMMA OneMoves ==
  ASSUME AdmissionIInv, NEW r \in Ask, NEW x \in AskState, ask' = [ask EXCEPT ![r] = x],
         UNCHANGED <<marker, bills, answers>>,
         x.at \in {"claim", "upstream"} => marker = [source |-> x.source, save |-> x.save],
         x.at = "upstream" => marker \in bills,
         x.at # "idle" => x.source \in Source
  PROVE  ask' \in [Ask -> AskState] /\ PassInv'
BY AskTypes DEF AdmissionIInv, AdmissionTypeOK, PassInv, Holds

LEMMA GoingOn ==
  ASSUME AdmissionIInv, NEW r \in Ask, NEW at \in AskPhase, NEW h, NEW s \in Nat,
         ask' = [ask EXCEPT ![r] = IF h THEN Onward(r, at, s) ELSE NoAsk],
         UNCHANGED <<marker, bills, answers>>,
         ask[r].at # "idle",
         h /\ at \in {"claim", "upstream"} => marker = [source |-> ask[r].source, save |-> s],
         h /\ at = "upstream" => marker \in bills
  PROVE  ask' \in [Ask -> AskState] /\ PassInv'
<1>1. ask \in [Ask -> AskState] /\ ask[r].source \in Source
  BY DEF AdmissionIInv, AdmissionTypeOK, PassInv
<1>2. CASE h
  <2>1. Onward(r, at, s) \in AskState BY <1>1, OnwardTypes
  <2>2. /\ Onward(r, at, s).at = at /\ Onward(r, at, s).source = ask[r].source
        /\ Onward(r, at, s).save = s
    BY DEF Onward
  <2>3. ask' = [ask EXCEPT ![r] = Onward(r, at, s)] BY <1>2
  <2> HIDE DEF Onward
  <2> QED BY <1>1, <1>2, <2>1, <2>2, <2>3, OneMoves
<1>3. CASE ~h
  <2>1. ask' = [ask EXCEPT ![r] = NoAsk] BY <1>3
  <2> QED BY <2>1, Idles, OneMoves
<1> QED BY <1>2, <1>3

(* The steps that only read.                                               *)
LEMMA ReadingSteps ==
  ASSUME AdmissionIInv, NEW r \in Ask,
         \/ Compares(r) \/ FindsStore(r) \/ FindsNoStore(r)
         \/ Asserts(r) \/ Captures(r) \/ Confirms(r) \/ Claims(r)
  PROVE  AdmissionIInv'
<1> USE DEF Doing
<1>1. ask \in [Ask -> AskState] /\ save \in Nat /\ ask[r].save \in Nat
  BY DEF AdmissionIInv, AdmissionTypeOK, AskState
<1>2. UNCHANGED <<diskVars, runtime, bills, answers, drifts>>
  BY DEF Compares, FindsStore, FindsNoStore, Asserts, Captures, Confirms, Claims, OnlyAsks
<1> SUFFICES ask' \in [Ask -> AskState] /\ PassInv'
  BY <1>2 DEF AdmissionIInv, AdmissionTypeOK, diskVars
<1>3. ASSUME NEW h, NEW at \in AskPhase \ {"claim", "upstream"}, ask[r].at # "idle",
             GoOnIf(r, h, at)
      PROVE  ask' \in [Ask -> AskState] /\ PassInv'
  <2>1. ask' = [ask EXCEPT ![r] = IF h THEN Onward(r, at, ask[r].save) ELSE NoAsk]
    BY <1>1, <1>3, GoesOn
  <2> QED BY <1>1, <1>2, <1>3, <2>1, GoingOn DEF diskVars
<1>4. ASSUME NEW h, NEW at \in AskPhase \ {"upstream"}, ask[r].at # "idle",
             GoOnWith(r, h, at), at = "claim" /\ h => MarkerCurrent(ask[r].source)
      PROVE  ask' \in [Ask -> AskState] /\ PassInv'
  <2>1. ask' = [ask EXCEPT ![r] = IF h THEN Onward(r, at, save) ELSE NoAsk]
    BY <1>1, <1>4, GoesOnWith
  <2>2. h /\ at = "claim" => marker = [source |-> ask[r].source, save |-> save]
    BY <1>4 DEF MarkerCurrent
  <2> QED BY <1>1, <1>2, <1>4, <2>1, <2>2, GoingOn DEF diskVars
<1>5. CASE Compares(r)
  <2> DEFINE next == IF ask[r].known = Unset THEN "absent" ELSE "existing"
  <2>1. next \in AskPhase \ {"claim", "upstream"} BY DEF AskPhase
  <2> QED BY <1>3, <1>5, <2>1 DEF Compares
<1>6. CASE FindsStore(r) BY <1>3, <1>6 DEF FindsStore, AskPhase
<1>7. CASE FindsNoStore(r) BY <1>3, <1>7 DEF FindsNoStore, AskPhase
<1>8. CASE Asserts(r) BY <1>3, <1>8 DEF Asserts, AskPhase
<1>9. CASE Confirms(r) BY <1>3, <1>9 DEF Confirms, AskPhase
<1>10. CASE Captures(r) BY <1>4, <1>10 DEF Captures, AskPhase
<1>11. CASE Claims(r) BY <1>4, <1>11 DEF Claims, AskPhase, StoreCurrent
<1> QED BY <1>5, <1>6, <1>7, <1>8, <1>9, <1>10, <1>11

(* The steps that write.                                                   *)
LEMMA WritingSteps ==
  ASSUME AdmissionIInv, NEW r \in Ask,
         \/ Publishes(r) \/ Initializes(r) \/ OpensSession(r)
  PROVE  AdmissionIInv'
<1> USE DEF Doing
<1>1. ask \in [Ask -> AskState] /\ ask[r].save \in Nat /\ ask[r].source \in Source
  BY DEF AdmissionIInv, AdmissionTypeOK, AskState, PassInv, Publishes, Initializes, OpensSession
<1>2. ASSUME NEW h, NEW at \in AskPhase \ {"claim", "upstream"}, ask[r].at # "idle",
             GoOnIf(r, h, at), UNCHANGED <<marker, bills, answers>>
      PROVE  ask' \in [Ask -> AskState] /\ PassInv'
  <2>1. ask' = [ask EXCEPT ![r] = IF h THEN Onward(r, at, ask[r].save) ELSE NoAsk]
    BY <1>1, <1>2, GoesOn
  <2> QED BY <1>1, <1>2, <2>1, GoingOn
<1>3. ask' \in [Ask -> AskState] /\ PassInv'
  <2>1. CASE Publishes(r) BY <1>2, <2>1 DEF Publishes, AskPhase
  <2>2. CASE Initializes(r) BY <1>2, <2>2 DEF Initializes, AskPhase
  <2>3. CASE OpensSession(r) BY <1>2, <2>3 DEF OpensSession, AskPhase
  <2> QED BY <2>1, <2>2, <2>3
<1>4. CASE Publishes(r)
  BY <1>1, <1>3, <1>4 DEF Publishes, AdmissionIInv, AdmissionTypeOK
<1>5. CASE Initializes(r)
  BY <1>3, <1>5 DEF Initializes, AdmissionIInv, AdmissionTypeOK, NoSession
<1>6. CASE OpensSession(r)
  <2>1. session' \in [Source -> {"missing", "bound", "unbound"}]
    BY <1>1, <1>6 DEF OpensSession, AdmissionIInv, AdmissionTypeOK, Bound
  <2> QED BY <1>3, <1>6, <2>1 DEF OpensSession, AdmissionIInv, AdmissionTypeOK
<1> QED BY <1>4, <1>5, <1>6

(* The marker stays once it is there.                                      *)
LEMMA MarkingStep ==
  ASSUME AdmissionIInv, NEW r \in Ask, MarksStore(r)
  PROVE  AdmissionIInv'
<1> USE DEF Doing
<1> DEFINE mark == [source |-> ask[r].source, save |-> ask[r].save]
<1>1. /\ ask \in [Ask -> AskState] /\ ask[r].save \in Nat /\ ask[r].source \in Source
      /\ ask[r].at = "mark"
  BY DEF AdmissionIInv, AdmissionTypeOK, AskState, PassInv, MarksStore
<1>2. mark \in Mark BY <1>1 DEF Mark
<1>3. marker' = (IF marker = Unset THEN mark ELSE marker) /\ marker' \in Mark \cup {Unset}
  BY <1>2 DEF MarksStore, AdmissionIInv, AdmissionTypeOK
<1>4. ask' = [ask EXCEPT ![r] =
                IF marker' = mark THEN Onward(r, "confirm", ask[r].save) ELSE NoAsk]
  BY <1>1, GoesOn DEF MarksStore, AskPhase
<1>5. PICK x \in AskState :
        /\ ask' = [ask EXCEPT ![r] = x]
        /\ x.at \notin {"claim", "upstream"}
        /\ x.at # "idle" => x.source \in Source
  <2>1. Onward(r, "confirm", ask[r].save) \in AskState BY <1>1, OnwardTypes DEF AskPhase
  <2>2. /\ Onward(r, "confirm", ask[r].save).at = "confirm"
        /\ Onward(r, "confirm", ask[r].save).source = ask[r].source
    BY DEF Onward
  <2>3. CASE marker' = mark
    <3>1. ask' = [ask EXCEPT ![r] = Onward(r, "confirm", ask[r].save)] BY <1>4, <2>3
    <3> QED BY <1>1, <2>1, <2>2, <3>1
  <2>4. CASE marker' # mark BY <1>4, <2>4, Idles
  <2> QED BY <2>3, <2>4
<1>6. /\ ask' \in [Ask -> AskState]
      /\ \A q \in Ask : ask'[q] = IF q = r THEN x ELSE ask[q]
  BY <1>1, <1>5, AskTypes
<1>7. UNCHANGED <<inputs, authority, save, saves, session, runtime, bills, answers, drifts>>
  BY DEF MarksStore
<1>8. marker # Unset => marker' = marker BY <1>3
<1>9. \A q \in Ask : ask[q].at \in {"claim", "upstream"} => marker # Unset
  <2>1. \A q \in Ask : [source |-> ask[q].source, save |-> ask[q].save] # Unset
                       \/ ask[q].at = "idle"
    BY DEF AdmissionIInv, AdmissionTypeOK, AskState, PassInv
  <2> QED BY <2>1 DEF AdmissionIInv, PassInv, Holds
<1>10. bills # {} => marker # Unset
  BY DEF AdmissionIInv, AdmissionTypeOK, PassInv, Mark
<1>11. PassInv'
  BY <1>5, <1>6, <1>7, <1>8, <1>9, <1>10 DEF AdmissionIInv, PassInv, Holds
<1> QED BY <1>3, <1>6, <1>7, <1>11 DEF AdmissionIInv, AdmissionTypeOK

(* What is paid for has the mark, and the answer is kept with it.          *)
LEMMA PayingSteps ==
  ASSUME AdmissionIInv, NEW r \in Ask, Pays(r) \/ KeepsAnswer(r)
  PROVE  AdmissionIInv'
<1> USE DEF Doing
<1>1. /\ ask \in [Ask -> AskState] /\ ask[r].save \in Nat /\ ask[r].source \in Source
      /\ save \in Nat /\ ask[r].at \in {"claim", "upstream"}
  BY DEF AdmissionIInv, AdmissionTypeOK, AskState, PassInv, Pays, KeepsAnswer
<1>2. marker = [source |-> ask[r].source, save |-> ask[r].save] /\ marker \in Mark
  BY <1>1 DEF AdmissionIInv, PassInv, Holds, Mark
<1>3. UNCHANGED <<diskVars, runtime, drifts>> BY DEF Pays, KeepsAnswer
<1>4. ASSUME NEW x \in AskState, ask' = [ask EXCEPT ![r] = x],
             x.at \in {"ready", "upstream", "idle"}, x.at = "upstream" => marker \in bills',
             x.at # "idle" => x.source = ask[r].source /\ x.save = ask[r].save,
             bills \subseteq bills', \A bill \in bills' : bill = marker,
             answers' \subseteq bills'
      PROVE  ask' \in [Ask -> AskState] /\ PassInv'
  <2>1. /\ ask' \in [Ask -> AskState]
        /\ \A q \in Ask : ask'[q] = IF q = r THEN x ELSE ask[q]
    BY <1>1, <1>4, AskTypes
  <2>2. marker' = marker BY <1>3 DEF diskVars
  <2> QED BY <1>1, <1>2, <1>4, <2>1, <2>2 DEF AdmissionIInv, PassInv, Holds
<1>5. \A at \in {"ready", "upstream"} :
        /\ Onward(r, at, ask[r].save) \in AskState
        /\ Onward(r, at, ask[r].save).at = at
        /\ Onward(r, at, ask[r].save).source = ask[r].source
        /\ Onward(r, at, ask[r].save).save = ask[r].save
  <2>1. \A at \in {"ready", "upstream"} : Onward(r, at, ask[r].save) \in AskState
    BY <1>1, OnwardTypes DEF AskPhase
  <2> QED BY <2>1 DEF Onward
<1>6. CASE Pays(r)
  <2> DEFINE pays == save # 0 /\ session[ask[r].source] = "bound"
  <2>1. ask' = [ask EXCEPT ![r] = IF pays THEN Onward(r, "upstream", ask[r].save) ELSE NoAsk]
    BY <1>1, <1>6, GoesOn DEF Pays, AskPhase
  <2>2. /\ bills' = IF pays THEN bills \cup {marker} ELSE bills
        /\ answers' = answers
    BY <1>2, <1>6 DEF Pays
  <2>3. /\ bills \subseteq bills' /\ \A bill \in bills' : bill = marker
        /\ answers' \subseteq bills' /\ (pays => marker \in bills')
    BY <2>2 DEF AdmissionIInv, PassInv
  <2>4. ask' \in [Ask -> AskState] /\ PassInv'
    <3>1. CASE pays
      <4>1. ask' = [ask EXCEPT ![r] = Onward(r, "upstream", ask[r].save)] BY <2>1, <3>1
      <4>2. marker \in bills' BY <2>3, <3>1
      <4> QED BY <1>4, <1>5, <2>3, <4>1, <4>2
    <3>2. CASE ~pays
      <4>1. ask' = [ask EXCEPT ![r] = NoAsk] BY <2>1, <3>2
      <4> QED BY <1>4, <2>3, <4>1, Idles
    <3> QED BY <3>1, <3>2
  <2>5. bills' \subseteq Mark /\ answers' \subseteq Mark
    BY <1>2, <2>2 DEF AdmissionIInv, AdmissionTypeOK
  <2>6. AdmissionTypeOK'
    <3>1. AdmissionTypeOK BY DEF AdmissionIInv
    <3> QED BY <1>3, <2>4, <2>5, <3>1 DEF AdmissionTypeOK, diskVars
  <2> QED BY <2>4, <2>6 DEF AdmissionIInv
<1>7. CASE KeepsAnswer(r)
  <2> DEFINE keeps == StoreCurrent(ask[r].source)
  <2>1. ask' = [ask EXCEPT ![r] = IF keeps THEN Onward(r, "ready", ask[r].save) ELSE NoAsk]
    BY <1>1, <1>7, GoesOn DEF KeepsAnswer, AskPhase
  <2>2. marker \in bills BY <1>1, <1>7 DEF AdmissionIInv, PassInv, KeepsAnswer
  <2>3. bills' = bills /\ answers' \subseteq answers \cup {marker}
    BY <1>7 DEF KeepsAnswer, StoreCurrent, MarkerCurrent
  <2>4. /\ bills \subseteq bills' /\ \A bill \in bills' : bill = marker
        /\ answers' \subseteq bills'
    BY <2>2, <2>3 DEF AdmissionIInv, PassInv
  <2>5. ask' \in [Ask -> AskState] /\ PassInv'
    <3>1. CASE keeps
      <4>1. ask' = [ask EXCEPT ![r] = Onward(r, "ready", ask[r].save)] BY <2>1, <3>1
      <4> QED BY <1>4, <1>5, <2>4, <4>1
    <3>2. CASE ~keeps
      <4>1. ask' = [ask EXCEPT ![r] = NoAsk] BY <2>1, <3>2
      <4> QED BY <1>4, <2>4, <4>1, Idles
    <3> QED BY <3>1, <3>2
  <2>6. bills' \subseteq Mark /\ answers' \subseteq Mark
    BY <1>2, <2>3 DEF AdmissionIInv, AdmissionTypeOK
  <2>7. AdmissionTypeOK'
    <3>1. AdmissionTypeOK BY DEF AdmissionIInv
    <3> QED BY <1>3, <2>5, <2>6, <3>1 DEF AdmissionTypeOK, diskVars
  <2> QED BY <2>5, <2>7 DEF AdmissionIInv
<1> QED BY <1>6, <1>7

LEMMA EveryAskStep ==
  ASSUME AdmissionIInv, NEW r \in Ask, AskStep(r)
  PROVE  AdmissionIInv'
<1>1. ask \in [Ask -> AskState] BY DEF AdmissionIInv, AdmissionTypeOK
<1>2. ASSUME NEW s \in Source, AsksFor(r, s)
      PROVE  AdmissionIInv'
  <2> DEFINE x == [at |-> IF runtime = "guarded" THEN "witness" ELSE "initialize",
                   source |-> s, known |-> authority,
                   marked |-> authority # Unset /\ marker # Unset, save |-> 0]
  <2>1. x \in AskState BY DEF AskState, AskPhase, AdmissionIInv, AdmissionTypeOK
  <2>2. ask' = [ask EXCEPT ![r] = x] BY <1>2 DEF AsksFor, FilesFound
  <2>3. x.at \notin {"claim", "upstream"} /\ x.source = s OBVIOUS
  <2>4. UNCHANGED <<diskVars, runtime, bills, answers, drifts>> BY <1>2 DEF AsksFor, OnlyAsks
  <2> HIDE DEF x
  <2>5. ask' \in [Ask -> AskState] /\ PassInv'
    BY <2>1, <2>2, <2>3, <2>4, OneMoves DEF diskVars
  <2> QED BY <2>4, <2>5 DEF AdmissionIInv, AdmissionTypeOK, diskVars
<1>3. CASE Fails(r)
  <2>1. ask' = [ask EXCEPT ![r] = NoAsk] BY <1>3 DEF Fails
  <2>2. UNCHANGED <<diskVars, runtime, bills, answers, drifts>> BY <1>3 DEF Fails, OnlyAsks
  <2>3. ask' \in [Ask -> AskState] /\ PassInv'
    BY <2>1, <2>2, Idles, OneMoves DEF diskVars
  <2> QED BY <2>2, <2>3 DEF AdmissionIInv, AdmissionTypeOK, diskVars
<1> QED
  BY <1>2, <1>3, ReadingSteps, WritingSteps, MarkingStep, PayingSteps DEF AskStep

LEMMA AdmissionPreserved ==
  ASSUME AdmissionIInv, [AdmissionNext]_admissionVars
  PROVE  AdmissionIInv'
<1> USE DEF AdmissionIInv, AdmissionTypeOK, Drifts
<1>1. CASE \E r \in Ask : AskStep(r) BY <1>1, EveryAskStep
<1>2. CASE StopsRuntime
  BY <1>2, Idles DEF StopsRuntime, diskVars, PassInv, Holds
<1>3. CASE StartsGuarded \/ StartsOpen
  BY <1>3 DEF StartsGuarded, StartsOpen, diskVars, PassInv, Holds
<1>4. CASE GoesOnWithChat \/ WritesCard
  <2>1. inputs' \in Inputs BY <1>4 DEF GoesOnWithChat, WritesCard, Inputs
  <2> QED BY <1>4, <2>1 DEF GoesOnWithChat, WritesCard, PassInv, Holds
<1>5. CASE ReplacesRoot
  <2>1. inputs' \in Inputs BY <1>5 DEF ReplacesRoot, Inputs
  <2> QED BY <1>5, <2>1 DEF ReplacesRoot, PassInv, Holds
<1>6. CASE RemovesStore \/ RestoresStore \/ LosesAuthority
  BY <1>6 DEF RemovesStore, RestoresStore, LosesAuthority, PassInv, Holds
<1>7. CASE UNCHANGED admissionVars
  BY <1>7 DEF admissionVars, PassInv, Holds
<1> QED BY <1>1, <1>2, <1>3, <1>4, <1>5, <1>6, <1>7 DEF AdmissionNext

THEOREM AdmissionInvariant == AdmissionSpec => []AdmissionIInv
BY AdmissionStart, AdmissionPreserved, PTL DEF AdmissionSpec

THEOREM AdmissionTypes == AdmissionSpec => []AdmissionTypeOK
<1>1. AdmissionIInv => AdmissionTypeOK BY DEF AdmissionIInv
<1> QED BY <1>1, AdmissionInvariant, PTL

THEOREM OneIntake == AdmissionSpec => []OneFreshIntake
<1>1. AdmissionIInv => OneFreshIntake
  BY HealthAdmits DEF AdmissionIInv, PassInv, OneFreshIntake
<1> QED BY <1>1, AdmissionInvariant, PTL


-----------------------------------------------------------------------------
(***************************************************************************)
(* StaticReconcile.  The lock has one holder, and only its holder writes   *)
(* the runtime world, the journal and the active world of the ledger; so   *)
(* the three tell at each of its steps how far the publication is          *)
(* (PublishInv), and without it the journal does (JournalInv).  What a     *)
(* request publishes that replaces another world it took from a plan that  *)
(* was shown, and it keeps it while others write what they like (Founded). *)
(***************************************************************************)

World == [lore : Lores \cup {NoLore}, from : Lores \cup {NoLore}, ids : [Keys -> Nat]]
Plan ==
  [lore : Lores \cup {NoLore}, from : Lores \cup {NoLore}, ids : [Keys -> Nat], ok : BOOLEAN]
Stored == [status : {"none", "approval", "blocked", "applied"}, plan : Plan]
IntakeSession ==
  [status : {"none", "pending", "approval", "blocked", "completed"}, plan : Plan, approved : Plan]
LedgerState ==
  [active : World, owner : [Keys -> Nat], completed : SUBSET Plan, patched : BOOLEAN]
DiskState ==
  [world : World, plan : [Lores -> Stored], session : [Lores -> IntakeSession],
   journal : [world : World, kept : Stored]]
Publishing == {"stage", "install", "commit", "settle"}
CompileRequest ==
  [kind : {"prepare", "confirm"}, lore : Lores, approved : Plan, plan : Plan,
   at : {"load", "pending", "recover", "inspect", "lock", "persist", "ask", "block"}
          \cup Publishing]
PageState == [answer : Stored, by : {"nobody", "send", "click", "driver", "auto"}]

ReconcileTypes ==
  /\ sources \in Lores
  /\ ledger \in LedgerState /\ disk \in DiskState
  /\ lock \in Tabs \cup {Nobody}
  /\ op \in [Tabs -> CompileRequest \cup {NoOp}] /\ page \in [Tabs -> PageState]
  /\ fresh \in Nat
  /\ shown \subseteq Plan

(* A plan goes from one state of the sources to another one.               *)
Moves(p) == p = NoPlan \/ (p.lore \in Lores /\ p.from # p.lore)

(* What waits for its user is a plan, and what was approved was shown.     *)
Waits(s) == Moves(s.plan) /\ (s.status = "approval" => s.plan # NoPlan)
Seen(p) == p = NoPlan \/ (p \in shown /\ Moves(p))

StoredInv ==
  /\ \A l \in Lores : /\ Moves(disk.plan[l].plan)
                      /\ Waits(disk.session[l]) /\ Seen(disk.session[l].approved)
  /\ Moves(disk.journal.kept.plan)

PagesInv ==
  \A t \in Tabs : /\ Waits(page[t].answer)
                  /\ page[t].answer.status = "approval" => page[t].answer.plan \in shown

(* What a request holds at each of its steps.                              *)
Founded(x) ==
  /\ Seen(x.approved) /\ Moves(x.plan)
  /\ x.at \in {"ask", "block"} => x.plan # NoPlan
  /\ x.at \in {"lock"} \cup Publishing =>
       /\ x.plan # NoPlan
       /\ x.plan.from # NoLore => x.plan \in shown
RequestInv(t) == op[t] # NoOp => Founded(op[t])

(* One request publishes at a time.                                        *)
IsPublishing(t) == op[t] # NoOp /\ op[t].at \in Publishing

PublishInv(t) ==
  /\ IsPublishing(t) <=> lock = t
  /\ AtStep(t, "stage") => disk.journal = NoJournal
  /\ AtStep(t, "install") \/ AtStep(t, "commit") =>
       disk.journal.world = Target(t) /\ ledger.active.lore = op[t].plan.from
  /\ AtStep(t, "install") => disk.world = ledger.active
  /\ AtStep(t, "commit") => disk.world = Target(t)
  /\ AtStep(t, "settle") => disk.journal.world = Target(t) /\ ledger.active = Target(t)

(* A journal says between which worlds the files and the ledger are.       *)
JournalInv ==
  /\ ledger.active.lore = NoLore => ledger.active = NoWorld
  /\ disk.journal = NoJournal => disk.world = ledger.active
  /\ disk.journal # NoJournal =>
       /\ disk.journal.world.lore \in Lores
       /\ disk.journal.world.from # disk.journal.world.lore
       /\ \/ ledger.active = disk.journal.world /\ disk.world = ledger.active
          \/ /\ ledger.active.lore = disk.journal.world.from
             /\ disk.world \in {ledger.active, disk.journal.world}

ReconcileIInv ==
  /\ ReconcileTypes /\ StoredInv /\ PagesInv /\ JournalInv
  /\ \A t \in Tabs : RequestInv(t) /\ PublishInv(t)

USE ReconcileAssumption

-----------------------------------------------------------------------------

LEMMA NothingYet ==
  /\ NoIds \in [Keys -> Nat] /\ NoWorld \in World /\ NoPlan \in Plan
  /\ Empty \in Stored /\ NoJournal \in [world : World, kept : Stored]
  /\ Empty.status = "none" /\ Empty.plan = NoPlan
<1>1. NoIds \in [Keys -> Nat] BY DEF NoIds
<1>2. NoWorld \in World /\ NoPlan \in Plan BY <1>1 DEF NoWorld, NoPlan, World, Plan
<1>3. Empty \in Stored /\ Empty.status = "none" /\ Empty.plan = NoPlan
  BY <1>2 DEF Empty, Stored
<1> QED BY <1>1, <1>2, <1>3 DEF NoJournal

LEMMA RequestsAreNot ==
  ASSUME NEW x \in CompileRequest
  PROVE  x # NoOp /\ x.kind # "none"
BY DEF CompileRequest, NoOp

(* The page keeps what it had, or is given an answer.                      *)
Turns(t) ==
  /\ op' \in [Tabs -> CompileRequest \cup {NoOp}] /\ page' \in [Tabs -> PageState]
  /\ \A u \in Tabs \ {t} : op'[u] = op[u]
  /\ shown \subseteq shown' /\ shown' \subseteq Plan
  /\ PagesInv' /\ RequestInv(t)'

LEMMA GoesTurns ==
  ASSUME ReconcileIInv, NEW t \in Tabs, NEW next \in CompileRequest, Goes(t, next), Founded(next)
  PROVE  Turns(t) /\ op'[t] = next
<1>1. op' = [op EXCEPT ![t] = next] /\ page' = page /\ shown' = shown BY DEF Goes
<1>2. /\ op \in [Tabs -> CompileRequest \cup {NoOp}] /\ page \in [Tabs -> PageState]
      /\ shown \subseteq Plan /\ PagesInv
  BY DEF ReconcileIInv, ReconcileTypes
<1>3. /\ op' \in [Tabs -> CompileRequest \cup {NoOp}] /\ op'[t] = next
      /\ \A u \in Tabs \ {t} : op'[u] = op[u]
  BY <1>1, <1>2
<1>4. PagesInv' BY <1>1, <1>2 DEF PagesInv, Waits
<1>5. RequestInv(t)' BY <1>1, <1>3 DEF RequestInv, Founded, Seen
<1> QED BY <1>1, <1>2, <1>3, <1>4, <1>5 DEF Turns

LEMMA FailsTurns ==
  ASSUME ReconcileIInv, NEW t \in Tabs, RequestFails(t)
  PROVE  Turns(t) /\ op'[t] = NoOp
<1>1. op' = [op EXCEPT ![t] = NoOp] /\ page' = [page EXCEPT ![t].by = Over(t)] /\ shown' = shown
  BY DEF RequestFails
<1>2. /\ op \in [Tabs -> CompileRequest \cup {NoOp}] /\ page \in [Tabs -> PageState]
      /\ shown \subseteq Plan /\ PagesInv
  BY DEF ReconcileIInv, ReconcileTypes
<1>3. /\ op' \in [Tabs -> CompileRequest \cup {NoOp}] /\ op'[t] = NoOp
      /\ \A u \in Tabs \ {t} : op'[u] = op[u]
  BY <1>1, <1>2
<1>4. page' \in [Tabs -> PageState] /\ \A u \in Tabs : page'[u].answer = page[u].answer
  <2>1. Over(t) \in {"driver", "nobody"} BY DEF Over
  <2>2. [page[t] EXCEPT !.by = Over(t)] \in PageState
        /\ [page[t] EXCEPT !.by = Over(t)].answer = page[t].answer
    BY <1>2, <2>1 DEF PageState
  <2>3. page' = [page EXCEPT ![t] = [page[t] EXCEPT !.by = Over(t)]] BY <1>1
  <2> QED BY <1>2, <2>2, <2>3
<1>5. PagesInv' BY <1>1, <1>2, <1>4 DEF PagesInv, Waits
<1>6. RequestInv(t)' BY <1>3 DEF RequestInv
<1> QED BY <1>1, <1>2, <1>3, <1>4, <1>5, <1>6 DEF Turns

LEMMA KeepsTurns ==
  ASSUME ReconcileIInv, NEW t \in Tabs, NEW answer \in Stored, Waits(answer), Keeps(t, answer)
  PROVE  Turns(t) /\ op'[t] = NoOp
<1> DEFINE kept == [answer |-> answer, by |-> Over(t)]
<1>1. /\ op' = [op EXCEPT ![t] = NoOp] /\ page' = [page EXCEPT ![t] = kept]
      /\ shown' = shown \union ({answer.plan} \ {NoPlan})
  BY DEF Keeps
<1>2. /\ op \in [Tabs -> CompileRequest \cup {NoOp}] /\ page \in [Tabs -> PageState]
      /\ shown \subseteq Plan /\ PagesInv
  BY DEF ReconcileIInv, ReconcileTypes
<1>3. /\ op' \in [Tabs -> CompileRequest \cup {NoOp}] /\ op'[t] = NoOp
      /\ \A u \in Tabs \ {t} : op'[u] = op[u]
  BY <1>1, <1>2
<1>4. kept \in PageState /\ kept.answer = answer
  <2>1. Over(t) \in {"driver", "nobody"} BY DEF Over
  <2> QED BY <2>1 DEF PageState
<1> HIDE DEF kept
<1>5. page' \in [Tabs -> PageState] /\ page'[t] = kept /\ \A u \in Tabs \ {t} : page'[u] = page[u]
  BY <1>1, <1>2, <1>4
<1>6. answer.plan \in Plan BY DEF Stored
<1>7. shown' \subseteq Plan /\ shown \subseteq shown' BY <1>1, <1>2, <1>6
<1>8. answer.status = "approval" => answer.plan \in shown' BY <1>1 DEF Waits
<1>9. PagesInv' BY <1>2, <1>4, <1>5, <1>7, <1>8 DEF PagesInv, Waits
<1>10. RequestInv(t)' BY <1>3 DEF RequestInv
<1> QED BY <1>3, <1>5, <1>7, <1>9, <1>10 DEF Turns

LEMMA AnswersTurns ==
  ASSUME ReconcileIInv, NEW t \in Tabs, NEW answer, Answers(t, answer),
         answer = Ready \/ (answer \in Stored /\ Waits(answer))
  PROVE  Turns(t) /\ ~IsPublishing(t)'
<1> DEFINE had == page[t].answer
<1>1. CASE op[t].kind = "prepare" /\ answer.status = "approval" /\ answer = had
  <2>1. op' = [op EXCEPT ![t] = Confirmation(had.plan)] /\ UNCHANGED <<page, shown>>
    BY <1>1 DEF Answers
  <2>2. Goes(t, Confirmation(had.plan)) BY <2>1 DEF Goes
  <2>3. had \in Stored /\ had.plan \in shown /\ had.plan # NoPlan /\ Moves(had.plan)
    BY <1>1 DEF ReconcileIInv, ReconcileTypes, PageState, PagesInv, Waits
  <2>4. had.plan \in Plan /\ had.plan.lore \in Lores BY <2>3 DEF Stored, Moves
  <2> HIDE DEF had
  <2>5. Confirmation(had.plan) \in CompileRequest /\ Confirmation(had.plan).at = "load"
        /\ Confirmation(had.plan).approved = had.plan /\ Confirmation(had.plan).plan = NoPlan
    BY <2>4, NothingYet DEF Confirmation, CompileRequest
  <2>6. Founded(Confirmation(had.plan)) BY <2>3, <2>5 DEF Founded, Seen, Moves, Publishing
  <2> QED BY <2>2, <2>5, <2>6, GoesTurns DEF IsPublishing, Publishing
<1>2. CASE ~ (op[t].kind = "prepare" /\ answer.status = "approval" /\ answer = had)
  <2> DEFINE given == IF answer.status = "ready" THEN Empty ELSE answer
  <2>1. Keeps(t, given) BY <1>2 DEF Answers
  <2>2. given \in Stored /\ Waits(given)
    <3>1. Ready.status = "ready" BY DEF Ready
    <3>2. Waits(Empty) BY NothingYet DEF Waits, Moves
    <3> QED BY <3>1, <3>2, NothingYet
  <2> HIDE DEF given
  <2> QED BY <2>1, <2>2, KeepsTurns DEF IsPublishing
<1> QED BY <1>1, <1>2

(* A step that publishes nothing.                                          *)
LEMMA Local ==
  ASSUME ReconcileIInv, NEW t \in Tabs, Turns(t), ~IsPublishing(t), ~IsPublishing(t)',
         sources' \in Lores, ledger' \in LedgerState, disk' \in DiskState, fresh' \in Nat,
         ledger'.active = ledger.active, lock' = lock,
         disk'.world = disk.world, disk'.journal = disk.journal,
         StoredInv'
  PROVE  ReconcileIInv'
<1>1. ReconcileTypes' BY DEF ReconcileIInv, ReconcileTypes, Turns
<1>2. JournalInv' BY DEF ReconcileIInv, JournalInv
<1>3. ASSUME NEW u \in Tabs PROVE RequestInv(u)'
  <2>1. CASE u = t BY <2>1 DEF Turns
  <2>2. CASE u # t
    <3>1. op'[u] = op[u] /\ shown \subseteq shown' BY <2>2 DEF Turns
    <3> QED BY <3>1 DEF ReconcileIInv, RequestInv, Founded, Seen
  <2> QED BY <2>1, <2>2
<1>4. ASSUME NEW u \in Tabs PROVE PublishInv(u)'
  <2>1. CASE u = t
    <3>1. lock # t BY DEF ReconcileIInv, PublishInv
    <3>2. op'[t] \in CompileRequest \cup {NoOp} BY DEF Turns
    <3>3. \A s \in Publishing : ~AtStep(t, s)'
      BY <3>2 DEF AtStep, IsPublishing, NoOp
    <3> QED BY <2>1, <3>1, <3>3 DEF PublishInv, Publishing
  <2>2. CASE u # t
    <3>1. op'[u] = op[u] BY <2>2 DEF Turns
    <3> QED BY <3>1 DEF ReconcileIInv, PublishInv, IsPublishing, AtStep, Target
  <2> QED BY <2>1, <2>2
<1> QED BY <1>1, <1>2, <1>3, <1>4 DEF ReconcileIInv, Turns

(* A step of a publication, or of a recovery.                              *)
LEMMA Exclusive ==
  ASSUME ReconcileIInv, NEW t \in Tabs, Turns(t), lock \in {t, Nobody}, lock' \in {t, Nobody},
         sources' \in Lores, ledger' \in LedgerState, disk' \in DiskState, fresh' \in Nat,
         StoredInv', JournalInv', PublishInv(t)'
  PROVE  ReconcileIInv'
<1>1. ReconcileTypes' BY DEF ReconcileIInv, ReconcileTypes, Turns
<1>2. ASSUME NEW u \in Tabs, u # t PROVE RequestInv(u)' /\ PublishInv(u)'
  <2>1. op'[u] = op[u] /\ shown \subseteq shown' BY <1>2 DEF Turns
  <2>2. RequestInv(u)' BY <2>1 DEF ReconcileIInv, RequestInv, Founded, Seen
  <2>3. lock # u /\ lock' # u BY <1>2 DEF Nobody
  <2>4. ~IsPublishing(u)' BY <2>1, <2>3 DEF ReconcileIInv, PublishInv, IsPublishing
  <2>5. op[u] \in CompileRequest \cup {NoOp} BY DEF ReconcileIInv, ReconcileTypes
  <2>6. \A s \in Publishing : ~AtStep(u, s)' BY <2>1, <2>4, <2>5 DEF AtStep, IsPublishing, NoOp
  <2> QED BY <2>2, <2>3, <2>4, <2>6 DEF PublishInv, Publishing
<1> QED BY <1>1, <1>2 DEF ReconcileIInv, Turns

(* A request that goes on keeps what it holds.                             *)
Steps == {"load", "pending", "recover", "inspect", "lock", "persist", "ask", "block"}
           \cup Publishing
ToPublish == {"lock"} \cup Publishing

LEMMA Asking ==
  ASSUME ReconcileIInv, NEW t \in Tabs, NEW s, AtStep(t, s)
  PROVE  /\ op[t] # NoOp /\ op[t] \in CompileRequest /\ Founded(op[t]) /\ op[t].at = s
         /\ op[t].lore \in Lores /\ SessionOf(t) \in IntakeSession
         /\ Waits(SessionOf(t)) /\ Seen(SessionOf(t).approved)
<1>1. op[t] # NoOp /\ op[t].at = s BY DEF AtStep, NoOp
<1>2. op[t] \in CompileRequest /\ Founded(op[t])
  BY <1>1 DEF ReconcileIInv, ReconcileTypes, RequestInv
<1>3. op[t].lore \in Lores BY <1>2 DEF CompileRequest
<1>4. disk.session \in [Lores -> IntakeSession]
  BY DEF ReconcileIInv, ReconcileTypes, DiskState
<1>5. Waits(disk.session[op[t].lore]) /\ Seen(disk.session[op[t].lore].approved)
  BY <1>3 DEF ReconcileIInv, StoredInv
<1> QED BY <1>1, <1>2, <1>3, <1>4, <1>5 DEF SessionOf

LEMMA GotoTurns ==
  ASSUME ReconcileIInv, NEW t \in Tabs, NEW s \in Steps, Goto(t, s),
         op[t] \in CompileRequest, Founded(op[t]),
         s \notin {"ask", "block"}, s \in ToPublish => op[t].at \in ToPublish
  PROVE  /\ Turns(t) /\ op'[t] \in CompileRequest /\ op'[t].at = s
         /\ op'[t].lore = op[t].lore /\ op'[t].plan = op[t].plan
<1> DEFINE next == [op[t] EXCEPT !.at = s]
<1>1. Goes(t, next) BY DEF Goto
<1>2. /\ next \in CompileRequest /\ next.at = s /\ next.lore = op[t].lore
      /\ next.plan = op[t].plan /\ next.approved = op[t].approved
  BY DEF CompileRequest, Steps
<1> HIDE DEF next
<1>3. Founded(next) BY <1>2 DEF Founded, ToPublish
<1> QED BY <1>1, <1>2, <1>3, GoesTurns

LEMMA SameFiles ==
  ASSUME ReconcileIInv, shown \subseteq shown', disk' = disk
  PROVE  StoredInv' /\ disk' \in DiskState
BY DEF ReconcileIInv, ReconcileTypes, StoredInv, Seen, Waits

LEMMA SessionIsWritten ==
  ASSUME ReconcileIInv, NEW t \in Tabs, op[t].lore \in Lores, NEW s \in IntakeSession,
         Persist(t, s), Waits(s), Seen(s.approved), shown \subseteq shown'
  PROVE  /\ disk' \in DiskState /\ disk'.world = disk.world /\ disk'.journal = disk.journal
         /\ StoredInv'
<1>1. disk \in DiskState /\ StoredInv BY DEF ReconcileIInv, ReconcileTypes
<1> DEFINE sessions == [disk.session EXCEPT ![op[t].lore] = s]
<1>2. disk' = [disk EXCEPT !.session = sessions] BY <1>1 DEF Persist, DiskState
<1>3. /\ sessions \in [Lores -> IntakeSession]
      /\ \A l \in Lores : sessions[l] = s \/ sessions[l] = disk.session[l]
  BY <1>1 DEF DiskState
<1> HIDE DEF sessions
<1>4. /\ disk' \in DiskState /\ disk'.world = disk.world /\ disk'.journal = disk.journal
      /\ disk'.plan = disk.plan /\ disk'.session = sessions
  BY <1>1, <1>2, <1>3 DEF DiskState
<1>5. ASSUME NEW l \in Lores
      PROVE  Waits(sessions[l]) /\ Seen(sessions[l].approved)
  BY <1>1, <1>3 DEF StoredInv
<1>6. \A l \in Lores : Moves(disk.plan[l].plan) BY <1>1 DEF StoredInv
<1>7. StoredInv' BY <1>1, <1>4, <1>5, <1>6 DEF StoredInv, Seen
<1> QED BY <1>4, <1>7

LEMMA PlanIsWritten ==
  ASSUME ReconcileIInv, NEW l \in Lores, NEW p \in Stored, Moves(p.plan),
         disk' = [disk EXCEPT !.plan[l] = p], shown \subseteq shown'
  PROVE  /\ disk' \in DiskState /\ disk'.world = disk.world /\ disk'.journal = disk.journal
         /\ StoredInv'
<1>1. disk \in DiskState /\ StoredInv BY DEF ReconcileIInv, ReconcileTypes
<1> DEFINE plans == [disk.plan EXCEPT ![l] = p]
<1>2. disk' = [disk EXCEPT !.plan = plans] BY <1>1 DEF DiskState
<1>3. /\ plans \in [Lores -> Stored]
      /\ \A k \in Lores : plans[k] = p \/ plans[k] = disk.plan[k]
  BY <1>1 DEF DiskState
<1> HIDE DEF plans
<1>4. /\ disk' \in DiskState /\ disk'.world = disk.world /\ disk'.journal = disk.journal
      /\ disk'.session = disk.session /\ disk'.plan = plans
  BY <1>1, <1>2, <1>3 DEF DiskState
<1>5. StoredInv' BY <1>1, <1>3, <1>4 DEF StoredInv, Seen
<1> QED BY <1>4, <1>5

(* What recovery leaves is what the ledger says.                           *)
LEMMA RecoveredIsWhole ==
  ASSUME ReconcileIInv, disk' = Recovered, shown \subseteq shown', ledger'.active = ledger.active
  PROVE  /\ disk' \in DiskState /\ disk'.journal = NoJournal /\ disk'.world = ledger.active
         /\ StoredInv' /\ JournalInv'
<1>1. disk \in DiskState /\ StoredInv /\ JournalInv /\ ledger.active \in World
  BY DEF ReconcileIInv, ReconcileTypes, LedgerState
<1>2. /\ disk' \in DiskState /\ disk'.journal = NoJournal /\ disk'.world = ledger.active
      /\ disk'.session = disk.session
      /\ \A l \in Lores : disk'.plan[l] \in {disk.plan[l], disk.journal.kept}
  <2>1. CASE ledger.active = disk.journal.world \/ disk.journal = NoJournal
    <3>1. disk' = [disk EXCEPT !.journal = NoJournal] BY <2>1 DEF Recovered
    <3>2. disk.world = ledger.active BY <1>1, <2>1 DEF JournalInv
    <3> QED BY <1>1, <3>1, <3>2, NothingYet DEF DiskState
  <2>2. CASE ~(ledger.active = disk.journal.world \/ disk.journal = NoJournal)
    <3> DEFINE l == disk.journal.world.lore
               plans == [disk.plan EXCEPT ![l] = disk.journal.kept]
    <3>1. l \in Lores /\ disk.journal.kept \in Stored BY <1>1, <2>2 DEF JournalInv, DiskState
    <3>2. disk' = [[[disk EXCEPT !.journal = NoJournal] EXCEPT !.world = ledger.active]
                      EXCEPT !.plan = plans]
      BY <1>1, <2>2 DEF Recovered, DiskState
    <3>3. /\ plans \in [Lores -> Stored]
          /\ \A k \in Lores : plans[k] \in {disk.plan[k], disk.journal.kept}
      BY <1>1, <3>1 DEF DiskState
    <3> HIDE DEF plans
    <3> QED BY <1>1, <3>2, <3>3, NothingYet DEF DiskState
  <2> QED BY <2>1, <2>2
<1>3. StoredInv'
  <2>1. Moves(disk.journal.kept.plan) BY <1>1 DEF StoredInv
  <2>2. Moves(NoJournal.kept.plan) BY NothingYet DEF NoJournal, Moves
  <2> QED BY <1>1, <1>2, <2>1, <2>2 DEF StoredInv, Seen
<1>4. JournalInv' BY <1>1, <1>2 DEF JournalInv
<1> QED BY <1>2, <1>3, <1>4

LEMMA Recovers ==
  ASSUME ReconcileIInv, NEW t \in Tabs, Turns(t), lock \in {t, Nobody}, lock' \in {t, Nobody},
         sources' = sources, ledger' = ledger, disk' = Recovered, fresh' = fresh,
         IsPublishing(t)' <=> lock' = t,
         op'[t].at \notin {"install", "commit", "settle"} \/ op'[t] = NoOp
  PROVE  ReconcileIInv'
<1>1. shown \subseteq shown' BY DEF Turns
<1>2. /\ disk' \in DiskState /\ disk'.journal = NoJournal /\ StoredInv' /\ JournalInv'
  BY <1>1, RecoveredIsWhole
<1>3. \A s \in {"install", "commit", "settle"} : ~AtStep(t, s)' BY DEF AtStep, NoOp
<1>4. PublishInv(t)' BY <1>2, <1>3 DEF PublishInv
<1> QED BY <1>2, <1>4, Exclusive DEF ReconcileIInv, ReconcileTypes

-----------------------------------------------------------------------------
(* The page.                                                               *)

LEMMA RunIsLocal ==
  ASSUME ReconcileIInv, NEW t \in Tabs, NEW by \in {"send", "click", "auto"}, Run(t, by),
         op[t] = NoOp, UNCHANGED <<sources, ledger, disk, lock, fresh, shown>>
  PROVE  ReconcileIInv'
<1>1. sources \in Lores /\ page \in [Tabs -> PageState]
  BY DEF ReconcileIInv, ReconcileTypes
<1>2. /\ Preparation(sources) \in CompileRequest /\ Preparation(sources).at = "load"
      /\ Preparation(sources).approved = NoPlan /\ Preparation(sources).plan = NoPlan
  BY <1>1, NothingYet DEF Preparation, CompileRequest
<1>3. Founded(Preparation(sources)) BY <1>2 DEF Founded, Seen, Moves, Publishing
<1>4. op' = [op EXCEPT ![t] = Preparation(sources)] /\ page' = [page EXCEPT ![t].by = by]
  BY DEF Run
<1>5. /\ op' \in [Tabs -> CompileRequest \cup {NoOp}] /\ op'[t] = Preparation(sources)
      /\ \A u \in Tabs \ {t} : op'[u] = op[u]
  BY <1>2, <1>4 DEF ReconcileIInv, ReconcileTypes
<1>6. page' \in [Tabs -> PageState] /\ \A u \in Tabs : page'[u].answer = page[u].answer
  <2>1. /\ [page[t] EXCEPT !.by = by] \in PageState
        /\ [page[t] EXCEPT !.by = by].answer = page[t].answer
    BY <1>1 DEF PageState
  <2>2. page' = [page EXCEPT ![t] = [page[t] EXCEPT !.by = by]] BY <1>4
  <2> QED BY <1>1, <2>1, <2>2
<1>7. PagesInv' BY <1>6 DEF ReconcileIInv, PagesInv, Waits
<1>8. RequestInv(t)' BY <1>3, <1>5 DEF RequestInv, Founded, Seen
<1>9. Turns(t) BY <1>5, <1>6, <1>7, <1>8 DEF Turns, ReconcileIInv, ReconcileTypes
<1>10. ~IsPublishing(t) /\ ~IsPublishing(t)' BY <1>2, <1>5 DEF IsPublishing, Publishing
<1>11. StoredInv' /\ disk' \in DiskState BY SameFiles
<1> QED BY <1>9, <1>10, <1>11, Local DEF ReconcileIInv, ReconcileTypes

LEMMA PageSteady ==
  ASSUME ReconcileIInv, NEW t \in Tabs, Send(t) \/ Click(t) \/ Drive(t)
  PROVE  ReconcileIInv'
<1>1. CASE Send(t) BY <1>1, RunIsLocal DEF Send, Idle
<1>2. CASE Click(t) BY <1>2, RunIsLocal DEF Click, Idle
<1>3. CASE Drive(t) BY <1>3, RunIsLocal DEF Drive
<1> QED BY <1>1, <1>2, <1>3

(* A request that is refused before it publishes.                          *)
LEMMA FailsSteady ==
  ASSUME ReconcileIInv, NEW t \in Tabs, RequestFails(t), ~IsPublishing(t),
         UNCHANGED <<sources, ledger, disk, lock, fresh>>
  PROVE  ReconcileIInv'
<1>1. Turns(t) /\ op'[t] = NoOp BY FailsTurns
<1>2. ~IsPublishing(t)' BY <1>1 DEF IsPublishing
<1>3. StoredInv' /\ disk' \in DiskState BY <1>1, SameFiles DEF Turns
<1> QED BY <1>1, <1>2, <1>3, Local DEF ReconcileIInv, ReconcileTypes

-----------------------------------------------------------------------------
(* The request before it publishes.                                        *)

LEMMA LoadPreparedSteady ==
  ASSUME ReconcileIInv, NEW t \in Tabs, LoadPrepared(t)
  PROVE  ReconcileIInv'
<1> USE DEF LoadPrepared
<1>1. AtStep(t, "load") /\ UNCHANGED <<sources, ledger, disk, lock, fresh>>
  OBVIOUS
<1>2. /\ op[t] \in CompileRequest /\ Founded(op[t]) /\ op[t].at = "load"
      /\ SessionOf(t) \in IntakeSession /\ Waits(SessionOf(t)) /\ Seen(SessionOf(t).approved)
  BY <1>1, Asking
<1>3. ~IsPublishing(t) BY <1>2 DEF IsPublishing, Publishing
<1> DEFINE stored == [status |-> "approval", plan |-> SessionOf(t).plan]
           next == [op[t] EXCEPT !.at = "pending",
                      !.approved = IF SessionOf(t).status = "pending"
                                     THEN SessionOf(t).approved ELSE NoPlan]
<1>4. Answers(t, Ready) \/ (SessionOf(t).status = "approval" /\ Answers(t, stored)) \/ Goes(t, next)
  OBVIOUS
<1> HIDE DEF LoadPrepared
<1>5. Turns(t) /\ ~IsPublishing(t)'
  <2>1. CASE Answers(t, Ready) BY <2>1, AnswersTurns
  <2>2. CASE SessionOf(t).status = "approval" /\ Answers(t, stored)
    <3>1. stored \in Stored /\ Waits(stored)
      BY <1>2, <2>2 DEF IntakeSession, Stored, Waits
    <3> HIDE DEF stored
    <3> QED BY <2>2, <3>1, AnswersTurns
  <2>3. CASE Goes(t, next)
    <3>1. next \in CompileRequest /\ next.at = "pending" /\ next.plan = op[t].plan
          /\ next.approved \in {SessionOf(t).approved, NoPlan}
      BY <1>2, NothingYet DEF CompileRequest, IntakeSession
    <3> HIDE DEF next
    <3>2. Founded(next) BY <1>2, <3>1 DEF Founded, Seen, Publishing
    <3> QED BY <2>3, <3>1, <3>2, GoesTurns DEF IsPublishing, Publishing
  <2> QED BY <1>4, <2>1, <2>2, <2>3
<1>6. StoredInv' /\ disk' \in DiskState BY <1>1, <1>5, SameFiles DEF Turns
<1> QED BY <1>1, <1>3, <1>5, <1>6, Local DEF ReconcileIInv, ReconcileTypes

LEMMA LoadConfirmedSteady ==
  ASSUME ReconcileIInv, NEW t \in Tabs, LoadConfirmed(t)
  PROVE  ReconcileIInv'
<1> USE DEF LoadConfirmed
<1>1. AtStep(t, "load") /\ UNCHANGED <<sources, ledger, disk, lock, fresh>>
  OBVIOUS
<1>2. op[t] \in CompileRequest /\ Founded(op[t]) /\ op[t].at = "load" BY <1>1, Asking
<1>3. ~IsPublishing(t) BY <1>2 DEF IsPublishing, Publishing
<1>4. CASE RequestFails(t) BY <1>1, <1>3, <1>4, FailsSteady
<1>5. CASE Goto(t, "pending")
  <2>1. Turns(t) /\ op'[t].at = "pending"
    BY <1>2, <1>5, GotoTurns DEF Steps, ToPublish, Publishing
  <2>2. ~IsPublishing(t)' BY <2>1 DEF IsPublishing, Publishing
  <2>3. StoredInv' /\ disk' \in DiskState BY <1>1, <2>1, SameFiles DEF Turns
  <2> QED BY <1>1, <1>3, <2>1, <2>2, <2>3, Local DEF ReconcileIInv, ReconcileTypes
<1> QED BY <1>4, <1>5

LEMMA PersistPendingSteady ==
  ASSUME ReconcileIInv, NEW t \in Tabs, PersistPending(t)
  PROVE  ReconcileIInv'
<1> USE DEF PersistPending
<1>1. AtStep(t, "pending") /\ Goto(t, "recover") /\ UNCHANGED <<sources, ledger, lock, fresh>>
  OBVIOUS
<1>2. op[t] \in CompileRequest /\ Founded(op[t]) /\ op[t].at = "pending" /\ op[t].lore \in Lores
  BY <1>1, Asking
<1>3. Turns(t) /\ op'[t].at = "recover"
  BY <1>1, <1>2, GotoTurns DEF Steps, ToPublish, Publishing
<1>4. ~IsPublishing(t) /\ ~IsPublishing(t)' BY <1>2, <1>3 DEF IsPublishing, Publishing
<1> DEFINE s == [status |-> "pending", plan |-> op[t].approved, approved |-> op[t].approved]
<1>5. s \in IntakeSession /\ Waits(s) /\ Seen(s.approved)
  BY <1>2 DEF CompileRequest, IntakeSession, Waits, Founded, Seen, Moves
<1>6. Persist(t, s) OBVIOUS
<1> HIDE DEF s
<1>7. /\ disk' \in DiskState /\ disk'.world = disk.world /\ disk'.journal = disk.journal
      /\ StoredInv'
  BY <1>2, <1>3, <1>5, <1>6, SessionIsWritten DEF Turns
<1> QED BY <1>1, <1>3, <1>4, <1>7, Local DEF ReconcileIInv, ReconcileTypes

LEMMA RecoverFilesSteady ==
  ASSUME ReconcileIInv, NEW t \in Tabs, RecoverFiles(t)
  PROVE  ReconcileIInv'
<1> USE DEF RecoverFiles
<1>1. AtStep(t, "recover") /\ UNCHANGED <<sources, ledger, lock, fresh>>
  OBVIOUS
<1>2. op[t] \in CompileRequest /\ Founded(op[t]) /\ op[t].at = "recover" BY <1>1, Asking
<1>3. CASE lock = Nobody
  <2>1. disk' = Recovered /\ Goto(t, "inspect") BY <1>3
  <2>2. Turns(t) /\ op'[t].at = "inspect"
    BY <1>2, <2>1, GotoTurns DEF Steps, ToPublish, Publishing
  <2>3. ~IsPublishing(t)' BY <2>2 DEF IsPublishing, Publishing
  <2>4. lock' # t BY <1>1, <1>3 DEF Nobody
  <2> QED BY <1>1, <1>3, <2>1, <2>2, <2>3, <2>4, Recovers
<1>4. CASE lock # Nobody
  <2>1. ~IsPublishing(t) BY <1>2 DEF IsPublishing, Publishing
  <2> QED BY <1>1, <1>4, <2>1, FailsSteady
<1> QED BY <1>3, <1>4

(* The entities of a plan are numbers, the new ones after all there were.  *)
LEMMA EntitiesAreNumbers ==
  ASSUME ReconcileIInv, NEW l \in Lores
  PROVE  Cardinality(New(l)) \in Nat /\ Matched(l) \in [Keys -> Nat]
<1>1. New(l) \subseteq Keys BY DEF New
<1>2. IsFiniteSet(New(l)) BY <1>1, FS_Subset
<1>3. Cardinality(New(l)) \in Nat BY <1>2, FS_CardinalityType
<1>4. ASSUME NEW k \in Keys PROVE Cardinality({j \in New(l) : j < k}) \in Nat
  <2>1. IsFiniteSet({j \in New(l) : j < k}) BY <1>2, FS_Subset
  <2> QED BY <2>1, FS_CardinalityType
<1>5. fresh \in Nat /\ disk.world.ids \in [Keys -> Nat]
  BY DEF ReconcileIInv, ReconcileTypes, DiskState, World
<1> DEFINE before(k) == Cardinality({j \in New(l) : j < k})
<1>6. \A k \in Keys : before(k) \in Nat BY <1>4
<1>7. Matched(l) = [k \in Keys |-> IF k \notin Concepts[l] THEN 0
                      ELSE IF disk.world.ids[k] # 0 THEN disk.world.ids[k] ELSE fresh + before(k)]
  BY DEF Matched
<1> HIDE DEF before
<1>8. Matched(l) \in [Keys -> Nat] BY <1>5, <1>6, <1>7
<1> QED BY <1>3, <1>8

LEMMA InitialSteady ==
  ASSUME ReconcileIInv, NEW t \in Tabs, Initial(t)
  PROVE  ReconcileIInv'
<1> DEFINE p == [lore |-> op[t].lore, from |-> NoLore, ids |-> Matched(op[t].lore), ok |-> TRUE]
           next == [op[t] EXCEPT !.at = "lock", !.plan = p]
<1>1. /\ AtStep(t, "inspect") /\ Goes(t, next) /\ UNCHANGED <<sources, ledger, disk, lock>>
      /\ fresh' = fresh + Cardinality(New(op[t].lore))
  BY DEF Initial
<1>2. op[t] \in CompileRequest /\ Founded(op[t]) /\ op[t].at = "inspect" /\ op[t].lore \in Lores
  BY <1>1, Asking
<1>3. Matched(op[t].lore) \in [Keys -> Nat] /\ Cardinality(New(op[t].lore)) \in Nat
  BY <1>2, EntitiesAreNumbers
<1>4. p \in Plan /\ p # NoPlan /\ Moves(p) /\ p.from = NoLore
  BY <1>2, <1>3 DEF Plan, NoPlan, Moves
<1> HIDE DEF p
<1>5. /\ next \in CompileRequest /\ next.at = "lock" /\ next.plan = p
      /\ next.approved = op[t].approved
  BY <1>2, <1>4 DEF CompileRequest
<1> HIDE DEF next
<1>6. Founded(next) BY <1>2, <1>4, <1>5 DEF Founded
<1>7. Turns(t) /\ op'[t] = next BY <1>1, <1>5, <1>6, GoesTurns
<1>8. ~IsPublishing(t) /\ ~IsPublishing(t)' BY <1>2, <1>5, <1>7 DEF IsPublishing, Publishing
<1>9. StoredInv' /\ disk' \in DiskState BY <1>1, <1>7, SameFiles DEF Turns
<1>10. fresh' \in Nat BY <1>1, <1>3 DEF ReconcileIInv, ReconcileTypes
<1> QED BY <1>1, <1>7, <1>8, <1>9, <1>10, Local DEF ReconcileIInv, ReconcileTypes

LEMMA AlreadyActiveSteady ==
  ASSUME ReconcileIInv, NEW t \in Tabs, AlreadyActive(t)
  PROVE  ReconcileIInv'
<1> DEFINE next == [op[t] EXCEPT !.at = "persist", !.plan = NoPlan]
<1>1. /\ AtStep(t, "inspect") /\ (Goes(t, next) \/ RequestFails(t))
      /\ UNCHANGED <<sources, ledger, disk, lock, fresh>>
  BY DEF AlreadyActive
<1>2. op[t] \in CompileRequest /\ Founded(op[t]) /\ op[t].at = "inspect"
  BY <1>1, Asking
<1>3. ~IsPublishing(t) BY <1>2 DEF IsPublishing, Publishing
<1>4. CASE RequestFails(t) BY <1>1, <1>3, <1>4, FailsSteady
<1>5. CASE Goes(t, next)
  <2>1. /\ next \in CompileRequest /\ next.at = "persist" /\ next.plan = NoPlan
        /\ next.approved = op[t].approved
    BY <1>2, NothingYet DEF CompileRequest
  <2> HIDE DEF next
  <2>2. Founded(next) BY <1>2, <2>1 DEF Founded, Moves, Publishing
  <2>3. Turns(t) /\ op'[t] = next BY <1>5, <2>1, <2>2, GoesTurns
  <2>4. ~IsPublishing(t)' BY <2>1, <2>3 DEF IsPublishing, Publishing
  <2>5. StoredInv' /\ disk' \in DiskState BY <1>1, <2>3, SameFiles DEF Turns
  <2> QED BY <1>1, <1>3, <2>3, <2>4, <2>5, Local DEF ReconcileIInv, ReconcileTypes
<1> QED BY <1>1, <1>4, <1>5

(* What a request goes on with that asks its user.                         *)
LEMMA AsksTurns ==
  ASSUME ReconcileIInv, NEW t \in Tabs, NEW s \in {"ask", "block"}, NEW p \in Plan,
         op[t] \in CompileRequest, Founded(op[t]), Moves(p), p # NoPlan,
         Goes(t, [op[t] EXCEPT !.at = s, !.plan = p])
  PROVE  Turns(t) /\ ~IsPublishing(t)'
<1> DEFINE next == [op[t] EXCEPT !.at = s, !.plan = p]
<1>1. next \in CompileRequest /\ next.at = s /\ next.plan = p /\ next.approved = op[t].approved
  BY DEF CompileRequest
<1>2. Goes(t, next) OBVIOUS
<1> HIDE DEF next
<1>3. Founded(next) BY <1>1 DEF Founded, Publishing
<1> QED BY <1>1, <1>2, <1>3, GoesTurns DEF IsPublishing, Publishing

LEMMA MakePlanSteady ==
  ASSUME ReconcileIInv, NEW t \in Tabs, MakePlan(t)
  PROVE  ReconcileIInv'
<1> DEFINE p == [lore |-> op[t].lore, from |-> ledger.active.lore,
                 ids |-> Matched(op[t].lore), ok |-> ~Conflicts]
           stored == [status |-> IF p.ok THEN "approval" ELSE "blocked", plan |-> p]
           s == IF p.ok THEN "ask" ELSE "block"
<1>1. /\ AtStep(t, "inspect") /\ ledger.active.lore # op[t].lore
      /\ UNCHANGED <<sources, ledger, lock>>
      /\ fresh' = fresh + Cardinality(New(op[t].lore))
      /\ disk' = [disk EXCEPT !.plan[op[t].lore] = stored]
      /\ Goes(t, [op[t] EXCEPT !.at = s, !.plan = p])
  BY DEF MakePlan, Reconciles
<1>2. op[t] \in CompileRequest /\ Founded(op[t]) /\ op[t].at = "inspect" /\ op[t].lore \in Lores
  BY <1>1, Asking
<1>3. Matched(op[t].lore) \in [Keys -> Nat] /\ Cardinality(New(op[t].lore)) \in Nat
  BY <1>2, EntitiesAreNumbers
<1>4. p \in Plan /\ p # NoPlan /\ Moves(p)
  <2>1. ledger.active.lore \in Lores \cup {NoLore} /\ (~Conflicts) \in BOOLEAN
    BY DEF ReconcileIInv, ReconcileTypes, LedgerState, World
  <2>2. p \in Plan BY <1>2, <1>3, <2>1 DEF Plan
  <2>3. p.lore # NoPlan.lore BY <1>2 DEF NoPlan
  <2> QED BY <1>1, <1>2, <2>2, <2>3 DEF Moves
<1>5. s \in {"ask", "block"} /\ stored.status \in {"approval", "blocked"} OBVIOUS
<1> HIDE DEF p, s
<1>6. stored \in Stored /\ stored.plan = p BY <1>4, <1>5 DEF Stored
<1> HIDE DEF stored
<1>7. Turns(t) /\ ~IsPublishing(t)' BY <1>1, <1>2, <1>4, <1>5, AsksTurns
<1>8. ~IsPublishing(t) BY <1>2 DEF IsPublishing, Publishing
<1>9. /\ disk' \in DiskState /\ disk'.world = disk.world /\ disk'.journal = disk.journal
      /\ StoredInv'
  BY <1>1, <1>2, <1>4, <1>6, <1>7, PlanIsWritten DEF Turns
<1>10. fresh' \in Nat BY <1>1, <1>3 DEF ReconcileIInv, ReconcileTypes
<1> QED BY <1>1, <1>7, <1>8, <1>9, <1>10, Local DEF ReconcileIInv, ReconcileTypes

LEMMA TakePlanSteady ==
  ASSUME ReconcileIInv, NEW t \in Tabs, TakePlan(t)
  PROVE  ReconcileIInv'
<1> DEFINE stored == disk.plan[op[t].lore]
           blocked == [stored EXCEPT !.status = "blocked"]
           next == [op[t] EXCEPT !.at = "lock", !.plan = stored.plan]
<1>1. /\ AtStep(t, "inspect") /\ op[t].approved # NoPlan
      /\ UNCHANGED <<sources, ledger, lock, fresh>>
  BY DEF TakePlan, Reconciles
<1>2. op[t] \in CompileRequest /\ Founded(op[t]) /\ op[t].at = "inspect" /\ op[t].lore \in Lores
  BY <1>1, Asking
<1>3. \/ RequestFails(t) /\ UNCHANGED disk
      \/ /\ stored.plan = op[t].approved
         /\ disk' = [disk EXCEPT !.plan[op[t].lore].status = "blocked"]
         /\ Goes(t, [op[t] EXCEPT !.at = "block", !.plan = stored.plan])
      \/ stored.plan = op[t].approved /\ Goes(t, next) /\ UNCHANGED disk
  BY DEF TakePlan, ApprovedIsStored
<1>4. ~IsPublishing(t) BY <1>2 DEF IsPublishing, Publishing
<1>5. stored \in Stored /\ stored.plan \in Plan
  BY <1>2 DEF ReconcileIInv, ReconcileTypes, DiskState, Stored
<1>6. op[t].approved \in shown /\ Moves(op[t].approved) BY <1>1, <1>2 DEF Founded, Seen
<1>7. CASE RequestFails(t) /\ UNCHANGED disk BY <1>1, <1>4, <1>7, FailsSteady
<1>8. CASE /\ stored.plan = op[t].approved
           /\ disk' = [disk EXCEPT !.plan[op[t].lore].status = "blocked"]
           /\ Goes(t, [op[t] EXCEPT !.at = "block", !.plan = stored.plan])
  <2>1. blocked \in Stored /\ blocked.plan = stored.plan BY <1>5 DEF Stored
  <2>2. disk' = [disk EXCEPT !.plan[op[t].lore] = blocked]
    BY <1>2, <1>8 DEF ReconcileIInv, ReconcileTypes, DiskState
  <2> HIDE DEF stored, blocked
  <2>3. Turns(t) /\ ~IsPublishing(t)' BY <1>1, <1>2, <1>5, <1>6, <1>8, AsksTurns
  <2>4. /\ disk' \in DiskState /\ disk'.world = disk.world /\ disk'.journal = disk.journal
        /\ StoredInv'
    BY <1>2, <1>6, <1>8, <2>1, <2>2, <2>3, PlanIsWritten DEF Turns
  <2> QED BY <1>1, <1>4, <2>3, <2>4, Local DEF ReconcileIInv, ReconcileTypes
<1>9. CASE stored.plan = op[t].approved /\ Goes(t, next) /\ UNCHANGED disk
  <2> HIDE DEF stored
  <2>1. /\ next \in CompileRequest /\ next.at = "lock" /\ next.plan = stored.plan
        /\ next.approved = op[t].approved
    BY <1>2, <1>5 DEF CompileRequest
  <2> HIDE DEF next
  <2>2. Founded(next) BY <1>1, <1>2, <1>6, <1>9, <2>1 DEF Founded
  <2>3. Turns(t) /\ op'[t] = next BY <1>9, <2>1, <2>2, GoesTurns
  <2>4. ~IsPublishing(t)' BY <2>1, <2>3 DEF IsPublishing, Publishing
  <2>5. StoredInv' /\ disk' \in DiskState BY <1>9, <2>3, SameFiles DEF Turns
  <2> QED BY <1>1, <1>4, <1>9, <2>3, <2>4, <2>5, Local DEF ReconcileIInv, ReconcileTypes
<1> QED BY <1>3, <1>7, <1>8, <1>9

LEMMA IncoherentSteady ==
  ASSUME ReconcileIInv, NEW t \in Tabs, Incoherent(t)
  PROVE  ReconcileIInv'
<1>1. /\ AtStep(t, "inspect") /\ RequestFails(t)
      /\ UNCHANGED <<sources, ledger, disk, lock, fresh>>
  BY DEF Incoherent
<1>2. ~IsPublishing(t) BY <1>1, Asking DEF IsPublishing, Publishing
<1> QED BY <1>1, <1>2, FailsSteady

LEMMA PersistResultSteady ==
  ASSUME ReconcileIInv, NEW t \in Tabs, PersistResult(t)
  PROVE  ReconcileIInv'
<1> DEFINE s == [status |-> "completed", plan |-> op[t].approved, approved |-> op[t].approved]
<1>1. /\ AtStep(t, "persist") /\ Persist(t, s) /\ Answers(t, Ready)
      /\ UNCHANGED <<sources, ledger, lock, fresh>>
  BY DEF PersistResult
<1>2. op[t] \in CompileRequest /\ Founded(op[t]) /\ op[t].at = "persist" /\ op[t].lore \in Lores
  BY <1>1, Asking
<1>3. s \in IntakeSession /\ Waits(s) /\ Seen(s.approved)
  BY <1>2 DEF CompileRequest, IntakeSession, Waits, Founded, Seen, Moves
<1> HIDE DEF s
<1>4. Turns(t) /\ ~IsPublishing(t)' BY <1>1, AnswersTurns
<1>5. ~IsPublishing(t) BY <1>2 DEF IsPublishing, Publishing
<1>6. /\ disk' \in DiskState /\ disk'.world = disk.world /\ disk'.journal = disk.journal
      /\ StoredInv'
  BY <1>1, <1>2, <1>3, <1>4, SessionIsWritten DEF Turns
<1> QED BY <1>1, <1>4, <1>5, <1>6, Local DEF ReconcileIInv, ReconcileTypes

LEMMA PersistPlanSteady ==
  ASSUME ReconcileIInv, NEW t \in Tabs, PersistPlan(t)
  PROVE  ReconcileIInv'
<1> DEFINE status == IF AtStep(t, "ask") THEN "approval" ELSE "blocked"
           s == [status |-> status, plan |-> op[t].plan, approved |-> NoPlan]
           answer == [status |-> status, plan |-> op[t].plan]
<1>1. /\ AtStep(t, "ask") \/ AtStep(t, "block")
      /\ Persist(t, s) /\ Answers(t, answer)
      /\ UNCHANGED <<sources, ledger, lock, fresh>>
  BY DEF PersistPlan
<1>2. /\ op[t] \in CompileRequest /\ Founded(op[t]) /\ op[t].at \in {"ask", "block"}
      /\ op[t].lore \in Lores
  BY <1>1, Asking
<1>3. status \in {"approval", "blocked"} OBVIOUS
<1> HIDE DEF status
<1>4. op[t].plan \in Plan /\ op[t].plan # NoPlan /\ Moves(op[t].plan)
  BY <1>2 DEF CompileRequest, Founded
<1>5. s \in IntakeSession /\ Waits(s) /\ Seen(s.approved)
  BY <1>3, <1>4, NothingYet DEF IntakeSession, Waits, Seen
<1>6. answer \in Stored /\ Waits(answer) BY <1>3, <1>4 DEF Stored, Waits
<1> HIDE DEF s, answer
<1>7. Turns(t) /\ ~IsPublishing(t)' BY <1>1, <1>6, AnswersTurns
<1>8. ~IsPublishing(t) BY <1>2 DEF IsPublishing, Publishing
<1>9. /\ disk' \in DiskState /\ disk'.world = disk.world /\ disk'.journal = disk.journal
      /\ StoredInv'
  BY <1>1, <1>2, <1>5, <1>7, SessionIsWritten DEF Turns
<1> QED BY <1>1, <1>7, <1>8, <1>9, Local DEF ReconcileIInv, ReconcileTypes

-----------------------------------------------------------------------------
(* The publication.                                                        *)

LEMMA Publisher ==
  ASSUME ReconcileIInv, NEW t \in Tabs, NEW s \in Publishing, AtStep(t, s)
  PROVE  /\ lock = t /\ op[t] \in CompileRequest /\ Founded(op[t]) /\ op[t].at = s
         /\ op[t].lore \in Lores /\ op[t].plan \in Plan /\ op[t].plan # NoPlan
         /\ Target(t) \in World /\ Target(t).lore \in Lores /\ Target(t).from # Target(t).lore
         /\ Target(t).lore = op[t].plan.lore /\ Target(t).from = op[t].plan.from
         /\ Target(t) # NoWorld
<1>1. /\ op[t] # NoOp /\ op[t] \in CompileRequest /\ Founded(op[t]) /\ op[t].at = s
      /\ op[t].lore \in Lores
  BY Asking
<1>2. IsPublishing(t) BY <1>1 DEF IsPublishing
<1>3. lock = t BY <1>2 DEF ReconcileIInv, PublishInv
<1>4. op[t].plan \in Plan /\ op[t].plan # NoPlan /\ Moves(op[t].plan)
  BY <1>1 DEF CompileRequest, Founded
<1>5. /\ Target(t) \in World /\ Target(t).lore = op[t].plan.lore
      /\ Target(t).from = op[t].plan.from
  BY <1>4 DEF Target, Plan, World
<1>6. Target(t).lore \in Lores /\ Target(t).from # Target(t).lore BY <1>4, <1>5 DEF Moves
<1>7. Target(t) # NoWorld BY <1>6 DEF NoWorld
<1> QED BY <1>1, <1>3, <1>4, <1>5, <1>6, <1>7

LEMMA AcquireWriterLockSteady ==
  ASSUME ReconcileIInv, NEW t \in Tabs, AcquireWriterLock(t)
  PROVE  ReconcileIInv'
<1>1. AtStep(t, "lock") /\ UNCHANGED <<sources, ledger, fresh>> BY DEF AcquireWriterLock
<1>2. op[t] \in CompileRequest /\ Founded(op[t]) /\ op[t].at = "lock" BY <1>1, Asking
<1>3. CASE lock = Nobody
  <2>1. lock' = t /\ disk' = Recovered /\ Goto(t, "stage") BY <1>3 DEF AcquireWriterLock
  <2>2. Turns(t) /\ op'[t] \in CompileRequest /\ op'[t].at = "stage"
    BY <1>2, <2>1, GotoTurns DEF Steps, ToPublish, Publishing
  <2>3. IsPublishing(t)' BY <2>2, RequestsAreNot DEF IsPublishing, Publishing
  <2> QED BY <1>1, <1>3, <2>1, <2>2, <2>3, Recovers
<1>4. CASE lock # Nobody
  <2>1. RequestFails(t) /\ UNCHANGED <<lock, disk>> BY <1>4 DEF AcquireWriterLock
  <2>2. ~IsPublishing(t) BY <1>2 DEF IsPublishing, Publishing
  <2> QED BY <1>1, <2>1, <2>2, FailsSteady
<1> QED BY <1>3, <1>4

LEMMA StageSteady ==
  ASSUME ReconcileIInv, NEW t \in Tabs, Stage(t)
  PROVE  ReconcileIInv'
<1>1. AtStep(t, "stage") /\ UNCHANGED <<sources, ledger, fresh>> BY DEF Stage
<1>2. /\ lock = t /\ op[t] \in CompileRequest /\ Founded(op[t]) /\ op[t].at = "stage"
      /\ op[t].lore \in Lores /\ Target(t) \in World /\ Target(t).lore \in Lores
      /\ Target(t).from # Target(t).lore /\ Target(t) # NoWorld
      /\ Target(t).from = op[t].plan.from
  BY <1>1, Publisher DEF Publishing
<1>3. ReconcileTypes /\ StoredInv /\ JournalInv /\ disk.journal = NoJournal
  BY <1>1 DEF ReconcileIInv, PublishInv
<1>4. CASE PreviousIsActive(t) /\ Unspent(t)
  <2> DEFINE kept == disk.plan[op[t].lore]
             journal == [world |-> Target(t), kept |-> kept]
  <2>1. disk' = [disk EXCEPT !.journal = journal] /\ Goto(t, "install") /\ UNCHANGED lock
    BY <1>4 DEF Stage
  <2>2. Turns(t) /\ op'[t] \in CompileRequest /\ op'[t].at = "install" /\ op'[t].plan = op[t].plan
    BY <1>2, <2>1, GotoTurns DEF Steps, ToPublish, Publishing
  <2>3. kept \in Stored /\ Moves(kept.plan)
    BY <1>2, <1>3 DEF ReconcileTypes, DiskState, StoredInv
  <2> HIDE DEF kept
  <2>4. /\ journal \in [world : World, kept : Stored]
        /\ journal.world = Target(t) /\ journal.kept = kept
    BY <1>2, <2>3
  <2> HIDE DEF journal
  <2>5. /\ disk' \in DiskState /\ disk'.world = disk.world /\ disk'.journal = journal
        /\ disk'.plan = disk.plan /\ disk'.session = disk.session
    BY <1>3, <2>1, <2>4 DEF ReconcileTypes, DiskState
  <2>6. StoredInv' BY <1>3, <2>2, <2>3, <2>4, <2>5 DEF StoredInv, Seen, Turns
  <2>7. disk.world = ledger.active /\ ledger.active.lore = Target(t).from
    BY <1>2, <1>3, <1>4 DEF JournalInv, PreviousIsActive
  <2>8. journal # NoJournal BY <1>2, <2>4 DEF NoJournal
  <2>9. JournalInv' BY <1>1, <1>2, <1>3, <2>4, <2>5, <2>7, <2>8 DEF JournalInv
  <2>10. Target(t)' = Target(t) BY <2>2 DEF Target
  <2>11. IsPublishing(t)' BY <2>2, RequestsAreNot DEF IsPublishing, Publishing
  <2>12. \A s \in {"stage", "commit", "settle"} : ~AtStep(t, s)' BY <2>2 DEF AtStep
  <2>13. PublishInv(t)'
    BY <1>1, <1>2, <2>1, <2>2, <2>4, <2>5, <2>7, <2>10, <2>11, <2>12 DEF PublishInv
  <2> QED BY <1>1, <1>2, <1>3, <2>1, <2>2, <2>5, <2>6, <2>9, <2>13, Exclusive DEF ReconcileTypes
<1>5. CASE ~(PreviousIsActive(t) /\ Unspent(t))
  <2>1. lock' = Nobody /\ RequestFails(t) /\ UNCHANGED disk BY <1>5 DEF Stage, Undone
  <2>2. Turns(t) /\ op'[t] = NoOp BY <2>1, FailsTurns
  <2>3. StoredInv' /\ disk' \in DiskState BY <2>1, <2>2, SameFiles DEF Turns
  <2>4. JournalInv' BY <1>1, <1>3, <2>1 DEF JournalInv
  <2>5. PublishInv(t)' BY <2>1, <2>2 DEF PublishInv, IsPublishing, AtStep, NoOp, Nobody
  <2> QED BY <1>1, <1>2, <1>3, <2>1, <2>2, <2>3, <2>4, <2>5, Exclusive DEF ReconcileTypes
<1> QED BY <1>4, <1>5

LEMMA InstallSteady ==
  ASSUME ReconcileIInv, NEW t \in Tabs, Install(t)
  PROVE  ReconcileIInv'
<1> DEFINE plan == IF op[t].plan.from = NoLore THEN disk.plan[op[t].lore]
                   ELSE [status |-> "applied", plan |-> op[t].plan]
           plans == [disk.plan EXCEPT ![op[t].lore] = plan]
<1>1. /\ AtStep(t, "install") /\ UNCHANGED <<sources, ledger, lock, fresh>>
      /\ Goto(t, "commit")
  BY DEF Install
<1>2. /\ lock = t /\ op[t] \in CompileRequest /\ Founded(op[t]) /\ op[t].at = "install"
      /\ op[t].lore \in Lores /\ Target(t) \in World /\ Target(t).lore \in Lores
      /\ Target(t).from # Target(t).lore /\ Target(t) # NoWorld
      /\ Target(t).from = op[t].plan.from /\ op[t].plan \in Plan
  BY <1>1, Publisher DEF Publishing
<1>3. /\ ReconcileTypes /\ StoredInv /\ JournalInv
      /\ disk.journal.world = Target(t) /\ ledger.active.lore = op[t].plan.from
  BY <1>1 DEF ReconcileIInv, PublishInv
<1>4. disk' = [[disk EXCEPT !.world = Target(t)] EXCEPT !.plan = plans]
  BY <1>2, <1>3 DEF Install, ReconcileTypes, DiskState
<1>5. plan \in Stored /\ Moves(plan.plan)
  <2>1. disk.plan[op[t].lore] \in Stored /\ Moves(disk.plan[op[t].lore].plan)
    BY <1>2, <1>3 DEF ReconcileTypes, DiskState, StoredInv
  <2>2. [status |-> "applied", plan |-> op[t].plan] \in Stored BY <1>2 DEF Stored
  <2>3. Moves(op[t].plan) BY <1>2 DEF Founded
  <2> QED BY <2>1, <2>2, <2>3
<1> HIDE DEF plan
<1>6. /\ plans \in [Lores -> Stored]
      /\ \A l \in Lores : plans[l] = plan \/ plans[l] = disk.plan[l]
  BY <1>3, <1>5 DEF ReconcileTypes, DiskState
<1> HIDE DEF plans
<1>7. /\ disk' \in DiskState /\ disk'.world = Target(t) /\ disk'.journal = disk.journal
      /\ disk'.plan = plans /\ disk'.session = disk.session
  BY <1>2, <1>3, <1>4, <1>6 DEF ReconcileTypes, DiskState
<1>8. /\ Turns(t) /\ op'[t] \in CompileRequest /\ op'[t].at = "commit"
      /\ op'[t].plan = op[t].plan
  BY <1>1, <1>2, GotoTurns DEF Steps, ToPublish, Publishing
<1>9. StoredInv' BY <1>3, <1>5, <1>6, <1>7, <1>8 DEF StoredInv, Seen, Turns
<1>10. disk.journal # NoJournal BY <1>2, <1>3 DEF NoJournal
<1>11. JournalInv' BY <1>1, <1>2, <1>3, <1>7, <1>10 DEF JournalInv
<1>12. Target(t)' = Target(t) BY <1>8 DEF Target
<1>13. IsPublishing(t)' BY <1>8, RequestsAreNot DEF IsPublishing, Publishing
<1>14. \A s \in {"stage", "install", "settle"} : ~AtStep(t, s)' BY <1>8 DEF AtStep
<1>15. PublishInv(t)'
  BY <1>1, <1>2, <1>3, <1>7, <1>8, <1>12, <1>13, <1>14 DEF PublishInv
<1> QED BY <1>1, <1>2, <1>3, <1>7, <1>8, <1>9, <1>11, <1>15, Exclusive DEF ReconcileTypes

LEMMA CommitLedgerSteady ==
  ASSUME ReconcileIInv, NEW t \in Tabs, CommitLedger(t)
  PROVE  ReconcileIInv'
<1>1. AtStep(t, "commit") /\ UNCHANGED <<sources, fresh>> BY DEF CommitLedger
<1>2. /\ lock = t /\ op[t] \in CompileRequest /\ Founded(op[t]) /\ op[t].at = "commit"
      /\ Target(t) \in World /\ Target(t).lore \in Lores
      /\ Target(t).from # Target(t).lore /\ Target(t) # NoWorld /\ op[t].plan \in Plan
  BY <1>1, Publisher DEF Publishing
<1>3. /\ ReconcileTypes /\ StoredInv /\ JournalInv
      /\ disk.journal.world = Target(t) /\ disk.world = Target(t)
  BY <1>1 DEF ReconcileIInv, PublishInv
<1>4. CASE PathsAreFree(Target(t))
  <2> DEFINE owner == [k \in Keys |-> IF Target(t).ids[k] # 0 THEN Target(t).ids[k]
                                       ELSE ledger.owner[k]]
             completed == ledger.completed \union {op[t].plan}
  <2>1. /\ ledger' = [[[ledger EXCEPT !.active = Target(t)] EXCEPT !.owner = owner]
                         EXCEPT !.completed = completed]
        /\ Goto(t, "settle") /\ UNCHANGED <<disk, lock>>
    BY <1>3, <1>4 DEF CommitLedger, ReconcileTypes, LedgerState
  <2>2. owner \in [Keys -> Nat] /\ completed \in SUBSET Plan
    BY <1>2, <1>3 DEF ReconcileTypes, LedgerState, World
  <2> HIDE DEF owner, completed
  <2>3. ledger' \in LedgerState /\ ledger'.active = Target(t)
    BY <1>2, <1>3, <2>1, <2>2 DEF ReconcileTypes, LedgerState
  <2>4. /\ Turns(t) /\ op'[t] \in CompileRequest /\ op'[t].at = "settle"
        /\ op'[t].plan = op[t].plan
    BY <1>2, <2>1, GotoTurns DEF Steps, ToPublish, Publishing
  <2>5. StoredInv' /\ disk' \in DiskState BY <2>1, <2>4, SameFiles DEF Turns
  <2>6. ledger'.active.lore # NoLore /\ disk.journal # NoJournal
    BY <1>2, <1>3, <2>3 DEF NoJournal
  <2>7. JournalInv' BY <1>2, <1>3, <2>1, <2>3, <2>6 DEF JournalInv
  <2>8. Target(t)' = Target(t) BY <2>4 DEF Target
  <2>9. IsPublishing(t)' BY <2>4, RequestsAreNot DEF IsPublishing, Publishing
  <2>10. \A s \in {"stage", "install", "commit"} : ~AtStep(t, s)' BY <2>4 DEF AtStep
  <2>11. PublishInv(t)'
    BY <1>2, <1>3, <2>1, <2>3, <2>4, <2>8, <2>9, <2>10 DEF PublishInv
  <2> QED BY <1>1, <1>2, <1>3, <2>1, <2>3, <2>4, <2>5, <2>7, <2>11, Exclusive DEF ReconcileTypes
<1>5. CASE ~PathsAreFree(Target(t))
  <2>1. disk' = Recovered /\ lock' = Nobody /\ RequestFails(t) /\ UNCHANGED ledger
    BY <1>5 DEF CommitLedger, Undone
  <2>2. Turns(t) /\ op'[t] = NoOp BY <2>1, FailsTurns
  <2>3. ~IsPublishing(t)' /\ lock' # t BY <2>1, <2>2 DEF IsPublishing, Nobody
  <2> QED BY <1>1, <1>2, <2>1, <2>2, <2>3, Recovers
<1> QED BY <1>4, <1>5

LEMMA SettleSteady ==
  ASSUME ReconcileIInv, NEW t \in Tabs, Settle(t)
  PROVE  ReconcileIInv'
<1> DEFINE next == [op[t] EXCEPT !.at = "persist", !.plan = NoPlan]
<1>1. /\ AtStep(t, "settle") /\ disk' = Recovered /\ lock' = Nobody
      /\ Goes(t, next) /\ UNCHANGED <<sources, ledger, fresh>>
  BY DEF Settle
<1>2. lock = t /\ op[t] \in CompileRequest /\ Founded(op[t]) BY <1>1, Publisher DEF Publishing
<1>3. /\ next \in CompileRequest /\ next.at = "persist" /\ next.plan = NoPlan
      /\ next.approved = op[t].approved
  BY <1>2, NothingYet DEF CompileRequest
<1> HIDE DEF next
<1>4. Founded(next) BY <1>2, <1>3 DEF Founded, Moves, Publishing
<1>5. Turns(t) /\ op'[t] = next BY <1>1, <1>3, <1>4, GoesTurns
<1>6. ~IsPublishing(t)' /\ lock' # t BY <1>1, <1>3, <1>5 DEF IsPublishing, Publishing, Nobody
<1> QED BY <1>1, <1>2, <1>3, <1>5, <1>6, Recovers

-----------------------------------------------------------------------------
(* The surroundings, and every step together.                              *)

LEMMA EditSteady ==
  ASSUME ReconcileIInv, Edit \/ UNCHANGED reconcileVars
  PROVE  ReconcileIInv'
<1>1. sources' \in Lores
  BY DEF Edit, reconcileVars, ReconcileIInv, ReconcileTypes
<1>2. UNCHANGED <<ledger, disk, lock, op, page, fresh, shown>> BY DEF Edit, reconcileVars
<1>3. ReconcileTypes' BY <1>1, <1>2 DEF ReconcileIInv, ReconcileTypes
<1>4. StoredInv' BY <1>2 DEF ReconcileIInv, StoredInv, Waits, Seen, Moves
<1>5. PagesInv' BY <1>2 DEF ReconcileIInv, PagesInv, Waits, Moves
<1>6. JournalInv' BY <1>2 DEF ReconcileIInv, JournalInv
<1>7. ASSUME NEW t \in Tabs PROVE RequestInv(t)' /\ PublishInv(t)'
  <2>1. RequestInv(t)' BY <1>2 DEF ReconcileIInv, RequestInv, Founded, Seen, Moves
  <2>2. PublishInv(t)' BY <1>2 DEF ReconcileIInv, PublishInv, IsPublishing, AtStep, Target
  <2> QED BY <2>1, <2>2
<1> QED BY <1>3, <1>4, <1>5, <1>6, <1>7 DEF ReconcileIInv

LEMMA PatchSteady ==
  ASSUME ReconcileIInv, Patch
  PROVE  ReconcileIInv'
<1>1. /\ ledger' = [ledger EXCEPT !.patched = TRUE]
      /\ UNCHANGED <<sources, disk, lock, op, page, fresh, shown>>
  BY DEF Patch
<1>2. ledger' \in LedgerState /\ ledger'.active = ledger.active
  BY <1>1 DEF ReconcileIInv, ReconcileTypes, LedgerState
<1>3. ReconcileTypes' BY <1>1, <1>2 DEF ReconcileIInv, ReconcileTypes
<1>4. StoredInv' BY <1>1 DEF ReconcileIInv, StoredInv, Waits, Seen, Moves
<1>5. PagesInv' BY <1>1 DEF ReconcileIInv, PagesInv, Waits, Moves
<1>6. JournalInv' BY <1>1, <1>2 DEF ReconcileIInv, JournalInv
<1>7. ASSUME NEW t \in Tabs PROVE RequestInv(t)' /\ PublishInv(t)'
  <2>1. RequestInv(t)' BY <1>1 DEF ReconcileIInv, RequestInv, Founded, Seen, Moves
  <2>2. PublishInv(t)' BY <1>1, <1>2 DEF ReconcileIInv, PublishInv, IsPublishing, AtStep, Target
  <2> QED BY <2>1, <2>2
<1> QED BY <1>3, <1>4, <1>5, <1>6, <1>7 DEF ReconcileIInv

LEMMA CompanionDiesSteady ==
  ASSUME ReconcileIInv, CompanionDies
  PROVE  ReconcileIInv'
<1>1. /\ lock' = Nobody /\ op' = [t \in Tabs |-> NoOp]
      /\ UNCHANGED <<sources, ledger, disk, fresh, shown>>
      /\ page' = [t \in Tabs |-> [page[t] EXCEPT !.by = IF op[t] # NoOp THEN Over(t) ELSE @]]
  BY DEF CompanionDies
<1>2. page' \in [Tabs -> PageState] /\ \A t \in Tabs : page'[t].answer = page[t].answer
  <2>1. page \in [Tabs -> PageState] BY DEF ReconcileIInv, ReconcileTypes
  <2>2. ASSUME NEW t \in Tabs
        PROVE  page'[t] \in PageState /\ page'[t].answer = page[t].answer
    <3>1. Over(t) \in {"driver", "nobody"} BY DEF Over
    <3> DEFINE by == IF op[t] # NoOp THEN Over(t) ELSE page[t].by
    <3>2. by \in {"nobody", "send", "click", "driver", "auto"} BY <2>1, <3>1 DEF PageState
    <3>3. page'[t] = [page[t] EXCEPT !.by = by] BY <1>1
    <3> HIDE DEF by
    <3> QED BY <2>1, <3>2, <3>3 DEF PageState
  <2>3. DOMAIN page' = Tabs /\ page' = [t \in Tabs |-> page'[t]] BY <1>1
  <2> QED BY <2>2, <2>3
<1>3. ReconcileTypes' BY <1>1, <1>2 DEF ReconcileIInv, ReconcileTypes
<1>4. StoredInv' BY <1>1 DEF ReconcileIInv, StoredInv, Waits, Seen, Moves
<1>5. PagesInv'
  <2>1. PagesInv /\ shown' = shown BY <1>1 DEF ReconcileIInv
  <2>2. \A t \in Tabs : page'[t].answer = page[t].answer BY <1>2
  <2> QED BY ONLY <2>1, <2>2 DEF PagesInv, Waits, Moves
<1>6. JournalInv' BY <1>1 DEF ReconcileIInv, JournalInv
<1>7. ASSUME NEW t \in Tabs PROVE RequestInv(t)' /\ PublishInv(t)'
  <2>1. op'[t] = NoOp /\ lock' # t BY <1>1 DEF Nobody
  <2> QED BY <2>1 DEF RequestInv, PublishInv, IsPublishing, AtStep, NoOp
<1> QED BY <1>3, <1>4, <1>5, <1>6, <1>7 DEF ReconcileIInv

LEMMA ReconcileSteady ==
  ASSUME ReconcileIInv, [ReconcileNext]_reconcileVars
  PROVE  ReconcileIInv'
<1>1. ASSUME NEW t \in Tabs, CompileStep(t)
      PROVE  ReconcileIInv'
  <2>1. CASE LoadPrepared(t) BY <2>1, LoadPreparedSteady
  <2>2. CASE LoadConfirmed(t) BY <2>2, LoadConfirmedSteady
  <2>3. CASE PersistPending(t) BY <2>3, PersistPendingSteady
  <2>4. CASE RecoverFiles(t) BY <2>4, RecoverFilesSteady
  <2>5. CASE Initial(t) BY <2>5, InitialSteady
  <2>6. CASE AlreadyActive(t) BY <2>6, AlreadyActiveSteady
  <2>7. CASE MakePlan(t) BY <2>7, MakePlanSteady
  <2>8. CASE TakePlan(t) BY <2>8, TakePlanSteady
  <2>9. CASE Incoherent(t) BY <2>9, IncoherentSteady
  <2>10. CASE AcquireWriterLock(t) BY <2>10, AcquireWriterLockSteady
  <2>11. CASE Stage(t) BY <2>11, StageSteady
  <2>12. CASE Install(t) BY <2>12, InstallSteady
  <2>13. CASE CommitLedger(t) BY <2>13, CommitLedgerSteady
  <2>14. CASE Settle(t) BY <2>14, SettleSteady
  <2>15. CASE PersistResult(t) BY <2>15, PersistResultSteady
  <2>16. CASE PersistPlan(t) BY <2>16, PersistPlanSteady
  <2> QED BY <1>1, <2>1, <2>2, <2>3, <2>4, <2>5, <2>6, <2>7, <2>8, <2>9, <2>10, <2>11,
             <2>12, <2>13, <2>14, <2>15, <2>16 DEF CompileStep
<1> QED BY <1>1, PageSteady, EditSteady, PatchSteady, CompanionDiesSteady DEF ReconcileNext

LEMMA ReconcileStarts ==
  ASSUME ReconcileInit
  PROVE  ReconcileIInv
<1> DEFINE session0 == [status |-> "none", plan |-> NoPlan, approved |-> NoPlan]
           page0 == [answer |-> Empty, by |-> "nobody"]
           disk0 == [world |-> NoWorld, plan |-> [l \in Lores |-> Empty],
                     session |-> [l \in Lores |-> session0], journal |-> NoJournal]
           ledger0 == [active |-> NoWorld, owner |-> NoIds, completed |-> {}, patched |-> FALSE]
<1>1. /\ sources \in Lores /\ ledger = ledger0 /\ disk = disk0 /\ lock = Nobody
      /\ op = [t \in Tabs |-> NoOp] /\ page = [t \in Tabs |-> page0]
      /\ fresh = 1 /\ shown = {}
  BY DEF ReconcileInit
<1>2. session0 \in IntakeSession /\ Waits(session0) /\ Seen(session0.approved)
  BY NothingYet DEF IntakeSession, Waits, Seen, Moves
<1>3. page0 \in PageState /\ Waits(page0.answer) /\ page0.answer.status = "none"
  BY NothingYet DEF PageState, Waits, Moves
<1>4. ledger0 \in LedgerState /\ ledger0.active = NoWorld BY NothingYet DEF LedgerState
<1> HIDE DEF session0, page0, ledger0
<1>5. /\ disk0 \in DiskState /\ disk0.world = NoWorld /\ disk0.journal = NoJournal
      /\ \A l \in Lores : disk0.plan[l] = Empty /\ disk0.session[l] = session0
  BY <1>2, NothingYet DEF DiskState
<1> HIDE DEF disk0
<1>6. ReconcileTypes BY <1>1, <1>3, <1>4, <1>5 DEF ReconcileTypes
<1>7. StoredInv BY <1>1, <1>2, <1>5, NothingYet DEF StoredInv, NoJournal, Moves
<1>8. PagesInv BY <1>1, <1>3 DEF PagesInv
<1>9. JournalInv BY <1>1, <1>4, <1>5 DEF JournalInv
<1>10. \A t \in Tabs : RequestInv(t) /\ PublishInv(t)
  BY <1>1 DEF RequestInv, PublishInv, IsPublishing, AtStep, NoOp, Nobody
<1> QED BY <1>6, <1>7, <1>8, <1>9, <1>10 DEF ReconcileIInv

(* Every state of the intake satisfies the invariant.                      *)
THEOREM ReconcileInvariant == ReconcileSpec => []ReconcileIInv
<1>1. ReconcileInit => ReconcileIInv BY ReconcileStarts
<1>2. ReconcileIInv /\ [ReconcileNext]_reconcileVars => ReconcileIInv' BY ReconcileSteady
<1> QED BY <1>1, <1>2, PTL DEF ReconcileSpec

-----------------------------------------------------------------------------
(* What the chat promises.                                                 *)

(* A step that leaves the world, the ledger's and the journal alone.       *)
SameWorlds ==
  ledger'.active = ledger.active /\ disk'.world = disk.world /\ disk'.journal = disk.journal

LEMMA SameWorldsStutter ==
  ASSUME SameWorlds
  PROVE  UNCHANGED Lore!lore
BY DEF SameWorlds, Lore!lore

LEMMA ViewsDiffer ==
  ASSUME NEW v, NEW w
  PROVE  /\ ViewOf(v).lore = v.lore /\ ViewOf(v).from = v.from
         /\ v.lore # w.lore => ViewOf(v) # ViewOf(w)
         /\ ViewOf(NoWorld) = Lore!Nothing
         /\ ViewOf(v) = [lore |-> v.lore, from |-> v.from]
<1>1. ViewOf(v).lore = v.lore /\ ViewOf(v).from = v.from /\ ViewOf(w).lore = w.lore
  BY DEF ViewOf
<1>2. ViewOf(NoWorld) = Lore!Nothing BY DEF ViewOf, NoWorld, Lore!Nothing
<1> QED BY <1>1, <1>2 DEF ViewOf

LEMMA RecoverySettles ==
  ASSUME ReconcileIInv, disk' = Recovered, ledger' = ledger, shown \subseteq shown'
  PROVE  [Lore!LoreNext]_Lore!lore
<1>1. disk'.journal = NoJournal /\ disk'.world = ledger.active BY RecoveredIsWhole
<1>2. JournalInv BY DEF ReconcileIInv
<1>3. NoJournal.world = NoWorld BY DEF NoJournal
<1>4. CASE disk.journal = NoJournal
  <2>1. SameWorlds BY <1>1, <1>2, <1>4 DEF SameWorlds, JournalInv
  <2> QED BY <2>1, SameWorldsStutter
<1>5. CASE disk.journal # NoJournal
  <2>1. disk.journal.world.lore # NoWorld.lore BY <1>2, <1>5 DEF JournalInv, NoWorld
  <2>2. ViewOf(disk.journal.world) # Lore!Nothing BY <2>1, ViewsDiffer
  <2>3. ViewOf(disk'.journal.world) = Lore!Nothing BY <1>1, <1>3, ViewsDiffer
  <2>4. CASE ledger.active = disk.journal.world /\ disk.world = ledger.active
    BY <1>1, <2>2, <2>3, <2>4 DEF Lore!Settle, Lore!LoreNext
  <2>5. CASE ledger.active.lore = disk.journal.world.from
    <3>1. ledger.active.lore # disk.journal.world.lore BY <1>2, <1>5, <2>5 DEF JournalInv
    <3>2. ViewOf(ledger.active) # ViewOf(disk.journal.world) BY <3>1, ViewsDiffer
    <3> QED BY <1>1, <2>2, <2>3, <3>2 DEF Lore!Restore, Lore!LoreNext
  <2> QED BY <1>2, <1>5, <2>4, <2>5 DEF JournalInv
<1> QED BY <1>4, <1>5

LEMMA ToTurnsShows ==
  ASSUME ReconcileIInv, NEW t \in Tabs, NEW s, AtStep(t, s),
         RequestFails(t) \/ (\E n : Goto(t, n)) \/ (\E n : Goes(t, n))
  PROVE  shown \subseteq shown'
BY DEF RequestFails, Goto, Goes

LEMMA StageRefines ==
  ASSUME ReconcileIInv, NEW t \in Tabs, Stage(t)
  PROVE  [Lore!LoreNext]_Lore!lore
<1>1. AtStep(t, "stage") /\ UNCHANGED ledger BY DEF Stage
<1>2. /\ Target(t).lore \in Lores /\ Target(t).from # Target(t).lore
      /\ Target(t).from = op[t].plan.from
  BY <1>1, Publisher DEF Publishing
<1>3. JournalInv /\ disk.journal = NoJournal /\ disk \in DiskState
  BY <1>1 DEF ReconcileIInv, PublishInv, ReconcileTypes
<1>4. CASE PreviousIsActive(t) /\ Unspent(t)
  <2> DEFINE journal == [world |-> Target(t), kept |-> disk.plan[op[t].lore]]
  <2>1. disk' = [disk EXCEPT !.journal = journal] BY <1>4 DEF Stage
  <2>2. journal.world = Target(t) OBVIOUS
  <2> HIDE DEF journal
  <2>3. disk'.world = disk.world /\ disk'.journal.world = Target(t)
    BY <1>3, <2>1, <2>2 DEF DiskState
  <2>4. disk.world = ledger.active /\ ledger.active.lore = Target(t).from
    BY <1>2, <1>3, <1>4 DEF JournalInv, PreviousIsActive
  <2>5. ViewOf(disk.journal.world) = Lore!Nothing BY <1>3, ViewsDiffer DEF NoJournal
  <2>6. Lore!Stage(Target(t).lore)
    BY <1>1, <1>2, <2>3, <2>4, <2>5, ViewsDiffer DEF Lore!Stage, Lore!Whole
  <2> QED BY <1>2, <2>6 DEF Lore!LoreNext
<1>5. CASE ~(PreviousIsActive(t) /\ Unspent(t))
  <2>1. SameWorlds BY <1>1, <1>5 DEF Stage, SameWorlds
  <2> QED BY <2>1, SameWorldsStutter
<1> QED BY <1>4, <1>5

LEMMA InstallRefines ==
  ASSUME ReconcileIInv, NEW t \in Tabs, Install(t)
  PROVE  [Lore!LoreNext]_Lore!lore
<1>1. AtStep(t, "install") /\ UNCHANGED ledger BY DEF Install
<1>2. /\ Target(t).lore \in Lores /\ Target(t).from # Target(t).lore
      /\ Target(t).from = op[t].plan.from /\ op[t].lore \in Lores
  BY <1>1, Publisher DEF Publishing
<1>3. /\ disk.world = ledger.active /\ disk.journal.world = Target(t)
      /\ ledger.active.lore = Target(t).from /\ disk \in DiskState
  BY <1>1, <1>2 DEF ReconcileIInv, PublishInv, ReconcileTypes
<1>4. disk'.world = Target(t) /\ disk'.journal = disk.journal
  BY <1>2, <1>3 DEF Install, DiskState
<1>5. ViewOf(Target(t)) # ViewOf(ledger.active) BY <1>2, <1>3, ViewsDiffer
<1>6. ViewOf(Target(t)) # Lore!Nothing
  <2>1. Target(t).lore # NoWorld.lore BY <1>2 DEF NoWorld
  <2> QED BY <2>1, ViewsDiffer
<1>7. Lore!Install BY <1>1, <1>3, <1>4, <1>5, <1>6 DEF Lore!Install
<1> QED BY <1>7 DEF Lore!LoreNext

LEMMA CommitLedgerRefines ==
  ASSUME ReconcileIInv, NEW t \in Tabs, CommitLedger(t)
  PROVE  [Lore!LoreNext]_Lore!lore
<1>1. AtStep(t, "commit") BY DEF CommitLedger
<1>2. /\ Target(t).lore \in Lores /\ Target(t).from # Target(t).lore
      /\ Target(t).from = op[t].plan.from
  BY <1>1, Publisher DEF Publishing
<1>3. /\ disk.world = Target(t) /\ disk.journal.world = Target(t)
      /\ ledger.active.lore = Target(t).from /\ ledger \in LedgerState
  BY <1>1, <1>2 DEF ReconcileIInv, PublishInv, ReconcileTypes
<1>4. CASE PathsAreFree(Target(t))
  <2>1. ledger'.active = Target(t) /\ UNCHANGED disk
    BY <1>3, <1>4 DEF CommitLedger, LedgerState
  <2>2. ViewOf(Target(t)) # ViewOf(ledger.active) BY <1>2, <1>3, ViewsDiffer
  <2>3. ViewOf(Target(t)) # Lore!Nothing
    <3>1. Target(t).lore # NoWorld.lore BY <1>2 DEF NoWorld
    <3> QED BY <3>1, ViewsDiffer
  <2>4. Lore!Activate BY <1>3, <2>1, <2>2, <2>3 DEF Lore!Activate
  <2> QED BY <2>4 DEF Lore!LoreNext
<1>5. CASE ~PathsAreFree(Target(t))
  <2>1. disk' = Recovered /\ RequestFails(t) /\ ledger' = ledger
    BY <1>5 DEF CommitLedger, Undone
  <2> QED BY <1>1, <2>1, ToTurnsShows, RecoverySettles
<1> QED BY <1>4, <1>5

(* Every step of the intake is a step of ActiveLore or leaves what it sees *)
(* as it is.                                                               *)
LEMMA StepRefines ==
  ASSUME ReconcileIInv, [ReconcileNext]_reconcileVars
  PROVE  [Lore!LoreNext]_Lore!lore
<1> USE SameWorldsStutter
<1>1. ASSUME NEW t \in Tabs, Send(t) \/ Click(t) \/ Drive(t)
      PROVE  [Lore!LoreNext]_Lore!lore
  <2>1. SameWorlds BY <1>1 DEF Send, Click, Drive, SameWorlds
  <2> QED BY <2>1
<1>2. ASSUME NEW t \in Tabs, CompileStep(t)
      PROVE  [Lore!LoreNext]_Lore!lore
  <2>1. CASE LoadPrepared(t) \/ LoadConfirmed(t) \/ Initial(t) \/ AlreadyActive(t) \/ Incoherent(t)
    <3>1. SameWorlds
      BY <2>1 DEF LoadPrepared, LoadConfirmed, Initial, AlreadyActive, Incoherent, SameWorlds
    <3> QED BY <3>1
  <2>2. CASE PersistPending(t) \/ PersistResult(t) \/ PersistPlan(t)
    <3>1. disk \in DiskState BY DEF ReconcileIInv, ReconcileTypes
    <3>2. UNCHANGED ledger BY <2>2 DEF PersistPending, PersistResult, PersistPlan
    <3>3. \E s : Persist(t, s) BY <2>2 DEF PersistPending, PersistResult, PersistPlan
    <3>4. SameWorlds BY <3>1, <3>2, <3>3 DEF Persist, DiskState, SameWorlds
    <3> QED BY <3>4
  <2>3. CASE MakePlan(t) \/ TakePlan(t)
    <3>1. disk \in DiskState BY DEF ReconcileIInv, ReconcileTypes
    <3>2. disk'.world = disk.world /\ disk'.journal = disk.journal
      <4>1. CASE MakePlan(t) BY <3>1, <4>1 DEF MakePlan, DiskState
      <4>2. CASE TakePlan(t) BY <3>1, <4>2 DEF TakePlan, DiskState
      <4> QED BY <2>3, <4>1, <4>2
    <3>3. UNCHANGED ledger BY <2>3 DEF MakePlan, TakePlan
    <3> QED BY <3>2, <3>3 DEF SameWorlds
  <2>4. CASE RecoverFiles(t)
    <3>1. AtStep(t, "recover") /\ UNCHANGED ledger BY <2>4 DEF RecoverFiles
    <3>2. CASE lock = Nobody
      <4>1. disk' = Recovered /\ Goto(t, "inspect") BY <2>4, <3>2 DEF RecoverFiles
      <4> QED BY <3>1, <4>1, ToTurnsShows, RecoverySettles
    <3>3. CASE lock # Nobody
      <4>1. SameWorlds BY <2>4, <3>1, <3>3 DEF RecoverFiles, SameWorlds
      <4> QED BY <4>1
    <3> QED BY <3>2, <3>3
  <2>5. CASE AcquireWriterLock(t)
    <3>1. AtStep(t, "lock") /\ UNCHANGED ledger BY <2>5 DEF AcquireWriterLock
    <3>2. CASE lock = Nobody
      <4>1. disk' = Recovered /\ Goto(t, "stage") BY <2>5, <3>2 DEF AcquireWriterLock
      <4> QED BY <3>1, <4>1, ToTurnsShows, RecoverySettles
    <3>3. CASE lock # Nobody
      <4>1. SameWorlds BY <2>5, <3>1, <3>3 DEF AcquireWriterLock, SameWorlds
      <4> QED BY <4>1
    <3> QED BY <3>2, <3>3
  <2>6. CASE Settle(t)
    <3>1. /\ AtStep(t, "settle") /\ disk' = Recovered /\ UNCHANGED ledger
          /\ \E n : Goes(t, n)
      BY <2>6 DEF Settle
    <3> QED BY <3>1, ToTurnsShows, RecoverySettles
  <2> QED BY <1>2, <2>1, <2>2, <2>3, <2>4, <2>5, <2>6, StageRefines, InstallRefines,
             CommitLedgerRefines DEF CompileStep
<1>3. ASSUME Edit \/ Patch \/ CompanionDies \/ UNCHANGED reconcileVars
      PROVE  [Lore!LoreNext]_Lore!lore
  <2>1. SameWorlds
    BY <1>3 DEF Edit, Patch, CompanionDies, reconcileVars, SameWorlds, ReconcileIInv,
                ReconcileTypes, LedgerState
  <2> QED BY <2>1
<1> QED BY <1>1, <1>2, <1>3 DEF ReconcileNext

(* PublishesWhole.                                                         *)
THEOREM Publications == ReconcileSpec => PublishesWhole
<1>1. ReconcileInit => Lore!LoreInit
  <2> SUFFICES ASSUME ReconcileInit PROVE Lore!LoreInit OBVIOUS
  <2>1. ledger.active = NoWorld /\ disk.world = NoWorld /\ disk.journal.world = NoWorld
    BY DEF ReconcileInit, NoJournal
  <2> QED BY <2>1, ViewsDiffer DEF Lore!LoreInit
<1>2. ReconcileIInv /\ [ReconcileNext]_reconcileVars => [Lore!LoreNext]_Lore!lore
  BY StepRefines
<1> QED BY <1>1, <1>2, ReconcileInvariant, PTL DEF ReconcileSpec, PublishesWhole, Lore!LoreSpec

(* Only CommitLedger changes the world that is active.                     *)
LEMMA OnlyCommitActivates ==
  ASSUME ReconcileIInv, [ReconcileNext]_reconcileVars, ledger'.active # ledger.active
  PROVE  \E t \in Tabs : CommitLedger(t)
<1>1. ~UNCHANGED ledger OBVIOUS
<1>2. ~Edit /\ ~CompanionDies /\ ~UNCHANGED reconcileVars
  BY <1>1 DEF Edit, CompanionDies, reconcileVars
<1>3. ~Patch BY DEF Patch, ReconcileIInv, ReconcileTypes, LedgerState
<1>4. ASSUME NEW t \in Tabs PROVE ~Send(t) /\ ~Click(t) /\ ~Drive(t)
  BY <1>1 DEF Send, Click, Drive
<1>5. ASSUME NEW t \in Tabs, CompileStep(t) PROVE CommitLedger(t)
  BY <1>1, <1>5 DEF CompileStep, LoadPrepared, LoadConfirmed, PersistPending, RecoverFiles,
     Initial, AlreadyActive, MakePlan, TakePlan, Incoherent, AcquireWriterLock, Stage, Install,
     Settle, PersistResult, PersistPlan
<1> QED BY <1>2, <1>3, <1>4, <1>5 DEF ReconcileNext

(* AppliedWasShown.                                                        *)
THEOREM AppliedPlans == ReconcileSpec => AppliedWasShown
<1> DEFINE WasShown ==
      ledger.active # NoWorld /\ ledger'.active # ledger.active =>
        /\ \E p \in shown : /\ ViewOf(p) = ViewOf(ledger'.active)
                            /\ p.ids = ledger'.active.ids
        /\ \A k \in Keys : {ledger.owner[k], ledger'.active.ids[k]} \ {0} \in
                             {{}, {ledger'.owner[k]}}
<1>1. ASSUME ReconcileIInv, [ReconcileNext]_reconcileVars PROVE WasShown
  <2> SUFFICES ASSUME ledger.active # NoWorld, ledger'.active # ledger.active PROVE WasShown
    OBVIOUS
  <2>1. PICK t \in Tabs : CommitLedger(t) BY <1>1, OnlyCommitActivates
  <2>2. AtStep(t, "commit") BY <2>1 DEF CommitLedger
  <2>3. PathsAreFree(Target(t)) BY <2>1 DEF CommitLedger
  <2>4. ledger \in LedgerState /\ ledger.active.lore = op[t].plan.from /\ JournalInv
    BY <1>1, <2>2 DEF ReconcileIInv, PublishInv, ReconcileTypes
  <2>5. op[t].plan # NoPlan /\ Founded(op[t]) /\ op[t].at = "commit"
    BY <1>1, <2>2, Publisher DEF Publishing
  <2>6. op[t].plan \in shown
    <3>1. op[t].plan.from # NoLore BY <2>4 DEF JournalInv
    <3> QED BY <2>5, <3>1 DEF Founded, Publishing
  <2>7. /\ ledger'.active = Target(t)
        /\ ledger'.owner = [k \in Keys |-> IF Target(t).ids[k] # 0 THEN Target(t).ids[k]
                                            ELSE ledger.owner[k]]
    BY <2>1, <2>3, <2>4 DEF CommitLedger, LedgerState
  <2>8. ViewOf(op[t].plan) = ViewOf(ledger'.active) /\ op[t].plan.ids = ledger'.active.ids
    BY <2>7 DEF Target, ViewOf
  <2>9. ASSUME NEW k \in Keys
        PROVE  {ledger.owner[k], ledger'.active.ids[k]} \ {0} \in {{}, {ledger'.owner[k]}}
    <3>1. CASE Target(t).ids[k] # 0
      <4>1. ledger.owner[k] \in {0, Target(t).ids[k]} /\ ledger'.owner[k] = Target(t).ids[k]
        BY <2>3, <2>7, <3>1 DEF PathsAreFree
      <4>2. {ledger.owner[k], ledger'.active.ids[k]} \ {0} = {ledger'.owner[k]}
        BY <2>7, <3>1, <4>1
      <4> QED BY <4>2
    <3>2. CASE Target(t).ids[k] = 0
      <4>1. ledger'.owner[k] = ledger.owner[k] /\ ledger'.active.ids[k] = 0 BY <2>7, <3>2
      <4> QED BY <4>1
    <3> QED BY <3>1, <3>2
  <2> QED BY <2>6, <2>8, <2>9
<1>2. ReconcileIInv /\ [ReconcileNext]_reconcileVars => [WasShown]_reconcileVars BY <1>1
<1> QED BY <1>2, ReconcileInvariant, PTL DEF ReconcileSpec, AppliedWasShown
===============================================================================
