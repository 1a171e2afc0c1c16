---------------------------- MODULE MCCompanion ----------------------------
(* Model-checking instance of the Companion's process: the root turn that  *)
(* it runs, the switch of the runtime profile that replaces it, and the    *)
(* connection by which the page reaches it.  Each behaviour keeps to one   *)
(* of them, chosen when it starts.                                         *)
(*                                                                         *)
(* "turn": one run, or two at coordinates that the configuration chooses.  *)
(* "switch": two profiles to switch between, a request of the bridge, and  *)
(* every fault of the environment twice.                                   *)
(* "connection": two profiles with a model each, three runtime processes.  *)
EXTENDS RootTurn, RuntimeSwitch, ConnectionLease, TLC

CONSTANTS r1, r2, p, q, m, n

OneRun == r1 :> 0
SuccessiveTurns == r1 :> 0 @@ r2 :> 1
OneTurn == r1 :> 0 @@ r2 :> 0
FirstSwipes == r1 :> 0 @@ r2 :> 0
TwoSwipes == r1 :> 0 @@ r2 :> 1
ModelsApart == p :> m @@ q :> n

VARIABLE shape

MCVars == <<vars, switchVars, connectionVars, shape>>

OfTurn(A) == shape = "turn" /\ A /\ UNCHANGED <<switchVars, connectionVars, shape>>
OfSwitch(A) == shape = "switch" /\ A /\ UNCHANGED <<vars, connectionVars, shape>>
OfConnection(A) ==
  shape = "connection" /\ A /\ UNCHANGED <<vars, switchVars, shape>>

MCInit ==
  /\ Init /\ SwitchInit /\ ConnectionInit
  /\ shape \in {"turn", "switch", "connection"}
  /\ shape # "connection" => selected = p

MCNext ==
  OfTurn(Next) \/ OfSwitch(SwitchNext) \/ OfConnection(ConnectionNext)

(* The fairness of the turn and of the switch, for the behaviours that     *)
(* keep to them.                                                           *)
MCFairness ==
  /\ \A r \in Run : WF_MCVars(OfTurn(Step(r))) /\ WF_MCVars(OfTurn(Recover(r)))
  /\ WF_MCVars(OfTurn(HostSend /\ host.phase = "failed"))
  /\ WF_MCVars(OfTurn(HostTruncate \/ HostRebuild))
  /\ WF_MCVars(OfSwitch(SwitchStep))
  /\ \A i \in 1 .. MaxInstances : WF_MCVars(OfSwitch(ChildEvent(i)))

MCSpec == MCInit /\ [][MCNext]_MCVars /\ MCFairness
============================================================================
