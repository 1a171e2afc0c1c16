------------------------------ MODULE MCIntake ------------------------------
(* Model-checking instance of the three parts of the Static Lore intake:   *)
(* how its first request is admitted, how the extraction is paid for, and  *)
(* how what it says reaches the chat.  Each behaviour keeps to one of      *)
(* them, chosen when it starts.                                            *)
(*                                                                         *)
(* "admission": two requests, over one state of the sources or over two,   *)
(* two directories of the chat, and two things done to its files.          *)
(*                                                                         *)
(* "paid": two tabs that drive the same session.  No property says         *)
(* anything of a session after an update was lost, so such states are not  *)
(* followed.                                                               *)
(*                                                                         *)
(* "pages": two states of the sources, over two concepts first and over    *)
(* one of them; two pages with two events and three entities.  "page": one *)
(* page at work, from either state, with more of both.                     *)
EXTENDS PaidIntake, FreshIntake, StaticReconcile, TLC

CONSTANTS la, lb

OneThenTwo == la :> {1} @@ lb :> {1, 2}

VARIABLE shape

MCVars == <<vars, reconcileVars, admissionVars, shape>>

Symmetry == Permutations(Tab) \cup Permutations(Source) \cup Permutations(Ask)
NothingLost == ~ lost

AtMost(entities, number) == fresh' <= entities + 1 /\ events' <= number
NewPage == [answer |-> Empty, by |-> "nobody"]
OnePage == \E t \in Tab : \A u \in Tab \ {t} : op'[u] = NoOp /\ page'[u] = NewPage

MCInit ==
  /\ Init /\ ReconcileInit /\ AdmissionInit
  /\ shape \in {"admission", "paid", "page", "pages"}
  /\ shape \in {"admission", "paid"} => sources = la
  /\ shape = "pages" => sources = lb

MCNext ==
  \/ shape = "paid" /\ Next /\ UNCHANGED <<reconcileVars, admissionVars, shape>>
  \/ /\ shape \in {"page", "pages"} /\ ReconcileNext
     /\ shape = "page" => OnePage
     /\ shape = "pages" => AtMost(3, 2)
     /\ UNCHANGED <<vars, admissionVars, shape>>
  \/ shape = "admission" /\ AdmissionNext /\ UNCHANGED <<vars, reconcileVars, shape>>

MCSpec == MCInit /\ [][MCNext]_MCVars
=============================================================================
