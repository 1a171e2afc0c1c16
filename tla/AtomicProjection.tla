-------------------------- MODULE AtomicProjection --------------------------
(***************************************************************************)
(* What the Dynamic Story projection promises to a reader: it is replaced  *)
(* as a whole.  Either the reader is told that recovery is required, or it *)
(* sees a Dynamic World and every concept file that this world was built   *)
(* with.  DynamicProjection implements it with a journal and one file      *)
(* operation at a time.                                                    *)
(***************************************************************************)
CONSTANTS
  Hidden,      \* the answer dynamic_projection_recovery_required
  Canonical    \* records whose concept file commitTurn writes itself

VARIABLE seen  \* Hidden, or the world, the concept files and the lore files

(* Every concept of the world is there; another file can only be that of a *)
(* turn whose commit is under way or was interrupted.                      *)
Whole(view) ==
  /\ view.world.bundle.concepts \subseteq view.concept
  /\ view.concept \ view.world.bundle.concepts \subseteq Canonical

Init == seen # Hidden /\ Whole(seen)

Hide == seen # Hidden /\ seen' = Hidden

Publish == seen = Hidden /\ seen' # Hidden /\ Whole(seen')

(* Static Lore and commitTurn write files of their own beside the          *)
(* projection; what the world was built with stays.                        *)
WriteBeside ==
  /\ seen # Hidden /\ seen' # Hidden
  /\ seen'.world = seen.world
  /\ Whole(seen')

Next == Hide \/ Publish \/ WriteBeside

Spec == Init /\ [][Next]_seen
=============================================================================
