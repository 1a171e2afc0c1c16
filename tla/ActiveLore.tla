------------------------------ MODULE ActiveLore ------------------------------
(***************************************************************************)
(* What a chat promises about its static lore.  The ledger names one       *)
(* active snapshot; the chat folder holds one runtime world, built from a  *)
(* snapshot and from the one it replaced.  A publication stages the new    *)
(* world, installs it, activates it in the ledger and settles; until the   *)
(* ledger has changed it may also be taken back.                           *)
(***************************************************************************)
CONSTANTS Lores,        \* the states the author's sources can be in
          NoLore        \* a chat without static lore

ASSUME LoresAssumption == NoLore \notin Lores

VARIABLES active,       \* the view the ledger calls active
          world,        \* the view derived/runtime-world.json was built as
          staged        \* the view a publication is moving to, or Nothing

lore == <<active, world, staged>>

View == [lore: Lores \union {NoLore}, from: Lores \union {NoLore}]
Nothing == [lore |-> NoLore, from |-> NoLore]

(* The ledger and the files tell the same story.                           *)
Whole == active = world /\ staged = Nothing

Stage(l) ==
  /\ Whole
  /\ l # active.lore
  /\ staged' = [lore |-> l, from |-> active.lore]
  /\ UNCHANGED <<active, world>>

Install ==
  /\ staged # Nothing /\ world # staged /\ active # staged
  /\ world' = staged
  /\ UNCHANGED <<active, staged>>

Activate ==
  /\ staged # Nothing /\ world = staged /\ active # staged
  /\ active' = staged
  /\ UNCHANGED <<world, staged>>

Settle ==
  /\ staged # Nothing /\ active = staged /\ world = staged
  /\ staged' = Nothing
  /\ UNCHANGED <<active, world>>

(* Recovery puts the replaced files back while the ledger still names the  *)
(* previous snapshot.                                                      *)
Restore ==
  /\ staged # Nothing /\ active # staged
  /\ world' = active
  /\ staged' = Nothing
  /\ UNCHANGED active

LoreInit == active = Nothing /\ world = Nothing /\ staged = Nothing

LoreNext ==
  \/ \E l \in Lores : Stage(l)
  \/ Install \/ Activate \/ Settle \/ Restore

LoreSpec == LoreInit /\ [][LoreNext]_lore
===============================================================================
