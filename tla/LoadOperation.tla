---------------------------- MODULE LoadOperation ----------------------------
(***************************************************************************)
(* What the save download hook promises the game and the player, without   *)
(* its flags, buffers and patches: the load of one slot at a time ends     *)
(* with stats from one source and succeeds if there is any; the profile    *)
(* stats of the cloud come only into a process that has no stats from a    *)
(* json save, and once they have come no local save is loaded any more.    *)
(***************************************************************************)
CONSTANTS Slot, NoSlot

VARIABLES
  slot,        \* the slot of the operation, NoSlot if there is none
  ended,       \* the operation has its outcome
  successful,  \* and which
  origin,      \* per slot, where its stats last came from
  synced       \* the profile stats of the cloud have come

vars == <<slot, ended, successful, origin, synced>>

Local  == {"json", "pso"}
Source == Local \cup {"cloud", "failed"}

Fresh == /\ slot = NoSlot /\ ended = FALSE /\ successful = FALSE
         /\ origin = [s \in Slot |-> "none"] /\ synced = FALSE
Init == Fresh

Begin(s) ==
  /\ slot = NoSlot
  /\ slot' = s
  /\ UNCHANGED <<ended, successful, origin, synced>>

End(source) ==
  /\ slot # NoSlot /\ ~ended
  /\ source \in Local => ~synced
  /\ ended' = TRUE /\ successful' = (source # "failed")
  /\ origin' = [origin EXCEPT ![slot] = source]
  /\ UNCHANGED <<slot, synced>>

Release ==
  /\ ended
  /\ slot' = NoSlot /\ ended' = FALSE /\ successful' = FALSE
  /\ UNCHANGED <<origin, synced>>

Sync ==
  /\ \A s \in Slot : origin[s] # "json"
  /\ synced' = TRUE
  /\ UNCHANGED <<slot, ended, successful, origin>>

Next ==
  \/ \E s \in Slot : Begin(s)
  \/ \E source \in Source : End(source)
  \/ Release \/ Sync
  \/ Fresh'  \* another process

Spec == Init /\ [][Next]_vars
=============================================================================
