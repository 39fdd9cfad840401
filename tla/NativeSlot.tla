------------------------------ MODULE NativeSlot ------------------------------
(***************************************************************************)
(* What the player promises of the television's one native object, as an   *)
(* abstract specification: a Load opens it, a stop ends it at once, hands  *)
(* its Unload to a worker or parks a Load that will not return, and no     *)
(* other Load is opened before the firmware has let go of it.  PlayStart   *)
(* implements it (PlayStart!Slot).                                         *)
(***************************************************************************)
EXTENDS Naturals

VARIABLES
    holder,     \* free, engine, unload or parked
    id,         \* the Load the object was opened for, 0 when it is free
    done        \* the firmware has returned from the worker's call

slotVars == <<holder, id, done>>

SlotInit == holder = "free" /\ id = 0 /\ done = FALSE

\* Nobody is inside the firmware any more.
Clear == holder = "free" \/ (holder \in {"unload", "parked"} /\ done)

Opens ==
    /\ Clear
    /\ holder' = "engine" /\ id' \in Nat \ {0, id} /\ done' = FALSE

\* The stop of an Engine: only a parked Load may have returned already.
Stops ==
    /\ holder = "engine"
    /\ \/ holder' = "free" /\ id' = 0 /\ done' = FALSE
       \/ holder' = "unload" /\ id' = id /\ done' = FALSE
       \/ holder' = "parked" /\ id' = id /\ done' \in BOOLEAN

Returns ==
    /\ holder \in {"unload", "parked"} /\ ~done
    /\ done' = TRUE /\ UNCHANGED <<holder, id>>

Frees ==
    /\ Clear /\ holder # "free"
    /\ holder' = "free" /\ id' = 0 /\ done' = FALSE

SlotNext == Opens \/ Stops \/ Returns \/ Frees

SlotSpec == SlotInit /\ [][SlotNext]_slotVars

==============================================================================
