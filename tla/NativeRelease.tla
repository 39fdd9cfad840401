----------------------------- MODULE NativeRelease ----------------------------
(***************************************************************************)
(* The release machine of the native slot (media/src/player/release.rs).   *)
(* A full stop hands the television's Unload to a worker; until the worker *)
(* has returned and the main thread has run the tail, the slot is not free *)
(* and one start may wait behind it.                                       *)
(*                                                                         *)
(* A machine without variables: each operator answers one event with the   *)
(* next state and the effect the runner must execute.  Only the Feed's     *)
(* half is here; a URI registration never qualifies for a start.           *)
(***************************************************************************)
EXTENDS Naturals

\* A queued start is the serial of its route transaction, 0 for None.
Idle == [kind |-> "Idle", epoch |-> 0, queued |-> 0]

Releasing(epoch, queued) == [kind |-> "Releasing", epoch |-> epoch, queued |-> queued]

Overdue(epoch) == [kind |-> "Overdue", epoch |-> epoch, queued |-> 0]

\* is_busy, has_queued
IsBusy(r) == r.kind # "Idle"

HasQueued(r) == r.queued # 0

\* RunTail precedes the other effect of UnloadReturned, so it is a flag.
Fx(to, tail, effect, q) == [to |-> to, tail |-> tail, effect |-> effect, q |-> q]

Silent(r) == Fx(r, FALSE, "None", 0)

\* An effect about the start that was queued, if there was one.
About(effect, q) == IF q = 0 THEN "None" ELSE effect

------------------------------------------------------------------------------
(* step                                                                     *)

\* A second hand-off is ignored rather than lose the first.
UnloadHandedOff(r, epoch) == IF IsBusy(r) THEN r ELSE Releasing(epoch, 0)

\* Fault: a start is not queued behind the Unload.
StartAtOnce(r, q) ==
    IF r.kind = "Overdue" THEN Fx(r, FALSE, "RefuseStart", q) ELSE Fx(r, FALSE, "Start", q)

StartRequested(r, q) ==
    CASE r.kind = "Idle" -> Fx(r, FALSE, "Start", q)
      [] r.kind = "Overdue" -> Fx(r, FALSE, "RefuseStart", q)
      [] r.kind = "Releasing" ->
           Fx(Releasing(r.epoch, q), FALSE,
              IF r.queued \in {0, q} THEN "None" ELSE "AbortSuperseded", r.queued)

UnloadReturned(r, epoch) ==
    IF IsBusy(r) /\ epoch = r.epoch
      THEN Fx(Idle, TRUE, About("Start", r.queued), r.queued)
      ELSE Silent(r)

\* Fault: the release waits for its worker however long it takes.
NeverLate(r, late) == Silent(r)

\* `late`: RELEASE_DEADLINE has passed since the hand-off.
Tick(r, late) ==
    IF r.kind = "Releasing" /\ late
      THEN Fx(Overdue(r.epoch), FALSE, About("RefuseStart", r.queued), r.queued)
      ELSE Silent(r)

CancelQueued(r) ==
    IF HasQueued(r)
      THEN Fx(Releasing(r.epoch, 0), FALSE, "AbortSuperseded", r.queued)
      ELSE Silent(r)

\* Fault: an overdue Unload is still waited for at the exit.
ExitWaits(r) == IF r.kind = "Idle" THEN "ExitClean" ELSE "ExitWaiting"

\* Exit moves the machine as Tick does and says whether the display may go.
Exit(r) ==
    CASE r.kind = "Idle" -> "ExitClean"
      [] r.kind = "Releasing" -> "ExitWaiting"
      [] r.kind = "Overdue" -> "ExitWorkerInFirmware"

==============================================================================
