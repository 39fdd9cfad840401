------------------------------ MODULE Foreground ------------------------------
(***************************************************************************)
(* The foreground lifecycle (media/src/player/lifecycle.rs): what is owed  *)
(* to a playback that an app switch parked.  It is restored in two halves, *)
(* the route's resume and the native Load, each of which may answer later, *)
(* and then the clock (Playing or Paused) it was saved with is put back.   *)
(*                                                                         *)
(* A machine without variables.  `clock` is the clock to restore, `saved`  *)
(* the one the park saved, which a refusal falls back to; positions and    *)
(* the identity of the park are left out.                                  *)
(***************************************************************************)
EXTENDS Naturals

Clocks == {"Playing", "Paused"}

Fg(kind, clock, saved, attempt) ==
    [kind |-> kind, clock |-> clock, saved |-> saved, attempt |-> attempt]

Unowed == Fg("Idle", "Playing", "Playing", 0)

SuspendedAt(clock) == Fg("Suspended", clock, clock, 0)

\* Where the machine may be between two events of the loop: a claim is always
\* answered within the event that made it.
Kinds == {"Idle", "Suspended", "Prepared", "PreparePending", "RecoveryPending",
          "LoadPending", "ClockPending"}

Lifecycle == [kind : Kinds, clock : Clocks, saved : Clocks, attempt : Nat]

\* The next state, the effect to run, the attempt it is about, and Handled.
Step(f, effect, about, handled) ==
    [f |-> f, effect |-> effect, about |-> about, handled |-> handled]

Quiet(f) == Step(f, "None", 0, TRUE)

Unhandled(f) == Step(f, "None", 0, FALSE)

------------------------------------------------------------------------------

\* Fault: a park forgets that the viewer had paused.
ClockForgotten(f, viewer_paused) ==
    CASE f.kind \in {"LoadPending", "RecoveryPending"} -> f.clock
      [] f.kind = "PreparePending" -> f.saved
      [] OTHER -> "Playing"

\* clock_for_suspend
ClockForSuspend(f, viewer_paused) ==
    CASE f.kind \in {"ClockPending", "ClaimClock"} -> "Playing"
      [] f.kind \in {"LoadPending", "RecoveryPending"} -> f.clock
      [] f.kind = "PreparePending" -> f.saved
      [] OTHER -> IF viewer_paused THEN "Paused" ELSE "Playing"

Park(f, viewer_paused) == SuspendedAt(ClockForSuspend(f, viewer_paused))

\* awaiting_load, claimable_clock, pending_flight, pending_load_attempt
AwaitingLoad(f) ==
    f.kind \in {"Suspended", "Prepared", "PreparePending", "RecoveryPending",
                "ClaimPrepare", "ClaimLoad"}

Claimable(f) == f.kind \in {"Suspended", "Prepared"}

FlightPending(f) == f.kind \in {"PreparePending", "RecoveryPending"}

Follows(f) == f.kind = "LoadPending"

\* input, for the inputs DidForeground, DidForegroundSuperseded, PlayKey and
\* PlayKeyOffPlayer; a PLAY claims the clock Playing whatever was saved.
Input(f, key) ==
    LET play == key \in {"PlayKey", "PlayKeyOffPlayer"}
        clock == IF play THEN "Playing" ELSE f.clock
    IN  CASE f.kind = "Idle" -> Unhandled(f)
          [] key = "PlayKeyOffPlayer" /\ f.kind \in {"ClockPending", "ClaimClock"} ->
               Unhandled(Unowed)
          [] f.kind # "Idle" /\ key = "DidForegroundSuperseded" -> Quiet(f)
          [] f.kind = "Suspended" /\ key # "DidForegroundSuperseded" ->
               Step(Fg("ClaimPrepare", clock, f.clock, 0), "Prepare", 0, TRUE)
          [] f.kind = "Prepared" /\ key # "DidForegroundSuperseded" ->
               Step(Fg("ClaimLoad", clock, clock, 0), "Load", 0, TRUE)
          [] key = "PlayKey" /\ f.kind = "ClockPending" ->
               Step(Fg("ClaimClock", "Playing", "Playing", 0), "PlayClock", 0, TRUE)
          [] OTHER -> Quiet(f)

\* supersede: an exit ends every restore; another playback ends the ones that
\* have not reached their Load.
Supersede(f, exit) ==
    CASE f.kind = "Idle" -> f
      [] f.kind \in {"LoadPending", "ClockPending", "ClaimClock"} -> IF exit THEN Unowed ELSE f
      [] OTHER -> Unowed

\* park_flight: the next Park's place is where the first one left it.
ParkFlight(f) ==
    CASE f.kind = "PreparePending" -> SuspendedAt(f.saved)
      [] f.kind = "RecoveryPending" -> SuspendedAt(f.clock)
      [] OTHER -> f

FlightStale(f) == IF FlightPending(f) THEN Unowed ELSE f

PrepareAnswered(f, answer) ==
    IF f.kind \notin {"ClaimPrepare", "PreparePending"} THEN Unhandled(f)
    ELSE CASE answer = "Pending" -> Quiet(Fg("PreparePending", f.clock, f.saved, 0))
           [] answer = "Refused" -> Quiet(SuspendedAt(f.saved))
           [] answer = "Prepared" -> Step(Fg("ClaimLoad", f.clock, f.clock, 0), "Load", 0, TRUE)

\* Fault: a deferred start is no answer yet.
DeferredUnanswered(f, start, attempt) ==
    IF f.kind \notin {"ClaimLoad", "RecoveryPending"} THEN Unhandled(f)
    ELSE CASE start = "Launched" ->
                Step(Fg("LoadPending", f.clock, f.clock, attempt), "Launched", 0, TRUE)
           [] start = "Deferred" -> Quiet(f)
           [] start = "Failed" ->
                Step(Fg("Prepared", f.clock, f.clock, 0), "AfterLoad", 0, TRUE)
           [] start = "AlreadyRunning" -> Step(Unowed, "AfterLoad", 0, TRUE)

LoadAnswered(f, start, attempt) ==
    IF f.kind \notin {"ClaimLoad", "RecoveryPending"} THEN Unhandled(f)
    ELSE CASE start = "Launched" ->
                Step(Fg("LoadPending", f.clock, f.clock, attempt), "Launched", 0, TRUE)
           [] start = "Deferred" -> Quiet(Fg("RecoveryPending", f.clock, f.clock, 0))
           [] start = "Failed" ->
                Step(Fg("Prepared", f.clock, f.clock, 0), "AfterLoad", 0, TRUE)
           [] start = "AlreadyRunning" -> Step(Unowed, "AfterLoad", 0, TRUE)

\* load_status, of the Load this machine follows.
LoadStatus(f, status) ==
    IF f.kind # "LoadPending" THEN Unhandled(f)
    ELSE CASE status.what = "Pending" -> Quiet(f)
           [] status.what = "Superseded" ->
                Quiet(Fg("LoadPending", f.clock, f.saved, status.follow))
           [] status.what = "Failed" ->
                Step(Fg("Prepared", f.clock, f.clock, 0), "AfterLoad", f.attempt, TRUE)
           [] status.what = "Stale" -> Step(Unowed, "AfterLoad", 0, TRUE)
           [] status.what = "Started" ->
                IF f.clock = "Paused" THEN Quiet(Unowed)
                ELSE Step(Fg("ClaimClock", "Playing", "Playing", 0), "PlayClock", 0, TRUE)

ClockAnswered(f, accepted) ==
    IF f.kind # "ClaimClock" THEN f
    ELSE IF accepted THEN Unowed ELSE Fg("ClockPending", "Playing", "Playing", 0)

==============================================================================
