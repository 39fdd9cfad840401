------------------------------ MODULE RouteStart ------------------------------
(***************************************************************************)
(* The start transactions of the play route: the reducer PLAYER_CONTROL of *)
(* media/src/route/decision.rs, as far as it decides who may start the     *)
(* native Load and which Load's answer counts.                             *)
(*                                                                         *)
(* A request makes the route Resolving; its plan makes it Prepared(serial);*)
(* a start claims an attempt, Starting(serial, attempt); the Load's answer *)
(* makes it Stable or Failed(serial).  Every operator is one function of   *)
(* the source, applied under the reducer's lock, and gives the next state. *)
(*                                                                         *)
(* Left out: the phases of the adaptive bitrate and of the Original trial, *)
(* which replace a playing stream and never start one from rest.           *)
(***************************************************************************)
EXTENDS Naturals

\* A phase with the serial it carries; 0 where it carries none.
At(phase, serial) == [phase |-> phase, serial |-> serial]

NoFallback == At("None", 0)

NoStartResult == [serial |-> 0, attempt |-> 0, ok |-> FALSE]

\* `under` is the phase a request gives back when it is cancelled, `flight`
\* the serial of a resume's rebuild that no Engine waits on, `last` is
\* last_start_result; serials and attempts are the generation counters.
IdleRoute ==
    [phase |-> "Idle", serial |-> 0, attempt |-> 0, under |-> NoFallback, flight |-> 0,
     serials |-> 0, attempts |-> 0, last |-> NoStartResult]

Pending == {"Preparing", "Prepared", "Starting"}

Enter(c, phase, serial) ==
    [c EXCEPT !.phase = phase, !.serial = serial, !.attempt = 0]

Fresh(c, phase) == [Enter(c, phase, c.serials + 1) EXCEPT !.serials = c.serials + 1]

------------------------------------------------------------------------------
(* Requests and their landings.                                             *)

\* begin_playback_request refuses while a start owns the route, unless the
\* start is only a resume's flight, which the request supersedes.
MayRequest(c) == c.phase \notin Pending \/ (c.phase = "Preparing" /\ c.flight = c.serial)

BeginPlaybackRequest(c) ==
    LET keep == IF c.phase = "Resolving" THEN c.under
                ELSE IF c.phase = "Preparing" THEN At("Failed", c.serial)
                ELSE At(c.phase, c.serial)
    IN  [Enter(c, "Resolving", 0) EXCEPT !.under = keep, !.flight = 0]

PreparePlaybackLanding(c, playable) ==
    LET d == [c EXCEPT !.under = NoFallback]
    IN  IF ~playable THEN Enter(d, "Idle", 0)
        ELSE IF d.phase = "Starting" THEN d
        ELSE IF d.phase \in Pending THEN Enter(d, "Prepared", d.serial)
        ELSE Fresh(d, "Prepared")

CancelPlaybackRequest(c) ==
    IF c.phase # "Resolving" THEN c
    ELSE LET back == IF c.under = NoFallback THEN At("Idle", 0) ELSE c.under
         IN  [Enter(c, back.phase, back.serial) EXCEPT !.under = NoFallback]

------------------------------------------------------------------------------
(* One start: begin, prepare, claim, then an answer or an abort.            *)

\* pending_route_start
PendingRouteStart(c) == IF c.phase \in Pending THEN c.serial ELSE 0

MayBegin(c) == c.phase # "Resolving"

BeginRouteStart(c) ==
    CASE c.phase \in Pending -> c
      [] c.phase = "Stable" -> Fresh(c, "Preparing")
      [] c.phase \in {"Failed", "Idle"} -> Fresh(c, "Prepared")

MayPrepare(c, serial) == c.phase \in Pending /\ c.serial = serial

PrepareRouteStart(c, serial) ==
    IF MayPrepare(c, serial) /\ c.phase = "Preparing" THEN Enter(c, "Prepared", serial) ELSE c

MayClaim(c, serial) == c.phase = "Prepared" /\ c.serial = serial

ClaimRouteStartAttempt(c, serial) ==
    [c EXCEPT !.phase = "Starting", !.attempts = c.attempts + 1, !.attempt = c.attempts + 1]

RejectRouteStartPreparation(c, serial) ==
    CASE c.serial = serial /\ c.phase = "Preparing" -> Enter(c, "Stable", 0)
      [] c.serial = serial /\ c.phase = "Prepared" -> Enter(c, "Failed", serial)
      [] OTHER -> c

AbortRouteStart(c, serial, result) ==
    IF c.phase \notin Pending \/ c.serial # serial THEN c
    ELSE IF c.phase = "Preparing" /\ result = "NoRoute" THEN Enter(c, "Stable", 0)
    ELSE Enter(c, "Failed", serial)

\* settle_route_start: only the Load that owns Starting may answer.
SettleRouteStart(c, serial, attempt, ok) ==
    IF ~(c.phase = "Starting" /\ c.serial = serial /\ c.attempt = attempt) THEN c
    ELSE LET d == IF ok THEN Enter(c, "Stable", 0) ELSE Enter(c, "Failed", serial)
         IN  [d EXCEPT !.last = [serial |-> serial, attempt |-> attempt, ok |-> ok]]

------------------------------------------------------------------------------
(* What others may read of a start.                                         *)

ClassifyLiveEngineStart(c, existing) ==
    CASE c.phase = "Starting" /\ c.attempt = existing -> "CurrentAttempt"
      [] c.phase \in Pending /\ ~(c.phase = "Starting" /\ c.attempt = existing) -> "Conflict"
      [] OTHER -> "NoPendingRoute"

\* A finished Load's answer counts only while the phase still says that this
\* Load owns the route.
Completed(c) ==
    \/ c.phase = "Stable" /\ c.last.ok
    \/ c.phase = "Failed" /\ c.last.attempt # 0 /\ ~c.last.ok /\ c.last.serial = c.serial

Status(what, follow) == [what |-> what, follow |-> follow]

RouteStartStatus(c, attempt) ==
    LET current == IF c.phase = "Starting" THEN c.attempt
                   ELSE IF Completed(c) THEN c.last.attempt ELSE 0
    IN  CASE current = attempt /\ c.phase = "Starting" -> Status("Pending", 0)
          [] current = attempt /\ c.phase = "Stable" -> Status("Started", 0)
          [] current = attempt /\ c.phase = "Failed" -> Status("Failed", 0)
          [] current > attempt -> Status("Superseded", current)
          [] OTHER -> Status("Stale", 0)

------------------------------------------------------------------------------
(* Engines that end, and the flights of a resume.                           *)

FailCurrentEngine(c) ==
    LET d == [c EXCEPT !.flight = 0]
    IN  CASE c.phase \in Pending -> Enter(d, "Failed", c.serial)
          [] c.phase = "Stable" -> Fresh(d, "Failed")
          [] OTHER -> c

\* begin_engine_teardown, and for a full stop finish_engine_teardown.
EngineTeardown(c, reload) ==
    CASE ~reload -> [Enter(c, "Idle", 0) EXCEPT !.flight = 0]
      [] reload /\ c.phase = "Preparing" /\ c.flight = c.serial ->
           [Enter(c, "Stable", 0) EXCEPT !.flight = 0]
      [] reload /\ c.phase = "Starting" -> Enter(c, "Prepared", c.serial)
      [] OTHER -> c

MayFly(c) == c.phase \in {"Prepared", "Failed", "Starting", "Stable"}

\* begin_recovery_flight_start with begin_resume_flight
BeginResumeFlight(c) ==
    LET d == IF c.phase = "Stable" THEN Fresh(c, "Preparing") ELSE Enter(c, "Preparing", c.serial)
    IN  [d EXCEPT !.flight = d.serial]

ResumeFlightOutstanding(c) == c.phase = "Preparing" /\ c.flight = c.serial

\* install_recovery_landing
LandResumeFlight(c, installed) ==
    [Enter(c, IF installed THEN "Prepared" ELSE "Failed", c.serial) EXCEPT !.flight = 0]

==============================================================================
