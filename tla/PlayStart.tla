------------------------------- MODULE PlayStart ------------------------------
(***************************************************************************)
(* Starting playback on the television's one native object: the play route *)
(* (RouteStart), the native release machine (NativeRelease), the           *)
(* foreground lifecycle (Foreground), the Feed's Engine and the trailer    *)
(* previews, composed as the application's frame loop composes them        *)
(* (media/src/player/route_start.rs, adapter.rs, pump.rs, preview.rs,      *)
(* foreground.rs; src/app/run.rs, content.rs, playback.rs, lifecycle.rs).  *)
(*                                                                         *)
(* Actors: the viewer's presses, the television's app switches, the frame  *)
(* thread's steps, the media thread inside a native Load, the worker       *)
(* inside a native Unload, and the two clocks that bound them.  A handler  *)
(* is an operator from one state of the player to the next, as it runs on  *)
(* the frame thread without interruption; an action applies one handler.   *)
(*                                                                         *)
(* Left out: the URI backend, the adaptive bitrate, the failed-open ladder *)
(* (a refused open no restore owns ends on the read-out), the server's     *)
(* stop, and the transport of a trailer.                                   *)
(***************************************************************************)
EXTENDS FiniteSets, NativeRelease, RouteStart, Foreground

CONSTANT MaxPresses     \* bound: what viewer and television may ask, in all; the return
                        \* from an app switch is not counted

ASSUME PlayStartAssumption == MaxPresses \in Nat

VARIABLES
    route,      \* PLAYER_CONTROL
    session,    \* PlaybackSession: url, pend, preview, as_preview, and the read-out's
                \* paused; `answered` is the worker's landing slot: it has answered and waits
    preview,    \* the preview machine's phase
    held,       \* HELD_FEATURE
    engine,     \* the Feed's Engine, with its native Load
    mail,       \* Load results posted and not yet drained
    slot,       \* the native object when no Engine holds it
    adapter,    \* PlayerAdapter: release, queued_watch, preview_admission
    fg,         \* ForegroundLifecycle
    screen,     \* the page on top, and whether the window is in front
    exiting,    \* the process: running, leaving, or how it left
    turn,       \* how far the frame has come
    presses,    \* presses used so far
    wish        \* history: the clock the viewer last asked for, and where the code lets
                \* go of a press, the clock it falls back to

vars == <<route, session, preview, held, engine, mail, slot, adapter, fg, screen,
          exiting, turn, presses, wish>>

------------------------------------------------------------------------------
(* The state of the player, as one record the handlers pass along.          *)

\* `call` is where the media thread is with the native Load, `failed` and
\* `late` are load_failed and load_timed_out, `dead` is an Engine that failed
\* with a picture up, `follows` is foreground_follows_feed_load, `goal` is the
\* attempt's viewer_paused, `ready` says that its startup plan is done; `waited`
\* is history: a trailer's start that had been queued launched it.
NoEngine ==
    [serial |-> 0, attempt |-> 0, call |-> "none", failed |-> FALSE, late |-> FALSE,
     dead |-> FALSE, follows |-> FALSE, goal |-> FALSE, ready |-> FALSE, waited |-> FALSE]

NewEngine(serial, attempt, goal) ==
    [NoEngine EXCEPT !.serial = serial, !.attempt = attempt, !.call = "out", !.goal = goal]

Calls == {"none", "out", "ok", "bad"}

Live(w) == w.engine.attempt # 0

\* viewer_paused_for: the live attempt's goal, or else the read-out's Pause.
ViewerPaused(w) == IF Live(w) THEN w.engine.goal ELSE w.session.paused

ClockOf(paused) == IF paused THEN "Paused" ELSE "Playing"

\* The media thread has returned: a refused Load posts its result first.
Finished(n) == n.call = "ok" \/ (n.call = "bad" /\ n.failed)

NoSlot == [unload |-> 0, returned |-> FALSE, late |-> FALSE, abandoned |-> 0, back |-> FALSE]

NoWatch == [kind |-> "Unwatched", attempt |-> 0]

World == [route |-> route, session |-> session, preview |-> preview, held |-> held,
          engine |-> engine, mail |-> mail, slot |-> slot, adapter |-> adapter, fg |-> fg,
          screen |-> screen, exiting |-> exiting, wish |-> wish]

Become(w) ==
    /\ route' = w.route /\ session' = w.session /\ preview' = w.preview /\ held' = w.held
    /\ engine' = w.engine /\ mail' = w.mail /\ slot' = w.slot /\ adapter' = w.adapter
    /\ fg' = w.fg /\ screen' = w.screen /\ exiting' = w.exiting /\ wish' = w.wish

\* What the outside decides within one handler: whether the native open is
\* accepted, an Unload can be handed to a worker, the television takes a
\* transport command, what a Load that a stop joins answers, what a resume
\* needs, and whether a worker's plan or rebuild can be installed.
Chances(opens, off, accepts, joined, resume, good) ==
    [opens : opens, off : off, accepts : accepts, joined : joined, resume : resume, good : good]

Resumes == {"start", "direct", "fly", "stuck", "refused"}

\* What a stop, a claim of a restore, a settling frame and a landing can meet.
Stops == Chances({FALSE}, BOOLEAN, {FALSE}, BOOLEAN, {"direct"}, {FALSE})

Claiming == Chances(BOOLEAN, {FALSE}, BOOLEAN, {FALSE}, Resumes, {FALSE})

Settling == Chances(BOOLEAN, {FALSE}, BOOLEAN, BOOLEAN, {"direct"}, BOOLEAN)

Landings == {e \in Chances(BOOLEAN, BOOLEAN, {FALSE}, BOOLEAN, Resumes, BOOLEAN) : e.off = e.joined}

PreviewRequest(w) == w.session.preview \/ w.session.as_preview

------------------------------------------------------------------------------
(* PlayerAdapter: the watch on a queued start and the preview's admission.  *)

QueuedStartRan(a, attempt) ==
    IF a.watch.kind # "Watching" THEN a
    ELSE [a EXCEPT !.watch = [kind |-> IF attempt = 0 THEN "Failed" ELSE "Launched",
                              attempt |-> attempt]]

QueuedStartDropped(a) == [a EXCEPT !.watch = NoWatch]

\* settle_preview_admission: note_admitted or note_admission_refused, unless
\* the start was cancelled.
SettlePreviewAdmission(w, launched, settle) ==
    LET admit == w.adapter.admission
        phase == IF ~launched THEN "Idle"
                 ELSE IF w.preview \in {"Fetching", "Live"} THEN "Live" ELSE w.preview
    IN  [w EXCEPT !.adapter.admission = FALSE,
                  !.preview = IF admit /\ settle THEN phase ELSE @]

AbortStart(w, q, result) == [w EXCEPT !.route = AbortRouteStart(@, q, result)]

\* AbortSuperseded, wherever it is executed.
RunAbortSuperseded(w, q) ==
    LET v == SettlePreviewAdmission(w, FALSE, FALSE)
    IN  AbortStart([v EXCEPT !.adapter = QueuedStartDropped(@)], q, "StartFailed")

------------------------------------------------------------------------------
(* The native object: opening, reaping, stopping.                           *)

\* Fault: an abandoned Load is let go whether or not it returned.
ReapAtOnce(w) == [w EXCEPT !.slot.abandoned = 0, !.slot.back = FALSE]

\* reap_abandoned_load
Reap(w) ==
    IF w.slot.abandoned # 0 /\ w.slot.back
      THEN [w EXCEPT !.slot.abandoned = 0, !.slot.back = FALSE] ELSE w

\* The common part of a start once the release machine said Start: the answer
\* is [w, out, attempt].
Started(w, out, attempt) == [w |-> w, out |-> out, attempt |-> attempt]

\* start_bufferfeed_prepared under start_bufferfeed_for's settlement.  The
\* open is refused while an abandoned Load or an Engine owns the object.
StartPrepared(w, q, e) ==
    LET v == Reap(w)
        free == v.slot.abandoned = 0
        u == [v EXCEPT !.route = PrepareRouteStart(@, q)]
    IN  IF ~w.session.url THEN Started(AbortStart(w, q, "NoRoute"), "Failed", 0)
        ELSE IF ~free \/ ~MayPrepare(v.route, q)
          THEN Started(AbortStart(v, q, "StartFailed"), "Failed", 0)
        ELSE IF Live(v) \/ ~e.opens \/ ~MayClaim(u.route, q)
          THEN Started(AbortStart(u, q, "StartFailed"), "Failed", 0)
        ELSE LET c == ClaimRouteStartAttempt(u.route, q)
             IN  Started([u EXCEPT !.route = c, !.engine = NewEngine(q, c.attempt, w.session.paused)],
                         "Launched", c.attempt)

\* NativeStop, from `take` to `finish`: the Engine's receipt is retired; a Load
\* past its budget is parked with its thread, any other is joined; a full stop
\* hands the Unload to a worker when it can.
StopNative(w, reload, e) ==
    LET n == w.engine
        parked == ~Finished(n) /\ n.late
        answer == [attempt |-> n.attempt, ok |-> e.joined]
        off == ~reload /\ ~parked /\ e.off
        v == [w EXCEPT !.engine = NoEngine,
                       !.mail = IF n.call = "out" /\ ~parked THEN @ \cup {answer} ELSE @]
    IN  CASE parked -> [v EXCEPT !.slot.abandoned = n.attempt, !.slot.back = n.call # "out"]
          [] off -> [v EXCEPT !.slot.unload = n.attempt, !.slot.returned = FALSE,
                              !.slot.late = FALSE,
                              !.adapter.release = UnloadHandedOff(@, n.attempt)]
          [] OTHER -> v

\* retire_stopped_playback and stop_transport
ForgetPlayback(w) ==
    [w EXCEPT !.session.url = FALSE, !.session.paused = FALSE, !.wish = "Playing"]

\* begin_teardown's CancelQueued
CancelQueuedStart(w) ==
    LET x == CancelQueued(w.adapter.release)
        v == [w EXCEPT !.adapter.release = x.to]
    IN  IF x.effect = "AbortSuperseded" THEN RunAbortSuperseded(v, x.q) ELSE v

\* begin_teardown past the queue, and what follows it: an app switch's is a
\* `reload` and keeps the session; a preview whose Load has not returned is
\* left installed.
Ended(w, reload) == IF reload THEN w ELSE ForgetPlayback(w)

\* Fault: the route is reset before the preview's stop is put off.
StopResetsFirst(w, reload, e) ==
    LET ended == [w EXCEPT !.route = EngineTeardown(@, reload)]
    IN  CASE ~Live(w) ->
               IF reload /\ ~ResumeFlightOutstanding(w.route) THEN w ELSE Ended(ended, reload)
          [] Live(w) /\ w.session.preview /\ ~Finished(w.engine) -> ended
          [] OTHER -> Ended(StopNative(ended, reload, e), reload)

StopEngine(w, reload, e) ==
    LET ended == [w EXCEPT !.route = EngineTeardown(@, reload)]
    IN  CASE ~Live(w) ->
               IF reload /\ ~ResumeFlightOutstanding(w.route) THEN w ELSE Ended(ended, reload)
          [] Live(w) /\ w.session.preview /\ ~Finished(w.engine) -> w
          [] OTHER -> Ended(StopNative(ended, reload, e), reload)

Teardown(w, reload, e) == StopEngine(CancelQueuedStart(w), reload, e)

------------------------------------------------------------------------------
(* The runner of the release machine.                                       *)

\* Fault: the refused start's route is left waiting.
RefuseSilently(w, q) == w

RefuseStartForRelease(w, q) == AbortStart(w, q, "StartFailed")

\* What a queued start that ran leaves: the preview's admission and the watch.
QueuedRan(w, launched, attempt) ==
    [SettlePreviewAdmission(w, launched, TRUE) EXCEPT !.adapter = QueuedStartRan(@, attempt)]

QueuedStarted(r) ==
    [QueuedRan(r.w, r.out = "Launched", r.attempt) EXCEPT
       !.engine.waited = r.out = "Launched" /\ r.w.session.as_preview]

\* run_release_effects, for the one effect about a start that a pass can have.
RunReleaseEffects(w, effect, q, may_start, e) ==
    CASE effect = "Start" /\ may_start -> QueuedStarted(StartPrepared(w, q, e))
      [] effect = "Start" /\ ~may_start ->
           AbortStart(SettlePreviewAdmission(w, FALSE, FALSE), q, "StartFailed")
      [] effect = "RefuseStart" -> QueuedRan(RefuseStartForRelease(w, q), FALSE, 0)
      [] OTHER -> w

\* drive_release: a worker that returned, then the clock.  The two never both
\* have an effect, since a returned release is Idle.
DriveRelease(w, may_start, e) ==
    LET r == w.adapter.release
        x == IF w.slot.returned THEN UnloadReturned(r, w.slot.unload) ELSE Silent(r)
        y == Tick(x.to, w.slot.late)
        z == IF x.effect = "None" THEN y ELSE x
        free == [w.slot EXCEPT !.unload = 0, !.returned = FALSE, !.late = FALSE]
    IN  RunReleaseEffects([w EXCEPT !.slot = IF x.tail THEN free ELSE @, !.adapter.release = y.to],
                          z.effect, z.q, may_start, e)

PollRelease(w, e) == DriveRelease(w, TRUE, e)

\* start_bufferfeed_for: a release that is ready is finished first, which may
\* run the start queued behind it.
RequestStart(w, q, e) ==
    LET x == StartRequested(w.adapter.release, q)
        v == [w EXCEPT !.adapter.release = x.to]
    IN  CASE x.effect = "Start" -> StartPrepared(v, q, e)
          [] x.effect = "RefuseStart" -> Started(RefuseStartForRelease(v, q), "Failed", 0)
          [] x.effect = "AbortSuperseded" -> Started(RunAbortSuperseded(v, x.q), "Deferred", 0)
          [] x.effect = "None" -> Started(v, "Deferred", 0)

StartFor(w, q, e) == RequestStart(IF IsBusy(w.adapter.release) THEN PollRelease(w, e) ELSE w, q, e)

\* start_bufferfeed_tracked
StartTracked(w, e) ==
    LET c == w.route
        relation == ClassifyLiveEngineStart(c, w.engine.attempt)
        begun == BeginRouteStart(c)
    IN  CASE Live(w) /\ relation = "CurrentAttempt" ->
               Started(w, "Launched", w.engine.attempt)
          [] Live(w) /\ relation = "NoPendingRoute" -> Started(w, "AlreadyRunning", 0)
          [] Live(w) /\ relation = "Conflict" ->
               Started(AbortStart(w, PendingRouteStart(c), "StartFailed"), "Failed", 0)
          [] ~Live(w) /\ ~MayBegin(c) -> Started(w, "Failed", 0)
          [] ~Live(w) /\ MayBegin(c) -> StartFor([w EXCEPT !.route = begun], begun.serial, e)

Accepted(r) == r.out # "Failed"

------------------------------------------------------------------------------
(* The foreground lifecycle's actuator (src/app/lifecycle.rs).              *)

\* A driver's answer: the state, whether the machine took the event, and
\* whether a Load was launched, which mounts the player.
Drove(w, handled, launched) == [w |-> w, handled |-> handled, launched |-> launched]

\* before_load: an Engine that is to be built takes its clock from the claim.
BeforeLoad(w) == IF Live(w) THEN w ELSE [w EXCEPT !.session.paused = w.fg.clock = "Paused"]

\* start_load, and the answer fed back.
LoadStarted(f, r) ==
    LET v == CASE r.out = "Deferred" ->
                    [r.w EXCEPT !.adapter.watch = [kind |-> "Watching", attempt |-> 0]]
               [] r.out = "Launched" -> [r.w EXCEPT !.engine.follows = TRUE]
               [] OTHER -> r.w
    IN  Drove([v EXCEPT !.fg = LoadAnswered(f, r.out, r.attempt).f], TRUE, r.out = "Launched")

RunLoad(w, e) == LoadStarted(w.fg, StartTracked(BeforeLoad(w), e))

\* begin_resume: no position to resume at, a direct play, a transcode's rebuild
\* on a worker, a worker that could not be started, or a rebuild that
\* plan_rebase refuses before it touches the route.
BeginResume(w, e) ==
    LET flies == e.resume \in {"fly", "stuck"} /\ w.session.url /\ MayFly(w.route)
        up == BeginResumeFlight(w.route)
    IN  CASE flies /\ e.resume = "fly" ->
               [w |-> [w EXCEPT !.route = up, !.session.answered = FALSE], answer |-> "Pending"]
          [] flies /\ e.resume = "stuck" ->
               [w |-> [w EXCEPT !.route = LandResumeFlight(up, FALSE)], answer |-> "Refused"]
          [] ~flies /\ (e.resume = "start" \/ (e.resume = "direct" /\ w.session.url)) ->
               [w |-> w, answer |-> "Prepared"]
          [] OTHER -> [w |-> w, answer |-> "Refused"]

\* The answer to Prepare.  A refusal lets go of a PLAY that claimed, for the
\* clock the park saved.
RunPrepareAnswered(w, answer, e) ==
    LET s == PrepareAnswered(w.fg, answer)
        v == [w EXCEPT !.fg = s.f, !.wish = IF answer = "Refused" THEN w.fg.saved ELSE @]
    IN  IF s.effect = "Load" THEN RunLoad(v, e) ELSE Drove(v, TRUE, FALSE)

\* play_clock
RunClock(w, e) ==
    LET accepted == ~w.session.paused \/ e.accepts
    IN  [w EXCEPT !.session.paused = @ /\ ~accepted, !.fg = ClockAnswered(@, accepted)]

\* run_foreground under drive_foreground, for an input of the machine.
DriveForeground(w, key, e) ==
    LET s == Input(w.fg, key)
        v == [w EXCEPT !.fg = s.f]
        b == BeginResume(v, e)
    IN  CASE s.effect = "Prepare" -> RunPrepareAnswered(b.w, b.answer, e)
          [] s.effect = "Load" -> RunLoad(v, e)
          [] s.effect = "PlayClock" -> Drove(RunClock(v, e), TRUE, FALSE)
          [] OTHER -> Drove(v, s.handled, FALSE)

\* finish_foreground_launch
Mounted(d) == IF d.launched THEN [d.w EXCEPT !.screen.page = "Player"] ELSE d.w

\* poll_foreground_flight with land_prepare: the rebuild a resume waits on ...
PollPrepare(w, e) ==
    CASE ~ResumeFlightOutstanding(w.route) ->
           Drove([w EXCEPT !.fg = FlightStale(@)], TRUE, FALSE)
      [] ResumeFlightOutstanding(w.route) /\ w.session.answered ->
           RunPrepareAnswered([w EXCEPT !.route = LandResumeFlight(@, e.good),
                                        !.session.answered = FALSE],
                              IF e.good THEN "Prepared" ELSE "Refused", e)
      [] OTHER -> Drove(w, TRUE, FALSE)

\* Fault: a queued start that failed is waited for like one still queued.
FailedStillWatched(w) ==
    LET t == w.adapter.watch
        v == [w EXCEPT !.adapter.watch = NoWatch]
    IN  CASE t.kind = "Launched" ->
               Drove([v EXCEPT !.fg = LoadAnswered(@, "Launched", t.attempt).f,
                               !.engine.follows = @ \/ v.engine.attempt = t.attempt],
                     TRUE, TRUE)
          [] t.kind \in {"Watching", "Failed"} -> Drove(w, TRUE, FALSE)
          [] OTHER -> Drove([v EXCEPT !.fg = FlightStale(@)], TRUE, FALSE)

\* ... and with land_recovery: what became of the start it queued.
PollRecovery(w) ==
    LET t == w.adapter.watch
        v == [w EXCEPT !.adapter.watch = NoWatch]
    IN  CASE t.kind = "Watching" /\ HasQueued(w.adapter.release) -> Drove(w, TRUE, FALSE)
          [] t.kind = "Launched" ->
               Drove([v EXCEPT !.fg = LoadAnswered(@, "Launched", t.attempt).f,
                               !.engine.follows = @ \/ v.engine.attempt = t.attempt],
                     TRUE, TRUE)
          [] t.kind = "Failed" ->
               Drove([v EXCEPT !.fg = LoadAnswered(@, "Failed", 0).f], TRUE, FALSE)
          [] OTHER -> Drove([v EXCEPT !.fg = FlightStale(@)], TRUE, FALSE)

PollFlight(w, e) ==
    IF w.fg.kind = "PreparePending" THEN PollPrepare(w, e)
    ELSE PollRecovery(IF w.adapter.watch = NoWatch THEN w ELSE PollRelease(w, e))

\* poll_foreground_load, with load_status and after_load.  A refused Load's
\* Engine goes, and with it what was pressed since the Load began.
PollLoad(w, e) ==
    LET status == RouteStartStatus(w.route, w.fg.attempt)
        s == LoadStatus(w.fg, status)
        v == [w EXCEPT !.fg = s.f,
                       !.engine.follows = @ \/ (status.what = "Superseded"
                                                /\ w.engine.attempt = status.follow)]
    IN  CASE ~Follows(w.fg) -> w
          [] Follows(w.fg) /\ s.effect = "AfterLoad" /\ s.about # 0 /\ v.engine.attempt = s.about ->
               Teardown([v EXCEPT !.wish = w.fg.clock], TRUE, e)
          [] Follows(w.fg) /\ s.effect = "PlayClock" -> RunClock(v, e)
          [] OTHER -> v

------------------------------------------------------------------------------
(* Trailer previews (media/src/player/preview.rs).                          *)

\* Fault: the preview is forgotten while its Engine stays.
RetiredAtOnce(w) == [w EXCEPT !.preview = "Idle", !.session.preview = FALSE]

\* retire: a Load that has not returned leaves the Engine installed.
Retired(w) == IF Live(w) THEN [w EXCEPT !.preview = "Abandoning"]
              ELSE [w EXCEPT !.preview = "Idle", !.session.preview = FALSE]

Retire(w, e) == Retired(IF Live(w) THEN Teardown(w, FALSE, e) ELSE w)

Halt(w, e) == IF w.session.preview THEN Retire(w, e) ELSE [w EXCEPT !.preview = "Idle"]

\* after_pump, with settle; `ended`: the trailer's Engine reached its end.
AfterPump(w, ended, e) ==
    LET waits == w.preview = "Fetching" /\ w.session.pend # "none"
        over == Live(w) /\ (ended \/ w.engine.failed \/ w.engine.late)
    IN  CASE w.preview = "Abandoning" ->
               IF ~Live(w) \/ Finished(w.engine) THEN Retire(w, e) ELSE w
          [] w.preview # "Abandoning" /\ (~w.session.preview \/ ~Live(w)) ->
               IF waits THEN w ELSE [w EXCEPT !.preview = "Idle", !.session.preview = FALSE]
          [] OTHER -> IF over THEN Retire(w, e) ELSE w

------------------------------------------------------------------------------
(* The pump of a live Engine (media/src/player/pump.rs).                    *)

\* Fault: whatever result is in the inbox settles the route.
DrainAnyOutcome(w) ==
    LET n == w.engine
        answer == CHOOSE m \in w.mail : TRUE
    IN  [w EXCEPT !.mail = {},
                  !.route = IF w.mail = {} THEN @
                            ELSE SettleRouteStart(@, n.serial, n.attempt, answer.ok)]

\* drain_load_outcomes: the inbox is emptied, and only the installed Engine's
\* own result settles the route.
DrainLoadOutcomes(w) ==
    LET n == w.engine
        own == {m \in w.mail : m.attempt = n.attempt}
        answer == CHOOSE m \in own : TRUE
    IN  [w EXCEPT !.mail = {},
                  !.route = IF own = {} THEN @
                            ELSE SettleRouteStart(@, n.serial, n.attempt, answer.ok)]

\* A failed Engine with a picture goes, and the pause falls back to the read-out's.
LetGoDead(w, e) == Teardown([w EXCEPT !.wish = ClockOf(w.session.paused)], TRUE, e)

\* Fault: the failure flag is acted on before the results are read.
PumpFlagFirst(w, e) ==
    LET n == w.engine
    IN  CASE n.dead /\ ~w.session.preview -> LetGoDead(w, e)
          [] ~(n.dead /\ ~w.session.preview) /\ (n.failed \/ n.late) ->
               IF PreviewRequest(w) THEN IF w.preview = "Abandoning" THEN w ELSE Retire(w, e)
               ELSE [w EXCEPT !.route = FailCurrentEngine(@)]
          [] OTHER -> DrainLoadOutcomes(w)

\* Fault: a Load past its budget is not a failure.
PumpUntimed(w, e) ==
    LET n == w.engine
        v == DrainLoadOutcomes(w)
    IN  CASE n.dead /\ ~w.session.preview -> LetGoDead(w, e)
          [] ~n.dead /\ n.failed /\ PreviewRequest(v) -> Retire(v, e)
          [] ~n.dead /\ n.failed /\ ~PreviewRequest(v) -> [v EXCEPT !.route = FailCurrentEngine(@)]
          [] OTHER -> v

\* pump_frame, as far as a Load's failure: a failed Engine with a picture is
\* let go; then the results; then the failure flag, which is the preview's, or
\* the foreground lifecycle's when it follows this Load, or ends the Engine.
Pump(w, e) ==
    LET n == w.engine
        v == DrainLoadOutcomes(w)
        left == n.follows /\ RouteStartStatus(v.route, n.attempt).what = "Failed"
    IN  CASE n.dead /\ ~w.session.preview -> LetGoDead(w, e)
          [] ~(n.dead /\ ~w.session.preview) /\ (n.failed \/ n.late) ->
               IF PreviewRequest(v) THEN IF v.preview = "Abandoning" THEN v ELSE Retire(v, e)
               ELSE IF left THEN v
               ELSE [v EXCEPT !.route = FailCurrentEngine(@)]
          [] OTHER -> v

\* playback_may_run
MayRun(w) == w.screen.front /\ ~AwaitingLoad(w.fg)

------------------------------------------------------------------------------
(* Requests of the pages, and the landing of a plan (content.rs, run.rs).   *)

\* request_play, for a film, with start_playback's push of the player.
RequestFilm(w) ==
    IF ~MayRequest(w.route) THEN w
    ELSE [w EXCEPT !.route = BeginPlaybackRequest(@), !.session.pend = "film",
                   !.session.as_preview = FALSE, !.session.paused = FALSE,
                   !.session.answered = FALSE, !.screen.page = "Player", !.wish = "Playing"]

\* clear_engine_for_play past the preview, then the request or HELD_FEATURE.
PlayHalted(w, e) ==
    LET orphan == Live(w) /\ ~w.session.preview /\ w.screen.page # "Player"
    IN  IF w.preview # "Idle" THEN [w EXCEPT !.held = TRUE]
        ELSE RequestFilm([IF orphan THEN Teardown(w, FALSE, e) ELSE w EXCEPT !.held = FALSE])

PlayHeldOrNow(w, e) == PlayHalted(Halt(w, e), e)

\* content_requests: halt_preview_off_its_page, then drain_held_feature.
HaltOffPage(w, e) ==
    LET off == (w.preview # "Idle" \/ w.session.preview) /\ w.preview # "Abandoning"
               /\ w.screen.page = "Player"
    IN  IF off THEN Halt(w, e) ELSE w

\* Fault: the held film is asked for only while the trailer's Engine is
\* still there to be cleared.
DrainWhileLive(w, e) == IF w.held /\ Live(w) THEN PlayHeldOrNow(w, e) ELSE w

DrainHeld(w, e) == IF w.held THEN PlayHeldOrNow(w, e) ELSE w

ContentRequests(w, e) == DrainHeld(HaltOffPage(w, e), e)

\* request_start and request_preview
RequestPreview(w) ==
    IF ~MayRequest(w.route) THEN w
    ELSE [w EXCEPT !.route = BeginPlaybackRequest(@), !.session.pend = "preview",
                   !.session.answered = FALSE, !.preview = "Fetching"]

\* cancel_play
CancelPlay(w) == [w EXCEPT !.route = CancelPlaybackRequest(@), !.session.pend = "none",
                        !.session.answered = FALSE]

RejectPending(w) ==
    [w EXCEPT !.route = RejectRouteStartPreparation(@, PendingRouteStart(w.route))]

\* finish_landed_play
LandedStart(r) ==
    LET mounts == Accepted(r) /\ ~r.w.session.preview
        v == IF mounts THEN [r.w EXCEPT !.screen.page = "Player"] ELSE r.w
    IN  CASE ~v.session.preview -> v
          [] v.session.preview /\ r.out = "Deferred" -> [v EXCEPT !.adapter.admission = TRUE]
          [] OTHER -> [v EXCEPT !.preview = IF ~Accepted(r) THEN "Idle"
                                            ELSE IF @ = "Fetching" THEN "Live" ELSE @]

FinishLandedPlay(w, prepared, e) ==
    IF prepared THEN LandedStart(StartTracked(w, e)) ELSE RejectPending(w)

\* pump_play: the plan is installed, or its refusal is.
LandPlan(w, playable) ==
    LET trailer == w.session.pend = "preview"
    IN  [w EXCEPT !.route = PreparePlaybackLanding(@, playable), !.session.pend = "none",
                  !.session.url = playable, !.session.preview = trailer,
                  !.session.as_preview = trailer, !.session.answered = FALSE]

\* The landing of a resolve: a trailer nobody waits for is stopped again.
LandPlay(w, e) ==
    LET v == LandPlan(w, e.good)
        b == BeginResume(v, e)
        dropped == Teardown(RejectPending(v), FALSE, e)
    IN  CASE ~e.good -> v
          [] e.good /\ v.session.preview /\ v.preview # "Fetching" ->
               [dropped EXCEPT !.session.preview = FALSE]
          [] e.good /\ v.session.preview /\ v.preview = "Fetching" -> FinishLandedPlay(v, TRUE, e)
          [] OTHER -> IF b.answer = "Pending" THEN b.w
                      ELSE FinishLandedPlay(b.w, b.answer = "Prepared", e)

\* The landing step of the frame: a press for another playback ends a restore
\* that has not reached its Load; then a cold resume, then a resolve.
Landing(w, e) ==
    LET s == IF w.screen.front /\ w.session.pend # "none"
               THEN [w EXCEPT !.fg = Supersede(@, FALSE)] ELSE w
        cold == ResumeFlightOutstanding(s.route)
    IN  CASE ~MayRun(s) \/ ~s.session.answered -> s
          [] MayRun(s) /\ s.session.answered /\ cold ->
               FinishLandedPlay([s EXCEPT !.route = LandResumeFlight(@, e.good),
                                          !.session.answered = FALSE], e.good, e)
          [] MayRun(s) /\ s.session.answered /\ ~cold /\ s.session.pend # "none" -> LandPlay(s, e)
          [] OTHER -> s

------------------------------------------------------------------------------
(* What the viewer and the television ask, at the head of a frame.          *)

Running == exiting = "running"

Press(at) ==
    /\ Running /\ turn = at
    /\ presses < MaxPresses
    /\ presses' = presses + 1
    /\ UNCHANGED turn

\* park_playback.  While a restore follows its Load the machine's own clock is
\* saved, not what was pressed since the Load began.
ParkPlayback(w, e) ==
    LET kept == IF Follows(w.fg) THEN w.fg.clock ELSE w.wish
        v == [w EXCEPT !.fg = Park(@, ViewerPaused(w)), !.wish = kept]
    IN  CancelPlay(Teardown(v, TRUE, e))

\* A restore that waits on a flight when the television takes the screen again
\* is parked back where the first park left it.
ParkPending(w, e) ==
    LET f == ParkFlight(w.fg)
    IN  IF FlightPending(w.fg) THEN Teardown([w EXCEPT !.fg = f, !.wish = f.clock], TRUE, e)
        ELSE w

ParkIfPlaying(w, e) ==
    LET plays == w.session.pend # "none" \/ Live(w) \/ w.session.url
    IN  IF ~PreviewRequest(w) /\ plays /\ ~AwaitingLoad(w.fg) THEN ParkPlayback(w, e) ELSE w

\* The television takes the screen.
Background ==
    /\ Press("events") /\ screen.front
    /\ \E e \in Stops :
         Become(ParkIfPlaying(ParkPending(Halt([World EXCEPT !.screen.front = FALSE], e), e), e))

\* The television gives the screen back; a launch link that ends playback
\* claims nothing.
DidForeground ==
    /\ Running /\ turn = "events" /\ ~screen.front /\ UNCHANGED <<turn, presses>>
    /\ \E e \in Claiming, key \in {"DidForeground", "DidForegroundSuperseded"} :
         Become(Mounted(DriveForeground([World EXCEPT !.screen.front = TRUE], key, e)))

\* claim_press_after_decoder_release and retry_refused_foreground
ClaimParked ==
    /\ Press("events") /\ screen.front /\ Claimable(fg)
    /\ \E e \in Claiming, key \in {"DidForeground", "PlayKey"} :
         LET w == [World EXCEPT !.wish = IF key = "PlayKey" THEN "Playing" ELSE @]
         IN  Become(Mounted(DriveForeground(w, key, e)))

\* park_on_decoder_release
DecoderRevoked ==
    /\ Press("events") /\ Live(World) /\ engine.call = "ok"
    /\ \E e \in Stops :
         Become(IF PreviewRequest(World) THEN Halt(World, e)
                ELSE IF AwaitingLoad(fg) THEN World
                ELSE ParkPlayback(World, e))

\* ReadyAwaitPlay: the startup plan is done.  A goal of Playing issues the first
\* Play, which lifts the Pause the Load was built with; a paused goal issues none.
StartupDone ==
    /\ Running /\ turn = "events" /\ UNCHANGED <<turn, presses>>
    /\ MayRun(World) /\ ~PreviewRequest(World) /\ Live(World)
    /\ engine.call = "ok" /\ ~engine.ready /\ route.phase = "Stable"
    /\ Become([World EXCEPT !.engine.ready = TRUE, !.session.paused = @ /\ engine.goal])

\* The film's Engine reports an error while it plays; the failed-open ladder
\* has nothing left.
EngineFails ==
    /\ Press("events") /\ MayRun(World) /\ Live(World) /\ ~PreviewRequest(World)
    /\ engine.call = "ok" /\ route.phase = "Stable"
    /\ Become([World EXCEPT !.route = FailCurrentEngine(@), !.engine.dead = TRUE])

------------------------------------------------------------------------------
(* What the pages ask, once the frame has drained them.                     *)

PlayFilm ==
    /\ Press("asks") /\ screen.front /\ screen.page = "Browse"
    /\ \E e \in Stops : Become(PlayHeldOrNow(World, e))

\* The page asks only after a dwell on an idle hero, never in the frame that
\* stopped a trailer under a held film.
PreviewStart ==
    /\ Press("asks") /\ screen.front /\ screen.page = "Browse" /\ preview = "Idle" /\ ~held
    /\ Become(RequestPreview(World))

PreviewStop ==
    /\ Press("asks") /\ screen.front /\ preview # "Idle"
    /\ \E e \in Stops : Become(Halt(World, e))

\* exit_player: the viewer's Back, or the end of the film.
ExitPlayer ==
    /\ Press("asks") /\ screen.front /\ screen.page = "Player"
    /\ \E e \in Stops :
         LET w == CancelPlay([World EXCEPT !.fg = Supersede(@, TRUE)])
         IN  Become([Teardown(w, FALSE, e) EXCEPT !.screen.page = "Browse"])

\* apply_transport, with set_transport_paused and intercept_control.  During the
\* startup, its Load included, a press changes the goal; once the startup is done
\* it is a native command, and the read-out commits what the television accepts.
\* Without an Engine, and when the command is refused, nothing changes.
Transport ==
    /\ Press("asks") /\ screen.front /\ screen.page = "Player"
    /\ route.phase # "Failed" /\ Live(World)
    /\ \E paused \in BOOLEAN :
         Become([World EXCEPT !.engine.goal = paused, !.wish = ClockOf(paused),
                              !.session.paused = IF engine.ready THEN paused ELSE @])

\* retry_failed_playback
Retry ==
    /\ Press("asks") /\ screen.front /\ screen.page = "Player"
    /\ route.phase = "Failed" /\ session.pend = "none"
    /\ \E e \in Stops : Become(RequestFilm(Teardown(World, FALSE, e)))

------------------------------------------------------------------------------
(* One frame, in the order of the loop.                                     *)

NextTurn == [events |-> "after", after |-> "settle", settle |-> "requests",
             requests |-> "asks", asks |-> "events", exit |-> "idle", idle |-> "exit"][turn]

Frame(at) == Running /\ turn = at /\ turn' = NextTurn /\ UNCHANGED presses

PumpStep ==
    /\ Frame("events")
    /\ \E e \in Stops : Become(IF MayRun(World) /\ Live(World) THEN Pump(World, e) ELSE World)

\* A trailer ends only once it has loaded.
AfterPumpStep ==
    /\ Frame("after")
    /\ \E e \in Stops, ended \in BOOLEAN :
         /\ ended => session.preview /\ engine.call = "ok"
         /\ Become(IF MayRun(World) THEN AfterPump(World, ended, e) ELSE World)

\* The foreground lifecycle's polls, then the release machine's.
SettleFlight(w, e) ==
    IF w.screen.front /\ FlightPending(w.fg) THEN Mounted(PollFlight(w, e)) ELSE w

SettleLoad(w, e) == IF MayRun(w) THEN PollLoad(w, e) ELSE w

SettleStep ==
    /\ Frame("settle")
    /\ \E e \in Settling :
         Become(PollRelease(Reap(SettleLoad(SettleFlight(World, e), e)), e))

RequestsStep ==
    /\ Frame("requests")
    /\ \E e \in Stops : Become(ContentRequests(World, e))

LandingStep ==
    /\ Frame("asks")
    /\ \E e \in Landings : Become(Landing(World, e))

------------------------------------------------------------------------------
(* The native threads and the clocks.                                       *)

Elsewhere == UNCHANGED <<turn, presses>>

\* The worker of a resolve or of a resume's rebuild posts its answer.
AnswerDue == /\ Running /\ ~session.answered
             /\ session.pend # "none" \/ ResumeFlightOutstanding(route)

WorkerAnswers ==
    /\ AnswerDue /\ Elsewhere
    /\ Become([World EXCEPT !.session.answered = TRUE])

\* run of native_load.rs: the result is posted first, and a refusal raises the
\* failure flag after it.
LoadReturns(ok) ==
    /\ engine.call = "out" /\ Elsewhere
    /\ Become([World EXCEPT !.engine.call = IF ok THEN "ok" ELSE "bad",
                            !.mail = @ \cup {[attempt |-> engine.attempt, ok |-> ok]}])

FailureDue == engine.call = "bad" /\ ~engine.failed

PublishLoadFailure ==
    /\ FailureDue /\ Elsewhere
    /\ Become([World EXCEPT !.engine.failed = TRUE])

\* load_gate, which an abandoned preview no longer runs
TimeoutDue == /\ engine.call = "out" /\ ~engine.late
              /\ Running /\ preview # "Abandoning" /\ MayRun(World)

LoadTimesOut ==
    /\ TimeoutDue /\ Elsewhere
    /\ Become([World EXCEPT !.engine.late = TRUE])

AbandonedReturns(ok) ==
    /\ slot.abandoned # 0 /\ ~slot.back /\ Elsewhere
    /\ Become([World EXCEPT !.slot.back = TRUE,
                            !.mail = @ \cup {[attempt |-> slot.abandoned, ok |-> ok]}])

UnloadReturns ==
    /\ slot.unload # 0 /\ ~slot.returned /\ Elsewhere
    /\ Become([World EXCEPT !.slot.returned = TRUE])

DeadlineDue == slot.unload # 0 /\ ~slot.late

ReleaseDeadline ==
    /\ DeadlineDue /\ Elsewhere
    /\ Become([World EXCEPT !.slot.late = TRUE])

------------------------------------------------------------------------------
(* Leaving: shutdown, then exit_native, which polls.                        *)

Shutdown ==
    /\ Running /\ turn = "events" /\ turn' = "exit" /\ UNCHANGED presses
    /\ \E e \in Stops :
         LET v == IF Live(World) THEN Teardown(World, FALSE, e) ELSE World
         IN  Become([CancelQueuedStart(v) EXCEPT !.exiting = "leaving"])

Verdict(exit) == CASE exit = "ExitClean" -> "clean"
                   [] exit = "ExitWorkerInFirmware" -> "firmware"
                   [] exit = "ExitWaiting" -> "leaving"

\* Fault: the exit asks the release machine only.
ExitUnawares ==
    /\ exiting = "leaving" /\ turn' = NextTurn /\ UNCHANGED presses
    /\ \E e \in Stops :
         LET v == Reap(World)
             u == DriveRelease(v, FALSE, e)
         IN  Become(IF v.slot.abandoned # 0 THEN [v EXCEPT !.exiting = "firmware"]
                    ELSE [u EXCEPT !.exiting = Verdict(Exit(u.adapter.release))])

\* A preview whose Load has not returned is waited for, up to the deadline.
\* The turns exit and idle alternate, so that a poll is a step even when it
\* changes nothing.
ExitStep ==
    /\ exiting = "leaving" /\ turn' = NextTurn /\ UNCHANGED presses
    /\ \E e \in Stops :
         LET v == Reap(World)
             u == DriveRelease(v, FALSE, e)
         IN  Become(IF Live(World)
                      THEN IF Finished(engine) THEN Teardown(World, FALSE, e)
                           ELSE [World EXCEPT !.exiting = "firmware"]
                    ELSE IF v.slot.abandoned # 0 THEN [v EXCEPT !.exiting = "firmware"]
                    ELSE [u EXCEPT !.exiting = Verdict(Exit(u.adapter.release))])

------------------------------------------------------------------------------

Init ==
    /\ route = IdleRoute
    /\ session = [url |-> FALSE, pend |-> "none", preview |-> FALSE, as_preview |-> FALSE,
                  paused |-> FALSE, answered |-> FALSE]
    /\ preview = "Idle" /\ held = FALSE
    /\ engine = NoEngine /\ mail = {} /\ slot = NoSlot
    /\ adapter = [release |-> Idle, watch |-> NoWatch, admission |-> FALSE]
    /\ fg = Unowed
    /\ screen = [page |-> "Browse", front |-> TRUE]
    /\ exiting = "running" /\ turn = "events" /\ presses = 0 /\ wish = "Playing"

Next ==
    \/ Background \/ DidForeground \/ ClaimParked \/ DecoderRevoked
    \/ StartupDone \/ EngineFails
    \/ PlayFilm \/ PreviewStart \/ PreviewStop \/ Transport \/ ExitPlayer \/ Retry
    \/ PumpStep \/ AfterPumpStep \/ SettleStep \/ RequestsStep \/ LandingStep
    \/ WorkerAnswers
    \/ \E ok \in BOOLEAN : LoadReturns(ok) \/ AbandonedReturns(ok)
    \/ PublishLoadFailure \/ LoadTimesOut \/ UnloadReturns \/ ReleaseDeadline
    \/ Shutdown \/ ExitStep

\* Frames run, the exit polls, the two clocks run, a media thread that has posted its result
\* ends, and a worker's request to the server ends in an answer or a timeout.
\* Nothing is assumed of the firmware's Load and Unload.  Each condition names
\* the one change that only its action makes.
Fairness ==
    /\ WF_turn(exiting \in {"running", "leaving"} /\ turn' = NextTurn)
    /\ WF_session(AnswerDue /\ session' = [session EXCEPT !.answered = TRUE])
    /\ WF_engine(FailureDue /\ engine' = [engine EXCEPT !.failed = TRUE])
    /\ WF_engine(TimeoutDue /\ engine' = [engine EXCEPT !.late = TRUE])
    /\ WF_slot(DeadlineDue /\ slot' = [slot EXCEPT !.late = TRUE])

Spec == Init /\ [][Next]_vars

FairSpec == Spec /\ Fairness

------------------------------------------------------------------------------

TypeOK ==
    /\ route.phase \in Pending \cup {"Idle", "Resolving", "Stable", "Failed"}
    /\ session \in [url : BOOLEAN, pend : {"none", "film", "preview"}, preview : BOOLEAN,
                    as_preview : BOOLEAN, paused : BOOLEAN, answered : BOOLEAN]
    /\ preview \in {"Idle", "Fetching", "Live", "Abandoning"}
    /\ engine.call \in Calls
    /\ fg \in Lifecycle
    /\ adapter.watch.kind \in {"Unwatched", "Watching", "Launched", "Failed"}
    /\ turn \in {"events", "after", "settle", "requests", "asks", "exit", "idle"}
    /\ exiting \in {"running", "leaving", "clean", "firmware"}

\* A trailer's Engine that its queued start launched: EngineOnRoute shows what
\* becomes of it.
Stray == engine.waited

\* The firmware holds at most one object: an Engine's, one whose Unload runs on
\* a worker, or one whose Load was given up (native_executor.rs begin_native_open,
\* release.rs StartRequested).
OneNativeObject == Cardinality({n \in {engine.attempt, slot.unload, slot.abandoned} : n # 0}) <= 1

\* exit_native calls the display clean only when no thread of the player is
\* inside the firmware.
CleanExit == exiting = "clean" => engine.attempt = 0 /\ slot.unload = 0 /\ slot.abandoned = 0

\* An Engine that no page can stop does not exist: it is the player page's, or
\* a trailer's (run.rs finish_landed_play, content.rs off_route_orphan).
EngineOnRoute == Live(World) => screen.page = "Player" \/ session.preview

\* While the firmware is inside the Engine's Load, the route is Starting for
\* exactly this Load, so its answer will count (settle_route_start).
EngineOwned ==
    Live(World) /\ engine.call = "out" /\ ~engine.late
        => /\ route.phase = "Starting"
           /\ route.serial = engine.serial /\ route.attempt = engine.attempt

EngineOnRouteButStray == Stray \/ EngineOnRoute

\* A film's Engine is to pause exactly when the viewer's last press asked for it,
\* across app switches, refused restores and revoked decoders (clock_for_suspend,
\* before_load, set_transport_paused).  The code lets go of a press at five points,
\* where `wish` falls back with it: a refused preparation and the park of a pending
\* restore (the clock of the first park), the park or the refusal of a restore's
\* Load (the clock of its claim), and a dead Engine (the read-out's).
WishHonoured == Live(World) /\ ~session.as_preview => engine.goal = (wish = "Paused")

\* A park that takes a film's Engine saves the clock the viewer last asked for
\* (player/lifecycle.rs clock_for_suspend: the viewer's intent).
ParkSavesWish ==
    [][Live(World) /\ fg.kind # "Suspended" /\ fg'.kind = "Suspended" => fg'.clock = wish]_vars

\* A start that leaves the queue was launched, or the route no longer waits for
\* it: at the deadline, at a stop, at the exit (run_release_effects).
QueuedStartSettled ==
    [][LET q == adapter.release.queued
       IN  q # 0 /\ adapter'.release.queued # q
             => engine'.serial = q \/ PendingRouteStart(route') # q]_vars

\* The route takes only the installed Engine's own Load result, never one that
\* an earlier Load posted late (take_load_outcomes, drain_load_outcomes).
AnswerIsItsOwn ==
    [][route'.last # route.last
         => /\ route'.last.attempt = engine.attempt
            /\ route'.last.ok = (engine.call = "ok")]_vars

\* A restore whose Load the television refused stays to be claimed again; only
\* leaving the player ends it (settled_by_foreground, load_status).
RefusedRestoreStays ==
    [][fg.kind = "LoadPending" /\ engine.attempt = fg.attempt /\ engine.call = "bad"
         /\ ~engine.late /\ fg'.kind = "Idle"
           => screen'.page = "Browse"]_vars

\* The player implements the abstract native object.
Slot == INSTANCE NativeSlot WITH
    holder <- IF engine.attempt # 0 THEN "engine" ELSE IF slot.unload # 0 THEN "unload"
              ELSE IF slot.abandoned # 0 THEN "parked" ELSE "free",
    id <- engine.attempt + slot.unload + slot.abandoned,
    done <- slot.returned \/ slot.back

SlotKept == Slot!SlotSpec

\* A start queued behind an Unload that never returns is refused at the
\* deadline (release.rs Tick).
QueuedStartEnds == HasQueued(adapter.release) ~> ~HasQueued(adapter.release)

\* A restore that waits on a worker or on a queued start is answered, while the
\* window stays in front (poll_foreground_flight).
RestoreEnds == FlightPending(fg) ~> (~FlightPending(fg) \/ ~screen.front \/ ~Running)

\* A Load the firmware never returns from becomes a failure the viewer sees,
\* while playback may run; an abandoned trailer's is the known gap
\* (feed_pump.rs load_gate, preview.rs after_pump).
StartEnds ==
    route.phase = "Starting"
      ~> (route.phase # "Starting" \/ ~MayRun(World) \/ preview = "Abandoning" \/ ~Running)

\* A film held behind a trailer is asked for once the trailer's Load has
\* returned (drain_held_feature, after_pump).
HeldPlays ==
    (held /\ (Live(World) => Finished(engine))) ~> (~held \/ ~MayRun(World) \/ ~Running)

\* Leaving ends, cleanly or with the display left to the system (exit_native).
ExitEnds == exiting = "leaving" ~> exiting \in {"clean", "firmware"}

==============================================================================
