-------------------------- MODULE PlayRestoreProofs --------------------------
(***************************************************************************)
(* The restores of the foreground lifecycle and the landing of plans keep  *)
(* the player coherent; with the handlers of PlayCoherenceProofs that is   *)
(* every step, so the player is coherent throughout (Coherently).  From it *)
(* follow whose Load is out (EngineIsOwned), where an Engine may be        *)
(* (EngineIsOnRoute), which clock a film runs on (WishIsHonoured) and what *)
(* becomes of a refused restore (RefusedStays).                            *)
(***************************************************************************)
EXTENDS PlayCoherenceProofs

------------------------------------------------------------------------------
(* Attempts to start, and what a restore makes of them.                     *)

\* Every attempt to start leaves a well-formed player and the lifecycle where it was,
\* and numbers a new Engine beyond all earlier attempts.
LEMMA StartsMore ==
    ASSUME NEW w \in Player, Good(w), NEW e \in Chance, NEW r, r = StartTracked(w, e)
    PROVE  /\ r.w \in Player /\ Good(r.w) /\ r.w.fg = w.fg /\ r.out \in Outs /\ r.attempt \in Nat
           /\ w.route.serials <= r.w.route.serials /\ w.route.attempts <= r.w.route.attempts
           /\ ~Live(w) /\ Live(r.w) => w.route.attempts < r.w.engine.attempt
  <1>1. Tracked(w, r) /\ r.w \in Player /\ Good(r.w)
    BY StartTrackedTracked
  <1> QED
    BY <1>1 DEF Tracked, Advances, Goes, Untouched, Opened, NoHolder, Live

\* start_bufferfeed_tracked with an Engine installed: the Engine is the pending
\* start's own, or nothing is pending, or the pending start is given up in its favour.
LEMMA LiveStarts ==
    ASSUME NEW w \in Player, Good(w), Live(w), NEW e \in Chance, NEW r, r = StartTracked(w, e),
           w.route.phase \in Pending => w.route.serial # 0
    PROVE  \/ /\ w.route.phase = "Starting" /\ w.route.attempt = w.engine.attempt
              /\ r.w = w /\ r.out = "Launched" /\ r.attempt = w.engine.attempt
           \/ w.route.phase \notin Pending /\ r.w = w /\ r.out = "AlreadyRunning" /\ r.attempt = 0
           \/ /\ w.route.phase \in Pending
              /\ ~(w.route.phase = "Starting" /\ w.route.attempt = w.engine.attempt)
              /\ r.out = "Failed" /\ r.attempt = 0 /\ Stays(w, r.w) /\ r.w.preview = w.preview
              /\ r.w.engine = w.engine /\ r.w.adapter = w.adapter
              /\ r.w.route.under = w.route.under /\ r.w.route.flight = w.route.flight
              /\ r.w.route.last = w.route.last /\ r.w.route.serial = w.route.serial
              /\ r.w.route.serials = w.route.serials /\ r.w.route.attempts = w.route.attempts
              /\ r.w.route.phase = "Failed"
  <1> DEFINE k == ClassifyLiveEngineStart(w.route, w.engine.attempt)
             q == PendingRouteStart(w.route)
  <1>1. CASE w.route.phase = "Starting" /\ w.route.attempt = w.engine.attempt
    <2>1. k = "CurrentAttempt"
      BY <1>1 DEF ClassifyLiveEngineStart
    <2>2. r = Started(w, "Launched", w.engine.attempt)
      BY <2>1 DEF StartTracked
    <2> QED
      BY <1>1, <2>2, StartedFacts
  <1>2. CASE w.route.phase \notin Pending
    <2>1. k = "NoPendingRoute"
      BY <1>2 DEF ClassifyLiveEngineStart, Pending
    <2>2. r = Started(w, "AlreadyRunning", 0)
      BY <2>1 DEF StartTracked
    <2> QED
      BY <1>2, <2>2, StartedFacts
  <1>3. CASE w.route.phase \in Pending
             /\ ~(w.route.phase = "Starting" /\ w.route.attempt = w.engine.attempt)
    <2>1. k = "Conflict"
      BY <1>3 DEF ClassifyLiveEngineStart, Pending
    <2>2. r = Started(AbortStart(w, q, "StartFailed"), "Failed", 0)
      BY <2>1 DEF StartTracked
    <2>3. q = w.route.serial /\ q \in Nat \ {0}
      BY <1>3, NativeFacts, PlayerFacts DEF PendingRouteStart, Route
    <2> HIDE DEF q
    <2> DEFINE v == AbortStart(w, q, "StartFailed")
    <2>4. /\ Stays(w, v) /\ v.preview = w.preview /\ v.engine = w.engine
          /\ v.adapter = w.adapter
      BY <2>3, AbortFields
    <2>6. v.route = Enter(w.route, "Failed", w.route.serial)
      BY <1>3, <2>3 DEF AbortStart, AbortRouteStart, Player
    <2>7. /\ v.route.under = w.route.under /\ v.route.flight = w.route.flight
          /\ v.route.last = w.route.last /\ v.route.serial = w.route.serial
          /\ v.route.serials = w.route.serials /\ v.route.attempts = w.route.attempts
          /\ v.route.phase = "Failed"
      BY <2>6, PlayerFacts DEF Enter, Route
    <2>5. r.w = v /\ r.out = "Failed" /\ r.attempt = 0
      BY <2>2, StartedFacts
    <2> HIDE DEF v
    <2> QED
      BY <1>3, <2>3, <2>4, <2>5, <2>7
  <1> QED
    BY <1>1, <1>2, <1>3 DEF Pending

\* A route that is still resolving starts nothing.
LEMMA BusyStarts ==
    ASSUME NEW w \in Player, ~Live(w), ~MayBegin(w.route), NEW e, NEW r, r = StartTracked(w, e)
    PROVE  r.w = w /\ r.out = "Failed" /\ r.attempt = 0
  <1>1. r = Started(w, "Failed", 0)
    BY DEF StartTracked
  <1> QED
    BY <1>1, StartedFacts

\* The parts of a lifecycle's state.
LEMMA FgFields ==
    ASSUME NEW k, NEW c, NEW s, NEW n, NEW f, f = Fg(k, c, s, n)
    PROVE  f.kind = k /\ f.clock = c /\ f.saved = s /\ f.attempt = n
  BY DEF Fg

\* A restore's Load was launched: the lifecycle follows its attempt, and the player is
\* mounted.
Launches(x, v, c, attempt) ==
    /\ v.fg = Fg("LoadPending", c, c, attempt) /\ v.screen.page = "Player"
    /\ v.engine.serial = x.engine.serial /\ v.engine.attempt = x.engine.attempt
    /\ v.engine.call = x.engine.call /\ v.engine.failed = x.engine.failed
    /\ v.engine.late = x.engine.late /\ v.engine.dead = x.engine.dead
    /\ v.engine.goal = x.engine.goal /\ v.engine.ready = x.engine.ready
    /\ v.engine.waited = x.engine.waited
    /\ v.engine.follows /\ v.adapter.watch = x.adapter.watch

\* What answering a restore's Load comes to: it is followed, watched for in the queue,
\* or refused and may be claimed again.
AnswersLoad(x, out, attempt, c, v) ==
    /\ v.route = x.route /\ v.session = x.session /\ v.preview = x.preview /\ v.held = x.held
    /\ v.mail = x.mail /\ v.slot = x.slot /\ v.exiting = x.exiting /\ v.wish = x.wish
    /\ v.adapter.release = x.adapter.release /\ v.screen.front = x.screen.front
    /\ CASE out = "Launched" -> Launches(x, v, c, attempt)
         [] out = "Deferred" ->
              /\ v.fg = Fg("RecoveryPending", c, c, 0) /\ v.screen = x.screen
              /\ v.engine = x.engine /\ v.adapter.watch.kind = "Watching"
         [] out = "Failed" ->
              /\ v.fg = Fg("Prepared", c, c, 0) /\ v.screen = x.screen
              /\ v.engine = x.engine /\ v.adapter.watch = x.adapter.watch
         [] OTHER -> TRUE

\* start_load's answer, fed back to the lifecycle and mounted.
LEMMA LoadStartedFields ==
    ASSUME NEW r, r.w \in Player, Good(r.w), r.out \in {"Launched", "Deferred", "Failed"},
           r.attempt \in Nat, NEW c \in Clocks,
           NEW f, f = Fg("ClaimLoad", c, c, 0), NEW v, v = Mounted(LoadStarted(f, r))
    PROVE  AnswersLoad(r.w, r.out, r.attempt, c, v)
  <1> DEFINE x == r.w
             d == LoadStarted(f, r)
  <1>0. f.kind = "ClaimLoad" /\ f.clock = c /\ f.saved = c
    BY FgFields
  <1>1. CASE r.out = "Launched"
    <2> DEFINE g == Fg("LoadPending", c, c, r.attempt)
               n == [x.engine EXCEPT !.follows = TRUE]
               p == [x.screen EXCEPT !.page = "Player"]
               y == [x EXCEPT !.engine = n]
               z == [y EXCEPT !.fg = g]
    <2>1. LoadAnswered(f, r.out, r.attempt).f = g
      BY <1>0, <1>1 DEF LoadAnswered, Step
    <2>2. d = Drove(z, TRUE, TRUE)
      BY <1>1, <2>1 DEF LoadStarted
    <2>3. d.w = z /\ d.launched
      BY <2>2 DEF Drove
    <2>4. /\ n.serial = x.engine.serial /\ n.attempt = x.engine.attempt
          /\ n.call = x.engine.call /\ n.failed = x.engine.failed /\ n.late = x.engine.late
          /\ n.dead = x.engine.dead /\ n.waited = x.engine.waited /\ n.follows
          /\ n.goal = x.engine.goal /\ n.ready = x.engine.ready
      BY PlayerFacts DEF Engine
    <2>5. p.page = "Player" /\ p.front = x.screen.front
      BY PlayerFacts DEF Screen
    <2> HIDE DEF n, p, g
    <2>6. /\ z.route = x.route /\ z.session = x.session /\ z.preview = x.preview
          /\ z.held = x.held /\ z.mail = x.mail /\ z.slot = x.slot /\ z.exiting = x.exiting
          /\ z.wish = x.wish /\ z.adapter = x.adapter /\ z.screen = x.screen /\ z.engine = n
          /\ z.fg = g
          /\ DOMAIN z = DOMAIN x
      BY DEF Player
    <2>9. v = [z EXCEPT !.screen = p]
      BY <2>3, <2>6 DEF Mounted, p
    <2>7. DOMAIN x = {"route", "session", "preview", "held", "engine", "mail", "slot", "adapter", "fg",
                      "screen", "exiting", "wish"}
      BY DEF Player
    <2> HIDE DEF z
    <2>8. /\ v.route = z.route /\ v.session = z.session /\ v.preview = z.preview
          /\ v.held = z.held /\ v.mail = z.mail /\ v.slot = z.slot /\ v.exiting = z.exiting
          /\ v.wish = z.wish /\ v.adapter = z.adapter /\ v.engine = z.engine /\ v.fg = z.fg
          /\ v.screen = p
      BY <2>6, <2>7, <2>9
    <2> QED
      BY <1>1, <2>4, <2>5, <2>6, <2>8 DEF AnswersLoad, Launches, g
  <1>2. CASE r.out = "Deferred"
    <2> DEFINE g == Fg("RecoveryPending", c, c, 0)
               k == [kind |-> "Watching", attempt |-> 0]
               a == [x.adapter EXCEPT !.watch = k]
               y == [x EXCEPT !.adapter = a]
               z == [y EXCEPT !.fg = g]
    <2>1. LoadAnswered(f, r.out, r.attempt).f = g
      BY <1>0, <1>2 DEF LoadAnswered, Quiet, Step
    <2>2. d = Drove(z, TRUE, FALSE)
      BY <1>2, <2>1 DEF LoadStarted
    <2>3. d.w = z /\ ~d.launched
      BY <2>2 DEF Drove
    <2>4. a.release = x.adapter.release /\ a.watch.kind = "Watching"
      BY PlayerFacts DEF Adapter
    <2> HIDE DEF a, g
    <2>5. v = z
      BY <2>3 DEF Mounted
    <2>6. /\ z.route = x.route /\ z.session = x.session /\ z.preview = x.preview
          /\ z.held = x.held /\ z.mail = x.mail /\ z.slot = x.slot /\ z.exiting = x.exiting
          /\ z.wish = x.wish /\ z.engine = x.engine /\ z.screen = x.screen /\ z.adapter = a
          /\ z.fg = g
      BY DEF Player
    <2> QED
      BY <1>2, <2>4, <2>5, <2>6 DEF AnswersLoad, g
  <1>3. CASE r.out = "Failed"
    <2> DEFINE g == Fg("Prepared", c, c, 0)
               z == [x EXCEPT !.fg = g]
    <2>1. LoadAnswered(f, r.out, r.attempt).f = g
      BY <1>0, <1>3 DEF LoadAnswered, Step
    <2>2. d = Drove(z, TRUE, FALSE)
      BY <1>3, <2>1 DEF LoadStarted
    <2>3. d.w = z /\ ~d.launched
      BY <2>2 DEF Drove
    <2> HIDE DEF g
    <2>5. v = z
      BY <2>3 DEF Mounted
    <2>6. /\ z.route = x.route /\ z.session = x.session /\ z.preview = x.preview
          /\ z.held = x.held /\ z.mail = x.mail /\ z.slot = x.slot /\ z.exiting = x.exiting
          /\ z.wish = x.wish /\ z.engine = x.engine /\ z.screen = x.screen
          /\ z.adapter = x.adapter /\ z.fg = g
      BY DEF Player
    <2> QED
      BY <1>3, <2>5, <2>6 DEF AnswersLoad, g
  <1> QED
    BY <1>1, <1>2, <1>3

------------------------------------------------------------------------------
(* The Load of a restore.                                                   *)

\* The release machine was polled for the start that the restore waits for.
Patient(w) == w.fg.kind = "RecoveryPending" => ~w.slot.returned /\ ~w.slot.late

\* What a restore's Load comes to, from the state w in which it may be claimed.
Reloaded(w, v) ==
    LET c == w.fg.clock
        s == NextSerial(w.route)
        n == v.engine
    IN  /\ v \in Player /\ Good(v) /\ v.fg \in Lifecycle
        /\ v.session.url = w.session.url /\ v.session.pend = w.session.pend
        /\ v.session.preview = w.session.preview /\ v.session.as_preview = w.session.as_preview
        /\ (v.session.paused <=> c = "Paused")
        /\ v.held = w.held /\ v.wish = w.wish /\ v.exiting = w.exiting /\ v.mail = w.mail
        /\ v.screen.front = w.screen.front
        /\ v.preview \in {w.preview, "Idle"} \/ (w.preview = "Fetching" /\ v.preview = "Live")
        /\ w.route.serials <= v.route.serials /\ w.route.attempts <= v.route.attempts
        /\ Live(v) => w.route.attempts < n.attempt
        /\ v.route.under = w.route.under /\ v.route.flight = w.route.flight
        /\ v.route.last = w.route.last
        /\ v.adapter.release.kind = "Overdue" => Queued(v) = 0
        /\ v.fg.clock = c /\ v.fg.saved = c
        /\ \/ /\ v.fg.kind = "Prepared" /\ w.route.phase = "Resolving"
              /\ v.route.phase = "Resolving"
              /\ v.screen = w.screen /\ v.engine = w.engine /\ Queued(v) = Queued(w)
           \/ /\ v.fg.kind = "Prepared" /\ w.route.phase # "Resolving" /\ Queued(v) = 0
              /\ \/ v.route.phase = "Failed" /\ v.route.serial = s
                 \/ v.route.phase = "Stable" /\ w.route.phase \in {"Preparing", "Stable"}
              /\ NoLoad(w.engine, n) /\ v.screen = w.screen
           \/ /\ v.fg.kind = "LoadPending" /\ v.fg.attempt = n.attempt /\ Queued(v) = 0
              /\ w.route.phase # "Resolving"
              /\ v.screen.page = "Player" /\ n.follows /\ ~n.waited /\ n.serial = s
              /\ n.attempt # 0 /\ n.call = "out" /\ ~n.failed /\ ~n.late /\ ~n.dead
              /\ (n.goal <=> c = "Paused") /\ ~n.ready
              /\ v.route.phase = "Starting" /\ v.route.serial = s /\ v.route.attempt = n.attempt
           \/ /\ v.fg.kind = "RecoveryPending" /\ Queued(v) = s /\ s # 0 /\ v.screen = w.screen
              /\ w.route.phase # "Resolving"
              /\ n = w.engine /\ v.adapter.watch.kind = "Watching"
              /\ ~v.slot.returned /\ ~v.slot.late
              /\ v.route.phase \in {"Preparing", "Prepared"} /\ v.route.serial = s
              /\ v.route.phase = "Preparing" <=> w.route.phase \in {"Preparing", "Stable"}

\* A restore's Load keeps the player coherent, whichever way the start went.
LEMMA ReloadedWhole ==
    ASSUME NEW w, NEW t, t \in {"events", "settle"}, Whole(w, t), w.fg.kind = "Prepared",
           w.fg.clock = w.fg.saved, w.session.pend # "none" => w.fg.clock = "Playing",
           w.screen.front, NEW v, Reloaded(w, v)
    PROVE  Whole(v, t) /\ Front(v) /\ Patient(v)
  <1>1. /\ w \in Player /\ Good(w) /\ w.fg \in Lifecycle /\ Typed(w)
        /\ v \in Player /\ Good(v) /\ v.fg \in Lifecycle /\ Typed(v)
    BY TypedFacts DEF Whole, Reloaded
  <1>2. w.route.phase \in Phases
    BY <1>1, PlayerFacts DEF Route
  <1>3. w.route.serial <= w.route.serials
    BY <1>1 DEF Good, QueueInv, Issued
  <1>4. Front(v) /\ Patient(v)
    BY DEF Front, Reloaded, Patient
  <1> HIDE DEF Phases
  <1>20. Core(v) /\ Coherent(v, t)
    <2> USE DEF Whole, Coherent, Core, Owned, OnRoute, IdleHeard, Numbered, Loaded, Asked, Waits,
       Shown, Parked, Restores, Paged, Typed, Live, Playing, Heard, ClockIs, Queued, Pending,
       StableBelow, MayRequest, PendingRouteStart, ResumeFlightOutstanding, Parks
    <2>1. Owned(v)
      BY <1>1, <1>2, <1>3 DEF Reloaded, NextSerial, NoLoad, Phases
    <2>2. OnRoute(v)
      BY <1>1, <1>2, <1>3 DEF Reloaded, NextSerial, NoLoad, Phases
    <2>3. IdleHeard(v)
      BY <1>1, <1>2, <1>3 DEF Reloaded, NextSerial, NoLoad, Phases
    <2>4. Numbered(v)
      BY <1>1, <1>2, <1>3 DEF Reloaded, NextSerial, NoLoad, Phases
    <2>5. Loaded(v)
      BY <1>1, <1>2, <1>3 DEF Reloaded, NextSerial, NoLoad, Phases
    <2>6. Asked(v, t)
      BY <1>1, <1>2, <1>3 DEF Reloaded, NextSerial, NoLoad, Phases
    <2>7. Waits(v)
      BY <1>1, <1>2, <1>3 DEF Reloaded, NextSerial, NoLoad, Phases
    <2>8. Shown(v, t)
      BY <1>1, <1>2, <1>3 DEF Reloaded, NextSerial, NoLoad, Phases
    <2>9. Parked(v, t)
      BY <1>1, <1>2, <1>3 DEF Reloaded, NextSerial, NoLoad, Phases
    <2>10. Restores(v, t)
      BY <1>1, <1>2, <1>3 DEF Reloaded, NextSerial, NoLoad, Phases
    <2>11. Paged(v)
      BY <1>1, <1>2, <1>3 DEF Reloaded, NextSerial, NoLoad, Phases
    <2> QED
      BY <2>1, <2>2, <2>3, <2>4, <2>5, <2>6, <2>7, <2>8, <2>9, <2>10, <2>11
  <1> QED
    BY <1>1, <1>4, <1>20 DEF Whole

\* before_load gives an Engine that is to be built the clock of the claim.
LEMMA BeforeFields ==
    ASSUME NEW w \in Player, Good(w), ~Live(w), NEW b, b = BeforeLoad(w)
    PROVE  /\ b \in Player /\ Good(b) /\ b.route = w.route /\ b.preview = w.preview
           /\ b.held = w.held /\ b.engine = w.engine /\ b.mail = w.mail /\ b.adapter = w.adapter
           /\ b.fg = w.fg /\ b.screen = w.screen /\ b.exiting = w.exiting /\ b.wish = w.wish
           /\ b.session.url = w.session.url /\ b.session.pend = w.session.pend
           /\ b.session.preview = w.session.preview
           /\ b.session.as_preview = w.session.as_preview
           /\ b.session.paused <=> w.fg.clock = "Paused"
  <1> DEFINE s == [w.session EXCEPT !.paused = w.fg.clock = "Paused"]
  <1>1. b = [w EXCEPT !.session = s]
    BY DEF BeforeLoad
  <1>2. /\ s.url = w.session.url /\ s.pend = w.session.pend /\ s.preview = w.session.preview
        /\ s.as_preview = w.session.as_preview /\ (s.paused <=> w.fg.clock = "Paused")
    BY PlayerFacts DEF Session
  <1>3. b \in Player /\ Good(b)
    BY BeforeLoadAside, AsideBeside DEF Aside
  <1> HIDE DEF s
  <1>4. /\ b.route = w.route /\ b.preview = w.preview /\ b.held = w.held /\ b.engine = w.engine
        /\ b.mail = w.mail /\ b.adapter = w.adapter /\ b.fg = w.fg /\ b.screen = w.screen
        /\ b.exiting = w.exiting /\ b.wish = w.wish /\ b.session = s
    BY <1>1 DEF Player
  <1> QED
    BY <1>2, <1>3, <1>4

\* The state x claims the Load that the restore of w stands ready for.
ClaimsLoad(w, x) ==
    /\ x \in Player /\ Good(x)
    /\ w.fg.kind = "Prepared" /\ w.fg.saved = w.fg.clock
    /\ x.fg = Fg("ClaimLoad", w.fg.clock, w.fg.clock, 0)
    /\ x.route = w.route /\ x.preview = w.preview /\ x.held = w.held /\ x.engine = w.engine
    /\ x.mail = w.mail /\ x.adapter = w.adapter /\ x.screen = w.screen /\ x.exiting = w.exiting
    /\ x.wish = w.wish
    /\ x.session.url = w.session.url /\ x.session.pend = w.session.pend
    /\ x.session.preview = w.session.preview /\ x.session.as_preview = w.session.as_preview

\* The Load of a restore that was prepared, from before_load to
\* finish_foreground_launch.
LEMMA RunLoadReloaded ==
    ASSUME NEW w, NEW t, Whole(w, t), NEW x, ClaimsLoad(w, x), NEW e \in Chance,
           NEW v, v = Mounted(RunLoad(x, e))
    PROVE  Reloaded(w, v)
  <1> DEFINE c == w.fg.clock
             f == Fg("ClaimLoad", c, c, 0)
             b == BeforeLoad(x)
             r == StartTracked(b, e)
             s == NextSerial(w.route)
  <1>1. /\ w \in Player /\ Good(w) /\ w.fg \in Lifecycle /\ Typed(w) /\ x \in Player /\ Good(x)
        /\ x.fg = f /\ c \in Clocks
    BY TypedFacts DEF Whole, ClaimsLoad, Typed, Clocks
  <1>2. ~Live(x) /\ ~Live(w) /\ w.route.phase # "Starting"
    BY DEF Whole, Coherent, Core, Owned, Parked, Parks, ClaimsLoad, Live
  <1>3. f.kind = "ClaimLoad" /\ f.clock = c
    BY FgFields
  <1>14. v \in Player /\ Good(v) /\ v.fg \in Lifecycle
    <2>1. Answers(x, RunLoad(x, e))
      BY <1>1, <1>3, RunLoadAnswers
    <2>2. RunLoad(x, e).w \in Player /\ Good(RunLoad(x, e).w) /\ RunLoad(x, e).w.fg \in Lifecycle
      BY <2>1 DEF Answers, Advances, Goes
    <2> QED
      BY <2>2, MountedAside, AsideBeside DEF Aside
  <1>4. v = Mounted(LoadStarted(f, r))
    BY <1>1 DEF RunLoad
  <1> HIDE DEF f
  <1>5. /\ b \in Player /\ Good(b) /\ b.route = x.route /\ b.preview = x.preview
        /\ b.held = x.held /\ b.engine = x.engine /\ b.mail = x.mail /\ b.adapter = x.adapter
        /\ b.fg = x.fg /\ b.screen = x.screen /\ b.exiting = x.exiting /\ b.wish = x.wish
        /\ b.session.url = x.session.url /\ b.session.pend = x.session.pend
        /\ b.session.preview = x.session.preview /\ b.session.as_preview = x.session.as_preview
        /\ b.session.paused <=> c = "Paused"
    BY <1>1, <1>2, <1>3, BeforeFields
  <1> HIDE DEF b
  <1>6. /\ b.route = w.route /\ b.preview = w.preview /\ b.held = w.held /\ b.engine = w.engine
        /\ b.mail = w.mail /\ b.adapter = w.adapter /\ b.screen = w.screen
        /\ b.exiting = w.exiting /\ b.wish = w.wish
        /\ b.session.url = w.session.url /\ b.session.pend = w.session.pend
        /\ b.session.preview = w.session.preview /\ b.session.as_preview = w.session.as_preview
        /\ b.session.paused <=> c = "Paused"
    BY <1>5 DEF ClaimsLoad
  <1>7. /\ r.w \in Player /\ Good(r.w) /\ r.w.fg = b.fg /\ r.out \in Outs /\ r.attempt \in Nat
        /\ w.route.serials <= r.w.route.serials /\ w.route.attempts <= r.w.route.attempts
        /\ Live(r.w) => w.route.attempts < r.w.engine.attempt
    BY <1>2, <1>5, <1>6, StartsMore DEF Live
  <1>8. ~Live(b)
    BY <1>2, <1>6 DEF Live
  <1>9. CASE w.route.phase = "Resolving"
    <2>1. ~MayBegin(b.route)
      BY <1>6, <1>9 DEF MayBegin
    <2>2. r.w = b /\ r.out = "Failed" /\ r.attempt = 0
      BY <1>5, <1>8, <2>1, BusyStarts
    <2>3. AnswersLoad(r.w, r.out, r.attempt, c, v)
      BY <1>1, <1>4, <1>7, <2>2, LoadStartedFields DEF f
    <2> HIDE DEF r
    <2>4. v.fg = Fg("Prepared", c, c, 0)
      BY <2>2, <2>3 DEF AnswersLoad
    <2>5. v.fg.kind = "Prepared" /\ v.fg.clock = c /\ v.fg.saved = c
      BY <2>4, FgFields
    <2>6. w.adapter.release.kind = "Overdue" => Queued(w) = 0
      BY DEF Whole, Coherent, Numbered
    <2>7. AnswersLoad(b, "Failed", 0, c, v)
      BY <2>2, <2>3
    <2>8. ~Live(v)
      BY <1>8, <2>7 DEF AnswersLoad, Live
    <2>9. w.route.serials <= v.route.serials /\ w.route.attempts <= v.route.attempts
      BY <1>1, <1>6, <2>7 DEF AnswersLoad, Typed
    <2> QED
      BY <1>6, <1>9, <1>14, <2>5, <2>6, <2>7, <2>8, <2>9 DEF AnswersLoad, Reloaded, Queued
  <1>10. CASE w.route.phase # "Resolving"
    <2>1. /\ MayBegin(b.route) /\ b.route.phase # "Starting"
          /\ (b.route.phase \in Pending => b.route.serial # 0)
          /\ (b.adapter.release.kind = "Overdue" => b.adapter.release.queued = 0)
      BY <1>2, <1>6, <1>10 DEF MayBegin, Whole, Coherent, Numbered, Queued
    <2>2. Starts(b, r)
      BY <1>5, <1>8, <2>1, StartTrackedStarts
    <2>3. r.out \in {"Launched", "Deferred", "Failed"}
      BY <2>2 DEF Starts
    <2>4. AnswersLoad(r.w, r.out, r.attempt, c, v)
      BY <1>1, <1>4, <1>7, <2>3, LoadStartedFields DEF f
    <2>5. Queued(w) = 0
      BY DEF Whole, Coherent, Parked, Parks, ClaimsLoad
    <2>6. s # 0 /\ s = NextSerial(b.route)
      BY <1>1, <1>6 DEF Whole, Coherent, Numbered, NextSerial, Typed
    <2>10. b.adapter.release.queued = 0
      BY <1>6, <2>5 DEF Queued
    <2> HIDE DEF r, s
    <2>7. /\ Stays(b, r.w) /\ r.w.route.under = w.route.under
          /\ r.w.route.flight = w.route.flight /\ r.w.route.last = w.route.last
          /\ (r.w.preview \in {w.preview, "Idle"} \/ (w.preview = "Fetching" /\ r.w.preview = "Live"))
          /\ (r.w.adapter.release.kind = "Overdue" => r.w.adapter.release.queued = 0)
      BY <1>6, <2>2 DEF Starts
    <2>8. /\ v.route = r.w.route /\ v.session = r.w.session /\ v.preview = r.w.preview
          /\ v.held = r.w.held /\ v.mail = r.w.mail /\ v.slot = r.w.slot
          /\ v.exiting = r.w.exiting /\ v.wish = r.w.wish
          /\ v.adapter.release = r.w.adapter.release /\ v.screen.front = r.w.screen.front
      BY <2>4 DEF AnswersLoad
    <2>9. /\ v.session.url = w.session.url /\ v.session.pend = w.session.pend
          /\ v.session.preview = w.session.preview
          /\ v.session.as_preview = w.session.as_preview
          /\ (v.session.paused <=> c = "Paused")
          /\ v.held = w.held /\ v.wish = w.wish /\ v.exiting = w.exiting /\ v.mail = w.mail
          /\ v.screen.front = w.screen.front
          /\ v.preview \in {w.preview, "Idle"} \/ (w.preview = "Fetching" /\ v.preview = "Live")
          /\ w.route.serials <= v.route.serials /\ w.route.attempts <= v.route.attempts
          /\ v.route.under = w.route.under /\ v.route.flight = w.route.flight
          /\ v.route.last = w.route.last
          /\ v.adapter.release.kind = "Overdue" => Queued(v) = 0
          /\ r.w.screen = w.screen
      BY <1>6, <1>7, <2>7, <2>8 DEF Stays, Queued
    <2>11. CASE r.out = "Failed"
      <3>1. v.fg = Fg("Prepared", c, c, 0) /\ v.screen = w.screen /\ v.engine = r.w.engine
        BY <2>4, <2>9, <2>11 DEF AnswersLoad
      <3>2. v.fg.kind = "Prepared" /\ v.fg.clock = c /\ v.fg.saved = c
        BY <3>1, FgFields
      <3>3. /\ v.adapter.release.queued = 0
            /\ \/ v.route.phase = "Failed" /\ v.route.serial = s
               \/ v.route.phase = "Stable" /\ w.route.phase \in {"Preparing", "Stable"}
            /\ NoLoad(w.engine, v.engine)
        BY <1>6, <2>2, <2>6, <2>8, <2>10, <2>11, <3>1 DEF Starts
      <3>4. ~Live(v)
        BY <3>3 DEF NoLoad, Live
      <3> QED
        BY <1>10, <1>14, <2>9, <3>1, <3>2, <3>3, <3>4 DEF Reloaded, Queued, s
    <2>12. CASE r.out = "Launched"
      <3>1. v.fg = Fg("LoadPending", c, c, r.attempt) /\ Launches(r.w, v, c, r.attempt)
        BY <2>4, <2>12 DEF AnswersLoad, Launches
      <3>2. /\ v.fg.kind = "LoadPending" /\ v.fg.clock = c /\ v.fg.saved = c
            /\ v.fg.attempt = r.attempt
        BY <3>1, FgFields
      <3>3. /\ v.adapter.release.queued = 0 /\ r.attempt = r.w.engine.attempt
            /\ NewLoad(r.w.engine, s, b.session.paused) /\ ~r.w.engine.waited
            /\ v.route.phase = "Starting" /\ v.route.serial = s
            /\ v.route.attempt = r.w.engine.attempt
        BY <2>2, <2>6, <2>8, <2>12 DEF Starts
      <3>4. Live(v) => w.route.attempts < v.engine.attempt
        BY <1>7, <3>1 DEF Launches, Live
      <3>5. (v.engine.goal <=> c = "Paused") /\ ~v.engine.ready
        BY <1>5, <3>1, <3>3, ZenonT(30) DEF Launches, NewLoad
      <3> QED
        BY <1>10, <1>14, <2>9, <3>1, <3>2, <3>3, <3>4, <3>5
        DEF Reloaded, Queued, s, Launches, NewLoad
    <2>13. CASE r.out = "Deferred"
      <3>1. v.fg = Fg("RecoveryPending", c, c, 0) /\ v.screen = w.screen /\ v.engine = r.w.engine
            /\ v.adapter.watch.kind = "Watching"
        BY <2>4, <2>9, <2>13 DEF AnswersLoad
      <3>2. v.fg.kind = "RecoveryPending" /\ v.fg.clock = c /\ v.fg.saved = c
        BY <3>1, FgFields
      <3>3. /\ v.adapter.release.queued = s /\ v.engine = w.engine
            /\ v.route.phase \in {"Preparing", "Prepared"} /\ v.route.serial = s
            /\ (v.route.phase = "Preparing" <=> w.route.phase \in {"Preparing", "Stable"})
            /\ ~v.slot.returned /\ ~v.slot.late
        BY <1>6, <2>2, <2>6, <2>8, <2>13, <3>1 DEF Starts
      <3>4. ~Live(v)
        BY <1>2, <3>3 DEF Live
      <3> QED
        BY <1>10, <1>14, <2>6, <2>9, <3>1, <3>2, <3>3, <3>4 DEF Reloaded, Queued, s
    <2> QED
      BY <2>3, <2>11, <2>12, <2>13
  <1> QED
    BY <1>9, <1>10

------------------------------------------------------------------------------
(* Preparing a restore.                                                     *)

\* Running the Load of a prepared restore keeps the player coherent.
LEMMA LoadWhole ==
    ASSUME NEW w, NEW t, t \in {"events", "settle"}, Whole(w, t), w.screen.front,
           w.session.pend # "none" => w.fg.clock = "Playing",
           NEW x, ClaimsLoad(w, x), NEW e \in Chance, NEW v, v = Mounted(RunLoad(x, e))
    PROVE  Whole(v, t) /\ Front(v) /\ Patient(v)
  <1>1. Reloaded(w, v)
    BY RunLoadReloaded
  <1>2. w.fg.kind = "Prepared" /\ w.fg.clock = w.fg.saved
    BY DEF ClaimsLoad
  <1> HIDE DEF Whole
  <1> QED
    BY <1>1, <1>2, ReloadedWhole

\* The answer to Prepare: the restore waits for the flight, goes back to the clock the
\* park saved, or goes on to its Load.
LEMMA PrepareRuns ==
    ASSUME NEW x \in Player, Good(x), x.fg.kind \in {"ClaimPrepare", "PreparePending"},
           NEW answer \in {"Pending", "Refused", "Prepared"}, NEW e \in Chance,
           NEW v, v = Mounted(RunPrepareAnswered(x, answer, e))
    PROVE  /\ answer = "Pending" =>
                /\ v \in Player /\ Good(v)
                /\ v.fg = Fg("PreparePending", x.fg.clock, x.fg.saved, 0)
                /\ v.route = x.route /\ v.session = x.session /\ v.preview = x.preview
                /\ v.held = x.held /\ v.engine = x.engine /\ v.mail = x.mail
                /\ v.adapter = x.adapter /\ v.screen = x.screen /\ v.exiting = x.exiting
                /\ v.wish = x.wish
           /\ answer = "Refused" =>
                /\ v \in Player /\ Good(v) /\ v.fg = SuspendedAt(x.fg.saved)
                /\ v.wish = x.fg.saved
                /\ v.route = x.route /\ v.session = x.session /\ v.preview = x.preview
                /\ v.held = x.held /\ v.engine = x.engine /\ v.mail = x.mail
                /\ v.adapter = x.adapter /\ v.screen = x.screen /\ v.exiting = x.exiting
           /\ answer = "Prepared" =>
                \E u : /\ u \in Player /\ Good(u)
                       /\ u.fg = Fg("ClaimLoad", x.fg.clock, x.fg.clock, 0)
                       /\ u.route = x.route /\ u.session = x.session /\ u.preview = x.preview
                       /\ u.held = x.held /\ u.engine = x.engine /\ u.mail = x.mail
                       /\ u.adapter = x.adapter /\ u.screen = x.screen /\ u.exiting = x.exiting
                       /\ u.wish = x.wish
                       /\ v = Mounted(RunLoad(u, e))
  <1> DEFINE s == PrepareAnswered(x.fg, answer)
             y == [x EXCEPT !.fg = s.f, !.wish = IF answer = "Refused" THEN x.fg.saved ELSE @]
             d == RunPrepareAnswered(x, answer, e)
  <1>0. x.fg.clock \in Clocks /\ x.fg.saved \in Clocks /\ x.fg \in Machine
    BY PlayerFacts, MachineFacts
  <1>1. d = IF s.effect = "Load" THEN RunLoad(y, e) ELSE Drove(y, TRUE, FALSE)
    BY DEF RunPrepareAnswered
  <1>2. CASE answer = "Pending"
    <2> DEFINE g == Fg("PreparePending", x.fg.clock, x.fg.saved, 0)
    <2>1. s.f = g /\ s.effect = "None"
      BY <1>2 DEF PrepareAnswered, Quiet, Step
    <2>2. y = [x EXCEPT !.fg = g]
      BY <1>2, <2>1 DEF Player
    <2>3. g \in Machine
      BY <1>0, KindFacts, FgFacts
    <2> HIDE DEF g, s, y
    <2>4. d = Drove(y, TRUE, FALSE)
      BY <1>1, <2>1
    <2>5. v = y
      BY <2>4 DEF Mounted, Drove
    <2>6. /\ v \in Player /\ Good(v) /\ v.fg = g
          /\ v.route = x.route /\ v.session = x.session /\ v.preview = x.preview
          /\ v.held = x.held /\ v.engine = x.engine /\ v.mail = x.mail /\ v.adapter = x.adapter
          /\ v.screen = x.screen /\ v.exiting = x.exiting /\ v.wish = x.wish
      BY <2>2, <2>3, <2>5, SetFgFields
    <2> QED
      BY <1>2, <2>6 DEF g
  <1>3. CASE answer = "Refused"
    <2> DEFINE g == SuspendedAt(x.fg.saved)
    <2>1. s.f = g /\ s.effect = "None"
      BY <1>3 DEF PrepareAnswered, Quiet, Step
    <2>2. y = [x EXCEPT !.fg = g, !.wish = x.fg.saved]
      BY <1>3, <2>1
    <2>3. g \in Machine
      BY <1>0, UnowedFacts, LifecycleMachine
    <2> HIDE DEF g, s, y
    <2>4. d = Drove(y, TRUE, FALSE)
      BY <1>1, <2>1
    <2>5. v = y
      BY <2>4 DEF Mounted, Drove
    <2>6. /\ v \in Player /\ v.fg = g /\ v.wish = x.fg.saved
          /\ v.route = x.route /\ v.session = x.session /\ v.preview = x.preview
          /\ v.held = x.held /\ v.engine = x.engine /\ v.mail = x.mail /\ v.slot = x.slot
          /\ v.adapter = x.adapter /\ v.screen = x.screen /\ v.exiting = x.exiting
      BY <1>0, <2>2, <2>3, <2>5, ZenonT(30) DEF Player
    <2>7. Good(v)
      BY <2>6, KeepsGood
    <2> QED
      BY <1>3, <2>6, <2>7 DEF g
  <1>4. CASE answer = "Prepared"
    <2> DEFINE g == Fg("ClaimLoad", x.fg.clock, x.fg.clock, 0)
    <2>1. s.f = g /\ s.effect = "Load"
      BY <1>4 DEF PrepareAnswered, Step
    <2>2. y = [x EXCEPT !.fg = g]
      BY <1>4, <2>1 DEF Player
    <2>3. g \in Machine
      BY <1>0, KindFacts, FgFacts
    <2> HIDE DEF g, s, y
    <2>4. d = RunLoad(y, e)
      BY <1>1, <2>1
    <2>6. /\ y \in Player /\ Good(y) /\ y.fg = g
          /\ y.route = x.route /\ y.session = x.session /\ y.preview = x.preview
          /\ y.held = x.held /\ y.engine = x.engine /\ y.mail = x.mail /\ y.adapter = x.adapter
          /\ y.screen = x.screen /\ y.exiting = x.exiting /\ y.wish = x.wish
      BY <2>2, <2>3, SetFgFields
    <2> QED
      BY <1>4, <2>4, <2>6 DEF g
  <1> QED
    BY <1>2, <1>3, <1>4

\* Where a resume's flight leaves the route.
FlightUp(c, d) ==
    /\ c.phase \in {"Prepared", "Failed", "Stable"} /\ d.under = c.under /\ d.last = c.last
    /\ d.attempts = c.attempts
    /\ d.phase = "Preparing" /\ d.flight = d.serial /\ c.serials <= d.serials
    /\ d.serial = IF c.phase = "Stable" THEN c.serials + 1 ELSE c.serial
    /\ d.serials = IF c.phase = "Stable" THEN c.serials + 1 ELSE c.serials

\* Where a resume's flight that could not be started leaves the route.
FlightRefused(c, d) ==
    /\ c.phase \in {"Prepared", "Failed", "Stable"} /\ d.under = c.under /\ d.last = c.last
    /\ d.attempts = c.attempts
    /\ d.phase = "Failed" /\ d.flight = 0 /\ c.serials <= d.serials
    /\ d.serial = IF c.phase = "Stable" THEN c.serials + 1 ELSE c.serial

\* begin_resume_flight flies under the start's own serial, a fresh one from a stable
\* route; landing it refused fails that serial.
LEMMA FlightRoute ==
    ASSUME NEW c \in Route, Issued(c), MayFly(c), c.phase # "Starting",
           NEW d, d = BeginResumeFlight(c)
    PROVE  FlightUp(c, d) /\ FlightRefused(c, LandResumeFlight(d, FALSE))
  <1>1. c.phase \in {"Prepared", "Failed", "Stable"} /\ c.serials \in Nat /\ c.serial \in Nat
    BY DEF MayFly, Route
  <1>2. d \in Route
    BY FlightMovesOn DEF MovedOn
  <1>3. FlightUp(c, d)
    <2>1. CASE c.phase = "Stable"
      <3> DEFINE x == Fresh(c, "Preparing")
      <3>1. /\ x.under = c.under /\ x.last = c.last /\ x.attempts = c.attempts
            /\ x.phase = "Preparing" /\ x.serial = c.serials + 1
            /\ x.serials = c.serials + 1
        BY DEF Fresh, Enter, Route
      <3>2. d = [x EXCEPT !.flight = x.serial]
        BY <2>1 DEF BeginResumeFlight
      <3>3. DOMAIN x = DOMAIN c /\ "flight" \in DOMAIN c
        BY DEF Fresh, Enter, Route
      <3> HIDE DEF x
      <3>4. /\ d.under = x.under /\ d.last = x.last /\ d.attempts = x.attempts
            /\ d.phase = x.phase /\ d.serial = x.serial /\ d.serials = x.serials
            /\ d.flight = x.serial
        BY <3>2, <3>3
      <3> QED
        BY <1>1, <2>1, <3>1, <3>4 DEF FlightUp
    <2>2. CASE c.phase # "Stable"
      <3> DEFINE x == Enter(c, "Preparing", c.serial)
      <3>1. /\ x.under = c.under /\ x.last = c.last /\ x.attempts = c.attempts
            /\ x.serials = c.serials /\ x.phase = "Preparing" /\ x.serial = c.serial
        BY DEF Enter, Route
      <3>2. d = [x EXCEPT !.flight = x.serial]
        BY <2>2 DEF BeginResumeFlight
      <3>3. DOMAIN x = DOMAIN c /\ "flight" \in DOMAIN c
        BY DEF Enter, Route
      <3> HIDE DEF x
      <3>4. /\ d.under = x.under /\ d.last = x.last /\ d.attempts = x.attempts
            /\ d.phase = x.phase /\ d.serial = x.serial /\ d.serials = x.serials
            /\ d.flight = x.serial
        BY <3>2, <3>3
      <3> QED
        BY <1>1, <2>2, <3>1, <3>4 DEF FlightUp
    <2> QED
      BY <2>1, <2>2
  <1> DEFINE y == LandResumeFlight(d, FALSE)
  <1>4. /\ y.under = d.under /\ y.last = d.last /\ y.attempts = d.attempts
        /\ y.serials = d.serials /\ y.serial = d.serial /\ y.phase = "Failed" /\ y.flight = 0
    BY <1>2 DEF LandResumeFlight, Enter, Route
  <1> HIDE DEF y
  <1>5. FlightRefused(c, y)
    BY <1>3, <1>4 DEF FlightUp, FlightRefused
  <1> QED
    BY <1>3, <1>5 DEF y

\* What beginning a resume comes to.
Resumed(w, x, answer) ==
    /\ x \in Player /\ Good(x)
    /\ x.preview = w.preview /\ x.held = w.held /\ x.engine = w.engine /\ x.mail = w.mail
    /\ x.adapter = w.adapter /\ x.fg = w.fg /\ x.screen = w.screen /\ x.exiting = w.exiting
    /\ x.wish = w.wish
    /\ x.session.url = w.session.url /\ x.session.pend = w.session.pend
    /\ x.session.preview = w.session.preview /\ x.session.as_preview = w.session.as_preview
    /\ x.session.paused = w.session.paused
    /\ \/ answer = "Pending" /\ FlightUp(w.route, x.route) /\ w.session.url
       \/ answer = "Refused" /\ (x = w \/ FlightRefused(w.route, x.route))
       \/ answer = "Prepared" /\ x = w

\* begin_resume: the rebuild is in flight, refused, or not needed.
LEMMA ResumeFields ==
    ASSUME NEW w \in Player, Good(w), w.route.phase # "Starting", NEW e \in Chance,
           NEW b, b = BeginResume(w, e)
    PROVE  Resumed(w, b.w, b.answer) /\ b.answer \in {"Pending", "Refused", "Prepared"}
  <1> DEFINE flies == e.resume \in {"fly", "stuck"} /\ w.session.url /\ MayFly(w.route)
             up == BeginResumeFlight(w.route)
             down == LandResumeFlight(up, FALSE)
  <1>1. b.w \in Player /\ Good(b.w) /\ b.answer \in {"Pending", "Refused", "Prepared"}
    BY BeginResumeFlies
  <1>2. CASE ~flies
    <2>1. b.w = w /\ b.answer \in {"Refused", "Prepared"}
      BY <1>2 DEF BeginResume
    <2> QED
      BY <1>1, <2>1 DEF Resumed
  <1>3. CASE flies
    <2>1. FlightUp(w.route, up) /\ FlightRefused(w.route, down)
      BY <1>3, GoodIssued, PlayerFacts, FlightRoute
    <2>2. CASE e.resume = "fly"
      <3> DEFINE s == [w.session EXCEPT !.answered = FALSE]
      <3>1. b = [w |-> [w EXCEPT !.route = up, !.session = s], answer |-> "Pending"]
        BY <1>3, <2>2 DEF BeginResume
      <3>2. /\ s.url = w.session.url /\ s.pend = w.session.pend /\ s.preview = w.session.preview
            /\ s.as_preview = w.session.as_preview /\ s.paused = w.session.paused
        BY PlayerFacts DEF Session
      <3> HIDE DEF up, s, down
      <3>3. b.answer = "Pending" /\ b.w = [w EXCEPT !.route = up, !.session = s]
        BY <3>1
      <3>4. /\ b.w.preview = w.preview /\ b.w.held = w.held /\ b.w.engine = w.engine
            /\ b.w.mail = w.mail /\ b.w.adapter = w.adapter /\ b.w.fg = w.fg
            /\ b.w.screen = w.screen /\ b.w.exiting = w.exiting /\ b.w.wish = w.wish
            /\ b.w.route = up
            /\ b.w.session = s
        BY <3>3 DEF Player
      <3> QED
        BY <1>1, <1>3, <2>1, <3>2, <3>3, <3>4 DEF Resumed
    <2>3. CASE e.resume = "stuck"
      <3>1. b = [w |-> [w EXCEPT !.route = down], answer |-> "Refused"]
        BY <1>3, <2>3 DEF BeginResume
      <3> HIDE DEF up, down
      <3>3. b.answer = "Refused" /\ b.w = [w EXCEPT !.route = down]
        BY <3>1
      <3>4. /\ b.w.preview = w.preview /\ b.w.held = w.held /\ b.w.engine = w.engine
            /\ b.w.mail = w.mail /\ b.w.adapter = w.adapter /\ b.w.fg = w.fg
            /\ b.w.screen = w.screen /\ b.w.exiting = w.exiting /\ b.w.wish = w.wish
            /\ b.w.session = w.session /\ b.w.route = down
        BY <3>3 DEF Player
      <3> QED
        BY <1>1, <2>1, <3>3, <3>4 DEF Resumed
    <2> QED
      BY <1>3, <2>2, <2>3
  <1> QED
    BY <1>2, <1>3

------------------------------------------------------------------------------
(* A claimed restore: ready, waiting, refused.                              *)

\* A claimed restore with a clock that viewer and claim agree on stays coherent when
\* it is made ready for its Load.
LEMMA ReadyWhole ==
    ASSUME NEW w, Whole(w, "events"), w.fg.kind \in {"Suspended", "Prepared"},
           NEW c \in {"Playing", w.fg.clock}, NEW v \in Player, Good(v), v.fg \in Lifecycle,
           v.fg.kind = "Prepared", v.fg.clock = c, v.fg.saved = c,
           v.route = w.route /\ v.preview = w.preview /\ v.held = w.held /\ v.engine = w.engine
             /\ v.mail = w.mail /\ v.adapter = w.adapter /\ v.screen = w.screen
             /\ v.exiting = w.exiting,
           v.session.url = w.session.url /\ v.session.pend = w.session.pend
             /\ v.session.preview = w.session.preview
             /\ v.session.as_preview = w.session.as_preview,
           ClockIs(v, c)
    PROVE  Whole(v, "events")
  <1>1. /\ w \in Player /\ Good(w) /\ w.fg \in Lifecycle /\ Typed(w)
        /\ v \in Player /\ Good(v) /\ v.fg \in Lifecycle /\ Typed(v)
    BY TypedFacts DEF Whole, Reloaded
  <1>20. Core(v) /\ Coherent(v, "events")
    <2> USE DEF Whole, Coherent, Core, Owned, OnRoute, IdleHeard, Numbered, Loaded, Asked, Waits,
       Shown, Parked, Restores, Paged, Typed, Live, Playing, Heard, ClockIs, Queued, Pending,
       StableBelow, MayRequest, PendingRouteStart, ResumeFlightOutstanding, Parks
    <2>1. Owned(v)
      BY <1>1 DEF Finished
    <2>2. OnRoute(v)
      BY <1>1 DEF Finished
    <2>3. IdleHeard(v)
      BY <1>1 DEF Finished
    <2>4. Numbered(v)
      BY <1>1 DEF Finished
    <2>5. Loaded(v)
      BY <1>1 DEF Finished
    <2>6. Asked(v, "events")
      BY <1>1 DEF Finished
    <2>7. Waits(v)
      BY <1>1 DEF Finished
    <2>8. Shown(v, "events")
      BY <1>1 DEF Finished
    <2>9. Parked(v, "events")
      BY <1>1 DEF Finished
    <2>10. Restores(v, "events")
      BY <1>1 DEF Finished
    <2>11. Paged(v)
      BY <1>1 DEF Finished
    <2> QED
      BY <2>1, <2>2, <2>3, <2>4, <2>5, <2>6, <2>7, <2>8, <2>9, <2>10, <2>11
  <1> QED
    BY <1>1, <1>20 DEF Whole

\* A claimed restore whose rebuild is in flight is coherent: it keeps the clock of the
\* claim and, to go back to, the one of the park.
LEMMA WaitingWhole ==
    ASSUME NEW w, Whole(w, "events"), w.fg.kind = "Suspended",
           NEW c \in {"Playing", w.fg.clock}, NEW v \in Player, Good(v), v.fg \in Lifecycle,
           v.fg.kind = "PreparePending", v.fg.clock = c, v.fg.saved = w.fg.clock,
           FlightUp(w.route, v.route),
           v.preview = w.preview /\ v.held = w.held /\ v.engine = w.engine /\ v.mail = w.mail
             /\ v.adapter = w.adapter /\ v.screen = w.screen /\ v.exiting = w.exiting,
           v.session.url = w.session.url /\ v.session.pend = w.session.pend
             /\ v.session.preview = w.session.preview
             /\ v.session.as_preview = w.session.as_preview
             /\ v.session.paused = w.session.paused,
           v.wish = c
    PROVE  Whole(v, "events")
  <1>1. /\ w \in Player /\ Good(w) /\ w.fg \in Lifecycle /\ Typed(w)
        /\ v \in Player /\ Good(v) /\ v.fg \in Lifecycle /\ Typed(v)
    BY TypedFacts DEF Whole, Reloaded
  <1>2. w.route.serial <= w.route.serials
    BY <1>1 DEF Good, QueueInv, Issued
  <1>20. Core(v) /\ Coherent(v, "events")
    <2> USE DEF Whole, Coherent, Core, Owned, OnRoute, IdleHeard, Numbered, Loaded, Asked, Waits,
       Shown, Parked, Restores, Paged, Typed, Live, Playing, Heard, ClockIs, Queued, Pending,
       StableBelow, MayRequest, PendingRouteStart, ResumeFlightOutstanding, Parks
    <2>1. Owned(v)
      BY <1>1, <1>2 DEF FlightUp
    <2>2. OnRoute(v)
      BY <1>1, <1>2 DEF FlightUp
    <2>3. IdleHeard(v)
      BY <1>1, <1>2 DEF FlightUp
    <2>4. Numbered(v)
      BY <1>1, <1>2 DEF FlightUp
    <2>5. Loaded(v)
      BY <1>1, <1>2 DEF FlightUp
    <2>6. Asked(v, "events")
      BY <1>1, <1>2 DEF FlightUp
    <2>7. Waits(v)
      BY <1>1, <1>2 DEF FlightUp
    <2>8. Shown(v, "events")
      BY <1>1, <1>2 DEF FlightUp
    <2>9. Parked(v, "events")
      BY <1>1, <1>2 DEF FlightUp
    <2>10. Restores(v, "events")
      BY <1>1, <1>2 DEF FlightUp
    <2>11. Paged(v)
      BY <1>1, <1>2 DEF FlightUp
    <2> QED
      BY <2>1, <2>2, <2>3, <2>4, <2>5, <2>6, <2>7, <2>8, <2>9, <2>10, <2>11, ZenonT(30)
  <1> QED
    BY <1>1, <1>20 DEF Whole

\* A restore whose preparation was refused is suspended again, with the clock of the
\* park as the viewer's wish.
LEMMA RefusedWhole ==
    ASSUME NEW w, NEW t, t \in {"events", "settle"}, Whole(w, t),
           w.fg.kind \in {"Suspended", "PreparePending"},
           NEW s, s = IF w.fg.kind = "Suspended" THEN w.fg.clock ELSE w.fg.saved,
           w.fg.kind = "PreparePending" => ResumeFlightOutstanding(w.route),
           NEW v \in Player, Good(v), v.fg \in Lifecycle,
           v.fg.kind = "Suspended", v.fg.clock = s, v.fg.saved = s,
           (v.route = w.route /\ w.fg.kind = "Suspended") \/ FlightRefused(w.route, v.route)
             \/ (ResumeFlightOutstanding(w.route) /\ v.route.phase = "Failed" /\ v.route.flight = 0
                 /\ v.route.under = w.route.under /\ v.route.last = w.route.last
                 /\ v.route.attempts = w.route.attempts /\ v.route.serials = w.route.serials
                 /\ v.route.serial = w.route.serial),
           v.preview = w.preview /\ v.held = w.held /\ v.engine = w.engine /\ v.mail = w.mail
             /\ v.adapter = w.adapter /\ v.screen = w.screen /\ v.exiting = w.exiting,
           v.session.url = w.session.url /\ v.session.pend = w.session.pend
             /\ v.session.preview = w.session.preview
             /\ v.session.as_preview = w.session.as_preview
             /\ v.session.paused = w.session.paused,
           v.wish = s
    PROVE  Whole(v, t)
  <1>1. /\ w \in Player /\ Good(w) /\ w.fg \in Lifecycle /\ Typed(w)
        /\ v \in Player /\ Good(v) /\ v.fg \in Lifecycle /\ Typed(v)
    BY TypedFacts DEF Whole, Reloaded
  <1>2. w.route.serial <= w.route.serials
    BY <1>1 DEF Good, QueueInv, Issued
  <1>20. Core(v) /\ Coherent(v, t)
    <2> USE DEF Whole, Coherent, Core, Owned, OnRoute, IdleHeard, Numbered, Loaded, Asked, Waits,
       Shown, Parked, Restores, Paged, Typed, Live, Playing, Heard, ClockIs, Queued, Pending,
       StableBelow, MayRequest, PendingRouteStart, ResumeFlightOutstanding, Parks
    <2>1. Owned(v)
      BY <1>1, <1>2 DEF FlightRefused
    <2>2. OnRoute(v)
      BY <1>1, <1>2 DEF FlightRefused
    <2>3. IdleHeard(v)
      BY <1>1, <1>2 DEF FlightRefused
    <2>4. Numbered(v)
      BY <1>1, <1>2 DEF FlightRefused
    <2>5. Loaded(v)
      BY <1>1, <1>2 DEF FlightRefused
    <2>6. Asked(v, t)
      BY <1>1, <1>2 DEF FlightRefused
    <2>7. Waits(v)
      BY <1>1, <1>2 DEF FlightRefused
    <2>8. Shown(v, t)
      BY <1>1, <1>2 DEF FlightRefused
    <2>9. Parked(v, t)
      BY <1>1, <1>2 DEF FlightRefused
    <2>10. Restores(v, t)
      BY <1>1, <1>2 DEF FlightRefused
    <2>11. Paged(v)
      BY <1>1, <1>2 DEF FlightRefused
    <2> QED
      BY <2>1, <2>2, <2>3, <2>4, <2>5, <2>6, <2>7, <2>8, <2>9, <2>10, <2>11
  <1> QED
    BY <1>1, <1>20 DEF Whole

------------------------------------------------------------------------------
(* The claim, put together.                                                 *)

\* From any player there is the one that stands ready for its Load with the clock c.
LEMMA ReadyFields ==
    ASSUME NEW x \in Player, Good(x), NEW c \in Clocks
    PROVE  \E v \in Player :
             /\ Good(v) /\ v.fg \in Lifecycle
             /\ v.fg.kind = "Prepared" /\ v.fg.clock = c /\ v.fg.saved = c
             /\ v.route = x.route /\ v.preview = x.preview /\ v.held = x.held
             /\ v.engine = x.engine /\ v.mail = x.mail /\ v.adapter = x.adapter
             /\ v.screen = x.screen /\ v.exiting = x.exiting /\ v.wish = x.wish
             /\ v.session.url = x.session.url /\ v.session.pend = x.session.pend
             /\ v.session.preview = x.session.preview
             /\ v.session.as_preview = x.session.as_preview
             /\ v.session.paused <=> c = "Paused"
  <1> DEFINE g == Fg("Prepared", c, c, 0)
             s == [x.session EXCEPT !.paused = c = "Paused"]
             v == [x EXCEPT !.fg = g, !.session = s]
  <1>1. g \in Lifecycle /\ g \in Machine /\ g.kind = "Prepared" /\ g.clock = c /\ g.saved = c
    BY KindFacts, FgFacts, FgFields
  <1>2. /\ s \in Session /\ s.url = x.session.url /\ s.pend = x.session.pend
        /\ s.preview = x.session.preview /\ s.as_preview = x.session.as_preview
        /\ (s.paused <=> c = "Paused")
    BY PlayerFacts DEF Session
  <1> HIDE DEF g, s
  <1>4. /\ v \in Player /\ v.fg = g /\ v.session = s
        /\ v.route = x.route /\ v.preview = x.preview /\ v.held = x.held /\ v.engine = x.engine
        /\ v.mail = x.mail /\ v.slot = x.slot /\ v.adapter = x.adapter /\ v.screen = x.screen
        /\ v.exiting = x.exiting /\ v.wish = x.wish
    BY <1>1, <1>2 DEF Player
  <1> HIDE DEF v
  <1>5. Good(v)
    BY <1>4, KeepsGood
  <1> QED
    BY <1>1, <1>2, <1>4, <1>5

\* The state u has claimed the clock c from the restore of w.
HasClaimed(w, u, c) ==
    /\ u \in Player /\ Good(u) /\ u.wish = c
    /\ u.route = w.route /\ u.preview = w.preview /\ u.held = w.held /\ u.engine = w.engine
    /\ u.mail = w.mail /\ u.adapter = w.adapter /\ u.screen = w.screen /\ u.exiting = w.exiting
    /\ u.session.url = w.session.url /\ u.session.pend = w.session.pend
    /\ u.session.preview = w.session.preview /\ u.session.as_preview = w.session.as_preview
    /\ u.session.paused = w.session.paused

\* A claim that goes straight to its Load keeps the player coherent.
LEMMA ReadyLoads ==
    ASSUME NEW w, Whole(w, "events"), w.fg.kind \in {"Suspended", "Prepared"}, w.screen.front,
           NEW c \in {"Playing", w.fg.clock}, NEW u, HasClaimed(w, u, c),
           u.fg = Fg("ClaimLoad", c, c, 0), NEW e \in Chance, NEW v, v = Mounted(RunLoad(u, e))
    PROVE  Whole(v, "events") /\ Front(v)
  <1>1. c \in Clocks
    BY TypedFacts DEF Whole, Typed, Clocks
  <1>2. PICK y \in Player :
          /\ Good(y) /\ y.fg \in Lifecycle
          /\ y.fg.kind = "Prepared" /\ y.fg.clock = c /\ y.fg.saved = c
          /\ y.route = u.route /\ y.preview = u.preview /\ y.held = u.held
          /\ y.engine = u.engine /\ y.mail = u.mail /\ y.adapter = u.adapter
          /\ y.screen = u.screen /\ y.exiting = u.exiting /\ y.wish = u.wish
          /\ y.session.url = u.session.url /\ y.session.pend = u.session.pend
          /\ y.session.preview = u.session.preview
          /\ y.session.as_preview = u.session.as_preview
          /\ y.session.paused <=> c = "Paused"
    BY <1>1, ReadyFields DEF HasClaimed
  <1>3. Whole(y, "events")
    <2>1. /\ y.route = w.route /\ y.preview = w.preview /\ y.held = w.held
          /\ y.engine = w.engine /\ y.mail = w.mail /\ y.adapter = w.adapter
          /\ y.screen = w.screen /\ y.exiting = w.exiting
          /\ y.session.url = w.session.url /\ y.session.pend = w.session.pend
          /\ y.session.preview = w.session.preview
          /\ y.session.as_preview = w.session.as_preview
          /\ ClockIs(y, c)
      BY <1>2 DEF HasClaimed, ClockIs
    <2> QED
      BY <1>2, <2>1, ReadyWhole
  <1>4. ClaimsLoad(y, u)
    BY <1>2 DEF ClaimsLoad, HasClaimed
  <1>5. y.session.pend # "none" => y.fg.clock = "Playing"
    BY <1>2 DEF HasClaimed, Whole, Coherent, Parked, Parks
  <1>6. y.screen.front
    BY <1>2 DEF HasClaimed
  <1> HIDE DEF Whole
  <1> QED
    BY <1>3, <1>4, <1>5, <1>6, LoadWhole

\* A claim that has to prepare first keeps the player coherent.
LEMMA ReadyPrepares ==
    ASSUME NEW w, Whole(w, "events"), w.fg.kind = "Suspended", w.screen.front,
           NEW c \in {"Playing", w.fg.clock}, NEW u, HasClaimed(w, u, c),
           u.fg = Fg("ClaimPrepare", c, w.fg.clock, 0), NEW e \in Chance,
           NEW b, b = BeginResume(u, e), NEW v, v = Mounted(RunPrepareAnswered(b.w, b.answer, e))
    PROVE  Whole(v, "events") /\ Front(v)
  <1> DEFINE s == w.fg.clock
             x == b.w
             answer == b.answer
  <1>1. c \in Clocks /\ s \in Clocks
    BY TypedFacts DEF Whole, Typed, Clocks
  <1>2. u.fg.kind = "ClaimPrepare" /\ u.fg.clock = c /\ u.fg.saved = s
    BY FgFields
  <1>3. u.route.phase # "Starting"
    BY DEF Whole, Core, Owned, Coherent, Parked, Parks, HasClaimed
  <1>4. Resumed(u, x, answer) /\ answer \in {"Pending", "Refused", "Prepared"}
    BY <1>3, ResumeFields DEF HasClaimed
  <1>5. x \in Player /\ Good(x) /\ x.fg = u.fg /\ x.wish = c
    BY <1>4 DEF Resumed, HasClaimed
  <1> HIDE DEF x, answer, s
  <1>6. v = Mounted(RunPrepareAnswered(x, answer, e))
    BY DEF x, answer
  <1>7. /\ answer = "Pending" =>
             /\ v \in Player /\ Good(v) /\ v.fg = Fg("PreparePending", x.fg.clock, x.fg.saved, 0)
             /\ v.route = x.route /\ v.session = x.session /\ v.preview = x.preview
             /\ v.held = x.held /\ v.engine = x.engine /\ v.mail = x.mail
             /\ v.adapter = x.adapter /\ v.screen = x.screen /\ v.exiting = x.exiting
             /\ v.wish = x.wish
        /\ answer = "Refused" =>
             /\ v \in Player /\ Good(v) /\ v.fg = SuspendedAt(x.fg.saved) /\ v.wish = x.fg.saved
             /\ v.route = x.route /\ v.session = x.session /\ v.preview = x.preview
             /\ v.held = x.held /\ v.engine = x.engine /\ v.mail = x.mail
             /\ v.adapter = x.adapter /\ v.screen = x.screen /\ v.exiting = x.exiting
        /\ answer = "Prepared" =>
             \E z : /\ z \in Player /\ Good(z)
                    /\ z.fg = Fg("ClaimLoad", x.fg.clock, x.fg.clock, 0)
                    /\ z.route = x.route /\ z.session = x.session /\ z.preview = x.preview
                    /\ z.held = x.held /\ z.engine = x.engine /\ z.mail = x.mail
                    /\ z.adapter = x.adapter /\ z.screen = x.screen /\ z.exiting = x.exiting
                    /\ z.wish = x.wish
                    /\ v = Mounted(RunLoad(z, e))
    BY <1>2, <1>4, <1>5, <1>6, PrepareRuns
  <1>8. CASE answer = "Pending"
    <2>1. v.fg = Fg("PreparePending", c, s, 0)
      BY <1>2, <1>5, <1>7, <1>8
    <2>2. v.fg \in Lifecycle /\ v.fg.kind = "PreparePending" /\ v.fg.clock = c /\ v.fg.saved = s
      BY <1>1, <2>1, KindFacts, FgFacts, FgFields
    <2>3. /\ v \in Player /\ Good(v) /\ v.wish = c /\ FlightUp(w.route, v.route)
          /\ v.preview = w.preview /\ v.held = w.held /\ v.engine = w.engine /\ v.mail = w.mail
          /\ v.adapter = w.adapter /\ v.screen = w.screen /\ v.exiting = w.exiting
          /\ v.session.url = w.session.url /\ v.session.pend = w.session.pend
          /\ v.session.preview = w.session.preview
          /\ v.session.as_preview = w.session.as_preview /\ v.session.paused = w.session.paused
      BY <1>4, <1>5, <1>7, <1>8 DEF Resumed, HasClaimed
    <2>4. Whole(v, "events")
      BY <2>2, <2>3, WaitingWhole DEF s
    <2> QED
      BY <2>3, <2>4 DEF Front
  <1>9. CASE answer = "Refused"
    <2>1. v.fg = Fg("Suspended", s, s, 0)
      BY <1>2, <1>5, <1>7, <1>9 DEF SuspendedAt
    <2>2. v.fg \in Lifecycle /\ v.fg.kind = "Suspended" /\ v.fg.clock = s /\ v.fg.saved = s
      BY <1>1, <2>1, KindFacts, FgFacts, FgFields
    <2>3. /\ v \in Player /\ Good(v) /\ v.wish = s
          /\ v.route = w.route \/ FlightRefused(w.route, v.route)
          /\ v.preview = w.preview /\ v.held = w.held /\ v.engine = w.engine /\ v.mail = w.mail
          /\ v.adapter = w.adapter /\ v.screen = w.screen /\ v.exiting = w.exiting
          /\ v.session.url = w.session.url /\ v.session.pend = w.session.pend
          /\ v.session.preview = w.session.preview
          /\ v.session.as_preview = w.session.as_preview /\ v.session.paused = w.session.paused
      BY <1>2, <1>4, <1>5, <1>7, <1>9 DEF Resumed, HasClaimed
    <2>4. "events" \in {"events", "settle"}
      OBVIOUS
    <2>5. Whole(v, "events")
      BY <2>2, <2>3, <2>4, RefusedWhole DEF s
    <2> QED
      BY <2>2, <2>5 DEF Front
  <1>10. CASE answer = "Prepared"
    <2>1. x = u
      BY <1>4, <1>10 DEF Resumed
    <2>2. PICK z : /\ z \in Player /\ Good(z) /\ z.fg = Fg("ClaimLoad", x.fg.clock, x.fg.clock, 0)
                   /\ z.route = x.route /\ z.session = x.session /\ z.preview = x.preview
                   /\ z.held = x.held /\ z.engine = x.engine /\ z.mail = x.mail
                   /\ z.adapter = x.adapter /\ z.screen = x.screen /\ z.exiting = x.exiting
                   /\ z.wish = x.wish
                   /\ v = Mounted(RunLoad(z, e))
      BY <1>7, <1>10
    <2>3. z.fg = Fg("ClaimLoad", c, c, 0)
      BY <1>2, <2>1, <2>2
    <2>4. HasClaimed(w, z, c)
      BY <2>1, <2>2 DEF HasClaimed
    <2> QED
      BY <2>2, <2>3, <2>4, ReadyLoads
  <1> QED
    BY <1>4, <1>8, <1>9, <1>10

------------------------------------------------------------------------------
(* The events of the lifecycle.                                             *)

\* The events the lifecycle is driven with.
Keys == {"DidForeground", "DidForegroundSuperseded", "PlayKey"}

\* What an event of the lifecycle's comes to: it was taken, or the lifecycle owes nothing.
WasDriven(w, d) ==
    \/ d.handled /\ Whole(Mounted(d), "events") /\ Front(Mounted(d))
    \/ ~d.handled /\ w.fg.kind = "Idle" /\ d.w = w

\* The answer to Prepare is always the lifecycle's to handle.
LEMMA HandledPrepare ==
    ASSUME NEW x, NEW answer, NEW e PROVE RunPrepareAnswered(x, answer, e).handled
  BY RunPrepareAnsweredHandled

\* run_foreground keeps the player coherent: whichever event claims the restore, the
\* clock it ends with is the one last asked for.
LEMMA DriveWhole ==
    ASSUME NEW w, Whole(w, "events"), Front(w), w.screen.front, NEW key \in Keys,
           NEW k, k = IF key = "PlayKey" /\ Claimable(w.fg) THEN "Playing" ELSE w.wish,
           NEW x \in Player, Good(x), x.wish = k, k = w.wish => x = w,
           x.route = w.route /\ x.session = w.session /\ x.preview = w.preview
             /\ x.held = w.held /\ x.engine = w.engine /\ x.mail = w.mail
             /\ x.adapter = w.adapter /\ x.fg = w.fg /\ x.screen = w.screen
             /\ x.exiting = w.exiting,
           NEW e \in Chance, NEW d, d = DriveForeground(x, key, e)
    PROVE  WasDriven(w, d)
  <1> DEFINE f == w.fg
             play == key = "PlayKey"
             c == IF play THEN "Playing" ELSE f.clock
             s == Input(f, key)
             u == [x EXCEPT !.fg = s.f]
             b == BeginResume(u, e)
  <1>1. w \in Player /\ Good(w) /\ w.fg \in Lifecycle /\ Typed(w)
    BY TypedFacts DEF Whole
  <1>3. /\ x \in Player /\ Good(x) /\ x.wish = k
        /\ x.route = w.route /\ x.session = w.session /\ x.preview = w.preview
        /\ x.held = w.held /\ x.engine = w.engine /\ x.mail = w.mail /\ x.adapter = w.adapter
        /\ x.fg = w.fg /\ x.screen = w.screen /\ x.exiting = w.exiting
        /\ k = w.wish => x = w
    OBVIOUS
  <1>4. f.kind \in {"Idle", "Suspended", "Prepared", "PreparePending", "RecoveryPending", "LoadPending"}
    BY <1>1 DEF Whole, Coherent, Parked, Lifecycle, Kinds
  <1>5. d = CASE s.effect = "Prepare" -> RunPrepareAnswered(b.w, b.answer, e)
              [] s.effect = "Load" -> RunLoad(u, e)
              [] s.effect = "PlayClock" -> Drove(RunClock(u, e), TRUE, FALSE)
              [] OTHER -> Drove(u, s.handled, FALSE)
    BY <1>3 DEF DriveForeground
  <1>6. c \in {"Playing", f.clock} /\ c \in Clocks /\ f.clock \in Clocks
    BY <1>1 DEF Typed, Clocks
  <1>7. CASE f.kind = "Idle"
    <2>6. s = Unhandled(f)
      BY <1>7 DEF Input
    <2>1. s.f = f /\ s.effect = "None" /\ s.handled = FALSE
      BY <2>6 DEF Unhandled, Step
    <2>2. k = w.wish
      BY <1>7 DEF Claimable
    <2>3. u = w
      BY <1>1, <1>3, <2>1, <2>2 DEF Player
    <2> HIDE DEF s, u
    <2>4. d = Drove(w, FALSE, FALSE)
      BY <1>5, <2>1, <2>3
    <2>5. d.w = w /\ ~d.handled
      BY <2>4 DEF Drove
    <2> QED
      BY <1>7, <2>5 DEF WasDriven
  <1>8. CASE f.kind \in {"PreparePending", "RecoveryPending", "LoadPending"}
             \/ (f.kind \in {"Suspended", "Prepared"} /\ key = "DidForegroundSuperseded")
    <2>1. s.f = f /\ s.effect = "None" /\ s.handled = TRUE
      BY <1>8 DEF Input, Quiet, Step, Keys
    <2>2. k = w.wish
      BY <1>8 DEF Claimable
    <2>3. u = w
      BY <1>1, <1>3, <2>1, <2>2 DEF Player
    <2> HIDE DEF s, u
    <2>4. d = Drove(w, TRUE, FALSE)
      BY <1>5, <2>1, <2>3
    <2>5. Mounted(d) = w /\ d.handled
      BY <2>4 DEF Drove, Mounted
    <2> QED
      BY <2>5 DEF WasDriven
  <1>9. f.kind \in {"Suspended", "Prepared"} => k = c
    BY <1>1 DEF Claimable, Typed, Whole, Coherent, Parked, Parks, Asked, Playing
  <1>10. CASE f.kind = "Suspended" /\ key # "DidForegroundSuperseded"
    <2> DEFINE g == Fg("ClaimPrepare", c, f.clock, 0)
    <2>1. s.f = g /\ s.effect = "Prepare"
      BY <1>10 DEF Input, Step, Keys
    <2>2. g \in Machine
      BY <1>6, KindFacts, FgFacts
    <2>3. u = [x EXCEPT !.fg = g]
      BY <2>1
    <2> HIDE DEF s, u, g, c
    <2>4. /\ u \in Player /\ Good(u) /\ u.fg = g
          /\ u.route = x.route /\ u.session = x.session /\ u.preview = x.preview
          /\ u.held = x.held /\ u.engine = x.engine /\ u.mail = x.mail /\ u.adapter = x.adapter
          /\ u.screen = x.screen /\ u.exiting = x.exiting /\ u.wish = x.wish
      BY <1>3, <2>2, <2>3, SetFgFields
    <2>5. HasClaimed(w, u, c)
      BY <1>3, <1>9, <1>10, <2>4 DEF HasClaimed
    <2>6. d = RunPrepareAnswered(b.w, b.answer, e)
      BY <1>5, <2>1
    <2> HIDE DEF b
    <2> DEFINE v == Mounted(RunPrepareAnswered(b.w, b.answer, e))
    <2>7. Whole(v, "events") /\ Front(v)
      BY <1>6, <1>10, <2>4, <2>5, ReadyPrepares DEF b, g
    <2>8. d.handled
      BY <2>6, HandledPrepare
    <2> QED
      BY <2>6, <2>7, <2>8 DEF WasDriven
  <1>11. CASE f.kind = "Prepared" /\ key # "DidForegroundSuperseded"
    <2> DEFINE g == Fg("ClaimLoad", c, c, 0)
    <2>1. s.f = g /\ s.effect = "Load"
      BY <1>11 DEF Input, Step, Keys
    <2>2. g \in Machine
      BY <1>6, KindFacts, FgFacts
    <2>3. u = [x EXCEPT !.fg = g]
      BY <2>1
    <2> HIDE DEF s, u, g, c
    <2>4. /\ u \in Player /\ Good(u) /\ u.fg = g
          /\ u.route = x.route /\ u.session = x.session /\ u.preview = x.preview
          /\ u.held = x.held /\ u.engine = x.engine /\ u.mail = x.mail /\ u.adapter = x.adapter
          /\ u.screen = x.screen /\ u.exiting = x.exiting /\ u.wish = x.wish
      BY <1>3, <2>2, <2>3, SetFgFields
    <2>5. HasClaimed(w, u, c)
      BY <1>3, <1>9, <1>11, <2>4 DEF HasClaimed
    <2>6. d = RunLoad(u, e)
      BY <1>5, <2>1
    <2>7. Whole(Mounted(RunLoad(u, e)), "events") /\ Front(Mounted(RunLoad(u, e)))
      BY <1>6, <1>11, <2>4, <2>5, ReadyLoads DEF g
    <2>8. d.handled
      BY <2>6, RunLoadHandled
    <2> QED
      BY <2>6, <2>7, <2>8 DEF WasDriven
  <1> QED
    BY <1>4, <1>7, <1>8, <1>10, <1>11

------------------------------------------------------------------------------
(* The flight a restore waits on.                                           *)

\* Where the landing of a resume's flight leaves the route.
LandedFlight(c, d, good) ==
    /\ d.under = c.under /\ d.last = c.last /\ d.attempts = c.attempts /\ d.serials = c.serials
    /\ d.serial = c.serial /\ d.flight = 0
    /\ d.phase = IF good THEN "Prepared" ELSE "Failed"

\* land_resume_flight ends the flight under its serial: prepared when the rebuild was
\* good, failed when not.
LEMMA LandRoute ==
    ASSUME NEW c \in Route, NEW good, NEW d, d = LandResumeFlight(c, good)
    PROVE  LandedFlight(c, d, good)
  BY DEF LandResumeFlight, LandedFlight, Enter, Route

\* Landing a flight leaves what the native object owes its owners untouched.
LEMMA LandGood ==
    ASSUME NEW w \in Player, Good(w), ResumeFlightOutstanding(w.route), NEW good \in BOOLEAN,
           NEW c, c = LandResumeFlight(w.route, good)
    PROVE  /\ c \in Route /\ LandedFlight(w.route, c, good)
           /\ \A x \in Player : x.route = c /\ x.engine = w.engine /\ x.mail = w.mail
                /\ x.slot = w.slot /\ x.adapter = w.adapter /\ x.exiting = w.exiting => Good(x)
  <1>1. Carries(w.route, c) /\ c \in Route
    BY GoodIssued, FlightLands DEF Carries, MovedOn
  <1>2. LandedFlight(w.route, c, good)
    BY PlayerFacts, LandRoute
  <1>3. ASSUME NEW x \in Player, x.route = c, x.engine = w.engine /\ x.mail = w.mail
                 /\ x.slot = w.slot /\ x.adapter = w.adapter /\ x.exiting = w.exiting
        PROVE  Good(x)
    <2>1. Beside(w, x)
      BY <1>1, <1>3 DEF Beside, Untouched
    <2> QED
      BY <2>1, BesideGood
  <1> QED
    BY <1>1, <1>2, <1>3

\* A restore that waits on a flight which is no longer there owes nothing, and the
\* clock is the viewer's already.
LEMMA StaleWhole ==
    ASSUME NEW w, Whole(w, "settle"), w.fg.kind = "PreparePending",
           ~ResumeFlightOutstanding(w.route),
           NEW v \in Player, Good(v), v.fg \in Lifecycle, v.fg.kind = "Idle",
           v.route = w.route /\ v.session = w.session /\ v.preview = w.preview
             /\ v.held = w.held /\ v.engine = w.engine /\ v.mail = w.mail
             /\ v.adapter = w.adapter /\ v.screen = w.screen /\ v.exiting = w.exiting
             /\ v.wish = w.wish
    PROVE  Whole(v, "settle")
  <1>1. /\ w \in Player /\ Good(w) /\ w.fg \in Lifecycle /\ Typed(w)
        /\ v \in Player /\ Good(v) /\ v.fg \in Lifecycle /\ Typed(v)
    BY TypedFacts DEF Whole, Playing
  <1>20. Core(v) /\ Coherent(v, "settle")
    <2> USE DEF Whole, Coherent, Core, Owned, OnRoute, IdleHeard, Numbered, Loaded, Asked, Waits,
       Shown, Parked, Restores, Paged, Typed, Live, Playing, Heard, ClockIs, Queued, Pending,
       StableBelow, MayRequest, PendingRouteStart, ResumeFlightOutstanding, Parks
    <2>1. Owned(v)
      BY <1>1 DEF Playing
    <2>2. OnRoute(v)
      BY <1>1 DEF Playing
    <2>3. IdleHeard(v)
      BY <1>1 DEF Playing
    <2>4. Numbered(v)
      BY <1>1 DEF Playing
    <2>5. Loaded(v)
      BY <1>1 DEF Playing
    <2>6. Asked(v, "settle")
      BY <1>1 DEF Playing
    <2>7. Waits(v)
      BY <1>1 DEF Playing
    <2>8. Shown(v, "settle")
      BY <1>1 DEF Playing
    <2>9. Parked(v, "settle")
      BY <1>1 DEF Playing
    <2>10. Restores(v, "settle")
      BY <1>1 DEF Playing
    <2>11. Paged(v)
      BY <1>1 DEF Playing
    <2> QED
      BY <2>1, <2>2, <2>3, <2>4, <2>5, <2>6, <2>7, <2>8, <2>9, <2>10, <2>11
  <1> QED
    BY <1>1, <1>20 DEF Whole

\* The rebuild a restore waited on has landed: the restore is ready for its Load with
\* the clock of its claim.
LEMMA LandedWhole ==
    ASSUME NEW w, Whole(w, "settle"), w.fg.kind = "PreparePending",
           ResumeFlightOutstanding(w.route),
           NEW c, c = w.fg.clock, NEW v \in Player, Good(v), v.fg \in Lifecycle,
           v.fg.kind = "Prepared", v.fg.clock = c, v.fg.saved = c,
           LandedFlight(w.route, v.route, TRUE),
           v.preview = w.preview /\ v.held = w.held /\ v.engine = w.engine /\ v.mail = w.mail
             /\ v.adapter = w.adapter /\ v.screen = w.screen /\ v.exiting = w.exiting
             /\ v.wish = w.wish,
           v.session.url = w.session.url /\ v.session.pend = w.session.pend
             /\ v.session.preview = w.session.preview
             /\ v.session.as_preview = w.session.as_preview,
           v.session.paused <=> c = "Paused"
    PROVE  Whole(v, "settle")
  <1>1. /\ w \in Player /\ Good(w) /\ w.fg \in Lifecycle /\ Typed(w)
        /\ v \in Player /\ Good(v) /\ v.fg \in Lifecycle /\ Typed(v)
    BY TypedFacts DEF Whole, Playing
  <1>20. Core(v) /\ Coherent(v, "settle")
    <2> USE DEF Whole, Coherent, Core, Owned, OnRoute, IdleHeard, Numbered, Loaded, Asked, Waits,
       Shown, Parked, Restores, Paged, Typed, Live, Playing, Heard, ClockIs, Queued, Pending,
       StableBelow, MayRequest, PendingRouteStart, ResumeFlightOutstanding, Parks
    <2>1. Owned(v)
      BY <1>1 DEF Playing, LandedFlight
    <2>2. OnRoute(v)
      BY <1>1 DEF Playing, LandedFlight
    <2>3. IdleHeard(v)
      BY <1>1 DEF Playing, LandedFlight
    <2>4. Numbered(v)
      BY <1>1 DEF Playing, LandedFlight
    <2>5. Loaded(v)
      BY <1>1 DEF Playing, LandedFlight
    <2>6. Asked(v, "settle")
      BY <1>1 DEF Playing, LandedFlight
    <2>7. Waits(v)
      BY <1>1 DEF Playing, LandedFlight
    <2>8. Shown(v, "settle")
      BY <1>1 DEF Playing, LandedFlight
    <2>9. Parked(v, "settle")
      BY <1>1 DEF Playing, LandedFlight
    <2>10. Restores(v, "settle")
      BY <1>1 DEF Playing, LandedFlight
    <2>11. Paged(v)
      BY <1>1 DEF Playing, LandedFlight
    <2> QED
      BY <2>1, <2>2, <2>3, <2>4, <2>5, <2>6, <2>7, <2>8, <2>9, <2>10, <2>11
  <1> QED
    BY <1>1, <1>20 DEF Whole

\* poll_foreground_flight with land_prepare keeps the player coherent.
LEMMA PollPrepareWhole ==
    ASSUME NEW w, Whole(w, "settle"), Front(w), w.screen.front, w.fg.kind = "PreparePending",
           NEW e \in Chance, NEW v, v = Mounted(PollPrepare(w, e))
    PROVE  Whole(v, "settle") /\ Front(v) /\ Patient(v)
  <1>1. w \in Player /\ Good(w) /\ w.fg \in Lifecycle /\ Typed(w)
    BY TypedFacts DEF Whole
  <1>2. CASE ~ResumeFlightOutstanding(w.route)
    <2> DEFINE g == FlightStale(w.fg)
               y == [w EXCEPT !.fg = g]
    <2>1. PollPrepare(w, e) = Drove(y, TRUE, FALSE)
      BY <1>2 DEF PollPrepare
    <2>2. v = y
      BY <2>1 DEF Mounted, Drove
    <2>3. g = Unowed
      BY DEF FlightStale, FlightPending
    <2>4. g \in Machine /\ g \in Lifecycle /\ g.kind = "Idle"
      BY <2>3, UnowedFacts, LifecycleMachine
    <2> HIDE DEF g
    <2>5. /\ v \in Player /\ Good(v) /\ v.fg = g
          /\ v.route = w.route /\ v.session = w.session /\ v.preview = w.preview
          /\ v.held = w.held /\ v.engine = w.engine /\ v.mail = w.mail /\ v.adapter = w.adapter
          /\ v.screen = w.screen /\ v.exiting = w.exiting /\ v.wish = w.wish
      BY <1>1, <2>2, <2>4, SetFgFields
    <2> HIDE DEF y
    <2>6. Whole(v, "settle")
      BY <1>2, <2>4, <2>5, StaleWhole
    <2> QED
      BY <2>4, <2>5, <2>6 DEF Front, Patient
  <1>3. CASE ResumeFlightOutstanding(w.route) /\ ~w.session.answered
    <2>1. PollPrepare(w, e) = Drove(w, TRUE, FALSE)
      BY <1>3 DEF PollPrepare
    <2>2. v = w
      BY <2>1 DEF Mounted, Drove
    <2> QED
      BY <2>2 DEF Patient
  <1>4. CASE ResumeFlightOutstanding(w.route) /\ w.session.answered
    <2> DEFINE x == [w EXCEPT !.route = LandResumeFlight(@, e.good), !.session.answered = FALSE]
               answer == IF e.good THEN "Prepared" ELSE "Refused"
    <2>1. PollPrepare(w, e) = RunPrepareAnswered(x, answer, e)
      BY <1>4 DEF PollPrepare
    <2>2. e.good \in BOOLEAN
      BY DEF Chance, Chances
    <2>3. /\ x \in Player /\ Good(x) /\ LandedFlight(w.route, x.route, e.good)
          /\ x.preview = w.preview /\ x.held = w.held /\ x.engine = w.engine /\ x.mail = w.mail
          /\ x.adapter = w.adapter /\ x.fg = w.fg /\ x.screen = w.screen
          /\ x.exiting = w.exiting /\ x.wish = w.wish
          /\ x.session.url = w.session.url /\ x.session.pend = w.session.pend
          /\ x.session.preview = w.session.preview
          /\ x.session.as_preview = w.session.as_preview /\ x.session.paused = w.session.paused
      <3> DEFINE c == LandResumeFlight(w.route, e.good)
                 s == [w.session EXCEPT !.answered = FALSE]
      <3>1. x = [w EXCEPT !.route = c, !.session = s]
        OBVIOUS
      <3>2. /\ s \in Session /\ s.url = w.session.url /\ s.pend = w.session.pend
            /\ s.preview = w.session.preview /\ s.as_preview = w.session.as_preview
            /\ s.paused = w.session.paused
        BY <1>1, PlayerFacts DEF Session
      <3>3. /\ c \in Route /\ LandedFlight(w.route, c, e.good)
            /\ \A z \in Player : z.route = c /\ z.engine = w.engine /\ z.mail = w.mail
                 /\ z.slot = w.slot /\ z.adapter = w.adapter /\ z.exiting = w.exiting => Good(z)
        BY <1>1, <1>4, <2>2, LandGood
      <3> HIDE DEF c, s, x
      <3>4. /\ x \in Player /\ x.route = c /\ x.session = s
            /\ x.preview = w.preview /\ x.held = w.held /\ x.engine = w.engine
            /\ x.mail = w.mail /\ x.slot = w.slot /\ x.adapter = w.adapter /\ x.fg = w.fg
            /\ x.screen = w.screen /\ x.exiting = w.exiting /\ x.wish = w.wish
        BY <1>1, <3>1, <3>2, <3>3 DEF Player
      <3> QED
        BY <3>2, <3>3, <3>4
    <2>4. answer \in {"Pending", "Refused", "Prepared"} /\ (e.good => answer = "Prepared")
          /\ (~e.good => answer = "Refused")
      OBVIOUS
    <2> HIDE DEF x, answer
    <2>5. v = Mounted(RunPrepareAnswered(x, answer, e))
      BY <2>1
    <2>6. /\ answer = "Refused" =>
                /\ v \in Player /\ Good(v) /\ v.fg = SuspendedAt(x.fg.saved)
                /\ v.wish = x.fg.saved
                /\ v.route = x.route /\ v.session = x.session /\ v.preview = x.preview
                /\ v.held = x.held /\ v.engine = x.engine /\ v.mail = x.mail
                /\ v.adapter = x.adapter /\ v.screen = x.screen /\ v.exiting = x.exiting
          /\ answer = "Prepared" =>
                \E u : /\ u \in Player /\ Good(u)
                       /\ u.fg = Fg("ClaimLoad", x.fg.clock, x.fg.clock, 0)
                       /\ u.route = x.route /\ u.session = x.session /\ u.preview = x.preview
                       /\ u.held = x.held /\ u.engine = x.engine /\ u.mail = x.mail
                       /\ u.adapter = x.adapter /\ u.screen = x.screen /\ u.exiting = x.exiting
                       /\ u.wish = x.wish
                       /\ v = Mounted(RunLoad(u, e))
      BY <2>3, <2>4, <2>5, PrepareRuns
    <2> DEFINE s == w.fg.saved
               c == w.fg.clock
    <2>7. s \in Clocks /\ c \in Clocks
      BY <1>1 DEF Typed, Clocks
    <2>8. CASE ~e.good
      <3>1. v.fg = Fg("Suspended", s, s, 0)
        BY <2>3, <2>4, <2>6, <2>8 DEF SuspendedAt
      <3>2. v.fg \in Lifecycle /\ v.fg.kind = "Suspended" /\ v.fg.clock = s /\ v.fg.saved = s
        BY <2>7, <3>1, KindFacts, FgFacts, FgFields
      <3>3. /\ v \in Player /\ Good(v) /\ v.wish = s
            /\ v.route.phase = "Failed" /\ v.route.flight = 0
            /\ v.route.under = w.route.under /\ v.route.last = w.route.last
            /\ v.route.attempts = w.route.attempts /\ v.route.serials = w.route.serials
            /\ v.route.serial = w.route.serial
            /\ v.preview = w.preview /\ v.held = w.held /\ v.engine = w.engine
            /\ v.mail = w.mail /\ v.adapter = w.adapter /\ v.screen = w.screen
            /\ v.exiting = w.exiting
            /\ v.session.url = w.session.url /\ v.session.pend = w.session.pend
            /\ v.session.preview = w.session.preview
            /\ v.session.as_preview = w.session.as_preview
            /\ v.session.paused = w.session.paused
        BY <2>3, <2>4, <2>6, <2>8 DEF LandedFlight
      <3>4. Whole(v, "settle")
        <4> DEFINE t == "settle"
        <4>1. t \in {"events", "settle"} /\ Whole(w, t)
          OBVIOUS
        <4> HIDE DEF t
        <4>2. Whole(v, t)
          BY <1>4, <3>2, <3>3, <4>1, RefusedWhole
        <4> QED
          BY <4>2 DEF t
      <3> QED
        BY <3>2, <3>4 DEF Front, Patient
    <2>9. CASE e.good
      <3>1. PICK u : /\ u \in Player /\ Good(u)
                     /\ u.fg = Fg("ClaimLoad", x.fg.clock, x.fg.clock, 0)
                     /\ u.route = x.route /\ u.session = x.session /\ u.preview = x.preview
                     /\ u.held = x.held /\ u.engine = x.engine /\ u.mail = x.mail
                     /\ u.adapter = x.adapter /\ u.screen = x.screen /\ u.exiting = x.exiting
                     /\ u.wish = x.wish
                     /\ v = Mounted(RunLoad(u, e))
        BY <2>4, <2>6, <2>9
      <3>2. PICK y \in Player :
              /\ Good(y) /\ y.fg \in Lifecycle
              /\ y.fg.kind = "Prepared" /\ y.fg.clock = c /\ y.fg.saved = c
              /\ y.route = u.route /\ y.preview = u.preview /\ y.held = u.held
              /\ y.engine = u.engine /\ y.mail = u.mail /\ y.adapter = u.adapter
              /\ y.screen = u.screen /\ y.exiting = u.exiting /\ y.wish = u.wish
              /\ y.session.url = u.session.url /\ y.session.pend = u.session.pend
              /\ y.session.preview = u.session.preview
              /\ y.session.as_preview = u.session.as_preview
              /\ y.session.paused <=> c = "Paused"
        <4> HIDE DEF c
        <4> QED
          BY <2>7, <3>1, ReadyFields
      <3>3. /\ LandedFlight(w.route, y.route, TRUE)
            /\ y.preview = w.preview /\ y.held = w.held /\ y.engine = w.engine
            /\ y.mail = w.mail /\ y.adapter = w.adapter /\ y.screen = w.screen
            /\ y.exiting = w.exiting /\ y.wish = w.wish
            /\ y.session.url = w.session.url /\ y.session.pend = w.session.pend
            /\ y.session.preview = w.session.preview
            /\ y.session.as_preview = w.session.as_preview
        BY <2>3, <2>9, <3>1, <3>2 DEF LandedFlight
      <3>4. Whole(y, "settle")
        BY <1>4, <3>2, <3>3, LandedWhole
      <3>5. ClaimsLoad(y, u)
        BY <2>3, <3>1, <3>2 DEF ClaimsLoad
      <3>6. y.session.pend # "none" => y.fg.clock = "Playing"
        BY <1>4, <3>2, <3>3 DEF Whole, Coherent, Parked, Parks, ResumeFlightOutstanding
      <3>7. y.screen.front /\ "settle" \in {"events", "settle"}
        BY <3>3
      <3> HIDE DEF Whole
      <3> QED
        BY <3>1, <3>4, <3>5, <3>6, <3>7, LoadWhole
    <2> QED
      BY <2>2, <2>8, <2>9
  <1> QED
    BY <1>2, <1>3, <1>4

------------------------------------------------------------------------------
(* The queued start a restore waits on.                                     *)

\* What becomes of a restore once the start it queued has left the queue.
Recovered(w, v) ==
    LET c == w.fg.clock
        n == v.engine
        q == Queued(w)
    IN  /\ v \in Player /\ Good(v) /\ v.fg \in Lifecycle
        /\ v.session = w.session /\ v.held = w.held /\ v.mail = w.mail /\ v.exiting = w.exiting
        /\ v.wish = w.wish /\ v.screen.front = w.screen.front
        /\ w.route.serials <= v.route.serials /\ w.route.attempts <= v.route.attempts
        /\ v.route.under = w.route.under /\ v.route.flight = w.route.flight
        /\ v.route.last = w.route.last /\ Queued(v) = 0
        /\ v.fg.clock = c /\ v.fg.saved = c
        /\ \/ /\ v.fg.kind = "Prepared" /\ v.screen = w.screen /\ NoLoad(w.engine, n)
              /\ Drops(w.route, v.route, q)
           \/ /\ v.fg.kind = "LoadPending" /\ v.fg.attempt = n.attempt /\ v.screen.page = "Player"
              /\ n.follows /\ ~n.waited /\ n.serial = q /\ n.attempt # 0 /\ n.call = "out"
              /\ ~n.failed /\ ~n.late /\ ~n.dead /\ w.route.attempts < n.attempt
              /\ n.goal = w.session.paused /\ ~n.ready
              /\ v.route.phase = "Starting" /\ v.route.serial = q /\ v.route.attempt = n.attempt

\* A restore whose queued start was launched or dropped stays coherent.
LEMMA RecoveredWhole ==
    ASSUME NEW w, Whole(w, "settle"), w.fg.kind = "RecoveryPending", NEW v, Recovered(w, v)
    PROVE  Whole(v, "settle")
  <1>1. /\ w \in Player /\ Good(w) /\ w.fg \in Lifecycle /\ Typed(w)
        /\ v \in Player /\ Good(v) /\ v.fg \in Lifecycle /\ Typed(v)
    BY TypedFacts DEF Whole, Recovered
  <1>20. Core(v) /\ Coherent(v, "settle")
    <2> USE DEF Whole, Coherent, Core, Owned, OnRoute, IdleHeard, Numbered, Loaded, Asked, Waits,
       Shown, Parked, Restores, Paged, Typed, Live, Playing, Heard, ClockIs, Queued, Pending,
       StableBelow, MayRequest, PendingRouteStart, ResumeFlightOutstanding, Parks
    <2>1. Owned(v)
      BY <1>1 DEF Recovered, NoLoad, Drops
    <2>2. OnRoute(v)
      BY <1>1 DEF Recovered, NoLoad, Drops
    <2>3. IdleHeard(v)
      BY <1>1 DEF Recovered, NoLoad, Drops
    <2>4. Numbered(v)
      BY <1>1 DEF Recovered, NoLoad, Drops
    <2>5. Loaded(v)
      BY <1>1 DEF Recovered, NoLoad, Drops
    <2>6. Asked(v, "settle")
      BY <1>1 DEF Recovered, NoLoad, Drops
    <2>7. Waits(v)
      BY <1>1 DEF Recovered, NoLoad, Drops
    <2>8. Shown(v, "settle")
      BY <1>1 DEF Recovered, NoLoad, Drops
    <2>9. Parked(v, "settle")
      BY <1>1 DEF Recovered, NoLoad, Drops
    <2>10. Restores(v, "settle")
      BY <1>1 DEF Recovered, NoLoad, Drops
    <2>11. Paged(v)
      BY <1>1 DEF Recovered, NoLoad, Drops
    <2> QED
      BY <2>1, <2>2, <2>3, <2>4, <2>5, <2>6, <2>7, <2>8, <2>9, <2>10, <2>11
  <1> QED
    BY <1>1, <1>20 DEF Whole

\* land_recovery: what the watch learned decides whether the restore goes on waiting,
\* follows the Load, or may be claimed again.
LEMMA RecoveryRuns ==
    ASSUME NEW x \in Player, Good(x), x.fg \in Lifecycle, x.fg.kind = "RecoveryPending",
           NEW v, v = Mounted(PollRecovery(x))
    PROVE  /\ v \in Player /\ Good(v) /\ v.fg \in Lifecycle
           /\ x.adapter.watch.kind = "Watching" /\ Queued(x) # 0 => v = x
           /\ x.adapter.watch.kind = "Failed" =>
                /\ v.fg.kind = "Prepared" /\ v.fg.clock = x.fg.clock /\ v.fg.saved = x.fg.clock
                /\ v.route = x.route /\ v.session = x.session /\ v.preview = x.preview
                /\ v.held = x.held /\ v.engine = x.engine /\ v.mail = x.mail /\ v.slot = x.slot
                /\ v.exiting = x.exiting /\ v.wish = x.wish /\ v.screen = x.screen
                /\ v.adapter.release = x.adapter.release
           /\ x.adapter.watch.kind = "Launched" /\ x.adapter.watch.attempt = x.engine.attempt =>
                /\ v.fg.kind = "LoadPending" /\ v.fg.clock = x.fg.clock /\ v.fg.saved = x.fg.clock
                /\ v.fg.attempt = x.engine.attempt
                /\ v.route = x.route /\ v.session = x.session /\ v.preview = x.preview
                /\ v.held = x.held /\ v.mail = x.mail /\ v.slot = x.slot
                /\ v.exiting = x.exiting /\ v.wish = x.wish
                /\ v.engine.serial = x.engine.serial /\ v.engine.attempt = x.engine.attempt
                /\ v.engine.call = x.engine.call /\ v.engine.failed = x.engine.failed
                /\ v.engine.late = x.engine.late /\ v.engine.dead = x.engine.dead
                /\ v.engine.waited = x.engine.waited
                /\ v.engine.goal = x.engine.goal /\ v.engine.ready = x.engine.ready
                /\ v.engine.follows /\ v.adapter.release = x.adapter.release
                /\ v.screen.page = "Player" /\ v.screen.front = x.screen.front
  <1> DEFINE d == PollRecovery(x)
             t == x.adapter.watch
             c == x.fg.clock
             a == [x.adapter EXCEPT !.watch = NoWatch]
  <1>1. Aside(x, d.w) /\ d.w.fg \in Lifecycle
    BY PollRecoveryAside
  <1>2. d.w \in Player /\ Good(d.w)
    BY <1>1, AsideBeside DEF Aside
  <1>3. v = Mounted(d)
    OBVIOUS
  <1> HIDE DEF d
  <1>4. v \in Player /\ Good(v) /\ v.fg \in Lifecycle
    BY <1>1, <1>2, <1>3, MountedAside, AsideBeside DEF Aside
  <1>5. a.release = x.adapter.release
    BY PlayerFacts DEF Adapter
  <1>6. CASE t.kind = "Watching" /\ Queued(x) # 0
    <2>1. d = Drove(x, TRUE, FALSE)
      BY <1>6 DEF d, PollRecovery, HasQueued, Queued
    <2> QED
      BY <1>3, <1>4, <1>6, <2>1 DEF Drove, Mounted
  <1>7. CASE t.kind = "Failed"
    <2> DEFINE g == Fg("Prepared", c, c, 0)
               y == [x EXCEPT !.adapter.watch = NoWatch]
               z == [y EXCEPT !.fg = LoadAnswered(@, "Failed", 0).f]
    <2>1. d = Drove(z, TRUE, FALSE)
      BY <1>7 DEF d, PollRecovery
    <2>2. y = [x EXCEPT !.adapter = a]
      OBVIOUS
    <2>3. LoadAnswered(x.fg, "Failed", 0).f = g
      BY DEF LoadAnswered, Step
    <2> HIDE DEF a, y, g
    <2>4. /\ y.route = x.route /\ y.session = x.session /\ y.preview = x.preview
          /\ y.held = x.held /\ y.engine = x.engine /\ y.mail = x.mail /\ y.slot = x.slot
          /\ y.exiting = x.exiting /\ y.wish = x.wish /\ y.screen = x.screen /\ y.fg = x.fg
          /\ y.adapter = a
          /\ DOMAIN y = DOMAIN x
      BY <2>2 DEF Player
    <2>5. z = [y EXCEPT !.fg = g]
      BY <2>3, <2>4
    <2> HIDE DEF z
    <2>6. /\ z.route = y.route /\ z.session = y.session /\ z.preview = y.preview
          /\ z.held = y.held /\ z.engine = y.engine /\ z.mail = y.mail /\ z.slot = y.slot
          /\ z.exiting = y.exiting /\ z.wish = y.wish /\ z.screen = y.screen
          /\ z.adapter = y.adapter /\ z.fg = g
      BY <2>4, <2>5 DEF Player
    <2>7. v = z
      BY <1>3, <2>1 DEF Drove, Mounted
    <2>8. g.kind = "Prepared" /\ g.clock = c /\ g.saved = c
      BY FgFields DEF g
    <2> QED
      BY <1>4, <1>5, <1>7, <2>4, <2>6, <2>7, <2>8
  <1>8. CASE t.kind = "Launched" /\ t.attempt = x.engine.attempt
    <2> DEFINE g == Fg("LoadPending", c, c, t.attempt)
               y == [x EXCEPT !.adapter.watch = NoWatch]
               n == [x.engine EXCEPT !.follows = TRUE]
               p == [x.screen EXCEPT !.page = "Player"]
               z == [y EXCEPT !.fg = LoadAnswered(@, "Launched", t.attempt).f,
                              !.engine.follows = @ \/ y.engine.attempt = t.attempt]
    <2>1. d = Drove(z, TRUE, TRUE)
      BY <1>8 DEF d, PollRecovery
    <2>2. y = [x EXCEPT !.adapter = a]
      OBVIOUS
    <2>3. LoadAnswered(x.fg, "Launched", t.attempt).f = g
      BY DEF LoadAnswered, Step
    <2>9. /\ n.serial = x.engine.serial /\ n.attempt = x.engine.attempt
          /\ n.call = x.engine.call /\ n.failed = x.engine.failed /\ n.late = x.engine.late
          /\ n.dead = x.engine.dead /\ n.waited = x.engine.waited /\ n.follows
          /\ n.goal = x.engine.goal /\ n.ready = x.engine.ready
      BY PlayerFacts DEF Engine
    <2>10. p.page = "Player" /\ p.front = x.screen.front
      BY PlayerFacts DEF Screen
    <2> HIDE DEF a, y, g
    <2>4. /\ y.route = x.route /\ y.session = x.session /\ y.preview = x.preview
          /\ y.held = x.held /\ y.engine = x.engine /\ y.mail = x.mail /\ y.slot = x.slot
          /\ y.exiting = x.exiting /\ y.wish = x.wish /\ y.screen = x.screen /\ y.fg = x.fg
          /\ y.adapter = a
          /\ DOMAIN y = DOMAIN x
      BY <2>2 DEF Player
    <2>11. [y.engine EXCEPT !.follows = @ \/ y.engine.attempt = t.attempt] = n
      BY <1>8, <2>4, PlayerFacts DEF Engine
    <2> HIDE DEF n
    <2>5. z = [y EXCEPT !.fg = g, !.engine = n]
      BY <2>3, <2>4, <2>11
    <2> HIDE DEF z
    <2>6. /\ z.route = y.route /\ z.session = y.session /\ z.preview = y.preview
          /\ z.held = y.held /\ z.mail = y.mail /\ z.slot = y.slot /\ z.exiting = y.exiting
          /\ z.wish = y.wish /\ z.screen = y.screen /\ z.adapter = y.adapter /\ z.fg = g
          /\ z.engine = n /\ DOMAIN z = DOMAIN x
      BY <2>4, <2>5 DEF Player
    <2>7. v = [z EXCEPT !.screen.page = "Player"]
      BY <1>3, <2>1 DEF Drove, Mounted
    <2>12. v = [z EXCEPT !.screen = p]
      BY <2>4, <2>6, <2>7
    <2>13. DOMAIN x = {"route", "session", "preview", "held", "engine", "mail", "slot", "adapter", "fg",
                      "screen", "exiting", "wish"}
      BY DEF Player
    <2> HIDE DEF p
    <2>14. /\ v.route = z.route /\ v.session = z.session /\ v.preview = z.preview
           /\ v.held = z.held /\ v.mail = z.mail /\ v.slot = z.slot /\ v.exiting = z.exiting
           /\ v.wish = z.wish /\ v.adapter = z.adapter /\ v.engine = z.engine /\ v.fg = z.fg
           /\ v.screen = p
      BY <2>6, <2>12, <2>13
    <2>8. g.kind = "LoadPending" /\ g.clock = c /\ g.saved = c /\ g.attempt = t.attempt
      BY FgFields DEF g
    <2> QED
      BY <1>4, <1>5, <1>8, <2>4, <2>6, <2>8, <2>9, <2>10, <2>14
  <1> QED
    BY <1>4, <1>6, <1>7, <1>8

\* poll_foreground_flight with land_recovery keeps the player coherent, and has polled
\* the release machine on the way.
LEMMA PollRecoveryWhole ==
    ASSUME NEW w, Whole(w, "settle"), Front(w), w.screen.front, w.fg.kind = "RecoveryPending",
           NEW e \in Chance, NEW v, v = Mounted(PollFlight(w, e))
    PROVE  Whole(v, "settle") /\ Front(v) /\ Patient(v)
  <1> DEFINE x == PollRelease(w, e)
  <1>1. w \in Player /\ Good(w) /\ w.fg \in Lifecycle /\ Typed(w)
    BY TypedFacts DEF Whole
  <1>2. /\ w.adapter.watch.kind = "Watching" /\ Queued(w) # 0
        /\ PendingRouteStart(w.route) = Queued(w)
        /\ ~w.session.as_preview /\ ~Live(w)
        /\ (w.adapter.release.kind = "Overdue" => Queued(w) = 0)
    BY DEF Whole, Coherent, Parked, Numbered, Parks
  <1>3. v = Mounted(PollRecovery(x))
    BY <1>2 DEF PollFlight, NoWatch
  <1>4. Polled(w, x)
    BY <1>1, PollPolled
  <1>5. Driven(w, x)
    BY <1>1, DriveReleaseDriven DEF PollRelease
  <1> HIDE DEF x
  <1>6. /\ x \in Player /\ Good(x) /\ x.fg = w.fg /\ Stays(w, x)
        /\ w.route.serials <= x.route.serials /\ w.route.attempts <= x.route.attempts
    BY <1>4, <1>5 DEF Polled, Driven, Advances, Goes
  <1>7. /\ w.adapter.release.kind \in {"Releasing", "Overdue", "Idle"}
        /\ x.adapter.release.kind \in {"Releasing", "Overdue", "Idle"}
    BY <1>1, <1>6, NativeFacts DEF Release
  <1>8. w.adapter.release.kind = "Releasing" /\ (x.adapter.release.kind = "Idle" => Queued(x) = 0)
    BY <1>1, <1>2, <1>6, <1>7 DEF Good, ObjectInv, Queued
  <1>9. v \in Player /\ Good(v) /\ v.fg \in Lifecycle
    BY <1>1, <1>3, <1>6, RecoveryRuns
  <1>10. CASE Queued(x) # 0
    <2>1. x.adapter.release.kind = "Releasing"
      BY <1>2, <1>4, <1>7, <1>8, <1>10 DEF Polled, Queued
    <2>2. x = w /\ ~w.slot.returned /\ ~w.slot.late
      BY <1>4, <2>1 DEF Polled
    <2>3. v = w
      BY <1>1, <1>2, <1>3, <2>2, RecoveryRuns
    <2> QED
      BY <2>2, <2>3 DEF Patient
  <1>11. CASE Queued(x) = 0
    <2>1. \/ /\ NoLoad(w.engine, x.engine) /\ Drops(w.route, x.route, Queued(w))
             /\ x.adapter.watch.kind = "Failed"
          \/ /\ NewLoad(x.engine, Queued(w), w.session.paused) /\ ~x.engine.waited
             /\ Claimed(w.route, x.route, Queued(w), x.engine.attempt)
             /\ x.adapter.watch.kind = "Launched" /\ x.adapter.watch.attempt = x.engine.attempt
      BY <1>2, <1>4, <1>11 DEF Polled, Queued
    <2>2. Recovered(w, v)
      <3>1. CASE /\ NoLoad(w.engine, x.engine) /\ Drops(w.route, x.route, Queued(w))
                 /\ x.adapter.watch.kind = "Failed"
        <4>1. /\ v.fg.kind = "Prepared" /\ v.fg.clock = w.fg.clock /\ v.fg.saved = w.fg.clock
              /\ v.route = x.route /\ v.session = x.session /\ v.held = x.held
              /\ v.engine = x.engine /\ v.mail = x.mail /\ v.exiting = x.exiting
              /\ v.wish = x.wish /\ v.screen = x.screen
              /\ v.adapter.release = x.adapter.release
          BY <1>1, <1>3, <1>6, <3>1, RecoveryRuns
        <4>2. /\ x.route.under = w.route.under /\ x.route.flight = w.route.flight
              /\ x.route.last = w.route.last
          BY <3>1 DEF Drops
        <4> QED
          BY <1>6, <1>9, <1>11, <3>1, <4>1, <4>2 DEF Recovered, Stays, Queued
      <3>2. CASE /\ NewLoad(x.engine, Queued(w), w.session.paused) /\ ~x.engine.waited
                 /\ Claimed(w.route, x.route, Queued(w), x.engine.attempt)
                 /\ x.adapter.watch.kind = "Launched"
                 /\ x.adapter.watch.attempt = x.engine.attempt
        <4>1. /\ v.fg.kind = "LoadPending" /\ v.fg.clock = w.fg.clock /\ v.fg.saved = w.fg.clock
              /\ v.fg.attempt = x.engine.attempt
              /\ v.route = x.route /\ v.session = x.session /\ v.held = x.held
              /\ v.mail = x.mail /\ v.exiting = x.exiting /\ v.wish = x.wish
              /\ v.engine.serial = x.engine.serial /\ v.engine.attempt = x.engine.attempt
              /\ v.engine.call = x.engine.call /\ v.engine.failed = x.engine.failed
              /\ v.engine.late = x.engine.late /\ v.engine.dead = x.engine.dead
              /\ v.engine.waited = x.engine.waited
              /\ v.engine.goal = x.engine.goal /\ v.engine.ready = x.engine.ready
              /\ v.engine.follows /\ v.adapter.release = x.adapter.release
              /\ v.screen.page = "Player" /\ v.screen.front = x.screen.front
          BY <1>1, <1>3, <1>6, <3>2, RecoveryRuns
        <4>2. x.engine.attempt = w.route.attempts + 1 /\ w.route.attempts \in Nat
          BY <1>1, <3>2, NativeFacts DEF Claimed
        <4> QED
          BY <1>6, <1>9, <1>11, <3>2, <4>1, <4>2 DEF Recovered, Stays, Queued, Claimed, NewLoad
      <3> QED
        BY <2>1, <3>1, <3>2
    <2>3. Whole(v, "settle")
      BY <2>2, RecoveredWhole
    <2> QED
      BY <2>2, <2>3 DEF Recovered, Front, Patient
  <1> QED
    BY <1>10, <1>11

\* The lifecycle's flight poll keeps the player coherent.
LEMMA SettleFlightWhole ==
    ASSUME NEW w, Whole(w, "settle"), Front(w), NEW e \in Chance, NEW v, v = SettleFlight(w, e)
    PROVE  Whole(v, "settle") /\ Front(v) /\ Patient(v)
  <1>1. CASE w.screen.front /\ FlightPending(w.fg)
    <2>1. v = Mounted(PollFlight(w, e))
      BY <1>1 DEF SettleFlight
    <2>2. CASE w.fg.kind = "PreparePending"
      BY <1>1, <2>1, <2>2, PollPrepareWhole DEF PollFlight
    <2>3. CASE w.fg.kind = "RecoveryPending"
      BY <1>1, <2>1, <2>3, PollRecoveryWhole
    <2> QED
      BY <1>1, <2>2, <2>3 DEF FlightPending
  <1>2. CASE ~(w.screen.front /\ FlightPending(w.fg))
    BY <1>2 DEF SettleFlight, FlightPending, Front, Patient
  <1> QED
    BY <1>1, <1>2

------------------------------------------------------------------------------
(* The Load a restore follows.                                              *)

\* What route_start_status says of the Load a restore follows: never superseded,
\* pending exactly while the route starts, and never stale or started over a Load that
\* was refused in its budget.
LEMMA LoadStatusIs ==
    ASSUME NEW w, Whole(w, "settle"), w.fg.kind = "LoadPending",
           NEW t, t = RouteStartStatus(w.route, w.fg.attempt)
    PROVE  /\ t.what \in {"Pending", "Started", "Failed", "Stale"}
           /\ t.what = "Pending" => w.route.phase = "Starting"
           /\ t.what = "Started" => Live(w)
           /\ t.what = "Failed" => Live(w) /\ w.route.phase = "Failed"
           /\ t.what = "Stale" => ~(w.engine.call = "bad" /\ ~w.engine.late)
           /\ t.what = "Started" => ~(w.engine.call = "bad" /\ ~w.engine.late)
           /\ t.what # "Pending" => w.route.phase # "Starting"
  <1>1. w \in Player /\ Good(w) /\ w.fg \in Lifecycle /\ Typed(w)
    BY TypedFacts DEF Whole
  <1>2. /\ Live(w) => w.fg.attempt = w.engine.attempt /\ w.engine.attempt # 0
        /\ ~Live(w) => w.route.phase = "Idle" /\ w.fg.attempt # 0 /\ w.engine.call = "none"
        /\ w.engine.call = "bad" /\ ~w.engine.late =>
           \/ w.route.phase = "Starting"
           \/ /\ w.route.phase = "Failed" /\ w.route.last.attempt = w.engine.attempt
              /\ ~w.route.last.ok /\ w.route.last.serial = w.route.serial
        /\ w.route.phase = "Starting" => Live(w) /\ w.route.attempt = w.engine.attempt
        /\ Live(w) => w.route.last.attempt <= w.engine.attempt
        /\ w.fg.attempt \in Nat /\ w.route.last.attempt \in Nat /\ w.route.attempt \in Nat
        /\ w.engine.attempt \in Nat
    BY <1>1, PlayerFacts DEF Whole, Coherent, Core, Owned, Restores, Numbered, Live, Good,
       ObjectInv, Route,
       Lifecycle, Typed
  <1> DEFINE p == w.route.phase
             n == w.fg.attempt
             cur == IF p = "Starting" THEN w.route.attempt
                    ELSE IF Completed(w.route) THEN w.route.last.attempt ELSE 0
  <1>3. /\ cur \in Nat /\ n \in Nat
        /\ Live(w) => cur <= n
        /\ ~Live(w) => cur = 0 /\ n # 0
        /\ p = "Starting" => cur = n /\ Live(w)
        /\ w.engine.call = "bad" /\ ~w.engine.late => p = "Starting" \/ (p = "Failed" /\ cur = n)
    BY <1>2 DEF Completed
  <1>4. /\ cur = n /\ p = "Starting" => t.what = "Pending"
        /\ cur = n /\ p = "Stable" => t.what = "Started"
        /\ cur = n /\ p = "Failed" => t.what = "Failed"
        /\ ~(cur = n /\ p \in {"Starting", "Stable", "Failed"}) /\ ~(cur > n) => t.what = "Stale"
    <2>1. t = CASE cur = n /\ p = "Starting" -> Status("Pending", 0)
               [] cur = n /\ p = "Stable" -> Status("Started", 0)
               [] cur = n /\ p = "Failed" -> Status("Failed", 0)
               [] cur > n -> Status("Superseded", cur)
               [] OTHER -> Status("Stale", 0)
      BY Zenon DEF RouteStartStatus
    <2> HIDE DEF cur, p, n
    <2>2. /\ cur = n /\ p = "Starting" => t = Status("Pending", 0)
          /\ cur = n /\ p = "Stable" => t = Status("Started", 0)
          /\ cur = n /\ p = "Failed" => t = Status("Failed", 0)
          /\ ~(cur = n /\ p \in {"Starting", "Stable", "Failed"}) /\ ~(cur > n)
             => t = Status("Stale", 0)
      BY <1>3, <2>1
    <2> QED
      BY <2>2 DEF Status
  <1> HIDE DEF p, n, cur
  <1>5. ~(cur > n)
    BY <1>3
  <1>6. w.route.phase = p
    BY DEF p
  <1> QED
    BY <1>3, <1>4, <1>5, <1>6

\* What a poll of the Load that a restore follows comes to.
Followed(w, v) ==
    LET c == w.fg.clock
    IN  /\ v \in Player /\ Good(v) /\ v.fg \in Lifecycle
        /\ \/ /\ v.route = w.route /\ v.session = w.session /\ v.preview = w.preview
              /\ v.held = w.held /\ v.engine = w.engine /\ v.mail = w.mail
              /\ v.adapter = w.adapter /\ v.fg = w.fg /\ v.screen = w.screen
              /\ v.exiting = w.exiting /\ v.wish = w.wish /\ v.slot = w.slot
              /\ w.route.phase = "Starting"
           \/ /\ v.route = w.route /\ v.session = w.session /\ v.preview = w.preview
              /\ v.held = w.held /\ v.engine = w.engine /\ v.mail = w.mail
              /\ v.adapter = w.adapter /\ v.screen = w.screen /\ v.exiting = w.exiting
              /\ v.wish = w.wish
              /\ v.fg.kind = "Idle" /\ ~(w.engine.call = "bad" /\ ~w.engine.late)
              /\ w.route.phase # "Starting"
           \/ /\ LetBe(w, v) /\ v.session = w.session /\ v.wish = c
              /\ Live(w) /\ w.route.phase = "Failed" /\ v.route = w.route
              /\ v.fg.kind = "Prepared" /\ v.fg.clock = c /\ v.fg.saved = c

\* The poll of a followed Load keeps the player coherent: the clock the restore ends
\* with is the viewer's.
LEMMA FollowedWhole ==
    ASSUME NEW w, Whole(w, "settle"), w.fg.kind = "LoadPending", NEW v, Followed(w, v)
    PROVE  Whole(v, "requests")
  <1>1. /\ w \in Player /\ Good(w) /\ w.fg \in Lifecycle /\ Typed(w)
        /\ v \in Player /\ Good(v) /\ v.fg \in Lifecycle /\ Typed(v)
    BY TypedFacts DEF Whole, Followed
  <1>2. Live(v) => Queued(v) = 0
    BY <1>1 DEF Good, ObjectInv, Live, Queued
  <1>20. Core(v) /\ Coherent(v, "requests")
    <2> USE DEF Whole, Coherent, Core, Owned, OnRoute, IdleHeard, Numbered, Loaded, Asked, Waits,
       Shown, Parked, Restores, Paged, Typed, Live, Playing, Heard, ClockIs, Queued, Pending,
       StableBelow, MayRequest, PendingRouteStart, ResumeFlightOutstanding, Parks
    <2>1. Owned(v)
      BY <1>1, <1>2 DEF Followed, LetBe, NoEngine
    <2>2. OnRoute(v)
      BY <1>1, <1>2 DEF Followed, LetBe, NoEngine
    <2>3. IdleHeard(v)
      BY <1>1, <1>2 DEF Followed, LetBe, NoEngine
    <2>4. Numbered(v)
      BY <1>1, <1>2 DEF Followed, LetBe, NoEngine
    <2>5. Loaded(v)
      BY <1>1, <1>2 DEF Followed, LetBe, NoEngine
    <2>6. Asked(v, "requests")
      BY <1>1, <1>2 DEF Followed, LetBe, NoEngine
    <2>7. Waits(v)
      BY <1>1, <1>2 DEF Followed, LetBe, NoEngine
    <2>8. Shown(v, "requests")
      BY <1>1, <1>2 DEF Followed, LetBe, NoEngine
    <2>9. Parked(v, "requests")
      BY <1>1, <1>2 DEF Followed, LetBe, NoEngine
    <2>10. Restores(v, "requests")
      BY <1>1, <1>2 DEF Followed, LetBe, NoEngine
    <2>11. Paged(v)
      BY <1>1, <1>2 DEF Followed, LetBe, NoEngine
    <2> QED
      BY <2>1, <2>2, <2>3, <2>4, <2>5, <2>6, <2>7, <2>8, <2>9, <2>10, <2>11
  <1> QED
    BY <1>1, <1>20 DEF Whole

\* poll_foreground_load goes on waiting, ends the restore, or stops the refused Engine
\* and keeps the restore to be claimed again.
LEMMA PollLoadFollowed ==
    ASSUME NEW w, Whole(w, "settle"), w.fg.kind = "LoadPending", NEW e \in Chance,
           NEW v, v = PollLoad(w, e)
    PROVE  Followed(w, v)
  <1> DEFINE t == RouteStartStatus(w.route, w.fg.attempt)
             s == LoadStatus(w.fg, t)
             c == w.fg.clock
             n == [w.engine EXCEPT !.follows = @ \/ (t.what = "Superseded" /\ w.engine.attempt = t.follow)]
             y == [w EXCEPT !.fg = s.f, !.engine.follows = @ \/ (t.what = "Superseded" /\ w.engine.attempt = t.follow)]
             x == [y EXCEPT !.wish = c]
             g == s.f
  <1>1. w \in Player /\ Good(w) /\ w.fg \in Lifecycle /\ Typed(w) /\ c \in Clocks
    BY TypedFacts DEF Whole, Lifecycle
  <1>2. /\ t.what \in {"Pending", "Started", "Failed", "Stale"}
        /\ t.what = "Pending" => w.route.phase = "Starting"
        /\ t.what = "Started" => Live(w)
        /\ t.what = "Failed" => Live(w) /\ w.route.phase = "Failed"
        /\ t.what = "Stale" => ~(w.engine.call = "bad" /\ ~w.engine.late)
        /\ t.what = "Started" => ~(w.engine.call = "bad" /\ ~w.engine.late)
        /\ t.what # "Pending" => w.route.phase # "Starting"
    BY LoadStatusIs
  <1>3. v = CASE s.effect = "AfterLoad" /\ s.about # 0
          /\ y.engine.attempt = s.about -> Teardown(x, TRUE, e)
              [] s.effect = "PlayClock" -> RunClock(y, e)
              [] OTHER -> y
    BY DEF PollLoad, Follows
  <1> HIDE DEF t
  <1>4. n = w.engine
    BY <1>1, <1>2, PlayerFacts DEF Engine
  <1>5. y = [w EXCEPT !.fg = g, !.engine = n]
    OBVIOUS
  <1>6. y = [w EXCEPT !.fg = g]
    BY <1>1, <1>4, <1>5 DEF Player
  <1>7. /\ t.what = "Pending" => s.f = w.fg /\ s.effect = "None"
        /\ t.what = "Failed" => s.f = Fg("Prepared", c, c, 0) /\ s.effect = "AfterLoad"
             /\ s.about = w.fg.attempt
        /\ t.what = "Stale" => s.f = Unowed /\ s.effect = "AfterLoad" /\ s.about = 0
        /\ t.what = "Started" /\ c = "Paused" => s.f = Unowed /\ s.effect = "None"
        /\ t.what = "Started" /\ c # "Paused" => s.f = Fg("ClaimClock", "Playing", "Playing", 0)
             /\ s.effect = "PlayClock"
    BY DEF LoadStatus, Quiet, Step
  <1>8. /\ Fg("Prepared", c, c, 0) \in Lifecycle /\ Unowed \in Lifecycle /\ Unowed.kind = "Idle"
        /\ Fg("ClaimClock", "Playing", "Playing", 0) \in Machine
    BY <1>1, UnowedFacts, KindFacts, FgFacts
  <1>9. g \in Machine
    BY <1>1, <1>2, <1>7, <1>8, LifecycleMachine
  <1> HIDE DEF s, n, y, g
  <1>10. /\ y \in Player /\ Good(y) /\ y.fg = g
         /\ y.route = w.route /\ y.session = w.session /\ y.preview = w.preview
         /\ y.held = w.held /\ y.engine = w.engine /\ y.mail = w.mail /\ y.adapter = w.adapter
         /\ y.screen = w.screen /\ y.exiting = w.exiting /\ y.wish = w.wish /\ y.slot = w.slot
    BY <1>1, <1>6, <1>9, SetFgFields
  <1>11. CASE t.what = "Pending"
    <2>1. v = y
      BY <1>3, <1>7, <1>11
    <2> QED
      BY <1>1, <1>2, <1>7, <1>10, <1>11, <2>1 DEF Followed, g
  <1>12. CASE t.what = "Stale"
    <2>1. v = y
      BY <1>3, <1>7, <1>12
    <2> QED
      BY <1>2, <1>7, <1>8, <1>10, <1>12, <2>1 DEF Followed, g
  <1>13. CASE t.what = "Started" /\ c = "Paused"
    <2>1. v = y
      BY <1>3, <1>7, <1>13
    <2> QED
      BY <1>2, <1>7, <1>8, <1>10, <1>13, <2>1 DEF Followed, g
  <1>14. CASE t.what = "Started" /\ c # "Paused"
    <2> DEFINE accepted == ~y.session.paused \/ e.accepts
               k == [y.session EXCEPT !.paused = @ /\ ~accepted]
               z == ClockAnswered(y.fg, accepted)
    <2>1. v = RunClock(y, e)
      BY <1>3, <1>7, <1>14
    <2>2. ~w.session.paused
      BY <1>1, <1>2, <1>14 DEF Whole, Coherent, Restores, ClockIs
    <2>3. accepted
      BY <1>10, <2>2
    <2>4. k = y.session
      BY <1>10, <2>2, <2>3, PlayerFacts DEF Session
    <2>5. y.fg.kind = "ClaimClock"
      BY <1>7, <1>10, <1>14, FgFields DEF g
    <2>6. z = Unowed
      BY <2>3, <2>5 DEF ClockAnswered
    <2>7. v = [y EXCEPT !.session = k, !.fg = z]
      BY <2>1 DEF RunClock
    <2>8. z \in Machine
      BY <1>8, <2>6, LifecycleMachine
    <2> HIDE DEF accepted, k, z
    <2>9. v = [y EXCEPT !.fg = z]
      BY <1>10, <2>4, <2>7 DEF Player
    <2>10. /\ v \in Player /\ Good(v) /\ v.fg = z
           /\ v.route = y.route /\ v.session = y.session /\ v.preview = y.preview
           /\ v.held = y.held /\ v.engine = y.engine /\ v.mail = y.mail /\ v.adapter = y.adapter
           /\ v.screen = y.screen /\ v.exiting = y.exiting /\ v.wish = y.wish
      BY <1>10, <2>8, <2>9, SetFgFields
    <2> QED
      BY <1>2, <1>8, <1>10, <1>14, <2>6, <2>10 DEF Followed
  <1>15. CASE t.what = "Failed"
    <2>1. w.fg.attempt = w.engine.attempt /\ w.engine.attempt # 0
      BY <1>2, <1>15 DEF Whole, Coherent, Restores, Live
    <2>2. v = Teardown(x, TRUE, e)
      BY <1>3, <1>7, <1>10, <1>15, <2>1
    <2>8. /\ x \in Player /\ Good(x) /\ x.wish = c /\ x.route = y.route
          /\ x.session = y.session /\ x.preview = y.preview /\ x.held = y.held
          /\ x.engine = y.engine /\ x.mail = y.mail /\ x.slot = y.slot
          /\ x.adapter = y.adapter /\ x.fg = y.fg /\ x.screen = y.screen
          /\ x.exiting = y.exiting
      BY <1>1, <1>10, SetWishFields
    <2> HIDE DEF x
    <2>3. ~x.session.preview /\ x.route.phase # "Starting" /\ Live(x) /\ Queued(x) = 0
      BY <1>2, <1>10, <1>15, <2>8 DEF Whole, Coherent, Parked, Live, Good, ObjectInv, Queued
    <2>4. /\ LetBe(x, v) /\ v.session = x.session /\ v.fg = x.fg /\ v.wish = x.wish
          /\ Reloads(x.route, v.route, Queued(x))
      BY <2>2, <2>3, <2>8, ReloadFields
    <2>5. v.route = w.route
      BY <1>2, <1>10, <1>15, <2>3, <2>4, <2>8 DEF Reloads, Fails, ResumeFlightOutstanding
    <2>6. v.fg \in Lifecycle /\ v.fg.kind = "Prepared" /\ v.fg.clock = c /\ v.fg.saved = c
      BY <1>7, <1>8, <1>10, <1>15, <2>4, <2>8, FgFields DEF g
    <2>7. LetBe(w, v)
      BY <1>10, <2>4, <2>8 DEF LetBe, Live
    <2> QED
      BY <1>2, <1>10, <1>15, <2>4, <2>5, <2>6, <2>7, <2>8 DEF Followed, LetBe
  <1> QED
    BY <1>2, <1>11, <1>12, <1>13, <1>14, <1>15

\* A frame in which no Load is followed passes its settling with nothing to settle.
LEMMA RequestsTurn ==
    ASSUME NEW w, Whole(w, "settle"), w.fg.kind # "LoadPending"
    PROVE  Whole(w, "requests")
  BY DEF Whole, Coherent, Asked, Shown, Parked, Restores

\* The lifecycle's Load poll keeps the player coherent, and does not forget a restore
\* whose Load was refused in its budget.
LEMMA SettleLoadWhole ==
    ASSUME NEW w, Whole(w, "settle"), Front(w), Patient(w), NEW e \in Chance,
           NEW v, v = SettleLoad(w, e)
    PROVE  /\ Whole(v, "requests") /\ Front(v) /\ Patient(v)
           /\ w.fg.kind = "LoadPending" /\ w.engine.call = "bad"
                /\ ~w.engine.late => v.fg.kind # "Idle"
  <1>1. CASE w.fg.kind # "LoadPending"
    <2>1. v = w
      BY <1>1 DEF SettleLoad, PollLoad, Follows
    <2> QED
      BY <1>1, <2>1, RequestsTurn
  <1>2. CASE w.fg.kind = "LoadPending"
    <2>1. v = PollLoad(w, e)
      BY <1>2 DEF SettleLoad, MayRun, Front, AwaitingLoad
    <2>2. Followed(w, v)
      BY <1>2, <2>1, PollLoadFollowed
    <2>3. Whole(v, "requests")
      BY <1>2, <2>2, FollowedWhole
    <2>4. Front(v) /\ Patient(v)
      BY <1>2, <2>2 DEF Followed, Front, Patient
    <2> QED
      BY <1>2, <2>2, <2>3, <2>4 DEF Followed
  <1> QED
    BY <1>1, <1>2

------------------------------------------------------------------------------
(* The settling of a frame.                                                 *)

\* Reaping an abandoned Load keeps the player coherent.
LEMMA ReapWhole ==
    ASSUME NEW w, NEW t, Whole(w, t), NEW v, v = Reap(w)
    PROVE  /\ Whole(v, t) /\ (Front(w) => Front(v)) /\ (Patient(w) => Patient(v))
           /\ v.fg = w.fg /\ v.screen = w.screen
  <1>0. w \in Player /\ Good(w)
    BY DEF Whole
  <1>2. /\ Stays(w, v) /\ v.preview = w.preview /\ v.adapter = w.adapter /\ v.engine = w.engine
        /\ v.route = w.route
    BY <1>0, ReapFields
  <1>3. v.slot.returned = w.slot.returned /\ v.slot.late = w.slot.late
    <2> DEFINE s == [w.slot EXCEPT !.abandoned = 0, !.back = FALSE]
    <2>1. v = w \/ v = [w EXCEPT !.slot = s]
      BY DEF Reap
    <2>2. s.returned = w.slot.returned /\ s.late = w.slot.late
      BY <1>0, PlayerFacts DEF Object
    <2> HIDE DEF s
    <2> QED
      BY <1>0, <2>1, <2>2 DEF Player
  <1>4. v \in Player /\ Good(v)
    BY <1>0, ReapAdvances
  <1>1. /\ w \in Player /\ Good(w) /\ w.fg \in Lifecycle /\ Typed(w)
        /\ v \in Player /\ Good(v) /\ v.fg \in Lifecycle /\ Typed(v)
    BY <1>0, <1>2, <1>4, TypedFacts DEF Whole, Stays
  <1>5. Whole(v, t)
    BY <1>0, <1>1, <1>2 DEF Stays, Whole, Core, Coherent, Owned, OnRoute, IdleHeard, Numbered,
       Loaded, Asked, Waits,
       Shown, Parked, Restores, Paged, Live, Playing, Heard, ClockIs, Queued
  <1> QED
    BY <1>2, <1>3, <1>5 DEF Stays, Front, Patient

\* What a poll of the release machine comes to, where no restore waits on the queue.
Polls(w, v) ==
    LET q == Queued(w)
        n == v.engine
    IN  /\ v \in Player /\ Good(v) /\ v.fg \in Lifecycle
        /\ v.session = w.session /\ v.held = w.held /\ v.fg = w.fg /\ v.screen = w.screen
        /\ v.exiting = w.exiting /\ v.wish = w.wish /\ v.mail = w.mail
        /\ w.route.serials <= v.route.serials /\ w.route.attempts <= v.route.attempts
        /\ v.route.under = w.route.under /\ v.route.flight = w.route.flight
        /\ v.route.last = w.route.last
        /\ v.adapter.release.kind = "Overdue" => Queued(v) = 0
        /\ \/ /\ v.route = w.route /\ v.engine = w.engine /\ v.preview = w.preview
              /\ Queued(v) = q
           \/ /\ q # 0 /\ Queued(v) = 0 /\ NoLoad(w.engine, n) /\ Drops(w.route, v.route, q)
              /\ v.preview \in {w.preview, "Idle"}
           \/ /\ q # 0 /\ Queued(v) = 0 /\ ~Live(w) /\ NewLoad(n, q, w.session.paused) /\ w.session.url
              /\ (n.waited <=> w.session.as_preview) /\ w.route.attempts < n.attempt
              /\ w.route.phase \in {"Preparing", "Prepared"} /\ w.route.serial = q
              /\ v.route.phase = "Starting" /\ v.route.serial = q /\ v.route.attempt = n.attempt

\* A poll of the release machine keeps the player coherent, where no restore waits on
\* the queue.
LEMMA PollsWhole ==
    ASSUME NEW w, Whole(w, "requests"), w.fg.kind # "RecoveryPending", NEW v, Polls(w, v)
    PROVE  Whole(v, "requests")
  <1>1. /\ w \in Player /\ Good(w) /\ w.fg \in Lifecycle /\ Typed(w)
        /\ v \in Player /\ Good(v) /\ v.fg \in Lifecycle /\ Typed(v)
    BY TypedFacts DEF Whole, Polls
  <1>2. Queued(w) # 0 => ~Live(w) /\ w.engine.call = "none"
    BY <1>1 DEF Good, ObjectInv, Live, Queued
  <1>3. Queued(w) # 0 => w.fg.kind = "Idle"
    BY <1>1, <1>2 DEF Whole, Coherent, Parked, Parks, Restores, Lifecycle, Kinds
  <1>20. Core(v) /\ Coherent(v, "requests")
    <2> USE DEF Whole, Coherent, Core, Owned, OnRoute, IdleHeard, Numbered, Loaded, Asked, Waits,
       Shown, Parked, Restores, Paged, Typed, Live, Playing, Heard, ClockIs, Queued, Pending,
       StableBelow, MayRequest, PendingRouteStart, ResumeFlightOutstanding, Parks
    <2>1. Owned(v)
      BY <1>1, <1>2, <1>3 DEF Polls, NewLoad, NoLoad, Drops
    <2>2. OnRoute(v)
      BY <1>1, <1>2, <1>3 DEF Polls, NewLoad, NoLoad, Drops
    <2>3. IdleHeard(v)
      BY <1>1, <1>2, <1>3 DEF Polls, NewLoad, NoLoad, Drops
    <2>4. Numbered(v)
      BY <1>1, <1>2, <1>3 DEF Polls, NewLoad, NoLoad, Drops
    <2>5. Loaded(v)
      BY <1>1, <1>2, <1>3 DEF Polls, NewLoad, NoLoad, Drops
    <2>6. Asked(v, "requests")
      BY <1>1, <1>2, <1>3 DEF Polls, NewLoad, NoLoad, Drops
    <2>7. Waits(v)
      BY <1>1, <1>2, <1>3 DEF Polls, NewLoad, NoLoad, Drops
    <2>8. Shown(v, "requests")
      BY <1>1, <1>2, <1>3 DEF Polls, NewLoad, NoLoad, Drops
    <2>9. Parked(v, "requests")
      BY <1>1, <1>2, <1>3 DEF Polls, NewLoad, NoLoad, Drops
    <2>10. Restores(v, "requests")
      BY <1>1, <1>2, <1>3 DEF Polls, NewLoad, NoLoad, Drops
    <2>11. Paged(v)
      BY <1>1, <1>2, <1>3 DEF Polls, NewLoad, NoLoad, Drops
    <2> QED
      BY <2>1, <2>2, <2>3, <2>4, <2>5, <2>6, <2>7, <2>8, <2>9, <2>10, <2>11, ZenonT(30)
  <1> QED
    BY <1>1, <1>20 DEF Whole

\* The frame's own poll keeps the player coherent: a restore that waits was polled for
\* just before, so this poll finds nothing for it.
LEMMA PollReleaseWhole ==
    ASSUME NEW w, Whole(w, "requests"), Front(w), Patient(w), NEW e \in Chance,
           NEW v, v = PollRelease(w, e)
    PROVE  Whole(v, "requests") /\ Front(v) /\ v.fg = w.fg
  <1>1. w \in Player /\ Good(w) /\ w.fg \in Lifecycle /\ Typed(w)
    BY TypedFacts DEF Whole
  <1>2. Polled(w, v)
    BY <1>1, PollPolled
  <1>3. Driven(w, v)
    BY <1>1, DriveReleaseDriven DEF PollRelease
  <1>4. CASE w.fg.kind = "RecoveryPending"
    <2>1. w.adapter.release.kind # "Idle"
      BY <1>1, <1>4 DEF Whole, Coherent, Parked, Good, ObjectInv, Queued
    <2> DEFINE x == [w EXCEPT !.adapter.release = Overdue(w.adapter.release.epoch)]
               b == TRUE
    <2>2. /\ b \in BOOLEAN /\ v = DriveRelease(w, b, e)
          /\ x = [w EXCEPT !.adapter.release = Overdue(w.adapter.release.epoch)]
      BY DEF PollRelease
    <2> HIDE DEF x, b
    <2>3. DriveRelease(w, b, e) =
             IF ~(w.adapter.release.kind = "Releasing" /\ w.slot.late) THEN w
             ELSE IF w.adapter.release.queued = 0 THEN x
             ELSE QueuedRan(AbortStart(x, w.adapter.release.queued, "StartFailed"), FALSE, 0)
      BY <1>1, <1>4, <2>1, <2>2, DriveTick DEF Patient
    <2>4. v = w
      BY <1>4, <2>2, <2>3 DEF Patient
    <2> QED
      BY <2>4
  <1>5. CASE w.fg.kind # "RecoveryPending"
    <2>1. w.adapter.release.kind = "Overdue" => Queued(w) = 0
      BY DEF Whole, Coherent, Numbered
    <2>2. /\ v \in Player /\ Good(v) /\ v.fg \in Lifecycle /\ v.session = w.session
          /\ v.held = w.held /\ v.fg = w.fg /\ v.screen = w.screen /\ v.exiting = w.exiting
          /\ v.wish = w.wish /\ v.mail = w.mail
          /\ w.route.serials <= v.route.serials /\ w.route.attempts <= v.route.attempts
          /\ w.route.attempts \in Nat
          /\ v.adapter.release.kind = "Overdue" => Queued(v) = 0
      BY <1>1, <1>2, <1>3, <2>1, NativeFacts DEF Polled, Driven, Advances, Goes, Stays, Queued
    <2>3. Polls(w, v)
      BY <1>2, <2>2 DEF Polled, Polls, Queued, Drops, Claimed
    <2>4. Whole(v, "requests")
      BY <1>5, <2>3, PollsWhole
    <2> QED
      BY <2>2, <2>4 DEF Front
  <1> QED
    BY <1>4, <1>5

\* The settling of a frame keeps the player coherent, and does not forget a restore
\* whose Load was refused in its budget.
LEMMA SettledWhole ==
    ASSUME NEW w, Whole(w, "settle"), Front(w), NEW e \in Chance, NEW v, v = Settled(w, e)
    PROVE  /\ Whole(v, "requests") /\ Front(v)
           /\ w.fg.kind = "LoadPending" /\ w.engine.call = "bad"
                /\ ~w.engine.late => v.fg.kind # "Idle"
  <1> DEFINE a == SettleFlight(w, e)
             b == SettleLoad(a, e)
             c == Reap(b)
  <1>1. v = PollRelease(c, e)
    BY DEF Settled
  <1>2. Whole(a, "settle") /\ Front(a) /\ Patient(a)
    BY SettleFlightWhole
  <1>3. w.fg.kind = "LoadPending" => a = w
    BY DEF SettleFlight, FlightPending
  <1> HIDE DEF a
  <1>4. /\ Whole(b, "requests") /\ Front(b) /\ Patient(b)
        /\ a.fg.kind = "LoadPending" /\ a.engine.call = "bad"
             /\ ~a.engine.late => b.fg.kind # "Idle"
    BY <1>2, SettleLoadWhole
  <1> HIDE DEF b
  <1>5. Whole(c, "requests") /\ Front(c) /\ Patient(c) /\ c.fg = b.fg
    BY <1>4, ReapWhole
  <1> HIDE DEF c
  <1>6. Whole(v, "requests") /\ Front(v) /\ v.fg = c.fg
    BY <1>1, <1>5, PollReleaseWhole
  <1> QED
    BY <1>3, <1>4, <1>5, <1>6

------------------------------------------------------------------------------
(* The start of a landed plan.                                              *)

\* finish_landed_play: a film that was accepted mounts the player; a trailer is live,
\* idle or admitted later.
LEMMA LandedStartFields ==
    ASSUME NEW r, r.w \in Player, Good(r.w), r.out \in Outs, NEW x, x = r.w, NEW v,
           v = LandedStart(r)
    PROVE  /\ v \in Player /\ Good(v)
           /\ v.route = x.route /\ v.session = x.session /\ v.held = x.held
           /\ v.engine = x.engine /\ v.mail = x.mail /\ v.fg = x.fg /\ v.exiting = x.exiting
           /\ v.wish = x.wish
           /\ v.adapter.release = x.adapter.release /\ v.screen.front = x.screen.front
           /\ ~x.session.preview =>
                v.preview = x.preview
                  /\ v.screen.page = IF r.out # "Failed" THEN "Player" ELSE x.screen.page
           /\ x.session.preview =>
                /\ v.screen = x.screen
                /\ r.out = "Failed" => v.preview = "Idle"
                /\ r.out = "Deferred" => v.preview = x.preview
                /\ r.out = "Launched" => v.preview = IF x.preview = "Fetching" THEN "Live" ELSE x.preview
  <1>0. v \in Player /\ Good(v)
    BY LandedStartAside, AsideBeside DEF Aside
  <1>1. CASE ~x.session.preview
    <2>1. x.session.preview \in BOOLEAN
      BY PlayerFacts DEF Session
    <2>2. CASE r.out # "Failed"
      <3> DEFINE y == [x EXCEPT !.screen.page = "Player"]
                 s == [x.screen EXCEPT !.page = "Player"]
      <3>1. /\ y.screen.page = "Player" /\ y.screen.front = x.screen.front
            /\ y.route = x.route /\ y.session = x.session /\ y.preview = x.preview
            /\ y.held = x.held /\ y.engine = x.engine /\ y.mail = x.mail /\ y.slot = x.slot
            /\ y.adapter = x.adapter /\ y.fg = x.fg /\ y.exiting = x.exiting /\ y.wish = x.wish
        <4>1. s.page = "Player" /\ s.front = x.screen.front /\ y = [x EXCEPT !.screen = s]
          BY PlayerFacts DEF Screen
        <4> HIDE DEF s, y
        <4> QED
          BY <4>1 DEF Player
      <3>2. v = y
        BY <1>1, <2>2, <3>1 DEF LandedStart, Accepted
      <3> HIDE DEF y
      <3> QED
        BY <1>0, <1>1, <2>2, <3>1, <3>2
    <2>3. CASE r.out = "Failed"
      <3>1. v = x
        BY <1>1, <2>3 DEF LandedStart, Accepted
      <3> QED
        BY <1>0, <1>1, <2>3, <3>1
    <2> QED
      BY <2>2, <2>3
  <1>2. CASE x.session.preview /\ r.out = "Deferred"
    <2> DEFINE a == [x.adapter EXCEPT !.admission = TRUE]
    <2>1. v = [x EXCEPT !.adapter = a]
      BY <1>2 DEF LandedStart
    <2>2. a.release = x.adapter.release
      BY PlayerFacts DEF Adapter
    <2> HIDE DEF a
    <2> QED
      BY <1>0, <1>2, <2>1, <2>2 DEF Player
  <1>3. CASE x.session.preview /\ r.out # "Deferred"
    <2> DEFINE p == IF ~Accepted(r) THEN "Idle" ELSE IF x.preview = "Fetching" THEN "Live" ELSE x.preview
    <2>1. v = [x EXCEPT !.preview = p]
      BY <1>3 DEF LandedStart
    <2>2. /\ r.out = "Failed" => p = "Idle"
          /\ r.out = "Launched" => p = IF x.preview = "Fetching" THEN "Live" ELSE x.preview
      BY DEF Accepted
    <2> HIDE DEF p
    <2> QED
      BY <1>0, <1>3, <2>1, <2>2 DEF Player
  <1> QED
    BY <1>1, <1>2, <1>3

\* A plan that has landed and is to be started.
Landable(w) ==
    /\ Whole(w, "events") /\ w.fg.kind = "Idle" /\ w.route.phase = "Prepared"
    /\ w.session.pend = "none" /\ (w.screen.page = "Player" \/ w.session.preview)
    /\ w.session.preview =>
         /\ w.session.as_preview /\ (Live(w) => w.engine.waited) /\ w.preview = "Fetching"
         /\ Queued(w) # 0 => w.screen.page = "Player"
    /\ Queued(w) # 0 => Queued(w) # w.route.serial

\* What its start comes to.
Landed(w, v) ==
    LET s == w.route.serial
        n == v.engine
    IN  /\ v \in Player /\ Good(v) /\ v.session = w.session /\ v.held = w.held
        /\ v.mail = w.mail /\ v.fg = w.fg /\ v.exiting = w.exiting /\ v.wish = w.wish
        /\ v.screen.front = w.screen.front /\ v.screen.page \in {w.screen.page, "Player"}
        /\ w.session.preview => v.screen.page = w.screen.page
        /\ w.route.serials <= v.route.serials /\ w.route.attempts <= v.route.attempts
        /\ v.route.under = w.route.under /\ v.route.flight = w.route.flight
        /\ v.route.last = w.route.last /\ v.route.serial = s
        /\ v.adapter.release.kind = "Overdue" => Queued(v) = 0
        /\ \/ /\ Live(w) /\ n = w.engine /\ v.route.phase = "Failed" /\ Queued(v) = Queued(w)
              /\ ~w.session.preview => v.preview = w.preview
           \/ /\ ~Live(w) /\ NoLoad(w.engine, n) /\ v.route.phase = "Failed" /\ Queued(v) = 0
           \/ /\ ~Live(w) /\ NewLoad(n, s, w.session.paused) /\ ~n.waited /\ Queued(v) = 0
              /\ v.route.phase = "Starting" /\ v.route.attempt = n.attempt
              /\ w.route.attempts < n.attempt
              /\ ~w.session.preview => v.screen.page = "Player"
              /\ w.session.preview /\ v.screen.page # "Player" => v.preview # "Idle"
           \/ /\ ~Live(w) /\ n = w.engine /\ Queued(v) = s /\ v.route.phase = "Prepared"
              /\ ~w.session.preview => v.screen.page = "Player"

\* The start of a landed plan keeps the player coherent.
LEMMA LandedStartWhole ==
    ASSUME NEW w, Landable(w), NEW v, Landed(w, v)
    PROVE  Whole(v, "events") /\ Front(v)
  <1>1. /\ w \in Player /\ Good(w) /\ w.fg \in Lifecycle /\ Typed(w)
        /\ v \in Player /\ Good(v) /\ v.fg \in Lifecycle /\ Typed(v)
    BY TypedFacts DEF Whole, Landed, Landable
  <1>2. (Live(w) => Queued(w) = 0) /\ (~Live(w) => w.engine.call = "none")
    BY <1>1 DEF Good, ObjectInv, Live, Queued
  <1>20. Core(v) /\ Coherent(v, "events")
    <2> USE DEF Whole, Coherent, Core, Owned, OnRoute, IdleHeard, Numbered, Loaded, Asked, Waits,
       Shown, Parked, Restores, Paged, Typed, Live, Playing, Heard, ClockIs, Queued, Pending,
       StableBelow, MayRequest, PendingRouteStart, ResumeFlightOutstanding, Parks
    <2>1. Owned(v)
      BY <1>1, <1>2 DEF Landed, Landable, NoLoad, NewLoad
    <2>2. OnRoute(v)
      BY <1>1, <1>2 DEF Landed, Landable, NoLoad, NewLoad
    <2>3. IdleHeard(v)
      BY <1>1, <1>2 DEF Landed, Landable, NoLoad, NewLoad
    <2>4. Numbered(v)
      BY <1>1, <1>2 DEF Landed, Landable, NoLoad, NewLoad
    <2>5. Loaded(v)
      BY <1>1, <1>2 DEF Landed, Landable, NoLoad, NewLoad
    <2>6. Asked(v, "events")
      BY <1>1, <1>2 DEF Landed, Landable, NoLoad, NewLoad
    <2>7. Waits(v)
      BY <1>1, <1>2 DEF Landed, Landable, NoLoad, NewLoad
    <2>8. Shown(v, "events")
      BY <1>1, <1>2 DEF Landed, Landable, NoLoad, NewLoad
    <2>9. Parked(v, "events")
      BY <1>1, <1>2 DEF Landed, Landable, NoLoad, NewLoad
    <2>10. Restores(v, "events")
      BY <1>1, <1>2 DEF Landed, Landable, NoLoad, NewLoad
    <2>11. Paged(v)
      BY <1>1, <1>2 DEF Landed, Landable, NoLoad, NewLoad
    <2> QED
      BY <2>1, <2>2, <2>3, <2>4, <2>5, <2>6, <2>7, <2>8, <2>9, <2>10, <2>11
  <1> QED
    BY <1>1, <1>20 DEF Whole, Front, Landed, Landable

\* What the start of a landed plan can come to.
LEMMA StartLanded ==
    ASSUME NEW w, Landable(w), NEW e \in Chance, NEW v, v = LandedStart(StartTracked(w, e))
    PROVE  Landed(w, v)
  <1> DEFINE r == StartTracked(w, e)
             x == r.w
  <1>1. w \in Player /\ Good(w) /\ Typed(w)
    BY TypedFacts DEF Whole, Landable
  <1>2. /\ x \in Player /\ Good(x) /\ r.out \in Outs /\ r.attempt \in Nat
        /\ w.route.serials <= x.route.serials /\ w.route.attempts <= x.route.attempts
        /\ ~Live(w) /\ Live(x) => w.route.attempts < x.engine.attempt
    BY <1>1, StartsMore
  <1>3. /\ w.route.phase \in Pending /\ w.route.serial # 0 /\ w.route.phase = "Prepared"
        /\ w.adapter.release.kind = "Overdue" => w.adapter.release.queued = 0
        /\ MayBegin(w.route) /\ NextSerial(w.route) = w.route.serial
    BY DEF Landable, Whole, Coherent, Numbered, Queued, Pending, MayBegin, NextSerial
  <1>4. /\ v \in Player /\ Good(v)
        /\ v.route = x.route /\ v.session = x.session /\ v.held = x.held /\ v.engine = x.engine
        /\ v.mail = x.mail /\ v.fg = x.fg /\ v.exiting = x.exiting /\ v.wish = x.wish
        /\ v.adapter.release = x.adapter.release /\ v.screen.front = x.screen.front
        /\ ~x.session.preview =>
             v.preview = x.preview
               /\ v.screen.page = IF r.out # "Failed" THEN "Player" ELSE x.screen.page
        /\ x.session.preview =>
             /\ v.screen = x.screen
             /\ r.out = "Failed" => v.preview = "Idle"
             /\ r.out = "Deferred" => v.preview = x.preview
             /\ r.out = "Launched" => v.preview = IF x.preview = "Fetching" THEN "Live" ELSE x.preview
    BY <1>2, LandedStartFields
  <1>5. CASE Live(w)
    <2>1. /\ r.out = "Failed" /\ Stays(w, x) /\ x.preview = w.preview
          /\ x.engine = w.engine /\ x.adapter = w.adapter
          /\ x.route.under = w.route.under /\ x.route.flight = w.route.flight
          /\ x.route.last = w.route.last /\ x.route.serial = w.route.serial
          /\ x.route.serials = w.route.serials /\ x.route.attempts = w.route.attempts
          /\ x.route.phase = "Failed"
      BY <1>1, <1>3, <1>5, LiveStarts
    <2>2. w.adapter.release.kind = "Overdue" => Queued(w) = 0
      BY <1>3 DEF Queued
    <2> HIDE DEF r
    <2> QED
      BY <1>1, <1>2, <1>4, <1>5, <2>1, <2>2 DEF Landed, Stays, Queued, Typed
  <1>6. CASE ~Live(w)
    <2>1. Starts(w, r)
      BY <1>1, <1>3, <1>6, StartTrackedStarts
    <2>2. Queued(w) # w.route.serial
      BY <1>3 DEF Landable
    <2>3. w.session.preview /\ Queued(w) = 0 => w.preview = "Fetching"
      BY DEF Landable
    <2>4. w.session.preview /\ Queued(w) # 0 => w.screen.page = "Player"
      BY DEF Landable
    <2>5. /\ v.session = w.session /\ v.held = w.held /\ v.mail = w.mail /\ v.fg = w.fg
          /\ v.exiting = w.exiting /\ v.wish = w.wish
          /\ v.screen.front = w.screen.front /\ v.screen.page \in {w.screen.page, "Player"}
          /\ w.session.preview => v.screen.page = w.screen.page
          /\ w.route.serials <= v.route.serials /\ w.route.attempts <= v.route.attempts
          /\ v.route.under = w.route.under /\ v.route.flight = w.route.flight
          /\ v.route.last = w.route.last /\ Queued(v) = x.adapter.release.queued
          /\ v.adapter.release.kind = "Overdue" => Queued(v) = 0
          /\ Live(v) => w.route.attempts < v.engine.attempt
      BY <1>2, <1>4, <1>6, <2>1 DEF Starts, Stays, Queued, Live
    <2> HIDE DEF r
    <2>6. CASE /\ NoLoad(w.engine, x.engine) /\ x.route.phase = "Failed"
               /\ x.route.serial = w.route.serial
               /\ x.adapter.release.queued = 0
      BY <1>4, <1>6, <2>5, <2>6 DEF Landed
    <2>8. CASE /\ r.out = "Launched" /\ x.adapter.release.queued = 0
               /\ NewLoad(x.engine, w.route.serial, w.session.paused) /\ ~x.engine.waited
               /\ x.route.phase = "Starting" /\ x.route.serial = w.route.serial
               /\ x.route.attempt = x.engine.attempt
      <3>1. Stays(w, x) /\ (Queued(w) = 0 => x.preview = w.preview)
        BY <2>1 DEF Starts, Queued
      <3>2. w.session.preview /\ v.screen.page # "Player" => v.preview # "Idle"
        BY <1>4, <2>3, <2>4, <2>8, <3>1 DEF Stays
      <3>3. ~w.session.preview => v.screen.page = "Player"
        BY <1>4, <2>8, <3>1 DEF Stays
      <3> QED
        BY <1>4, <1>6, <2>5, <2>8, <3>2, <3>3 DEF Landed, NewLoad, Live
    <2>9. CASE /\ r.out = "Deferred" /\ x.adapter.release.queued = w.route.serial
               /\ x.engine = w.engine /\ x.route.phase = "Prepared"
               /\ x.route.serial = w.route.serial
      <3>1. ~w.session.preview => v.screen.page = "Player"
        BY <1>4, <2>1, <2>9 DEF Stays, Starts
      <3> QED
        BY <1>4, <1>6, <2>5, <2>9, <3>1 DEF Landed
    <2> QED
      BY <1>3, <2>1, <2>2, <2>6, <2>8, <2>9 DEF Starts, Queued
  <1> QED
    BY <1>5, <1>6

------------------------------------------------------------------------------
(* The landing of a plan.                                                   *)

\* The landing step, once a press for another playback has ended the restore.
AtLanding(w) ==
    /\ Whole(w, "events") /\ Front(w)
    /\ w.session.pend # "none" /\ w.screen.front => w.fg.kind = "Idle"
    /\ w.session.pend # "none" /\ Queued(w) # 0 => ~w.held

\* With no request out, or the window behind, the landing step finds the restore where
\* it was.
LEMMA AsksLanding ==
    ASSUME NEW w, Whole(w, "asks"), Front(w), w.session.pend = "none" \/ ~w.screen.front
    PROVE  AtLanding(w)
  <1> DEFINE v == w
  <1>1. w \in Player /\ Good(w) /\ w.fg \in Lifecycle /\ Typed(w)
    BY TypedFacts DEF Whole
  <1>20. Core(v) /\ Coherent(v, "events")
    <2> USE DEF Whole, Coherent, Core, Owned, OnRoute, IdleHeard, Numbered, Loaded, Asked, Waits,
       Shown, Parked, Restores, Paged, Typed, Live, Playing, Heard, ClockIs, Queued, Pending,
       StableBelow, MayRequest, PendingRouteStart, ResumeFlightOutstanding, Parks
    <2>1. Owned(v)
      BY <1>1 DEF Front
    <2>2. OnRoute(v)
      BY <1>1 DEF Front
    <2>3. IdleHeard(v)
      BY <1>1 DEF Front
    <2>4. Numbered(v)
      BY <1>1 DEF Front
    <2>5. Loaded(v)
      BY <1>1 DEF Front
    <2>6. Asked(v, "events")
      BY <1>1 DEF Front
    <2>7. Waits(v)
      BY <1>1 DEF Front
    <2>8. Shown(v, "events")
      BY <1>1 DEF Front
    <2>9. Parked(v, "events")
      BY <1>1 DEF Front
    <2>10. Restores(v, "events")
      BY <1>1 DEF Front
    <2>11. Paged(v)
      BY <1>1 DEF Front
    <2> QED
      BY <2>1, <2>2, <2>3, <2>4, <2>5, <2>6, <2>7, <2>8, <2>9, <2>10, <2>11
  <1> QED
    BY <1>1, <1>20 DEF Whole, AtLanding, Coherent, Asked

\* A restore that a press for another playback ended owes the clock nothing.
LEMMA SupersededWhole ==
    ASSUME NEW w, Whole(w, "asks"), Front(w), w.session.pend # "none",
           NEW v \in Player, Good(v), v.fg \in Lifecycle, v.fg.kind = "Idle",
           v.route = w.route /\ v.session = w.session /\ v.preview = w.preview
             /\ v.held = w.held /\ v.engine = w.engine /\ v.mail = w.mail
             /\ v.adapter = w.adapter /\ v.screen = w.screen /\ v.exiting = w.exiting
             /\ v.wish = w.wish
    PROVE  AtLanding(v)
  <1>1. /\ w \in Player /\ Good(w) /\ w.fg \in Lifecycle /\ Typed(w)
        /\ v \in Player /\ Good(v) /\ v.fg \in Lifecycle /\ Typed(v)
    BY TypedFacts DEF Whole, Playing
  <1>20. Core(v) /\ Coherent(v, "events")
    <2> USE DEF Whole, Coherent, Core, Owned, OnRoute, IdleHeard, Numbered, Loaded, Asked, Waits,
       Shown, Parked, Restores, Paged, Typed, Live, Playing, Heard, ClockIs, Queued, Pending,
       StableBelow, MayRequest, PendingRouteStart, ResumeFlightOutstanding, Parks
    <2>1. Owned(v)
      BY <1>1 DEF Front
    <2>2. OnRoute(v)
      BY <1>1 DEF Front
    <2>3. IdleHeard(v)
      BY <1>1 DEF Front
    <2>4. Numbered(v)
      BY <1>1 DEF Front
    <2>5. Loaded(v)
      BY <1>1 DEF Front
    <2>6. Asked(v, "events")
      BY <1>1 DEF Front
    <2>7. Waits(v)
      BY <1>1 DEF Front
    <2>8. Shown(v, "events")
      BY <1>1 DEF Front
    <2>9. Parked(v, "events")
      BY <1>1 DEF Front
    <2>10. Restores(v, "events")
      BY <1>1 DEF Front
    <2>11. Paged(v)
      BY <1>1 DEF Front
    <2> QED
      BY <2>1, <2>2, <2>3, <2>4, <2>5, <2>6, <2>7, <2>8, <2>9, <2>10, <2>11
  <1> QED
    BY <1>1, <1>20 DEF Whole, AtLanding, Coherent, Asked, Front, Queued

\* A request is out only while no restore follows a Load, so ending the restore always
\* succeeds.
LEMMA SupersedeFacts ==
    ASSUME NEW w, Whole(w, "asks"), w.session.pend # "none", NEW f, f = Supersede(w.fg, FALSE)
    PROVE  f.kind = "Idle" /\ f \in Lifecycle /\ f \in Machine /\ w.fg.kind # "LoadPending"
  <1>1. w.fg \in Lifecycle
    BY DEF Whole
  <1>2. w.fg.kind \in Kinds /\ w.fg.kind # "ClockPending" /\ w.fg.kind # "LoadPending"
    BY <1>1 DEF Lifecycle, Whole, Coherent, Parked, Restores
  <1>3. f = w.fg \/ f = Unowed
    BY <1>2 DEF Supersede
  <1>4. f.kind = "Idle" /\ f \in Lifecycle
    BY <1>1, <1>2, <1>3, UnowedFacts DEF Supersede, Kinds
  <1> QED
    BY <1>2, <1>4, LifecycleMachine

\* Ending the restore is all that the landing step does first.
LEMMA SupersedeLanding ==
    ASSUME NEW w, Whole(w, "asks"), Front(w), w.session.pend # "none",
           NEW f \in Machine, f \in Lifecycle, f.kind = "Idle", NEW v, v = [w EXCEPT !.fg = f]
    PROVE  AtLanding(v)
  <1>1. w \in Player /\ Good(w)
    BY DEF Whole
  <1>2. /\ v \in Player /\ Good(v) /\ v.fg = f
        /\ v.route = w.route /\ v.session = w.session /\ v.preview = w.preview
        /\ v.held = w.held /\ v.engine = w.engine /\ v.mail = w.mail /\ v.adapter = w.adapter
        /\ v.screen = w.screen /\ v.exiting = w.exiting /\ v.wish = w.wish
    BY <1>1, SetFgFields
  <1> QED
    BY <1>2, SupersededWhole

\* The restore, once a press for another playback has ended it.
SupersededBy(w) ==
    IF w.screen.front /\ w.session.pend # "none"
      THEN [w EXCEPT !.fg = Supersede(@, FALSE)] ELSE w

\* The head of the landing step, before anything lands.
LEMMA LandingStarts ==
    ASSUME NEW w, Whole(w, "asks"), Front(w), NEW v,
           v = SupersededBy(w)
    PROVE  AtLanding(v) /\ (w.fg.kind = "LoadPending" => v.fg.kind = "LoadPending")
  <1>1. CASE ~(w.screen.front /\ w.session.pend # "none")
    BY <1>1, AsksLanding DEF SupersededBy
  <1>2. CASE w.screen.front /\ w.session.pend # "none"
    <2> DEFINE f == Supersede(w.fg, FALSE)
               u == [w EXCEPT !.fg = f]
    <2>1. v = u
      BY <1>2 DEF SupersededBy
    <2>2. f.kind = "Idle" /\ f \in Lifecycle /\ f \in Machine /\ w.fg.kind # "LoadPending"
      BY <1>2, SupersedeFacts
    <2> HIDE DEF f
    <2>3. AtLanding(u)
      BY <1>2, <2>2, SupersedeLanding
    <2> QED
      BY <2>1, <2>2, <2>3
  <1> QED
    BY <1>1, <1>2

\* What a plan's landing leaves.
PlanIn(w, v, good) ==
    LET trailer == w.session.pend = "preview"
        d == v.route
    IN  /\ v \in Player /\ Good(v)
        /\ v.preview = w.preview /\ v.held = w.held /\ v.engine = w.engine /\ v.mail = w.mail
        /\ v.adapter = w.adapter /\ v.fg = w.fg /\ v.screen = w.screen /\ v.exiting = w.exiting
        /\ v.wish = w.wish
        /\ v.session.pend = "none" /\ (v.session.url <=> good)
        /\ v.session.paused = w.session.paused
        /\ (v.session.preview <=> trailer) /\ (v.session.as_preview <=> trailer)
        /\ d.flight = w.route.flight /\ d.last = w.route.last /\ d.attempts = w.route.attempts
        /\ d.under = NoFallback
        /\ ~good => d.phase = "Idle" /\ d.serials = w.route.serials
        /\ good /\ w.route.phase = "Prepared" =>
             d.phase = "Prepared" /\ d.serial = w.route.serial /\ d.serials = w.route.serials
        /\ good /\ w.route.phase \in {"Resolving", "Idle", "Failed"} =>
             d.phase = "Prepared" /\ d.serial = w.route.serials + 1
               /\ d.serials = w.route.serials + 1

\* prepare_playback_landing: a plan that cannot be played leaves the route idle, one
\* that can leaves it prepared under a pending or a fresh serial.
LEMMA LandingRoute ==
    ASSUME NEW c \in Route, NEW good \in BOOLEAN, NEW d, d = PreparePlaybackLanding(c, good)
    PROVE  /\ d.flight = c.flight /\ d.last = c.last /\ d.attempts = c.attempts
           /\ d.under = NoFallback
           /\ ~good => d.phase = "Idle" /\ d.serials = c.serials
           /\ good /\ c.phase = "Prepared" =>
                d.phase = "Prepared" /\ d.serial = c.serial /\ d.serials = c.serials
           /\ good /\ c.phase \in {"Resolving", "Idle", "Failed"} =>
                d.phase = "Prepared" /\ d.serial = c.serials + 1 /\ d.serials = c.serials + 1
  <1> DEFINE x == [c EXCEPT !.under = NoFallback]
  <1>0. NoFallback \in Fallbacks
    BY DEF Fallbacks, NoFallback, At
  <1>1. /\ x \in Route /\ x.flight = c.flight /\ x.last = c.last /\ x.attempts = c.attempts
        /\ x.serial = c.serial /\ x.serials = c.serials /\ x.phase = c.phase
        /\ x.under = NoFallback
    BY <1>0 DEF Route
  <1>2. d = IF ~good THEN Enter(x, "Idle", 0)
            ELSE IF x.phase = "Starting" THEN x
            ELSE IF x.phase \in Pending THEN Enter(x, "Prepared", x.serial)
            ELSE Fresh(x, "Prepared")
    BY DEF PreparePlaybackLanding
  <1> HIDE DEF x
  <1> QED
    BY <1>1, <1>2 DEF Enter, Fresh, Pending, Route

\* pump_play installs the plan, or its refusal, and takes the request back.
LEMMA LandPlanFields ==
    ASSUME NEW w \in Player, Good(w), NEW good \in BOOLEAN, NEW v, v = LandPlan(w, good)
    PROVE  PlanIn(w, v, good)
  <1> DEFINE trailer == w.session.pend = "preview"
             c == PreparePlaybackLanding(w.route, good)
             s == [w.session EXCEPT !.pend = "none", !.url = good, !.preview = trailer,
                                    !.as_preview = trailer, !.answered = FALSE]
  <1>1. v = [w EXCEPT !.route = c, !.session = s]
    BY DEF LandPlan
  <1>2. v \in Player /\ Good(v)
    BY LandPlanBeside, BesideGood DEF Beside
  <1>3. /\ s.pend = "none" /\ (s.url <=> good) /\ s.paused = w.session.paused
        /\ (s.preview <=> trailer) /\ (s.as_preview <=> trailer)
    BY PlayerFacts DEF Session
  <1>4. /\ c.flight = w.route.flight /\ c.last = w.route.last /\ c.attempts = w.route.attempts
        /\ c.under = NoFallback
        /\ ~good => c.phase = "Idle" /\ c.serials = w.route.serials
        /\ good /\ w.route.phase = "Prepared" =>
             c.phase = "Prepared" /\ c.serial = w.route.serial /\ c.serials = w.route.serials
        /\ good /\ w.route.phase \in {"Resolving", "Idle", "Failed"} =>
             c.phase = "Prepared" /\ c.serial = w.route.serials + 1
               /\ c.serials = w.route.serials + 1
    BY PlayerFacts, LandingRoute
  <1> HIDE DEF c, s
  <1>5. /\ v.preview = w.preview /\ v.held = w.held /\ v.engine = w.engine /\ v.mail = w.mail
        /\ v.adapter = w.adapter /\ v.fg = w.fg /\ v.screen = w.screen /\ v.exiting = w.exiting
        /\ v.wish = w.wish /\ v.route = c
        /\ v.session = s
    BY <1>1 DEF Player
  <1> QED
    BY <1>2, <1>3, <1>4, <1>5 DEF PlanIn

\* Installing a plan keeps the player coherent: a film's is on the player page with
\* nothing queued, a trailer's meets at most an Engine that had waited.
LEMMA PlanWhole ==
    ASSUME NEW w, AtLanding(w), w.session.pend # "none", w.screen.front, NEW good \in BOOLEAN,
           NEW v, PlanIn(w, v, good)
    PROVE  /\ Whole(v, "events") /\ Front(v) /\ v.fg.kind = "Idle"
           /\ v.session.pend = "none" /\ w.session.pend \in {"film", "preview"}
           /\ v.session.preview => (Live(v) => v.engine.waited) /\ v.session.as_preview
           /\ w.session.pend = "film" =>
                v.screen.page = "Player" /\ Queued(v) = 0 /\ ~v.session.as_preview
           /\ good => v.route.phase = "Prepared"
           /\ Queued(v) # 0 => v.screen.page = "Player" /\ ~v.held
           /\ Playing(v)
           /\ Live(v) /\ v.engine.call = "out" /\ ~v.engine.late => v.engine.waited
  <1>1. /\ w \in Player /\ Good(w) /\ w.fg \in Lifecycle /\ Typed(w)
        /\ v \in Player /\ Good(v) /\ v.fg \in Lifecycle /\ Typed(v)
    BY TypedFacts DEF Whole, AtLanding, PlanIn
  <1>2. w.fg.kind = "Idle" /\ (Queued(w) # 0 => ~w.held) /\ Whole(w, "events") /\ Front(w)
    BY DEF AtLanding
  <1>3. w.session.pend \in {"film", "preview"}
    BY <1>1 DEF Typed
  <1>20. Core(v) /\ Coherent(v, "events")
    <2> USE DEF Whole, Coherent, Core, Owned, OnRoute, IdleHeard, Numbered, Loaded, Asked, Waits,
       Shown, Parked, Restores, Paged, Typed, Live, Playing, Heard, ClockIs, Queued, Pending,
       StableBelow, MayRequest, PendingRouteStart, ResumeFlightOutstanding, Parks
    <2>1. Owned(v)
      BY <1>1, <1>2, <1>3 DEF PlanIn
    <2>2. OnRoute(v)
      BY <1>1, <1>2, <1>3 DEF PlanIn
    <2>3. IdleHeard(v)
      BY <1>1, <1>2, <1>3 DEF PlanIn
    <2>4. Numbered(v)
      BY <1>1, <1>2, <1>3 DEF PlanIn
    <2>5. Loaded(v)
      BY <1>1, <1>2, <1>3 DEF PlanIn
    <2>6. Asked(v, "events")
      BY <1>1, <1>2, <1>3 DEF PlanIn
    <2>7. Waits(v)
      BY <1>1, <1>2, <1>3 DEF PlanIn
    <2>8. Shown(v, "events")
      BY <1>1, <1>2, <1>3 DEF PlanIn
    <2>9. Parked(v, "events")
      BY <1>1, <1>2, <1>3 DEF PlanIn
    <2>10. Restores(v, "events")
      BY <1>1, <1>2, <1>3 DEF PlanIn
    <2>11. Paged(v)
      BY <1>1, <1>2, <1>3 DEF PlanIn
    <2> QED
      BY <2>1, <2>2, <2>3, <2>4, <2>5, <2>6, <2>7, <2>8, <2>9, <2>10, <2>11
  <1> QED
    BY <1>1, <1>2, <1>3, <1>20 DEF Whole, Front, PlanIn, Coherent, Core, Asked, Owned, Playing,
       Queued, Live

------------------------------------------------------------------------------
(* Plans refused, dropped, or resumed on a worker.                          *)

\* What a refused preparation leaves.
Rejected(w, v) ==
    /\ v \in Player /\ Good(v)
    /\ v.session = w.session /\ v.preview = w.preview /\ v.held = w.held /\ v.engine = w.engine
    /\ v.mail = w.mail /\ v.adapter = w.adapter /\ v.fg = w.fg /\ v.screen = w.screen
    /\ v.exiting = w.exiting /\ v.wish = w.wish
    /\ v.route.under = w.route.under /\ v.route.last = w.route.last
    /\ v.route.attempts = w.route.attempts /\ v.route.serials = w.route.serials
    /\ v.route.serial = w.route.serial /\ v.route.flight = w.route.flight
    /\ v.route.phase = "Failed"

\* reject_route_start_preparation fails the prepared start and leaves a failed one
\* alone.
LEMMA RejectFields ==
    ASSUME NEW w \in Player, Good(w), w.route.phase \in {"Prepared", "Failed"}, NEW v,
           v = RejectPending(w)
    PROVE  Rejected(w, v)
  <1> DEFINE c == RejectRouteStartPreparation(w.route, PendingRouteStart(w.route))
  <1>1. v \in Player /\ Good(v) /\ w.route \in Route
    BY RejectPendingBeside, BesideGood, PlayerFacts DEF Beside
  <1>2. v = [w EXCEPT !.route = c]
    BY DEF RejectPending
  <1>3. /\ c.under = w.route.under /\ c.last = w.route.last /\ c.attempts = w.route.attempts
        /\ c.serials = w.route.serials /\ c.serial = w.route.serial /\ c.flight = w.route.flight
        /\ c.phase = "Failed"
    <2>1. CASE w.route.phase = "Prepared"
      <3>1. c = Enter(w.route, "Failed", w.route.serial)
        BY <2>1 DEF RejectRouteStartPreparation, PendingRouteStart, Pending
      <3> QED
        BY <1>1, <3>1 DEF Enter, Route
    <2>2. CASE w.route.phase = "Failed"
      BY <2>2 DEF RejectRouteStartPreparation
    <2> QED
      BY <2>1, <2>2
  <1> HIDE DEF c
  <1>4. /\ v.session = w.session /\ v.preview = w.preview /\ v.held = w.held
        /\ v.engine = w.engine /\ v.mail = w.mail /\ v.adapter = w.adapter /\ v.fg = w.fg
        /\ v.screen = w.screen /\ v.exiting = w.exiting /\ v.wish = w.wish /\ v.route = c
    BY <1>2 DEF Player
  <1> QED
    BY <1>1, <1>3, <1>4 DEF Rejected

\* A film's plan or rebuild that is refused ends on the read-out.
LEMMA RejectedWhole ==
    ASSUME NEW w, Whole(w, "events"), Front(w), w.fg.kind = "Idle", w.session.pend = "none",
           w.route.phase \in {"Prepared", "Failed"}, Queued(w) # 0 => w.screen.page = "Player"
             /\ ~w.held,
           NEW v, Rejected(w, v)
    PROVE  Whole(v, "events") /\ Front(v)
  <1>1. /\ w \in Player /\ Good(w) /\ w.fg \in Lifecycle /\ Typed(w)
        /\ v \in Player /\ Good(v) /\ v.fg \in Lifecycle /\ Typed(v)
    BY TypedFacts DEF Whole, Rejected
  <1>20. Core(v) /\ Coherent(v, "events")
    <2> USE DEF Whole, Coherent, Core, Owned, OnRoute, IdleHeard, Numbered, Loaded, Asked, Waits,
       Shown, Parked, Restores, Paged, Typed, Live, Playing, Heard, ClockIs, Queued, Pending,
       StableBelow, MayRequest, PendingRouteStart, ResumeFlightOutstanding, Parks
    <2>1. Owned(v)
      BY <1>1 DEF Rejected, Front
    <2>2. OnRoute(v)
      BY <1>1 DEF Rejected, Front
    <2>3. IdleHeard(v)
      BY <1>1 DEF Rejected, Front
    <2>4. Numbered(v)
      BY <1>1 DEF Rejected, Front
    <2>5. Loaded(v)
      BY <1>1 DEF Rejected, Front
    <2>6. Asked(v, "events")
      BY <1>1 DEF Rejected, Front
    <2>7. Waits(v)
      BY <1>1 DEF Rejected, Front
    <2>8. Shown(v, "events")
      BY <1>1 DEF Rejected, Front
    <2>9. Parked(v, "events")
      BY <1>1 DEF Rejected, Front
    <2>10. Restores(v, "events")
      BY <1>1 DEF Rejected, Front
    <2>11. Paged(v)
      BY <1>1 DEF Rejected, Front
    <2> QED
      BY <2>1, <2>2, <2>3, <2>4, <2>5, <2>6, <2>7, <2>8, <2>9, <2>10, <2>11
  <1> QED
    BY <1>1, <1>20 DEF Whole, Front, Rejected

\* What is left of a trailer that nobody waits for.
DroppedTo(w, v) ==
    /\ v \in Player /\ Good(v) /\ v.route = w.route /\ v.preview = w.preview /\ v.held = w.held
    /\ v.engine = w.engine /\ v.mail = w.mail /\ v.adapter = w.adapter /\ v.fg = w.fg
    /\ v.screen = w.screen /\ v.exiting = w.exiting /\ v.wish = w.wish
    /\ v.session.url = w.session.url /\ v.session.pend = w.session.pend
    /\ v.session.as_preview = w.session.as_preview /\ v.session.paused = w.session.paused
    /\ ~v.session.preview

\* A trailer's plan that landed after the trailer was given up is stopped again,
\* coherently.
LEMMA DroppedWhole ==
    ASSUME NEW w, Whole(w, "events"), Front(w), w.fg.kind = "Idle", w.session.pend = "none",
           w.session.preview, w.session.as_preview, Live(w) => w.engine.waited,
           w.route.phase = "Failed",
           Queued(w) # 0 => w.screen.page = "Player" /\ ~w.held, Playing(w),
           NEW z, Cleared(w, z), NEW v, DroppedTo(z, v)
    PROVE  Whole(v, "events") /\ Front(v)
  <1>1. /\ w \in Player /\ Good(w) /\ w.fg \in Lifecycle /\ Typed(w)
        /\ v \in Player /\ Good(v) /\ v.fg \in Lifecycle /\ Typed(v)
    BY TypedFacts DEF Whole, DroppedTo, Cleared
  <1>2. ~Live(v) \/ (Live(w) /\ z = w)
    BY DEF Cleared, DroppedTo, Live, NoEngine
  <1>3. CASE z = w
    <2>20. Core(v) /\ Coherent(v, "events")
      <3> USE DEF Whole, Coherent, Core, Owned, OnRoute, IdleHeard, Numbered, Loaded, Asked,
         Waits, Shown, Parked, Restores, Paged, Typed, Live, Playing, Heard, ClockIs, Queued, Pending,
         StableBelow, MayRequest, PendingRouteStart, ResumeFlightOutstanding, Parks
      <3>1. Owned(v)
        BY <1>1, <1>3 DEF DroppedTo, Front
      <3>2. OnRoute(v)
        BY <1>1, <1>3 DEF DroppedTo, Front
      <3>3. IdleHeard(v)
        BY <1>1, <1>3 DEF DroppedTo, Front
      <3>4. Numbered(v)
        BY <1>1, <1>3 DEF DroppedTo, Front
      <3>5. Loaded(v)
        BY <1>1, <1>3 DEF DroppedTo, Front
      <3>6. Asked(v, "events")
        BY <1>1, <1>3 DEF DroppedTo, Front
      <3>7. Waits(v)
        BY <1>1, <1>3 DEF DroppedTo, Front
      <3>8. Shown(v, "events")
        BY <1>1, <1>3 DEF DroppedTo, Front
      <3>9. Parked(v, "events")
        BY <1>1, <1>3 DEF DroppedTo, Front
      <3>10. Restores(v, "events")
        BY <1>1, <1>3 DEF DroppedTo, Front
      <3>11. Paged(v)
        BY <1>1, <1>3 DEF DroppedTo, Front
      <3> QED
        BY <3>1, <3>2, <3>3, <3>4, <3>5, <3>6, <3>7, <3>8, <3>9, <3>10, <3>11, ZenonT(30)
    <2> QED
      BY <1>1, <1>3, <2>20 DEF Whole, Front, DroppedTo
  <1>4. CASE ~Live(v) /\ z # w
    <2>1. /\ v.route.phase = "Idle" /\ Playing(v) /\ ~v.session.url /\ Queued(v) = 0
          /\ v.engine.call # "ok" /\ v.engine.call # "bad" /\ ~Live(v)
          /\ ~v.engine.failed /\ ~v.engine.dead
      <3>1. v.engine = NoEngine \/ (~Live(w) /\ v.engine = w.engine)
        BY <1>4 DEF Cleared, DroppedTo
      <3>2. ~Live(w) => w.engine.call = "none"
        BY <1>1 DEF Good, ObjectInv, Live
      <3>3. w.engine.call = "none" => ~w.engine.failed /\ ~w.engine.dead
        BY DEF Whole, Coherent, Loaded
      <3> QED
        BY <1>4, <3>1, <3>2, <3>3 DEF NoEngine, Cleared, DroppedTo, Playing, Queued
    <2>20. Core(v) /\ Coherent(v, "events")
      <3> USE DEF Whole, Coherent, Core, Owned, OnRoute, IdleHeard, Numbered, Loaded, Asked,
         Waits, Shown, Parked, Restores, Paged, Typed, Live, Playing, Heard, ClockIs, Queued, Pending,
         StableBelow, MayRequest, PendingRouteStart, ResumeFlightOutstanding, Parks
      <3>1. Owned(v)
        BY <1>1, <1>4, <2>1 DEF DroppedTo, Cleared, Front
      <3>2. OnRoute(v)
        BY <1>1, <1>4, <2>1 DEF DroppedTo, Cleared, Front
      <3>3. IdleHeard(v)
        BY <1>1, <1>4, <2>1 DEF DroppedTo, Cleared, Front
      <3>4. Numbered(v)
        BY <1>1, <1>4, <2>1 DEF DroppedTo, Cleared, Front
      <3>5. Loaded(v)
        BY <1>1, <1>4, <2>1 DEF DroppedTo, Cleared, Front
      <3>6. Asked(v, "events")
        BY <1>1, <1>4, <2>1 DEF DroppedTo, Cleared, Front
      <3>7. Waits(v)
        BY <1>1, <1>4, <2>1 DEF DroppedTo, Cleared, Front
      <3>8. Shown(v, "events")
        BY <1>1, <1>4, <2>1 DEF DroppedTo, Cleared, Front
      <3>9. Parked(v, "events")
        BY <1>1, <1>4, <2>1 DEF DroppedTo, Cleared, Front
      <3>10. Restores(v, "events")
        BY <1>1, <1>4, <2>1 DEF DroppedTo, Cleared, Front
      <3>11. Paged(v)
        BY <1>1, <1>4, <2>1 DEF DroppedTo, Cleared, Front
      <3> QED
        BY <3>1, <3>2, <3>3, <3>4, <3>5, <3>6, <3>7, <3>8, <3>9, <3>10, <3>11, ZenonT(30)
    <2> QED
      BY <1>1, <2>20 DEF Whole, Front, DroppedTo, Cleared
  <1> QED
    BY <1>2, <1>3, <1>4

\* A film's rebuild is in flight.
LEMMA FlownWhole ==
    ASSUME NEW w, Whole(w, "events"), Front(w), w.fg.kind = "Idle", w.session.pend = "none",
           w.route.phase = "Prepared", w.screen.page = "Player", Queued(w) = 0,
           ~w.session.preview,
           Playing(w), Live(w) /\ w.engine.call = "out" /\ ~w.engine.late => w.engine.waited,
           NEW v, Resumed(w, v, "Pending")
    PROVE  Whole(v, "events") /\ Front(v)
  <1>1. /\ w \in Player /\ Good(w) /\ w.fg \in Lifecycle /\ Typed(w)
        /\ v \in Player /\ Good(v) /\ v.fg \in Lifecycle /\ Typed(v)
    BY TypedFacts DEF Whole, Resumed
  <1>2. FlightUp(w.route, v.route) /\ w.route.serial <= w.route.serials
    BY <1>1 DEF Resumed, Good, QueueInv, Issued
  <1>20. Core(v) /\ Coherent(v, "events")
    <2> USE DEF Whole, Coherent, Core, Owned, OnRoute, IdleHeard, Numbered, Loaded, Asked, Waits,
       Shown, Parked, Restores, Paged, Typed, Live, Playing, Heard, ClockIs, Queued, Pending,
       StableBelow, MayRequest, PendingRouteStart, ResumeFlightOutstanding, Parks
    <2>1. Owned(v)
      BY <1>1, <1>2 DEF Resumed, FlightUp, Front
    <2>2. OnRoute(v)
      BY <1>1, <1>2 DEF Resumed, FlightUp, Front
    <2>3. IdleHeard(v)
      BY <1>1, <1>2 DEF Resumed, FlightUp, Front
    <2>4. Numbered(v)
      BY <1>1, <1>2 DEF Resumed, FlightUp, Front
    <2>5. Loaded(v)
      BY <1>1, <1>2 DEF Resumed, FlightUp, Front
    <2>6. Asked(v, "events")
      BY <1>1, <1>2 DEF Resumed, FlightUp, Front
    <2>7. Waits(v)
      BY <1>1, <1>2 DEF Resumed, FlightUp, Front
    <2>8. Shown(v, "events")
      BY <1>1, <1>2 DEF Resumed, FlightUp, Front
    <2>9. Parked(v, "events")
      BY <1>1, <1>2 DEF Resumed, FlightUp, Front
    <2>10. Restores(v, "events")
      BY <1>1, <1>2 DEF Resumed, FlightUp, Front
    <2>11. Paged(v)
      BY <1>1, <1>2 DEF Resumed, FlightUp, Front
    <2> QED
      BY <2>1, <2>2, <2>3, <2>4, <2>5, <2>6, <2>7, <2>8, <2>9, <2>10, <2>11, ZenonT(30)
  <1> QED
    BY <1>1, <1>20 DEF Whole, Front, Resumed

\* What a cold resume's landing leaves.
ColdIn(w, v, good) ==
    /\ v \in Player /\ Good(v) /\ LandedFlight(w.route, v.route, good)
    /\ v.preview = w.preview /\ v.held = w.held /\ v.engine = w.engine /\ v.mail = w.mail
    /\ v.adapter = w.adapter /\ v.fg = w.fg /\ v.screen = w.screen /\ v.exiting = w.exiting
    /\ v.wish = w.wish
    /\ v.session.url = w.session.url /\ v.session.pend = w.session.pend
    /\ v.session.preview = w.session.preview /\ v.session.as_preview = w.session.as_preview
    /\ v.session.paused = w.session.paused

\* The landing of a cold resume's rebuild keeps the player coherent; a good one is
\* ready to start.
LEMMA ColdWhole ==
    ASSUME NEW w, AtLanding(w), MayRun(w), ResumeFlightOutstanding(w.route), NEW good \in BOOLEAN,
           NEW v, ColdIn(w, v, good)
    PROVE  /\ Whole(v, "events") /\ Front(v) /\ v.fg.kind = "Idle"
           /\ good => Landable(v)
  <1>1. /\ w \in Player /\ Good(w) /\ w.fg \in Lifecycle /\ Typed(w)
        /\ v \in Player /\ Good(v) /\ v.fg \in Lifecycle /\ Typed(v)
    BY TypedFacts DEF Whole, AtLanding, ColdIn
  <1>2. w.fg.kind = "Idle" /\ w.screen.page = "Player" /\ ~w.session.preview
        /\ (Queued(w) # 0 => Queued(w) # w.route.serial) /\ Whole(w, "events")
    BY DEF AtLanding, MayRun, AwaitingLoad, Whole, Coherent, Waits
  <1>3. w.session.pend = "none"
    BY <1>2 DEF Whole, Coherent, Asked, ResumeFlightOutstanding
  <1>4. Queued(w) # 0 => ~w.held
    BY <1>2 DEF Whole, Coherent, Waits, MayRequest, ResumeFlightOutstanding
  <1>20. Core(v) /\ Coherent(v, "events")
    <2> USE DEF Whole, Coherent, Core, Owned, OnRoute, IdleHeard, Numbered, Loaded, Asked, Waits,
       Shown, Parked, Restores, Paged, Typed, Live, Playing, Heard, ClockIs, Queued, Pending,
       StableBelow, MayRequest, PendingRouteStart, ResumeFlightOutstanding, Parks
    <2>1. Owned(v)
      BY <1>1, <1>2, <1>3, <1>4 DEF ColdIn, LandedFlight
    <2>2. OnRoute(v)
      BY <1>1, <1>2, <1>3, <1>4 DEF ColdIn, LandedFlight
    <2>3. IdleHeard(v)
      BY <1>1, <1>2, <1>3, <1>4 DEF ColdIn, LandedFlight
    <2>4. Numbered(v)
      BY <1>1, <1>2, <1>3, <1>4 DEF ColdIn, LandedFlight
    <2>5. Loaded(v)
      BY <1>1, <1>2, <1>3, <1>4 DEF ColdIn, LandedFlight
    <2>6. Asked(v, "events")
      BY <1>1, <1>2, <1>3, <1>4 DEF ColdIn, LandedFlight
    <2>7. Waits(v)
      BY <1>1, <1>2, <1>3, <1>4 DEF ColdIn, LandedFlight
    <2>8. Shown(v, "events")
      BY <1>1, <1>2, <1>3, <1>4 DEF ColdIn, LandedFlight
    <2>9. Parked(v, "events")
      BY <1>1, <1>2, <1>3, <1>4 DEF ColdIn, LandedFlight
    <2>10. Restores(v, "events")
      BY <1>1, <1>2, <1>3, <1>4 DEF ColdIn, LandedFlight
    <2>11. Paged(v)
      BY <1>1, <1>2, <1>3, <1>4 DEF ColdIn, LandedFlight
    <2> QED
      BY <2>1, <2>2, <2>3, <2>4, <2>5, <2>6, <2>7, <2>8, <2>9, <2>10, <2>11
  <1> QED
    BY <1>1, <1>2, <1>3, <1>20 DEF Whole, Front, ColdIn, Landable, LandedFlight, Queued

------------------------------------------------------------------------------
(* The landing step.                                                        *)

\* Starting a landed plan keeps the player coherent.
LEMMA StartedWhole ==
    ASSUME NEW w, Landable(w), NEW e \in Chance, NEW v, v = LandedStart(StartTracked(w, e))
    PROVE  Whole(v, "events") /\ Front(v) /\ v.fg = w.fg
  <1>1. Landed(w, v)
    BY StartLanded
  <1> QED
    BY <1>1, LandedStartWhole DEF Landed

\* Forgetting that the session is a trailer's leaves the rest as it was.
LEMMA ForgetFields ==
    ASSUME NEW w \in Player, Good(w), NEW v, v = [w EXCEPT !.session.preview = FALSE]
    PROVE  DroppedTo(w, v)
  <1> DEFINE s == [w.session EXCEPT !.preview = FALSE]
  <1>1. /\ s \in Session /\ s.url = w.session.url /\ s.pend = w.session.pend
        /\ s.as_preview = w.session.as_preview /\ s.paused = w.session.paused /\ ~s.preview
    BY PlayerFacts DEF Session
  <1>2. v = [w EXCEPT !.session = s]
    OBVIOUS
  <1> HIDE DEF s
  <1>3. /\ v \in Player /\ v.route = w.route /\ v.preview = w.preview /\ v.held = w.held
        /\ v.engine = w.engine /\ v.mail = w.mail /\ v.slot = w.slot /\ v.adapter = w.adapter
        /\ v.fg = w.fg /\ v.screen = w.screen /\ v.exiting = w.exiting /\ v.wish = w.wish
        /\ v.session = s
    BY <1>1, <1>2 DEF Player
  <1>4. Aside(w, v)
    BY <1>3 DEF Aside, Untouched
  <1>5. Good(v)
    BY <1>4, AsideBeside DEF Aside
  <1> QED
    BY <1>1, <1>3, <1>5 DEF DroppedTo

\* A trailer nobody waits for is rejected, stopped and forgotten in one handler.
LEMMA DropWhole ==
    ASSUME NEW w, Whole(w, "events"), Front(w), w.fg.kind = "Idle", w.session.pend = "none",
           w.session.preview, w.session.as_preview, Live(w) => w.engine.waited,
           w.route.phase = "Prepared",
           Queued(w) # 0 => w.screen.page = "Player" /\ ~w.held, Playing(w), NEW e \in Chance,
           NEW v, v = [Teardown(RejectPending(w), FALSE, e) EXCEPT !.session.preview = FALSE]
    PROVE  Whole(v, "events") /\ Front(v) /\ v.fg = w.fg
  <1> DEFINE y == RejectPending(w)
             z == Teardown(y, FALSE, e)
  <1>1. Rejected(w, y)
    BY RejectFields DEF Whole
  <1>2. v = [z EXCEPT !.session.preview = FALSE]
    OBVIOUS
  <1> HIDE DEF y
  <1>3. Whole(y, "events") /\ Front(y) /\ y.fg = w.fg
    BY <1>1, RejectedWhole DEF Rejected
  <1>4. /\ y.session = w.session /\ y.engine = w.engine /\ y.route.phase = "Failed"
        /\ y.adapter = w.adapter /\ y.screen = w.screen /\ y.held = w.held /\ y.wish = w.wish
    BY <1>1 DEF Rejected
  <1>5. Cleared(y, z)
    BY <1>3, ClearFields DEF Whole
  <1> HIDE DEF z
  <1>6. DroppedTo(z, v)
    BY <1>2, <1>5, ForgetFields DEF Cleared
  <1>7. v.fg = w.fg
    BY <1>3, <1>5, <1>6 DEF Cleared, DroppedTo
  <1>8. /\ y.fg.kind = "Idle" /\ y.session.pend = "none" /\ y.session.preview
        /\ y.session.as_preview
        /\ (Live(y) => y.engine.waited) /\ (Queued(y) # 0 => y.screen.page = "Player" /\ ~y.held)
        /\ Playing(y)
    BY <1>3, <1>4 DEF Live, Queued, Playing
  <1> QED
    BY <1>3, <1>4, <1>5, <1>6, <1>7, <1>8, DroppedWhole

\* A failed route whose flight is over stays coherent under a higher serial counter.
LEMMA LowerWhole ==
    ASSUME NEW w, Whole(w, "events"), Front(w), w.route.phase = "Failed",
           NEW v \in Player, Good(v), v.preview = w.preview /\ v.held = w.held
             /\ v.engine = w.engine /\ v.mail = w.mail /\ v.adapter = w.adapter /\ v.fg = w.fg
             /\ v.screen = w.screen /\ v.exiting = w.exiting /\ v.wish = w.wish,
           v.session.url = w.session.url /\ v.session.pend = w.session.pend
             /\ v.session.preview = w.session.preview
             /\ v.session.as_preview = w.session.as_preview
             /\ v.session.paused = w.session.paused,
           v.route.under = w.route.under /\ v.route.last = w.route.last
             /\ v.route.attempts = w.route.attempts /\ v.route.phase = w.route.phase
             /\ v.route.serial = w.route.serial, v.route.flight = 0,
           w.route.serials <= v.route.serials
    PROVE  Whole(v, "events") /\ Front(v)
  <1>1. /\ w \in Player /\ Good(w) /\ w.fg \in Lifecycle /\ Typed(w)
        /\ v \in Player /\ Good(v) /\ v.fg \in Lifecycle /\ Typed(v)
    BY TypedFacts DEF Whole, Playing
  <1>20. Core(v) /\ Coherent(v, "events")
    <2> USE DEF Whole, Coherent, Core, Owned, OnRoute, IdleHeard, Numbered, Loaded, Asked, Waits,
       Shown, Parked, Restores, Paged, Typed, Live, Playing, Heard, ClockIs, Queued, Pending,
       StableBelow, MayRequest, PendingRouteStart, ResumeFlightOutstanding, Parks
    <2>1. Owned(v)
      BY <1>1 DEF Front
    <2>2. OnRoute(v)
      BY <1>1 DEF Front
    <2>3. IdleHeard(v)
      BY <1>1 DEF Front
    <2>4. Numbered(v)
      BY <1>1 DEF Front
    <2>5. Loaded(v)
      BY <1>1 DEF Front
    <2>6. Asked(v, "events")
      BY <1>1 DEF Front
    <2>7. Waits(v)
      BY <1>1 DEF Front
    <2>8. Shown(v, "events")
      BY <1>1 DEF Front
    <2>9. Parked(v, "events")
      BY <1>1 DEF Front
    <2>10. Restores(v, "events")
      BY <1>1 DEF Front
    <2>11. Paged(v)
      BY <1>1 DEF Front
    <2> QED
      BY <2>1, <2>2, <2>3, <2>4, <2>5, <2>6, <2>7, <2>8, <2>9, <2>10, <2>11, ZenonT(30)
  <1> QED
    BY <1>1, <1>20 DEF Whole, Front

\* A film's plan that landed: its resume flies, is refused, or the film starts.
LEMMA FilmLandWhole ==
    ASSUME NEW w, Whole(w, "events"), Front(w), w.fg.kind = "Idle", w.session.pend = "none",
           w.route.phase = "Prepared", w.screen.page = "Player", Queued(w) = 0,
           ~w.session.preview,
           Playing(w), Live(w) /\ w.engine.call = "out" /\ ~w.engine.late => w.engine.waited,
           NEW e \in Chance, NEW b, b = BeginResume(w, e),
           NEW v, v = IF b.answer = "Pending" THEN b.w
                      ELSE FinishLandedPlay(b.w, b.answer = "Prepared", e)
    PROVE  Whole(v, "events") /\ Front(v) /\ v.fg = w.fg
  <1>1. w \in Player /\ Good(w)
    BY DEF Whole
  <1>2. Resumed(w, b.w, b.answer) /\ b.answer \in {"Pending", "Refused", "Prepared"}
    BY <1>1, ResumeFields
  <1>3. CASE b.answer = "Pending"
    <2>1. v = b.w /\ Resumed(w, v, "Pending")
      BY <1>2, <1>3
    <2> QED
      BY <2>1, FlownWhole DEF Resumed
  <1>4. CASE b.answer = "Refused"
    <2> DEFINE x == b.w
    <2>1. v = RejectPending(x)
      BY <1>4 DEF FinishLandedPlay
    <2>2. /\ x \in Player /\ Good(x) /\ x.preview = w.preview /\ x.held = w.held
          /\ x.engine = w.engine /\ x.mail = w.mail /\ x.adapter = w.adapter /\ x.fg = w.fg
          /\ x.screen = w.screen /\ x.exiting = w.exiting /\ x.wish = w.wish
          /\ x.session.url = w.session.url /\ x.session.pend = w.session.pend
          /\ x.session.preview = w.session.preview
          /\ x.session.as_preview = w.session.as_preview /\ x.session.paused = w.session.paused
          /\ x = w \/ FlightRefused(w.route, x.route)
      BY <1>2, <1>4 DEF Resumed
    <2> HIDE DEF x
    <2>3. x.route.phase \in {"Prepared", "Failed"}
      BY <2>2 DEF FlightRefused
    <2>4. Rejected(x, v)
      BY <2>1, <2>2, <2>3, RejectFields
    <2>5. CASE x = w
      BY <2>4, <2>5, RejectedWhole DEF Rejected
    <2>6. CASE FlightRefused(w.route, x.route)
      <3> DEFINE y == RejectPending(w)
      <3>1. Rejected(w, y)
        BY <1>1, RejectFields
      <3> HIDE DEF y
      <3>2. Whole(y, "events") /\ Front(y)
        BY <3>1, RejectedWhole
      <3>3. /\ v \in Player /\ Good(v) /\ v.fg = w.fg
            /\ v.preview = y.preview /\ v.held = y.held /\ v.engine = y.engine
            /\ v.mail = y.mail /\ v.adapter = y.adapter /\ v.fg = y.fg /\ v.screen = y.screen
            /\ v.exiting = y.exiting /\ v.wish = y.wish
            /\ v.session.url = y.session.url /\ v.session.pend = y.session.pend
            /\ v.session.preview = y.session.preview
            /\ v.session.as_preview = y.session.as_preview
            /\ v.session.paused = y.session.paused
            /\ v.route.under = y.route.under /\ v.route.last = y.route.last
            /\ v.route.attempts = y.route.attempts /\ v.route.phase = y.route.phase
            /\ v.route.serial = y.route.serial /\ v.route.flight = 0
            /\ y.route.serials <= v.route.serials
        BY <2>2, <2>4, <2>6, <3>1 DEF Rejected, FlightRefused
      <3>4. Whole(v, "events") /\ Front(v)
        BY <3>1, <3>2, <3>3, LowerWhole DEF Rejected
      <3> QED
        BY <3>3, <3>4
    <2> QED
      BY <2>2, <2>5, <2>6
  <1>5. CASE b.answer = "Prepared"
    <2>1. b.w = w /\ v = FinishLandedPlay(w, TRUE, e)
      BY <1>2, <1>5 DEF Resumed
    <2>2. v = LandedStart(StartTracked(w, e))
      BY <2>1 DEF FinishLandedPlay
    <2>3. Landable(w)
      BY DEF Landable
    <2> QED
      BY <2>2, <2>3, StartedWhole
  <1> QED
    BY <1>2, <1>3, <1>4, <1>5

\* pump_play keeps the player coherent, for a film and for a trailer, playable or not.
LEMMA LandPlayWhole ==
    ASSUME NEW w, AtLanding(w), MayRun(w), w.session.pend # "none", NEW e \in Chance,
           NEW v, v = LandPlay(w, e)
    PROVE  Whole(v, "events") /\ Front(v) /\ v.fg = w.fg
  <1> DEFINE x == LandPlan(w, e.good)
             b == BeginResume(x, e)
  <1>1. w \in Player /\ Good(w) /\ e.good \in BOOLEAN /\ w.screen.front
    BY DEF AtLanding, Whole, Chance, Chances, MayRun
  <1>2. PlanIn(w, x, e.good)
    BY <1>1, LandPlanFields
  <1>3. /\ ~e.good => v = x
        /\ e.good /\ x.session.preview /\ x.preview # "Fetching" =>
             v = [Teardown(RejectPending(x), FALSE, e) EXCEPT !.session.preview = FALSE]
        /\ e.good /\ x.session.preview
             /\ x.preview = "Fetching" => v = FinishLandedPlay(x, TRUE, e)
        /\ e.good /\ ~x.session.preview =>
             v = IF b.answer = "Pending" THEN b.w
                 ELSE FinishLandedPlay(b.w, b.answer = "Prepared", e)
    <2> HIDE DEF b
    <2>1. b = BeginResume(x, e)
      BY DEF b
    <2> HIDE DEF x
    <2>2. x = LandPlan(w, e.good)
      BY DEF x
    <2> QED
      BY <1>1, <2>1, <2>2 DEF LandPlay
  <1> HIDE DEF x
  <1>4. /\ Whole(x, "events") /\ Front(x) /\ x.fg.kind = "Idle"
        /\ x.session.pend = "none" /\ w.session.pend \in {"film", "preview"}
        /\ x.session.preview => (Live(x) => x.engine.waited) /\ x.session.as_preview
        /\ w.session.pend = "film" =>
             x.screen.page = "Player" /\ Queued(x) = 0 /\ ~x.session.as_preview
        /\ e.good => x.route.phase = "Prepared"
        /\ Queued(x) # 0 => x.screen.page = "Player" /\ ~x.held
        /\ Playing(x)
        /\ Live(x) /\ x.engine.call = "out" /\ ~x.engine.late => x.engine.waited
    BY <1>1, <1>2, PlanWhole
  <1>5. x.fg = w.fg /\ (x.session.preview <=> w.session.pend = "preview")
    BY <1>2 DEF PlanIn
  <1>6. CASE ~e.good
    BY <1>3, <1>4, <1>5, <1>6
  <1>7. CASE e.good /\ x.session.preview /\ x.preview # "Fetching"
    <2> DEFINE u == [Teardown(RejectPending(x), FALSE, e) EXCEPT !.session.preview = FALSE]
    <2>1. Whole(u, "events") /\ Front(u) /\ u.fg = x.fg
      BY <1>4, <1>7, DropWhole
    <2> HIDE DEF u
    <2>2. v = u
      BY <1>3, <1>7 DEF u
    <2> QED
      BY <1>5, <2>1, <2>2
  <1>8. CASE e.good /\ x.session.preview /\ x.preview = "Fetching"
    <2>1. v = LandedStart(StartTracked(x, e))
      BY <1>3, <1>8 DEF FinishLandedPlay
    <2>2. Landable(x)
      BY <1>4, <1>8 DEF Landable, Whole, Coherent, Paged
    <2> QED
      BY <1>5, <2>1, <2>2, StartedWhole
  <1>9. CASE e.good /\ ~x.session.preview
    <2>1. w.session.pend = "film"
      BY <1>4, <1>5, <1>9
    <2>2. b = BeginResume(x, e)
      OBVIOUS
    <2> HIDE DEF b
    <2>3. Whole(v, "events") /\ Front(v) /\ v.fg = x.fg
      BY <1>3, <1>4, <1>9, <2>1, <2>2, FilmLandWhole
    <2> QED
      BY <1>5, <2>3
  <1> QED
    BY <1>1, <1>6, <1>7, <1>8, <1>9

\* The landing of the rebuild that a cold resume waited on.
ColdLanding(w, good) ==
    [w EXCEPT !.route = LandResumeFlight(@, good), !.session.answered = FALSE]

\* The rebuild of a cold resume lands on the route and lowers the landing flag.
LEMMA ColdFields ==
    ASSUME NEW w \in Player, Good(w), ResumeFlightOutstanding(w.route), NEW good \in BOOLEAN,
           NEW v, v = ColdLanding(w, good)
    PROVE  ColdIn(w, v, good)
  <1> DEFINE c == LandResumeFlight(w.route, good)
             s == [w.session EXCEPT !.answered = FALSE]
  <1>1. v = [w EXCEPT !.route = c, !.session = s]
    BY DEF ColdLanding
  <1>2. /\ s \in Session /\ s.url = w.session.url /\ s.pend = w.session.pend
        /\ s.preview = w.session.preview /\ s.as_preview = w.session.as_preview
        /\ s.paused = w.session.paused
    BY PlayerFacts DEF Session
  <1>3. /\ c \in Route /\ LandedFlight(w.route, c, good)
        /\ \A z \in Player : z.route = c /\ z.engine = w.engine /\ z.mail = w.mail
             /\ z.slot = w.slot /\ z.adapter = w.adapter /\ z.exiting = w.exiting => Good(z)
    BY LandGood
  <1> HIDE DEF c, s
  <1>4. /\ v \in Player /\ v.route = c /\ v.session = s
        /\ v.preview = w.preview /\ v.held = w.held /\ v.engine = w.engine /\ v.mail = w.mail
        /\ v.slot = w.slot /\ v.adapter = w.adapter /\ v.fg = w.fg /\ v.screen = w.screen
        /\ v.exiting = w.exiting /\ v.wish = w.wish
    BY <1>1, <1>2, <1>3 DEF Player
  <1> QED
    BY <1>2, <1>3, <1>4 DEF ColdIn

\* A cold resume's landing keeps the player coherent, to the end of its start.
LEMMA ColdLandWhole ==
    ASSUME NEW w, AtLanding(w), MayRun(w), ResumeFlightOutstanding(w.route), NEW e \in Chance,
           NEW x, x = ColdLanding(w, e.good),
           NEW v, v = FinishLandedPlay(x, e.good, e)
    PROVE  Whole(v, "events") /\ Front(v) /\ v.fg = w.fg
  <1> DEFINE good == e.good
  <1>1. w \in Player /\ Good(w) /\ good \in BOOLEAN
    BY DEF AtLanding, Whole, Chance, Chances
  <1>2. x = ColdLanding(w, good)
    OBVIOUS
  <1>3. v = FinishLandedPlay(x, good, e)
    OBVIOUS
  <1> HIDE DEF good
  <1>4. ColdIn(w, x, good)
    BY <1>1, <1>2, ColdFields
  <1>5. Whole(x, "events") /\ Front(x) /\ x.fg.kind = "Idle" /\ (good => Landable(x))
    BY <1>1, <1>4, ColdWhole
  <1>6. x.fg = w.fg /\ x \in Player /\ Good(x)
    BY <1>4 DEF ColdIn
  <1>7. CASE good
    <2>1. v = LandedStart(StartTracked(x, e))
      BY <1>3, <1>7 DEF FinishLandedPlay
    <2> QED
      BY <1>5, <1>6, <1>7, <2>1, StartedWhole
  <1>8. CASE ~good
    <2>1. v = RejectPending(x)
      BY <1>3, <1>8 DEF FinishLandedPlay
    <2>2. x.route.phase = "Failed"
      BY <1>4, <1>8 DEF ColdIn, LandedFlight
    <2>3. Rejected(x, v)
      BY <1>6, <2>1, <2>2, RejectFields
    <2>4. x.session.pend = "none" /\ (Queued(x) # 0 => x.screen.page = "Player" /\ ~x.held)
      <3>1. w.session.pend = "none"
        BY DEF AtLanding, Whole, Coherent, Asked, ResumeFlightOutstanding
      <3> QED
        BY <1>4, <1>5, <2>2, <3>1 DEF ColdIn, Whole, Coherent, Waits, MayRequest, Pending
    <2>5. v.fg = x.fg
      BY <2>3 DEF Rejected
    <2>6. x.route.phase \in {"Prepared", "Failed"}
      BY <2>2
    <2>7. Whole(v, "events") /\ Front(v)
      BY <1>5, <2>3, <2>4, <2>6, RejectedWhole
    <2> QED
      BY <1>6, <2>5, <2>7
  <1> QED
    BY <1>1, <1>7, <1>8

\* The landing step keeps the player coherent, and never ends a restore that follows
\* its Load.
LEMMA LandingWhole ==
    ASSUME NEW w, Whole(w, "asks"), Front(w), NEW e \in Chance, NEW v, v = Landing(w, e)
    PROVE  /\ Whole(v, "events") /\ Front(v)
           /\ w.fg.kind = "LoadPending" => v.fg.kind = "LoadPending"
  <1> DEFINE s == SupersededBy(w)
             x == ColdLanding(s, e.good)
  <1>1. AtLanding(s) /\ (w.fg.kind = "LoadPending" => s.fg.kind = "LoadPending")
    BY LandingStarts
  <1>2. \/ v = s
        \/ MayRun(s) /\ ResumeFlightOutstanding(s.route) /\ v = FinishLandedPlay(x, e.good, e)
        \/ MayRun(s) /\ s.session.pend # "none" /\ v = LandPlay(s, e)
    BY DEF Landing, SupersededBy, ColdLanding
  <1> HIDE DEF s
  <1>3. x = ColdLanding(s, e.good)
    OBVIOUS
  <1> HIDE DEF x
  <1>4. CASE v = s
    BY <1>1, <1>4 DEF AtLanding
  <1>5. CASE MayRun(s) /\ ResumeFlightOutstanding(s.route) /\ v = FinishLandedPlay(x, e.good, e)
    <2>1. Whole(v, "events") /\ Front(v) /\ v.fg = s.fg
      BY <1>1, <1>3, <1>5, ColdLandWhole
    <2> QED
      BY <1>1, <2>1
  <1>6. CASE MayRun(s) /\ s.session.pend # "none" /\ v = LandPlay(s, e)
    <2>1. Whole(v, "events") /\ Front(v) /\ v.fg = s.fg
      BY <1>1, <1>6, LandPlayWhole
    <2> QED
      BY <1>1, <2>1
  <1> QED
    BY <1>2, <1>4, <1>5, <1>6

------------------------------------------------------------------------------
(* Steps: the claims.                                                       *)

\* A restore whose Load was refused is not forgotten on the player page.
KeepsRefused(w, v) ==
    w.fg.kind = "LoadPending" /\ w.engine.call = "bad" /\ ~w.engine.late
      => v.fg.kind # "Idle" \/ v.screen.page = "Browse"

\* One step of a player that runs.
Runs(w, v, t) == Whole(v, t) /\ Front(v) /\ KeepsRefused(w, v)

\* One step of a player that leaves.
Leaves(w, v) == v \in Player /\ Core(v) /\ v.exiting # "running" /\ v.fg = w.fg

\* A coherent step that leaves the lifecycle where it was is a step of a player that
\* runs.
LEMMA SameRuns ==
    ASSUME NEW w, NEW v, NEW t, Whole(v, t), Front(v), v.fg = w.fg
    PROVE  Runs(w, v, t)
  BY DEF Runs, KeepsRefused

\* A restore that follows its Load takes every event and changes nothing.
LEMMA DriveFollows ==
    ASSUME NEW x \in Player, x.fg.kind = "LoadPending", NEW key \in Keys, NEW e,
           NEW d, d = DriveForeground(x, key, e)
    PROVE  d.handled /\ ~d.launched /\ d.w.fg = x.fg
  <1> DEFINE s == Input(x.fg, key)
  <1>1. s = Quiet(x.fg)
    BY DEF Input, Keys
  <1>2. s.f = x.fg /\ s.effect = "None" /\ s.handled
    BY <1>1 DEF Quiet, Step
  <1>3. d = Drove([x EXCEPT !.fg = s.f], s.handled, FALSE)
    BY <1>2 DEF DriveForeground
  <1> HIDE DEF s
  <1> QED
    BY <1>2, <1>3 DEF Drove, Player

\* A lifecycle that owes nothing launches nothing.
LEMMA DriveUnowed ==
    ASSUME NEW x \in Player, x.fg.kind = "Idle", NEW key, NEW e, NEW d,
           d = DriveForeground(x, key, e)
    PROVE  ~d.launched
  <1> DEFINE s == Input(x.fg, key)
  <1>1. s = Unhandled(x.fg)
    BY DEF Input
  <1>2. s.effect = "None"
    BY <1>1 DEF Unhandled, Step
  <1> HIDE DEF s
  <1>3. d = Drove([x EXCEPT !.fg = s.f], s.handled, FALSE)
    BY <1>2 DEF DriveForeground, s
  <1> QED
    BY <1>3 DEF Drove

\* To wish for the clock already wished for changes nothing.
LEMMA SameWish ==
    ASSUME NEW w \in Player PROVE [w EXCEPT !.wish = w.wish] = w
  BY DEF Player

\* A claim of a parked playback is a step of a player that runs.
LEMMA ClaimRuns ==
    ASSUME NEW w, Whole(w, "events"), Front(w), w.screen.front, NEW e \in Chance,
           NEW key \in Keys,
           NEW k, k = IF key = "PlayKey" /\ Claimable(w.fg) THEN "Playing" ELSE w.wish,
           NEW x, x = [w EXCEPT !.wish = k], NEW v, v = Mounted(DriveForeground(x, key, e))
    PROVE  Runs(w, v, "events")
  <1> DEFINE d == DriveForeground(x, key, e)
  <1>1. w \in Player /\ Good(w) /\ w.wish \in Clocks
    BY PlayerFacts DEF Whole
  <1>3. k \in Clocks
    BY <1>1 DEF Clocks
  <1>2. k = w.wish => x = w
    BY <1>1, SameWish
  <1>4. /\ x \in Player /\ Good(x) /\ x.wish = k
        /\ x.route = w.route /\ x.session = w.session /\ x.preview = w.preview
        /\ x.held = w.held /\ x.engine = w.engine /\ x.mail = w.mail /\ x.adapter = w.adapter
        /\ x.fg = w.fg /\ x.screen = w.screen /\ x.exiting = w.exiting
    BY <1>1, <1>3, SetWishFields
  <1>5. WasDriven(w, d)
    BY <1>2, <1>3, <1>4, DriveWhole
  <1>6. w.fg.kind = "LoadPending" => d.handled /\ ~d.launched /\ d.w.fg = w.fg
    BY <1>3, <1>4, DriveFollows
  <1>7. v = Mounted(d)
    OBVIOUS
  <1> HIDE DEF d
  <1>8. CASE d.handled
    <2>1. Whole(v, "events") /\ Front(v)
      BY <1>5, <1>7, <1>8 DEF WasDriven
    <2>2. w.fg.kind = "LoadPending" => v.fg = w.fg
      BY <1>6, <1>7 DEF Mounted
    <2> QED
      BY <2>1, <2>2 DEF Runs, KeepsRefused
  <1>9. CASE ~d.handled /\ w.fg.kind = "Idle" /\ d.w = w
    <2>2. ~d.launched
      BY <1>4, <1>9, DriveUnowed DEF d
    <2>3. v = w
      BY <1>7, <1>9, <2>2 DEF Mounted
    <2> QED
      BY <2>3, SameRuns
  <1> QED
    BY <1>5, <1>8, <1>9 DEF WasDriven

------------------------------------------------------------------------------
(* Steps: the threads, and leaving.                                         *)

\* What another thread's step keeps.
LEMMA ThreadRuns ==
    ASSUME NEW w, NEW t, Whole(w, t), Front(w), NEW v, Whole(v, t), Front(v), Threads(w, v)
    PROVE  Runs(w, v, t)
  BY SameRuns DEF Threads

\* The core survives what keeps the clock and the Engine, and what finds and leaves none.
LEMMA CoreKept ==
    ASSUME NEW w, Core(w), NEW v, v.session = w.session /\ v.fg = w.fg /\ v.screen = w.screen
             /\ v.wish = w.wish,
           \/ v.route = w.route /\ v.engine = w.engine
           \/ ~Live(w) /\ ~Live(v) /\ v.route.phase # "Starting"
    PROVE  Core(v)
  BY DEF Core, Owned, OnRoute, IdleHeard, Heard, Live

\* How the process leaves is noted apart from all else.
LEMMA VerdictFields ==
    ASSUME NEW w \in Player, NEW x \in Exits, NEW v, v = [w EXCEPT !.exiting = x]
    PROVE  v \in Player /\ v.exiting = x /\ v.route = w.route /\ v.session = w.session
             /\ v.engine = w.engine /\ v.fg = w.fg /\ v.screen = w.screen /\ v.wish = w.wish
  BY DEF Player

\* A full stop keeps the core.
LEMMA ClearedCore ==
    ASSUME NEW w, w \in Player, Good(w), Core(w), NEW v, Cleared(w, v)
    PROVE  Core(v)
  <1>1. CASE v = w
    BY <1>1
  <1>2. CASE v # w
    <2>1. v.engine = NoEngine \/ (~Live(w) /\ v.engine = w.engine)
      BY <1>2 DEF Cleared
    <2>2. ~Live(v) /\ v.route.phase = "Idle" /\ Playing(v)
      BY <1>2, <2>1 DEF Cleared, Live, NoEngine
    <2> QED
      BY <2>2 DEF Core, Owned, OnRoute, IdleHeard, Heard, Playing
  <1> QED
    BY <1>1, <1>2

\* Emptying the queue keeps the core.
LEMMA CancelCore ==
    ASSUME NEW w, w \in Player, Good(w), Core(w), NEW v, v = CancelQueuedStart(w)
    PROVE  v \in Player /\ Good(v) /\ Core(v) /\ v.fg = w.fg
  <1>1. /\ v \in Player /\ Good(v) /\ v.session = w.session /\ v.fg = w.fg
        /\ v.screen = w.screen /\ v.wish = w.wish /\ v.engine = w.engine
        /\ w.adapter.release.queued = 0 => v = w
        /\ Fails(w.route, v.route, w.adapter.release.queued)
    BY CancelFields DEF Spares
  <1>2. Live(w) => v = w
    BY <1>1 DEF Good, ObjectInv, Live
  <1>3. ~Live(w) => ~Live(v) /\ v.route.phase # "Starting"
    BY <1>1 DEF Core, Owned, Live, Fails
  <1> QED
    BY <1>1, <1>2, <1>3, CoreKept

\* The stop on the way out keeps the core.
LEMMA StoppedCore ==
    ASSUME NEW w, w \in Player, Good(w), Core(w), NEW e \in Chance, NEW t,
           t = Teardown(w, FALSE, e)
    PROVE  t \in Player /\ Good(t) /\ Core(t) /\ t.fg = w.fg
  <1>1. Cleared(w, t)
    BY ClearFields
  <1> QED
    BY <1>1, ClearedCore DEF Cleared

\* What a player that runs keeps of its clock and its Engine when it leaves.
LEMMA VerdictLeaves ==
    ASSUME NEW w, NEW u \in Player, Core(u), u.fg = w.fg, NEW x \in Exits, x # "running",
           NEW v, v = [u EXCEPT !.exiting = x]
    PROVE  Leaves(w, v)
  <1>1. /\ v \in Player /\ v.exiting = x /\ v.route = u.route /\ v.session = u.session
        /\ v.engine = u.engine /\ v.fg = u.fg /\ v.screen = u.screen /\ v.wish = u.wish
    BY VerdictFields
  <1> QED
    BY <1>1, CoreKept DEF Leaves

\* exit_native keeps the core, whatever it meets: the poll on the way out launches
\* nothing.
LEMMA ExitLeaves ==
    ASSUME NEW w, w \in Player, Good(w), Core(w), w.exiting = "leaving", NEW e \in Chance,
           NEW v, v = Exited(w, e)
    PROVE  Leaves(w, v)
  <1> DEFINE r == Reap(w)
             u == DriveRelease(r, FALSE, e)
             x == Verdict(Exit(u.adapter.release))
             y == "firmware"
  <1>1. CASE Live(w) /\ Finished(w.engine)
    <2>1. v = Teardown(w, FALSE, e)
      BY <1>1 DEF Exited
    <2>2. Cleared(w, v)
      BY <2>1, ClearFields
    <2> QED
      BY <2>2, ClearedCore DEF Cleared, Leaves
  <1>2. CASE Live(w) /\ ~Finished(w.engine)
    <2>1. v = [w EXCEPT !.exiting = y] /\ y \in Exits /\ y # "running"
      BY <1>2 DEF Exited, Exits
    <2> HIDE DEF y
    <2>2. /\ v \in Player /\ v.exiting = y /\ v.route = w.route /\ v.session = w.session
          /\ v.engine = w.engine /\ v.fg = w.fg /\ v.screen = w.screen /\ v.wish = w.wish
      BY <2>1, VerdictFields
    <2> QED
      BY <2>1, <2>2, CoreKept DEF Leaves
  <1>3. r \in Player /\ Good(r) /\ Stays(w, r) /\ r.engine = w.engine /\ r.route = w.route
    BY ReapFields, ReapAdvances
  <1> HIDE DEF r
  <1>4. Core(r) /\ r.fg = w.fg
    BY <1>3, CoreKept DEF Stays
  <1>5. CASE ~Live(w) /\ r.slot.abandoned # 0
    <2>1. v = [r EXCEPT !.exiting = y] /\ y \in Exits /\ y # "running"
      BY <1>5 DEF Exited, Exits, r
    <2> HIDE DEF y
    <2>2. /\ v \in Player /\ v.exiting = y /\ v.route = r.route /\ v.session = r.session
          /\ v.engine = r.engine /\ v.fg = r.fg /\ v.screen = r.screen /\ v.wish = r.wish
      BY <1>3, <2>1, VerdictFields
    <2> QED
      BY <1>4, <2>1, <2>2, CoreKept DEF Leaves
  <1>6. CASE ~Live(w) /\ r.slot.abandoned = 0
    <2>1. /\ u \in Player /\ Good(u) /\ Stays(r, u)
          /\ \/ u.route = r.route /\ u.engine = r.engine
             \/ /\ r.adapter.release.queued # 0 /\ NoLoad(r.engine, u.engine)
                /\ Drops(r.route, u.route, r.adapter.release.queued)
      BY <1>3, ExitPolled
    <2>2. v = [u EXCEPT !.exiting = x]
      BY <1>6 DEF Exited, r
    <2> HIDE DEF u
    <2>3. x \in Exits /\ x # "running"
      BY <2>1, NativeFacts, VerdictFacts DEF Verdict, Exit, Release
    <2> HIDE DEF x
    <2>4. ~Live(r) /\ r.route.phase # "Starting"
      BY <1>3, <1>4, <1>6 DEF Core, Owned, Live
    <2>5. Core(u) /\ u.fg = w.fg
      BY <1>4, <2>1, <2>4, CoreKept DEF Stays, Drops, NoLoad, Live
    <2>6. /\ v \in Player /\ v.exiting = x /\ v.route = u.route /\ v.session = u.session
          /\ v.engine = u.engine /\ v.fg = u.fg /\ v.screen = u.screen /\ v.wish = u.wish
      BY <2>1, <2>2, <2>3, VerdictFields
    <2> QED
      BY <2>3, <2>5, <2>6, CoreKept DEF Leaves
  <1> QED
    BY <1>1, <1>2, <1>5, <1>6

------------------------------------------------------------------------------
(* Steps: the head of a frame.                                              *)

\* The return from an app switch is a step of a player that runs.
LEMMA ReturnRuns ==
    ASSUME NEW w, Whole(w, "events"), ~w.screen.front, NEW e \in Chance,
           NEW key \in {"DidForeground", "DidForegroundSuperseded"}, Front(w),
           NEW v, v = Mounted(DriveForeground([w EXCEPT !.screen.front = TRUE], key, e))
    PROVE  Runs(w, v, "events")
  <1> DEFINE b == TRUE
             y == [w EXCEPT !.screen.front = b]
             k == y.wish
             x == [y EXCEPT !.wish = k]
             u == Mounted(DriveForeground(x, key, e))
  <1>1. Whole(y, "events") /\ y.screen.front = b /\ y.fg = w.fg
    BY FrontWhole
  <1>2. v = Mounted(DriveForeground(y, key, e))
    OBVIOUS
  <1>3. y.screen.front
    BY <1>1
  <1> HIDE DEF y, b
  <1>4. Front(y) /\ y \in Player /\ Good(y) /\ k \in Clocks
    BY <1>3, PlayerFacts, <1>1 DEF Front, Whole
  <1>6. k = y.wish /\ key \in Keys /\ k = IF key = "PlayKey"
          /\ Claimable(y.fg) THEN "Playing" ELSE y.wish
    BY DEF Keys
  <1>5. x = y
    BY <1>4, SameWish
  <1> HIDE DEF k
  <1>7. Runs(y, u, "events")
    BY <1>1, <1>3, <1>4, <1>6, ClaimRuns
  <1>8. v = u
    BY <1>2, <1>5
  <1>9. w.fg.kind # "LoadPending"
    BY DEF Front
  <1> QED
    BY <1>7, <1>8, <1>9 DEF Runs, KeepsRefused

\* An action that applies a handler takes its step.
LEMMA BecomeRuns ==
    ASSUME NEW u, NEW t, Runs(World, u, t), Become(u)
    PROVE  Runs(World, World', t)
  <1>1. World' = u
    BY BecomeFacts DEF Runs, Whole
  <1> QED
    BY <1>1

\* What the viewer and the television ask at the head of a frame.
LEMMA EventsRun ==
    ASSUME Whole(World, "events"), Front(World),
           \/ Background \/ DidForeground \/ ClaimParked \/ DecoderRevoked
           \/ StartupDone \/ EngineFails
    PROVE  Runs(World, World', "events")
  <1> DEFINE w == World
  <1>1. Whole(w, "events") /\ Front(w) /\ w \in Player /\ Good(w) /\ w.fg \in Lifecycle
    BY DEF Whole
  <1>2. /\ w.engine = engine /\ w.fg = fg /\ w.screen = screen /\ w.route = route
        /\ w.session = session /\ w.exiting = exiting
    BY WorldFacts
  <1>3. \A u : Runs(w, u, "events") /\ Become(u) => Runs(World, World', "events")
    BY BecomeRuns DEF w
  <1> HIDE DEF w
  <1>5. CASE Background
    <2>1. PICK e \in Stops :
             Become(ParkIfPlaying(ParkPending(Halt([w EXCEPT !.screen.front = FALSE], e), e), e))
      BY <1>5 DEF Background, w
    <2> DEFINE u == ParkIfPlaying(ParkPending(Halt([w EXCEPT !.screen.front = FALSE], e), e), e)
    <2>2. e \in Chance
      BY ChanceFacts
    <2>3. Whole(u, "events") /\ Front(u) /\ (w.fg.kind = "LoadPending" => u.fg.kind # "Idle")
      BY <1>1, <2>2, BackgroundWhole
    <2> HIDE DEF u
    <2>4. Runs(w, u, "events")
      BY <2>3 DEF Runs, KeepsRefused
    <2> QED
      BY <1>3, <2>1, <2>4 DEF u
  <1>6. CASE DidForeground
    <2>1. PICK e \in Claiming, key \in {"DidForeground", "DidForegroundSuperseded"} :
             Become(Mounted(DriveForeground([w EXCEPT !.screen.front = TRUE], key, e)))
      BY <1>6 DEF DidForeground, w
    <2> DEFINE u == Mounted(DriveForeground([w EXCEPT !.screen.front = TRUE], key, e))
    <2>2. e \in Chance /\ ~w.screen.front
      BY <1>2, <1>6, ChanceFacts DEF DidForeground
    <2>3. Runs(w, u, "events")
      BY <1>1, <2>2, ReturnRuns
    <2> HIDE DEF u
    <2> QED
      BY <1>3, <2>1, <2>3 DEF u
  <1>7. CASE ClaimParked
    <2>1. PICK e \in Claiming, key \in {"DidForeground", "PlayKey"} :
             Become(Mounted(DriveForeground(
               [w EXCEPT !.wish = IF key = "PlayKey" THEN "Playing" ELSE w.wish], key, e)))
      BY <1>7 DEF ClaimParked, w
    <2> DEFINE k == IF key = "PlayKey" THEN "Playing" ELSE w.wish
               x == [w EXCEPT !.wish = k]
               u == Mounted(DriveForeground(x, key, e))
    <2>2. e \in Chance /\ w.screen.front /\ Claimable(w.fg)
      BY <1>2, <1>7, ChanceFacts DEF ClaimParked
    <2>3. key \in Keys /\ k = IF key = "PlayKey" /\ Claimable(w.fg) THEN "Playing" ELSE w.wish
      BY <2>2 DEF Keys
    <2>4. Become(u)
      BY <2>1
    <2> HIDE DEF k
    <2>5. Runs(w, u, "events")
      BY <1>1, <2>2, <2>3, ClaimRuns
    <2> HIDE DEF u
    <2> QED
      BY <1>3, <2>4, <2>5
  <1>8. CASE DecoderRevoked
    <2>1. PICK e \in Stops :
             Become(IF PreviewRequest(w) THEN Halt(w, e)
                    ELSE IF AwaitingLoad(w.fg) THEN w ELSE ParkPlayback(w, e))
      BY <1>2, <1>8 DEF DecoderRevoked, w
    <2> DEFINE u == IF PreviewRequest(w) THEN Halt(w, e)
                    ELSE IF AwaitingLoad(w.fg) THEN w ELSE ParkPlayback(w, e)
    <2>2. e \in Chance /\ w.engine.call = "ok"
      BY <1>2, <1>8, ChanceFacts DEF DecoderRevoked
    <2>3. Whole(u, "events") /\ Front(u)
      BY <1>1, <2>2, RevokedWhole
    <2> HIDE DEF u
    <2>4. Runs(w, u, "events")
      BY <2>2, <2>3 DEF Runs, KeepsRefused
    <2> QED
      BY <1>3, <2>1, <2>4 DEF u
  <1>9. CASE StartupDone
    <2> DEFINE u == StartedUp(w)
    <2>1. Become(u)
      BY <1>2, <1>9 DEF StartupDone, StartedUp, w
    <2>2. ~AwaitingLoad(w.fg) /\ w.route.phase = "Stable" /\ Live(w)
      BY <1>2, <1>9 DEF StartupDone, MayRun, w
    <2>3. Whole(u, "events") /\ Front(u)
      BY <1>1, <2>2, StartedUpWhole
    <2>4. u.fg = w.fg
      BY <1>1 DEF StartedUp, Player
    <2> HIDE DEF u
    <2>5. Runs(w, u, "events")
      BY <2>3, <2>4, SameRuns
    <2> QED
      BY <1>3, <2>1, <2>5
  <1>11. CASE EngineFails
    <2> DEFINE u == [w EXCEPT !.route = FailCurrentEngine(@), !.engine.dead = TRUE]
    <2>1. Become(u)
      BY <1>11 DEF EngineFails, w
    <2>2. /\ MayRun(w) /\ Live(w) /\ ~PreviewRequest(w)
          /\ w.route.phase = "Stable" /\ w.engine.call = "ok" /\ w.exiting = "running"
      BY <1>2, <1>11 DEF EngineFails, Press, Running, w
    <2>3. Good(u)
      BY <1>1, <2>2, EngineFailsSteps DEF Sound, Steps
    <2>4. Whole(u, "events") /\ Front(u)
      BY <1>1, <2>2, <2>3, EngineFailsWhole
    <2> HIDE DEF u
    <2>5. Runs(w, u, "events")
      BY <2>2, <2>4 DEF Runs, KeepsRefused
    <2> QED
      BY <1>3, <2>1, <2>5
  <1> QED
    BY <1>5, <1>6, <1>7, <1>8, <1>9, <1>11

------------------------------------------------------------------------------
(* Steps: the pages, and the frame in order.                                *)

\* A handler that may stop the playback and leaves the lifecycle where it was is a
\* step of a player that runs.
LEMMA EndsRuns ==
    ASSUME NEW w, NEW v, NEW t, Whole(v, t), Front(v), Ends(w, v)
    PROVE  Runs(w, v, t)
  BY SameRuns DEF Ends

\* What the pages ask, once the frame has drained them.
LEMMA AsksRun ==
    ASSUME Whole(World, "asks"), Front(World),
           PlayFilm \/ PreviewStart \/ PreviewStop \/ Transport \/ ExitPlayer \/ Retry
    PROVE  Runs(World, World', "asks")
  <1> DEFINE w == World
  <1>1. Whole(w, "asks") /\ Front(w) /\ w \in Player /\ Good(w) /\ w.fg \in Lifecycle
    BY DEF Whole
  <1>2. /\ w.engine = engine /\ w.fg = fg /\ w.screen = screen /\ w.route = route
        /\ w.session = session /\ w.exiting = exiting /\ w.preview = preview /\ w.held = held
    BY WorldFacts
  <1>3. \A u : Runs(w, u, "asks") /\ Become(u) => Runs(World, World', "asks")
    BY BecomeRuns DEF w
  <1> HIDE DEF w
  <1>4. CASE PlayFilm
    <2>1. PICK e \in Stops : Become(PlayHeldOrNow(w, e))
      BY <1>4 DEF PlayFilm, w
    <2>2. e \in Chance /\ w.screen.front /\ w.screen.page = "Browse"
      BY <1>2, <1>4, ChanceFacts DEF PlayFilm
    <2> DEFINE u == PlayHeldOrNow(w, e)
    <2>3. Whole(u, "asks") /\ Front(u)
      BY <1>1, <2>2, PlayFilmWhole
    <2>4. Ends(w, u)
      BY <1>1, <2>2, PlayHeldOrNowEnds
    <2> HIDE DEF u
    <2>5. Runs(w, u, "asks")
      BY <2>3, <2>4, EndsRuns
    <2> QED
      BY <1>3, <2>1, <2>5 DEF u
  <1>5. CASE PreviewStart
    <2> DEFINE u == RequestPreview(w)
    <2>1. Become(u)
      BY <1>5 DEF PreviewStart, w
    <2>2. w.screen.front /\ w.screen.page = "Browse" /\ w.preview = "Idle" /\ ~w.held
      BY <1>2, <1>5 DEF PreviewStart
    <2>3. Whole(u, "asks") /\ Front(u)
      BY <1>1, <2>2, RequestPreviewWhole
    <2>4. Ends(w, u)
      BY <1>1, RequestPreviewEnds
    <2> HIDE DEF u
    <2>5. Runs(w, u, "asks")
      BY <2>3, <2>4, EndsRuns
    <2> QED
      BY <1>3, <2>1, <2>5
  <1>6. CASE PreviewStop
    <2>1. PICK e \in Stops : Become(Halt(w, e))
      BY <1>6 DEF PreviewStop, w
    <2>2. e \in Chance
      BY ChanceFacts
    <2> DEFINE u == Halt(w, e)
    <2>3. Halted(w, u)
      BY <1>1, <2>2, HaltFields
    <2> HIDE DEF u
    <2>4. Whole(u, "asks")
      BY <1>1, <2>3, HaltWhole
    <2>5. Front(u) /\ u.fg = w.fg
      BY <1>1, <2>3 DEF Halted, Front
    <2>6. Runs(w, u, "asks")
      BY <2>4, <2>5, SameRuns
    <2> QED
      BY <1>3, <2>1, <2>6 DEF u
  <1>7. CASE ExitPlayer
    <2>1. PICK e \in Stops :
             Become([Teardown(CancelPlay([w EXCEPT !.fg = Supersede(@, TRUE)]), FALSE, e)
                       EXCEPT !.screen.page = "Browse"])
      BY <1>7 DEF ExitPlayer, w
    <2>2. e \in Chance
      BY ChanceFacts
    <2> DEFINE u == [Teardown(CancelPlay([w EXCEPT !.fg = Supersede(@, TRUE)]), FALSE, e)
                       EXCEPT !.screen.page = "Browse"]
    <2>3. LeftPlayer(w, u)
      BY <1>1, <2>2, ExitFields
    <2> HIDE DEF u
    <2>4. Whole(u, "asks") /\ Front(u)
      BY <1>1, <2>3, ExitWhole
    <2>5. Runs(w, u, "asks")
      BY <2>3, <2>4 DEF Runs, KeepsRefused, LeftPlayer
    <2> QED
      BY <1>3, <2>1, <2>5 DEF u
  <1>8. CASE Retry
    <2>1. PICK e \in Stops : Become(RequestFilm(Teardown(w, FALSE, e)))
      BY <1>8 DEF Retry, w
    <2>2. /\ e \in Chance /\ w.screen.front /\ w.route.phase = "Failed"
          /\ w.session.pend = "none" /\ w.screen.page = "Player"
      BY <1>2, <1>8, ChanceFacts DEF Retry
    <2> DEFINE u == RequestFilm(Teardown(w, FALSE, e))
    <2>3. Whole(u, "asks") /\ Front(u)
      BY <1>1, <2>2, RetryWhole
    <2> HIDE DEF u
    <2>4. w.fg.kind # "LoadPending"
      BY <1>1, <2>2 DEF Whole, Coherent, Restores
    <2>5. Runs(w, u, "asks")
      BY <2>3, <2>4 DEF Runs, KeepsRefused
    <2> QED
      BY <1>3, <2>1, <2>5 DEF u
  <1>9. CASE Transport
    <2>1. PICK paused \in BOOLEAN : Become(Transported(w, paused))
      BY <1>2, <1>9 DEF Transport, Transported, w
    <2>2. w.screen.page = "Player" /\ Live(w)
      BY <1>2, <1>9 DEF Transport, w
    <2> DEFINE u == Transported(w, paused)
    <2>3. Whole(u, "asks") /\ Front(u)
      BY <1>1, <2>2, TransportWhole
    <2>4. u.fg = w.fg
      BY <1>1 DEF Transported, Player
    <2> HIDE DEF u
    <2>5. Runs(w, u, "asks")
      BY <2>3, <2>4, SameRuns
    <2> QED
      BY <1>3, <2>1, <2>5 DEF u
  <1> QED
    BY <1>4, <1>5, <1>6, <1>7, <1>8, <1>9

\* The frame's steps, in the order of the loop.
LEMMA FramesRun ==
    ASSUME Whole(World, turn), Front(World),
           PumpStep \/ AfterPumpStep \/ SettleStep \/ RequestsStep \/ LandingStep
    PROVE  Runs(World, World', turn')
  <1> DEFINE w == World
  <1>1. Whole(w, turn) /\ Front(w) /\ w \in Player /\ Good(w) /\ w.fg \in Lifecycle
    BY DEF Whole
  <1>3. \A u, t : Runs(w, u, t) /\ Become(u) => Runs(World, World', t)
    BY BecomeRuns DEF w
  <1> HIDE DEF w
  <1>4. CASE PumpStep
    <2>1. PICK e \in Stops : Become(IF MayRun(w) /\ Live(w) THEN Pump(w, e) ELSE w)
      BY <1>4 DEF PumpStep, w
    <2>2. e \in Chance /\ turn = "events" /\ turn' = "after"
      BY <1>4, ChanceFacts DEF PumpStep, Frame, NextTurn
    <2> DEFINE p == Pump(w, e)
               u == IF MayRun(w) /\ Live(w) THEN p ELSE w
    <2>3. Whole(u, "after") /\ Front(u)
      BY <1>1, <2>2, PumpWhole
    <2>4. Live(w) => Pumped(w, p)
      BY <1>1, <2>2, PumpPumped
    <2> HIDE DEF p
    <2>5. Live(w) => p.fg = w.fg
      BY <2>4 DEF Pumped, Drained, Ends
    <2>6. u.fg = w.fg
      BY <2>5
    <2>7. Become(u)
      BY <2>1 DEF p
    <2> HIDE DEF u
    <2>8. Runs(w, u, "after")
      BY <2>3, <2>6, SameRuns
    <2> QED
      BY <1>3, <2>2, <2>7, <2>8
  <1>5. CASE AfterPumpStep
    <2>1. PICK e \in Stops, ended \in BOOLEAN :
             Become(IF MayRun(w) THEN AfterPump(w, ended, e) ELSE w)
      BY <1>5 DEF AfterPumpStep, w
    <2>2. e \in Chance /\ turn = "after" /\ turn' = "settle"
      BY <1>5, ChanceFacts DEF AfterPumpStep, Frame, NextTurn
    <2> DEFINE p == AfterPump(w, ended, e)
               u == IF MayRun(w) THEN p ELSE w
    <2>3. Whole(u, "settle") /\ Front(u)
      BY <1>1, <2>2, AfterPumpWhole
    <2>4. Ends(w, p)
      BY <1>1, <2>2, AfterPumpEnds
    <2> HIDE DEF p
    <2>6. u.fg = w.fg
      BY <2>4 DEF Ends
    <2>7. Become(u)
      BY <2>1 DEF p
    <2> HIDE DEF u
    <2>8. Runs(w, u, "settle")
      BY <2>3, <2>6, SameRuns
    <2> QED
      BY <1>3, <2>2, <2>7, <2>8
  <1>6. CASE SettleStep
    <2>1. PICK e \in Settling : Become(Settled(w, e))
      BY <1>6 DEF SettleStep, Settled, w
    <2>2. e \in Chance /\ turn = "settle" /\ turn' = "requests"
      BY <1>6, ChanceFacts DEF SettleStep, Frame, NextTurn
    <2> DEFINE u == Settled(w, e)
    <2>3. /\ Whole(u, "requests") /\ Front(u)
          /\ w.fg.kind = "LoadPending" /\ w.engine.call = "bad"
               /\ ~w.engine.late => u.fg.kind # "Idle"
      BY <1>1, <2>2, SettledWhole
    <2> HIDE DEF u
    <2>4. Runs(w, u, "requests")
      BY <2>3 DEF Runs, KeepsRefused
    <2> QED
      BY <1>3, <2>1, <2>2, <2>4 DEF u
  <1>7. CASE RequestsStep
    <2>1. PICK e \in Stops : Become(ContentRequests(w, e))
      BY <1>7 DEF RequestsStep, w
    <2>2. e \in Chance /\ turn = "requests" /\ turn' = "asks"
      BY <1>7, ChanceFacts DEF RequestsStep, Frame, NextTurn
    <2> DEFINE u == ContentRequests(w, e)
    <2>3. Whole(u, "asks") /\ Front(u)
      BY <1>1, <2>2, RequestsWhole
    <2>4. Ends(w, u)
      BY <1>1, <2>2, ContentRequestsEnds
    <2> HIDE DEF u
    <2>5. Runs(w, u, "asks")
      BY <2>3, <2>4, EndsRuns
    <2> QED
      BY <1>3, <2>1, <2>2, <2>5 DEF u
  <1>8. CASE LandingStep
    <2>1. PICK e \in Landings : Become(Landing(w, e))
      BY <1>8 DEF LandingStep, w
    <2>2. e \in Chance /\ turn = "asks" /\ turn' = "events"
      BY <1>8, ChanceFacts DEF LandingStep, Frame, NextTurn
    <2> DEFINE u == Landing(w, e)
    <2>3. /\ Whole(u, "events") /\ Front(u)
          /\ (w.fg.kind = "LoadPending" => u.fg.kind = "LoadPending")
      BY <1>1, <2>2, LandingWhole
    <2> HIDE DEF u
    <2>4. Runs(w, u, "events")
      BY <2>3 DEF Runs, KeepsRefused
    <2> QED
      BY <1>3, <2>1, <2>2, <2>4 DEF u
  <1> QED
    BY <1>4, <1>5, <1>6, <1>7, <1>8

------------------------------------------------------------------------------
(* Steps: all together.                                                     *)

\* One step, of a player that runs or of one that leaves.
Progresses(w, v, t) == Runs(w, v, t) \/ Leaves(w, v)

\* What holds between two steps.
Firm(w, t) == Sound(w) /\ Core(w) /\ (w.exiting = "running" => Coherent(w, t) /\ Front(w))

\* A step of a native thread, whether the player runs or leaves.
LEMMA ThreadGoes ==
    ASSUME NEW w, NEW t, Firm(w, t), NEW v, Threads(w, v),
           w.engine.call # "out" => v.engine.call = w.engine.call,
           w.engine.late => v.engine.late,
           w.engine.call = "out" /\ v.engine.call # "out" =>
              v.engine.failed = w.engine.failed /\ v.engine.late = w.engine.late
              /\ \E m \in v.mail : m.attempt = w.engine.attempt,
           (w.engine.failed => w.engine.call = "bad") => (v.engine.failed => v.engine.call = "bad"),
           \A m \in w.mail : m \in v.mail
    PROVE  Progresses(w, v, t)
  <1>1. CASE w.exiting = "running"
    <2>1. Whole(w, t) /\ Front(w)
      BY <1>1 DEF Firm, Sound, Whole
    <2>2. v.engine.failed => v.engine.call = "bad"
      BY <2>1 DEF Whole, Coherent, Loaded
    <2>3. Whole(v, t) /\ Front(v)
      BY <2>1, <2>2, ThreadWhole
    <2> QED
      BY <2>1, <2>3, ThreadRuns DEF Progresses
  <1>2. CASE w.exiting # "running"
    <2>1. Core(v)
      BY ThreadCore DEF Firm
    <2> QED
      BY <1>2, <2>1 DEF Progresses, Leaves, Threads
  <1> QED
    BY <1>1, <1>2

\* A step that turns the native object only.
LEMMA SlotOnlyThread ==
    ASSUME NEW w \in Player, NEW o \in Object, NEW v, v = [w EXCEPT !.slot = o], Good(v)
    PROVE  Threads(w, v) /\ v.engine = w.engine /\ v.mail = w.mail
  BY DEF Player, Threads

\* The worker inside an Unload returns, or its deadline passes.
LEMMA SlotGoes ==
    ASSUME NEW w, NEW t, Firm(w, t), NEW v, Good(v),
           v = [w EXCEPT !.slot.returned = TRUE] \/ v = [w EXCEPT !.slot.late = TRUE]
    PROVE  Progresses(w, v, t)
  <1> DEFINE r == [w.slot EXCEPT !.returned = TRUE]
             l == [w.slot EXCEPT !.late = TRUE]
  <1>1. w \in Player /\ r \in Object /\ l \in Object
    BY PlayerFacts DEF Firm, Sound, Object
  <1>2. v = [w EXCEPT !.slot = r] \/ v = [w EXCEPT !.slot = l]
    OBVIOUS
  <1> HIDE DEF r, l
  <1>3. Threads(w, v) /\ v.engine = w.engine /\ v.mail = w.mail
    BY <1>1, <1>2, SlotOnlyThread
  <1> QED
    BY <1>3, ThreadGoes

\* An abandoned Load returns and posts its result.
LEMMA BackGoes ==
    ASSUME NEW w, NEW t, Firm(w, t), NEW ok \in BOOLEAN, NEW v, Good(v),
           v = [w EXCEPT !.slot.back = TRUE,
                         !.mail = @ \cup {[attempt |-> w.slot.abandoned, ok |-> ok]}]
    PROVE  Progresses(w, v, t)
  <1> DEFINE o == [w.slot EXCEPT !.back = TRUE]
             m == w.mail \cup {[attempt |-> w.slot.abandoned, ok |-> ok]}
  <1>1. w \in Player /\ o \in Object
    BY PlayerFacts DEF Firm, Sound, Object
  <1>2. m \in SUBSET Post
    BY <1>1, PlayerFacts, NativeFacts DEF Post
  <1>3. v = [w EXCEPT !.slot = o, !.mail = m] /\ \A x \in w.mail : x \in m
    OBVIOUS
  <1> HIDE DEF o, m
  <1>4. Threads(w, v) /\ v.engine = w.engine /\ v.mail = m
    BY <1>1, <1>2, <1>3 DEF Player, Threads
  <1> QED
    BY <1>3, <1>4, ThreadGoes

\* The worker of a resolve or a rebuild answers.
LEMMA AnswersGoes ==
    ASSUME NEW w, NEW t, Firm(w, t), NEW v, v = [w EXCEPT !.session.answered = TRUE]
    PROVE  Progresses(w, v, t)
  <1>1. w \in Player /\ Good(w)
    BY DEF Firm, Sound
  <1>2. Threads(w, v) /\ v.engine = w.engine /\ v.mail = w.mail
    BY <1>1, AnswersThread
  <1> QED
    BY <1>2, ThreadGoes

\* A refusal's failure flag, or a Load's budget.
LEMMA FlagGoes ==
    ASSUME NEW w, NEW t, Firm(w, t), NEW v,
           \/ v = [w EXCEPT !.engine.failed = TRUE] /\ w.engine.call = "bad"
           \/ v = [w EXCEPT !.engine.late = TRUE]
    PROVE  Progresses(w, v, t)
  <1>1. w \in Player /\ Good(w)
    BY DEF Firm, Sound
  <1>2. /\ Threads(w, v) /\ v.mail = w.mail /\ v.engine.call = w.engine.call
        /\ v = [w EXCEPT !.engine.failed = TRUE] =>
             v.engine.failed /\ v.engine.late = w.engine.late
        /\ v = [w EXCEPT !.engine.late = TRUE] =>
             v.engine.late /\ v.engine.failed = w.engine.failed
    BY <1>1, FlagThread
  <1> QED
    BY <1>2, ThreadGoes

\* The media thread returns from its Load.
LEMMA ReturnsGoes ==
    ASSUME NEW w, NEW t, Firm(w, t), w.engine.call = "out", NEW ok \in BOOLEAN, NEW v, Good(v),
           v = Answering(w, ok)
    PROVE  Progresses(w, v, t)
  <1> DEFINE p == [attempt |-> w.engine.attempt, ok |-> ok]
  <1>1. w \in Player /\ Good(w)
    BY DEF Firm, Sound
  <1>2. /\ Threads(w, v) /\ v.engine.failed = w.engine.failed /\ v.engine.late = w.engine.late
        /\ v.mail = w.mail \cup {p}
    <2>1. /\ Threads(w, v) /\ v.engine.call = IF ok THEN "ok" ELSE "bad"
          /\ v.engine.failed = w.engine.failed /\ v.engine.late = w.engine.late
          /\ v.mail = w.mail \cup {[attempt |-> w.engine.attempt, ok |-> ok]}
      BY <1>1, ReturnsThread
    <2> QED
      BY <2>1
  <1>3. p.attempt = w.engine.attempt /\ p \in v.mail /\ \A m \in w.mail : m \in v.mail
    BY <1>2
  <1> HIDE DEF p
  <1> QED
    BY <1>2, <1>3, ThreadGoes

\* An action that applies a handler goes where the handler goes.
LEMMA BecomeGoes ==
    ASSUME NEW u, NEW t, Progresses(World, u, t), Become(u)
    PROVE  Progresses(World, World', t)
  <1>1. World' = u
    BY BecomeFacts DEF Progresses, Runs, Leaves, Whole
  <1> QED
    BY <1>1

\* The native threads, the clocks and the exit.
LEMMA ThreadsGo ==
    ASSUME Inv, Firm(World, turn),
           \/ WorkerAnswers
           \/ \E ok \in BOOLEAN : LoadReturns(ok) \/ AbandonedReturns(ok)
           \/ PublishLoadFailure \/ LoadTimesOut \/ UnloadReturns \/ ReleaseDeadline
           \/ Shutdown \/ ExitStep
    PROVE  Progresses(World, World', turn')
  <1> DEFINE w == World
  <1>1. Firm(w, turn) /\ Sound(w) /\ LeftClean(w) /\ w \in Player /\ Good(w) /\ Core(w)
    BY DEF Inv, Sound, Firm
  <1>2. w.engine = engine /\ w.slot = slot /\ w.exiting = exiting
    BY WorldFacts
  <1>3. \A u, t : Progresses(w, u, t) /\ Become(u) => Progresses(World, World', t)
    BY BecomeGoes DEF w
  <1> HIDE DEF w
  <1>4. CASE WorkerAnswers
    <2>1. Become([w EXCEPT !.session.answered = TRUE]) /\ turn' = turn
      BY <1>4 DEF WorkerAnswers, Elsewhere, w
    <2> QED
      BY <1>1, <1>3, <2>1, AnswersGoes
  <1>5. ASSUME NEW ok \in BOOLEAN, LoadReturns(ok) PROVE Progresses(World, World', turn')
    <2> DEFINE u == Answering(w, ok)
    <2>1. turn' = turn /\ w.engine.call = "out"
      BY <1>2, <1>5 DEF LoadReturns, Elsewhere
    <2>2. Become(u)
      BY <1>2, <1>5 DEF LoadReturns, Answering, w
    <2>3. Steps(w, u)
      BY <1>1, <2>1, LoadReturnsSteps DEF Answering
    <2>4. Good(u)
      BY <2>3 DEF Steps
    <2>5. Progresses(w, u, turn)
      BY <1>1, <2>1, <2>4, ReturnsGoes
    <2> HIDE DEF u
    <2> QED
      BY <1>3, <2>1, <2>2, <2>5
  <1>6. ASSUME NEW ok \in BOOLEAN, AbandonedReturns(ok) PROVE Progresses(World, World', turn')
    <2> DEFINE u == [w EXCEPT !.slot.back = TRUE,
                              !.mail = @ \cup {[attempt |-> w.slot.abandoned, ok |-> ok]}]
    <2>1. turn' = turn /\ w.slot.abandoned # 0 /\ ~w.slot.back
      BY <1>2, <1>6 DEF AbandonedReturns, Elsewhere
    <2>2. Become(u)
      BY <1>2, <1>6 DEF AbandonedReturns, w
    <2>3. Good(u)
      BY <1>1, <2>1, AbandonedReturnsSteps DEF Steps
    <2>4. Progresses(w, u, turn)
      BY <1>1, <2>3, BackGoes
    <2> HIDE DEF u
    <2> QED
      BY <1>3, <2>1, <2>2, <2>4
  <1>7. CASE PublishLoadFailure
    <2>1. Become([w EXCEPT !.engine.failed = TRUE]) /\ turn' = turn /\ w.engine.call = "bad"
      BY <1>2, <1>7 DEF PublishLoadFailure, FailureDue, Elsewhere, w
    <2> QED
      BY <1>1, <1>3, <2>1, FlagGoes
  <1>8. CASE LoadTimesOut
    <2>1. Become([w EXCEPT !.engine.late = TRUE]) /\ turn' = turn
      BY <1>8 DEF LoadTimesOut, Elsewhere, w
    <2> QED
      BY <1>1, <1>3, <2>1, FlagGoes
  <1>9. CASE UnloadReturns
    <2> DEFINE u == [w EXCEPT !.slot.returned = TRUE]
    <2>1. Become(u) /\ turn' = turn /\ w.slot.unload # 0 /\ ~w.slot.returned
      BY <1>2, <1>9 DEF UnloadReturns, Elsewhere, w
    <2>2. Good(u)
      BY <1>1, <2>1, UnloadReturnsSteps DEF Steps
    <2>3. Progresses(w, u, turn)
      BY <1>1, <2>2, SlotGoes
    <2> HIDE DEF u
    <2> QED
      BY <1>3, <2>1, <2>3
  <1>10. CASE ReleaseDeadline
    <2> DEFINE u == [w EXCEPT !.slot.late = TRUE]
    <2>1. Become(u) /\ turn' = turn
      BY <1>10 DEF ReleaseDeadline, Elsewhere, w
    <2>2. Good(u)
      BY <1>1, <2>1, FlagSteps DEF Steps
    <2>3. Progresses(w, u, turn)
      BY <1>1, <2>2, SlotGoes
    <2> HIDE DEF u
    <2> QED
      BY <1>3, <2>1, <2>3
  <1>11. CASE Shutdown
    <2>1. PICK e \in Stops :
             Become([CancelQueuedStart(IF Live(w) THEN Teardown(w, FALSE, e) ELSE w)
                       EXCEPT !.exiting = "leaving"])
      BY <1>11 DEF Shutdown, w
    <2> DEFINE d == Teardown(w, FALSE, e)
               s == IF Live(w) THEN d ELSE w
               c == CancelQueuedStart(s)
               x == "leaving"
               u == [c EXCEPT !.exiting = x]
    <2>2. e \in Chance /\ Become(u) /\ x \in Exits /\ x # "running"
      BY <2>1, ChanceFacts DEF Exits
    <2>3. d \in Player /\ Good(d) /\ Core(d) /\ d.fg = w.fg
      BY <1>1, <2>2, StoppedCore
    <2> HIDE DEF d
    <2>4. s \in Player /\ Good(s) /\ Core(s) /\ s.fg = w.fg
      BY <1>1, <2>3
    <2> HIDE DEF s
    <2>5. c \in Player /\ Core(c) /\ c.fg = w.fg
      BY <2>4, CancelCore
    <2> HIDE DEF c, x
    <2>6. Leaves(w, u)
      BY <2>2, <2>5, VerdictLeaves
    <2> HIDE DEF u
    <2> QED
      BY <1>3, <2>2, <2>6 DEF Progresses
  <1>12. CASE ExitStep
    <2>1. PICK e \in Stops : Become(Exited(w, e))
      BY <1>2, <1>12 DEF ExitStep, Exited, w
    <2>2. e \in Chance /\ w.exiting = "leaving"
      BY <1>2, <1>12, ChanceFacts DEF ExitStep
    <2>3. Leaves(w, Exited(w, e))
      BY <1>1, <2>2, ExitLeaves
    <2> QED
      BY <1>3, <2>1, <2>3 DEF Progresses
  <1> QED
    BY <1>4, <1>5, <1>6, <1>7, <1>8, <1>9, <1>10, <1>11, <1>12

------------------------------------------------------------------------------
(* The theorems.                                                            *)

\* The inductive invariant: the types and the object's ownership, the core to the last
\* step, and the coherence of the parts while the player runs.
Coherence == Inv /\ Firm(World, turn)

\* Every step of the system goes from a coherent player to a coherent one, or leaves
\* with the core intact.
LEMMA NextGoes ==
    ASSUME Coherence, Next
    PROVE  Progresses(World, World', turn')
  <1>0. Inv /\ Firm(World, turn) /\ World.exiting = exiting
    BY WorldFacts DEF Coherence
  <1>1. ASSUME exiting = "running" PROVE Whole(World, turn) /\ Front(World)
    BY <1>0, <1>1 DEF Firm, Sound, Whole
  <1>2. CASE \/ Background \/ DidForeground \/ ClaimParked \/ DecoderRevoked
             \/ StartupDone \/ EngineFails
    <2>1. exiting = "running" /\ turn = "events" /\ turn' = turn
      BY <1>2 DEF Background, DidForeground, ClaimParked, DecoderRevoked, StartupDone,
                  EngineFails, Press, Running
    <2>2. Whole(World, "events") /\ Front(World)
      BY <1>1, <2>1
    <2>3. Runs(World, World', "events")
      BY <1>2, <2>2, EventsRun
    <2> QED
      BY <2>1, <2>3 DEF Progresses
  <1>3. CASE PlayFilm \/ PreviewStart \/ PreviewStop \/ Transport \/ ExitPlayer \/ Retry
    <2>1. exiting = "running" /\ turn = "asks" /\ turn' = turn
      BY <1>3 DEF PlayFilm, PreviewStart, PreviewStop, Transport, ExitPlayer, Retry, Press,
                  Running
    <2>2. Whole(World, "asks") /\ Front(World)
      BY <1>1, <2>1
    <2>3. Runs(World, World', "asks")
      BY <1>3, <2>2, AsksRun
    <2> QED
      BY <2>1, <2>3 DEF Progresses
  <1>4. CASE PumpStep \/ AfterPumpStep \/ SettleStep \/ RequestsStep \/ LandingStep
    <2>1. exiting = "running"
      BY <1>4 DEF PumpStep, AfterPumpStep, SettleStep, RequestsStep, LandingStep, Frame, Running
    <2>2. Runs(World, World', turn')
      BY <1>1, <1>4, <2>1, FramesRun
    <2> QED
      BY <2>2 DEF Progresses
  <1>5. CASE \/ WorkerAnswers
             \/ \E ok \in BOOLEAN : LoadReturns(ok) \/ AbandonedReturns(ok)
             \/ PublishLoadFailure \/ LoadTimesOut \/ UnloadReturns \/ ReleaseDeadline
             \/ Shutdown \/ ExitStep
    BY <1>0, <1>5, ThreadsGo
  <1> QED
    BY <1>2, <1>3, <1>4, <1>5 DEF Next

\* The player starts out coherent.
LEMMA InitFirm == ASSUME Init PROVE Firm(World, turn)
  <1> DEFINE w == World
  <1>1. /\ w.route = IdleRoute /\ w.engine = NoEngine /\ w.mail = {} /\ w.held = FALSE
        /\ w.adapter = [release |-> Idle, watch |-> NoWatch, admission |-> FALSE]
        /\ w.fg = Unowed /\ w.exiting = "running" /\ w.preview = "Idle" /\ w.wish = "Playing"
        /\ w.screen.page = "Browse" /\ w.session.pend = "none" /\ ~w.session.preview
        /\ ~w.session.as_preview /\ ~w.session.paused
    BY WorldFacts DEF Init
  <1>2. /\ w.route.phase = "Idle" /\ w.route.flight = 0 /\ w.route.serials = 0
        /\ w.route.attempts = 0
        /\ w.route.last.attempt = 0 /\ w.route.under.phase = "None"
    BY <1>1 DEF IdleRoute, NoStartResult, NoFallback, At
  <1>3. ~Live(w) /\ ~w.engine.failed /\ ~w.engine.dead /\ w.engine.call = "none"
    BY <1>1 DEF NoEngine, Live
  <1>4. Queued(w) = 0 /\ w.adapter.release.kind = "Idle"
    BY <1>1 DEF Queued, Idle
  <1>5. w.fg.kind = "Idle"
    BY <1>1, UnowedFacts
  <1>6. Sound(w)
    BY InitInv DEF Inv
  <1> HIDE DEF w
  <1>7. Core(w)
    BY <1>1, <1>2, <1>3, <1>5 DEF Core, Owned, OnRoute, IdleHeard, Heard
  <1>8. Numbered(w) /\ Loaded(w)
    BY <1>1, <1>2, <1>3, <1>4, <1>5 DEF Numbered, Loaded, StableBelow, Pending
  <1>9. Asked(w, turn) /\ Waits(w)
    BY <1>1, <1>2, <1>3, <1>4, <1>5 DEF Asked, Waits, Playing, ResumeFlightOutstanding
  <1>10. Shown(w, turn) /\ Parked(w, turn) /\ Restores(w, turn) /\ Paged(w) /\ Front(w)
    BY <1>1, <1>2, <1>3, <1>4, <1>5 DEF Shown, Parked, Restores, Paged, Front, Parks
  <1> QED
    BY <1>6, <1>7, <1>8, <1>9, <1>10 DEF Firm, Coherent, w

\* What a step comes to is what holds between two steps.
LEMMA GoesFirm ==
    ASSUME NEW w, NEW v, NEW t, Progresses(w, v, t), Sound(v)
    PROVE  Firm(v, t)
  BY DEF Progresses, Runs, Leaves, Whole, Firm

\* The invariant is inductive.
LEMMA NextCoherence == Coherence /\ [Next]_vars => Coherence'
  <1> SUFFICES ASSUME Coherence, [Next]_vars PROVE Coherence'
    OBVIOUS
  <1>1. Inv'
    BY NextInv DEF Coherence
  <1>2. CASE Next
    <2>1. Progresses(World, World', turn')
      BY <1>2, NextGoes
    <2>2. Steps(World, World')
      BY <1>2, NextSteps DEF Coherence
    <2>3. Sound(World')
      BY <2>2 DEF Steps, Sound
    <2>4. Firm(World', turn')
      BY <2>1, <2>3, GoesFirm
    <2> QED
      BY <1>1, <2>4 DEF Coherence
  <1>3. CASE UNCHANGED vars
    <2>1. World' = World /\ turn' = turn
      BY <1>3, StutterFacts
    <2>2. Firm(World', turn')
      BY <2>1 DEF Coherence
    <2> QED
      BY <1>1, <2>2 DEF Coherence
  <1> QED
    BY <1>2, <1>3

\* The parts of the player agree at every point of every frame of run.rs, for any
\* number of presses, app switches, revoked decoders, refused or late Loads and slow
\* releases.
THEOREM Coherently == Spec => []Coherence
  <1>1. Init => Coherence
    BY InitInv, InitFirm DEF Coherence
  <1> QED
    BY <1>1, NextCoherence, PTL DEF Spec

\* An Engine whose Load is out in its budget is the start the route stands in:
\* settle_route_start finds an owner for the answer of every Load.
THEOREM EngineIsOwned == Spec => []EngineOwned
  <1>1. Coherence => EngineOwned
    <2> SUFFICES ASSUME Coherence PROVE EngineOwned
      OBVIOUS
    <2>1. Owned(World)
      BY DEF Coherence, Firm, Core
    <2> QED
      BY <2>1, WorldFacts DEF Owned, EngineOwned
  <1> QED
    BY <1>1, Coherently, PTL

\* An Engine is installed only under the player page or as a trailer, save one that a
\* trailer's queued start launched: finish_landed_play, finish_foreground_launch,
\* exit_player and clear_engine_for_play leave no film playing behind a page.
THEOREM EngineIsOnRoute == Spec => []EngineOnRouteButStray
  <1>1. Coherence => EngineOnRouteButStray
    <2> SUFFICES ASSUME Coherence PROVE EngineOnRouteButStray
      OBVIOUS
    <2>1. OnRoute(World)
      BY DEF Coherence, Firm, Core
    <2> QED
      BY <2>1, WorldFacts DEF OnRoute, EngineOnRouteButStray, EngineOnRoute, Stray
  <1> QED
    BY <1>1, Coherently, PTL

\* A film's Engine is paused or plays as the viewer last asked, save for a press that
\* the code lets go of: set_transport_paused, clock_for_suspend, before_load and the
\* start of the queued Load carry it from Engine to Engine, through any number of app
\* switches, revoked decoders and refused restores.
THEOREM WishIsHonoured == Spec => []WishHonoured
  <1>1. Coherence => WishHonoured
    <2> SUFFICES ASSUME Coherence PROVE WishHonoured
      OBVIOUS
    <2>1. IdleHeard(World) /\ World \in Player
      BY DEF Coherence, Firm, Core, Sound
    <2>2. engine.goal \in BOOLEAN
      BY <2>1, PlayerFacts, WorldFacts DEF Engine
    <2>3. Live(World) /\ ~session.as_preview => (engine.goal <=> wish = "Paused")
      BY <2>1, WorldFacts DEF IdleHeard
    <2> QED
      BY <2>2, <2>3 DEF WishHonoured
  <1> QED
    BY <1>1, Coherently, PTL

\* A restore whose Load the television refused in its budget is not forgotten while
\* the player is up: load_status and settled_by_foreground keep it to be claimed
\* again, whatever else the frame does.
THEOREM RefusedStays == Spec => RefusedRestoreStays
  <1> DEFINE A == fg.kind = "LoadPending" /\ engine.attempt = fg.attempt /\ engine.call = "bad"
                    /\ ~engine.late /\ fg'.kind = "Idle"
                      => screen'.page = "Browse"
  <1>1. Coherence /\ [Next]_vars => [A]_vars
    <2> SUFFICES ASSUME Coherence, Next PROVE A
      OBVIOUS
    <2>1. Progresses(World, World', turn')
      BY NextGoes
    <2>2. World'.fg = fg' /\ World'.screen = screen'
      BY WorldFacts DEF World
    <2>3. KeepsRefused(World, World') \/ World'.fg = World.fg
      BY <2>1 DEF Progresses, Runs, Leaves
    <2> QED
      BY <2>2, <2>3, WorldFacts DEF KeepsRefused
  <1> QED
    BY <1>1, Coherently, PTL DEF Spec, RefusedRestoreStays

==============================================================================
