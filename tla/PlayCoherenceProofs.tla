------------------------- MODULE PlayCoherenceProofs -------------------------
(***************************************************************************)
(* What the parts of the player owe each other between two handlers        *)
(* (Coherent), and that the handlers of the pages, the television, the     *)
(* native threads and the pump keep it.  The lifecycle's restores, the     *)
(* landing of plans and the theorems are in PlayRestoreProofs.             *)
(***************************************************************************)
EXTENDS PlayStartProofs

------------------------------------------------------------------------------
(* Stops and teardowns, field by field.                                     *)

\* Where giving up the start q leaves the route: failed under its serial when q was
\* pending, untouched when it was not.
Fails(c, d, q) ==
    /\ d.under = c.under /\ d.flight = c.flight /\ d.last = c.last
    /\ IF q # 0 /\ c.phase \in Pending /\ c.serial = q
         THEN d.phase = "Failed" /\ d.serial = q
         ELSE d = c

\* abort_route_start with StartFailed gives up the start it names and no other.
LEMMA AbortFails ==
    ASSUME NEW c \in Route, NEW q \in Nat \ {0}
    PROVE  Fails(c, AbortRouteStart(c, q, "StartFailed"), q)
  BY DEF Fails, AbortRouteStart, Enter, Route

\* What a stop leaves alone whatever it finds.
Spares(w, v) ==
    /\ v.preview = w.preview /\ v.held = w.held /\ v.fg = w.fg /\ v.screen = w.screen
    /\ v.exiting = w.exiting
    /\ v.session.pend = w.session.pend /\ v.session.preview = w.session.preview
    /\ v.session.as_preview = w.session.as_preview
    /\ v.session.answered = w.session.answered
    /\ v.route.under = w.route.under /\ v.route.last = w.route.last

\* begin_teardown's CancelQueued: nothing waits in the release machine afterwards, and
\* the route changes only where the start that waited was the route's own.
LEMMA CancelFields ==
    ASSUME NEW w \in Player, Good(w), NEW v, v = CancelQueuedStart(w)
    PROVE  /\ v \in Player /\ Good(v) /\ Spares(w, v)
           /\ v.session = w.session /\ v.wish = w.wish /\ v.engine = w.engine /\ v.mail = w.mail
           /\ v.adapter.release.queued = 0
           /\ w.adapter.release.queued = 0 => v = w
           /\ Fails(w.route, v.route, w.adapter.release.queued)
  <1>1. Halts(w, v) /\ v.adapter.release.queued = 0 /\ (w.adapter.release.queued = 0 => v = w)
    BY CancelQueuedHalts
  <1>2. v \in Player /\ Good(v)
    BY <1>1, GoodTypes
  <1>3. CASE w.adapter.release.queued = 0
    BY <1>1, <1>2, <1>3 DEF Spares, Fails
  <1>4. CASE w.adapter.release.queued # 0
    <2>1. w.route \in Route /\ w.adapter.release.queued \in Nat
      BY PlayerFacts, NativeFacts
    <2>2. /\ v.route = AbortRouteStart(w.route, w.adapter.release.queued, "StartFailed")
          /\ v.session = w.session /\ v.preview = w.preview /\ v.held = w.held
          /\ v.engine = w.engine /\ v.fg = w.fg /\ v.screen = w.screen
          /\ v.exiting = w.exiting /\ v.wish = w.wish /\ v.mail = w.mail
          /\ v.adapter.release.kind = "Releasing"
      BY <1>4, ZenonT(30) DEF CancelQueuedStart, CancelQueued, HasQueued, Silent, Fx, Releasing,
         RunAbortSuperseded, AbortStart, SettlePreviewAdmission, QueuedStartDropped,
         Player, Adapter, Release
    <2>3. Fails(w.route, v.route, w.adapter.release.queued)
      BY <1>4, <2>1, <2>2, AbortFails
    <2> QED
      BY <1>1, <1>2, <1>4, <2>2, <2>3 DEF Spares, Fails
  <1> QED
    BY <1>3, <1>4

\* A native stop takes the Engine and leaves route, session, lifecycle and screen
\* alone; it never puts a start in the queue.
LEMMA StopNativeFields ==
    ASSUME NEW w \in Player, NEW reload \in BOOLEAN, NEW e \in Chance,
           NEW v, v = StopNative(w, reload, e)
    PROVE  /\ v.route = w.route /\ v.session = w.session /\ v.preview = w.preview
           /\ v.held = w.held /\ v.engine = NoEngine /\ v.fg = w.fg /\ v.screen = w.screen
           /\ v.exiting = w.exiting /\ v.wish = w.wish
           /\ w.adapter.release.queued = 0 => v.adapter.release.queued = 0
  BY DEF StopNative, Player, Adapter, Object, UnloadHandedOff, Releasing

\* A handler that only moves the route leaves every other part of the player as it
\* was.
LEMMA SetRouteFields ==
    ASSUME NEW w \in Player, NEW c \in Route, NEW v, v = [w EXCEPT !.route = c]
    PROVE  /\ v \in Player /\ v.route = c /\ v.session = w.session /\ v.preview = w.preview
           /\ v.held = w.held /\ v.engine = w.engine /\ v.fg = w.fg /\ v.screen = w.screen
           /\ v.exiting = w.exiting /\ v.wish = w.wish /\ v.mail = w.mail /\ v.slot = w.slot
           /\ v.adapter = w.adapter
  BY DEF Player

\* The tail of a stop: an app switch's keeps the session and the clock, any other
\* forgets the film and returns the clock to Playing.
LEMMA EndedFields ==
    ASSUME NEW w \in Player, NEW reload \in BOOLEAN, NEW v, v = Ended(w, reload)
    PROVE  /\ Spares(w, v) /\ v.route = w.route /\ v.engine = w.engine /\ v.mail = w.mail
           /\ v.adapter = w.adapter
           /\ reload => v.session = w.session /\ v.wish = w.wish
           /\ ~reload => ~v.session.url /\ ~v.session.paused /\ v.wish = "Playing"
  BY DEF Ended, ForgetPlayback, Player, Session, Spares

\* engine_teardown: a full stop leaves the route idle; an app switch's turns a start
\* under way back into a prepared one and gives up a resume's flight.
LEMMA TeardownRoute ==
    ASSUME NEW c \in Route, NEW reload \in BOOLEAN, NEW d, d = EngineTeardown(c, reload)
    PROVE  /\ d \in Route /\ d.under = c.under /\ d.last = c.last
           /\ ~reload => d.phase = "Idle"
           /\ reload /\ ResumeFlightOutstanding(c) => d.phase = "Stable"
           /\ reload /\ c.phase = "Starting" => d.phase = "Prepared" /\ d.serial = c.serial
           /\ reload /\ ~ResumeFlightOutstanding(c) /\ c.phase # "Starting" => d = c
           /\ d.flight \in {0, c.flight} /\ d.serials = c.serials /\ d.attempts = c.attempts
  BY DEF EngineTeardown, ResumeFlightOutstanding, Enter, Route, Phases, Pending

\* What a teardown comes to.
Torn(w, v, reload) ==
    /\ v \in Player /\ Good(v) /\ Spares(w, v) /\ v.adapter.release.queued = 0
    /\ w.route.serials <= v.route.serials /\ w.route.attempts <= v.route.attempts
    /\ v.route.flight \in {0, w.route.flight}
    /\ \/ /\ Live(w) /\ w.session.preview /\ ~Finished(w.engine) /\ v = w
       \/ /\ Live(w) /\ (w.session.preview => Finished(w.engine)) /\ v.engine = NoEngine
          /\ reload => v.session = w.session /\ v.wish = w.wish
          /\ reload /\ w.route.phase = "Starting" => v.route.phase = "Prepared"
               /\ v.route.serial = w.route.serial
          /\ reload /\ ResumeFlightOutstanding(w.route) => v.route.phase = "Stable"
          /\ reload /\ w.route.phase # "Starting"
               /\ ~ResumeFlightOutstanding(w.route) => v.route = w.route
          /\ ~reload => v.route.phase = "Idle" /\ ~v.session.url /\ ~v.session.paused
                        /\ v.wish = "Playing"
       \/ /\ ~Live(w) /\ v.engine = w.engine /\ reload
          /\ v.session = w.session /\ v.wish = w.wish
          /\ ResumeFlightOutstanding(w.route) =>
                v.route.phase = "Stable" \/ (v.route.phase = "Failed" /\ v.route.serial = w.route.serial)
          /\ ~ResumeFlightOutstanding(w.route) =>
                Fails(w.route, v.route, w.adapter.release.queued)
       \/ /\ ~Live(w) /\ v.engine = w.engine /\ ~reload /\ v.route.phase = "Idle"
          /\ ~v.session.url /\ ~v.session.paused /\ v.wish = "Playing"

\* A teardown is one of four things: a trailer whose Load is still out is left
\* installed; the Engine is stopped; or there was none, and the stop is an app
\* switch's or a full one.
LEMMA TeardownTorn ==
    ASSUME NEW w \in Player, Good(w), NEW reload \in BOOLEAN, NEW e \in Chance,
           NEW v, v = Teardown(w, reload, e)
    PROVE  Torn(w, v, reload)
  <1> DEFINE a == CancelQueuedStart(w)
             c == EngineTeardown(a.route, reload)
             x == [a EXCEPT !.route = c]
             n == StopNative(x, reload, e)
  <1>1. v \in Player /\ Good(v) /\ v.fg = w.fg
        /\ w.route.serials <= v.route.serials /\ w.route.attempts <= v.route.attempts
    BY TeardownHalts DEF Halts, Goes
  <1>2. /\ a \in Player /\ Good(a) /\ Spares(w, a)
        /\ a.session = w.session /\ a.wish = w.wish /\ a.engine = w.engine /\ a.mail = w.mail
        /\ a.adapter.release.queued = 0
        /\ w.adapter.release.queued = 0 => a = w
        /\ Fails(w.route, a.route, w.adapter.release.queued)
    BY CancelFields
  <1>3. v = StopEngine(a, reload, e)
    BY DEF Teardown
  <1>4. Live(w) => w.adapter.release.queued = 0 /\ a = w
    BY <1>2 DEF Good, ObjectInv, Live
  <1> HIDE DEF a
  <1>5. a.route \in Route
    BY <1>2, PlayerFacts
  <1>6. /\ c \in Route /\ c.under = a.route.under /\ c.last = a.route.last
        /\ ~reload => c.phase = "Idle"
        /\ reload /\ ResumeFlightOutstanding(a.route) => c.phase = "Stable"
        /\ reload /\ a.route.phase = "Starting" => c.phase = "Prepared"
             /\ c.serial = a.route.serial
        /\ reload /\ ~ResumeFlightOutstanding(a.route)
             /\ a.route.phase # "Starting" => c = a.route
        /\ c.flight \in {0, w.route.flight}
    BY <1>2, <1>5, TeardownRoute DEF Fails
  <1> HIDE DEF c
  <1>7. /\ x \in Player /\ x.route = c /\ x.session = a.session /\ x.preview = a.preview
        /\ x.held = a.held /\ x.engine = a.engine /\ x.fg = a.fg /\ x.screen = a.screen
        /\ x.exiting = a.exiting /\ x.wish = a.wish /\ x.adapter = a.adapter
    BY <1>2, <1>6, SetRouteFields
  <1>8. CASE Live(a) /\ a.session.preview /\ ~Finished(a.engine)
    <2>1. v = a
      BY <1>3, <1>8 DEF StopEngine
    <2> QED
      BY <1>1, <1>2, <1>4, <1>8, <2>1 DEF Torn, Live
  <1>9. CASE Live(a) /\ ~(a.session.preview /\ ~Finished(a.engine))
    <2>1. v = Ended(n, reload)
      BY <1>3, <1>9 DEF StopEngine, c
    <2>8. Carries(a.route, c)
      BY <1>2, GoodIssued, TeardownCarries DEF c
    <2>9. Beside(a, x)
      BY <1>2, <2>8, RouteBeside
    <2>2. Good(x)
      BY <1>2, <2>9, BesideGood
    <2>10. Live(x) /\ x.adapter.release.queued = 0
      BY <1>2, <1>7, <1>9 DEF Live
    <2> HIDE DEF x
    <2>3. /\ n.route = x.route /\ n.session = x.session /\ n.preview = x.preview
          /\ n.held = x.held /\ n.engine = NoEngine /\ n.fg = x.fg /\ n.screen = x.screen
          /\ n.exiting = x.exiting /\ n.wish = x.wish /\ n.adapter.release.queued = 0
      BY <1>7, <2>10, StopNativeFields
    <2>4. n \in Player /\ Good(n)
      BY <1>7, <2>2, <2>10, StopNativeHalts, GoodTypes
    <2> HIDE DEF n, x
    <2>5. /\ Spares(n, v) /\ v.route = n.route /\ v.engine = n.engine
          /\ reload => v.session = n.session /\ v.wish = n.wish
          /\ ~reload => ~v.session.url /\ ~v.session.paused /\ v.wish = "Playing"
          /\ v.adapter = n.adapter
      BY <2>1, <2>4, EndedFields
    <2>6. a = w /\ Live(w) /\ (w.session.preview => Finished(w.engine))
      BY <1>2, <1>4, <1>9 DEF Live
    <2>7. v.adapter.release.queued = 0
      BY <2>3, <2>5
    <2> QED
      BY <1>1, <1>6, <1>7, <2>3, <2>5, <2>6, <2>7 DEF Torn, Spares
  <1>10. CASE ~Live(a) /\ reload /\ ~ResumeFlightOutstanding(a.route)
    <2>1. v = a
      BY <1>3, <1>10 DEF StopEngine
    <2> QED
      BY <1>1, <1>2, <1>4, <1>10, <2>1 DEF Torn, Live, Fails, ResumeFlightOutstanding, Pending
  <1>11. CASE ~Live(a) /\ ~(reload /\ ~ResumeFlightOutstanding(a.route))
    <2>1. v = Ended(x, reload)
      BY <1>3, <1>11 DEF StopEngine, c
    <2> HIDE DEF x
    <2>2. /\ Spares(x, v) /\ v.route = x.route /\ v.engine = x.engine
          /\ reload => v.session = x.session /\ v.wish = x.wish
          /\ ~reload => ~v.session.url /\ ~v.session.paused /\ v.wish = "Playing"
          /\ v.adapter = x.adapter
      BY <2>1, <1>7, EndedFields
    <2>3. ~Live(w)
      BY <1>2, <1>11 DEF Live
    <2>4. reload => ResumeFlightOutstanding(w.route)
      BY <1>2, <1>11 DEF Fails, ResumeFlightOutstanding, Pending
    <2> QED
      BY <1>1, <1>2, <1>6, <1>7, <1>11, <2>2, <2>3, <2>4 DEF Torn, Spares
  <1> QED BY <1>8, <1>9, <1>10, <1>11

------------------------------------------------------------------------------
(* A start, once the release machine let it through.                        *)

\* The start q is given up, or was never the route's.
Drops(c, d, q) ==
    /\ d.under = c.under /\ d.flight = c.flight /\ d.last = c.last
    /\ IF q # 0 /\ c.phase \in Pending /\ c.serial = q
         THEN (d.phase = "Failed" /\ d.serial = q) \/ (c.phase = "Preparing" /\ d.phase = "Stable")
         ELSE d = c

\* The route d has claimed the Load of the start q from c, under a fresh attempt.
Claimed(c, d, q, attempt) ==
    /\ c.phase \in {"Preparing", "Prepared"} /\ c.serial = q
    /\ d.under = c.under /\ d.flight = c.flight /\ d.last = c.last
    /\ d.phase = "Starting" /\ d.serial = q /\ d.attempt = attempt /\ attempt = c.attempts + 1

\* abort_route_start drops the start it names, whatever the reason given.
LEMMA AbortDrops ==
    ASSUME NEW c \in Route, NEW q \in Nat \ {0}, NEW result
    PROVE  Drops(c, AbortRouteStart(c, q, result), q)
  BY DEF Drops, AbortRouteStart, Enter, Route

\* A start that was prepared and then refused is dropped; one that may be claimed is
\* claimed under the next attempt.
LEMMA PreparedDrops ==
    ASSUME NEW c \in Route, NEW q \in Nat \ {0}, NEW d, d = PrepareRouteStart(c, q)
    PROVE  /\ Drops(c, AbortRouteStart(d, q, "StartFailed"), q)
           /\ MayClaim(d, q) => Claimed(c, ClaimRouteStartAttempt(d, q), q, c.attempts + 1)
  BY DEF Drops, AbortRouteStart, Enter, Route, PrepareRouteStart, MayPrepare, MayClaim, Claimed,
         ClaimRouteStartAttempt, Pending

\* The fields no start touches.
Stays(w, v) ==
    /\ v.session = w.session /\ v.held = w.held /\ v.fg = w.fg /\ v.screen = w.screen
    /\ v.exiting = w.exiting /\ v.wish = w.wish /\ v.mail = w.mail

\* What a start comes to once the release machine let it through: it failed and the
\* route dropped it, or a new Engine carries the attempt the route claimed.
StartFields(w, q, r) ==
    /\ Stays(w, r.w) /\ r.w.preview = w.preview /\ r.w.adapter = w.adapter
    /\ \/ /\ r.out = "Failed" /\ r.attempt = 0 /\ r.w.engine = w.engine
          /\ Drops(w.route, r.w.route, q)
       \/ /\ r.out = "Launched" /\ ~Live(w) /\ w.session.url
          /\ r.w.engine = NewEngine(q, r.attempt, w.session.paused)
          /\ Claimed(w.route, r.w.route, q, r.attempt)

\* reap_abandoned_load touches the native object only.
LEMMA ReapFields ==
    ASSUME NEW w \in Player, NEW v, v = Reap(w)
    PROVE  /\ Stays(w, v) /\ v.preview = w.preview /\ v.adapter = w.adapter /\ v.engine = w.engine
           /\ v.route = w.route
  BY DEF Reap, Stays, Player, Object

\* start_bufferfeed_prepared launches only where no Engine is installed and a url is
\* there, and whatever it refuses it settles on the route.
LEMMA StartPreparedFields ==
    ASSUME NEW w \in Player, Good(w), NEW q \in Nat \ {0}, NEW e \in Chance,
           NEW r, r = StartPrepared(w, q, e)
    PROVE  StartFields(w, q, r)
  <1> DEFINE v == Reap(w)
             p == PrepareRouteStart(v.route, q)
             u == [v EXCEPT !.route = p]
             c == ClaimRouteStartAttempt(u.route, q)
  <1>1. v \in Player
    BY ReapAdvances
  <1>2. /\ Stays(w, v) /\ v.preview = w.preview /\ v.adapter = w.adapter /\ v.engine = w.engine
        /\ v.route = w.route
    BY ReapFields
  <1>3. p \in Route
    BY <1>1, GoodIssued, PrepareCarries, ReapAdvances DEF Carries, MovedOn
  <1>8. w.route \in Route
    BY PlayerFacts
  <1> HIDE DEF v
  <1>4. /\ u \in Player /\ u.route = p /\ u.session = v.session /\ u.preview = v.preview
        /\ u.held = v.held /\ u.engine = v.engine /\ u.fg = v.fg /\ u.screen = v.screen
        /\ u.exiting = v.exiting /\ u.wish = v.wish /\ u.mail = v.mail /\ u.adapter = v.adapter
    BY <1>1, <1>3, SetRouteFields
  <1>5. /\ Drops(w.route, AbortRouteStart(p, q, "StartFailed"), q)
        /\ MayClaim(p, q) => Claimed(w.route, ClaimRouteStartAttempt(p, q), q, w.route.attempts + 1)
    BY <1>2, <1>8, PreparedDrops
  <1> HIDE DEF p, u
  <1>6. ASSUME NEW x \in Player, Stays(w, x), x.preview = w.preview, x.adapter = w.adapter,
               x.engine = w.engine, NEW result,
               Drops(w.route, AbortRouteStart(x.route, q, result), q),
               r = Started(AbortStart(x, q, result), "Failed", 0)
        PROVE  StartFields(w, q, r)
    <2>1. r.w = AbortStart(x, q, result) /\ r.out = "Failed" /\ r.attempt = 0
      BY <1>6, StartedFacts
    <2>2. /\ r.w.route = AbortRouteStart(x.route, q, result)
          /\ r.w.session = x.session /\ r.w.preview = x.preview /\ r.w.held = x.held
          /\ r.w.engine = x.engine /\ r.w.mail = x.mail /\ r.w.adapter = x.adapter
          /\ r.w.fg = x.fg /\ r.w.screen = x.screen
          /\ r.w.exiting = x.exiting /\ r.w.wish = x.wish
      BY <2>1 DEF AbortStart, Player
    <2> QED
      BY <1>6, <2>1, <2>2 DEF StartFields, Stays
  <1>7. CASE ~w.session.url
    <2>1. r = Started(AbortStart(w, q, "NoRoute"), "Failed", 0)
      BY <1>7 DEF StartPrepared
    <2> QED
      BY <1>6, <1>8, <2>1, AbortDrops DEF Stays
  <1>9. CASE w.session.url /\ (v.slot.abandoned # 0 \/ ~MayPrepare(v.route, q))
    <2>1. r = Started(AbortStart(v, q, "StartFailed"), "Failed", 0)
      BY <1>9 DEF StartPrepared, v
    <2> QED
      BY <1>1, <1>2, <1>6, <1>8, <2>1, AbortDrops
  <1>10. CASE w.session.url /\ v.slot.abandoned = 0 /\ MayPrepare(v.route, q)
             /\ (Live(v) \/ ~e.opens \/ ~MayClaim(u.route, q))
    <2>1. r = Started(AbortStart(u, q, "StartFailed"), "Failed", 0)
      BY <1>10 DEF StartPrepared, v, u, p
    <2> QED
      BY <1>2, <1>4, <1>5, <1>6, <2>1 DEF Stays
  <1>11. CASE w.session.url /\ v.slot.abandoned = 0 /\ MayPrepare(v.route, q)
             /\ ~(Live(v) \/ ~e.opens \/ ~MayClaim(u.route, q))
    <2> DEFINE y == [u EXCEPT !.route = c, !.engine = NewEngine(q, c.attempt, w.session.paused)]
    <2>1. r = Started(y, "Launched", c.attempt)
      BY <1>11 DEF StartPrepared, v, u, p
    <2>2. /\ y.route = c /\ y.session = u.session /\ y.preview = u.preview /\ y.held = u.held
          /\ y.engine = NewEngine(q, c.attempt, w.session.paused)
          /\ y.mail = u.mail /\ y.adapter = u.adapter
          /\ y.fg = u.fg /\ y.screen = u.screen
          /\ y.exiting = u.exiting /\ y.wish = u.wish
      BY <1>4 DEF Player
    <2>3. r.w = y /\ r.out = "Launched" /\ r.attempt = c.attempt
      BY <2>1, StartedFacts
    <2>4. Claimed(w.route, c, q, w.route.attempts + 1)
      BY <1>4, <1>5, <1>11
    <2> HIDE DEF y, c
    <2>5. ~Live(w)
      BY <1>2, <1>11 DEF Live
    <2> QED
      BY <1>2, <1>4, <1>11, <2>2, <2>3, <2>4, <2>5 DEF StartFields, Stays, Claimed
  <1> QED
    BY <1>7, <1>9, <1>10, <1>11

------------------------------------------------------------------------------
(* The start that waited in the queue.                                      *)

\* The end of a queued start: the watch of a restore learns how it went, and a
\* trailer's preview is live or idle by it.
LEMMA QueuedRanFields ==
    ASSUME NEW w \in Player, NEW launched \in BOOLEAN, NEW attempt \in Nat,
           NEW v, v = QueuedRan(w, launched, attempt)
    PROVE  /\ Stays(w, v) /\ v.route = w.route /\ v.engine = w.engine
           /\ v.adapter.release = w.adapter.release
           /\ w.adapter.watch.kind = "Watching" =>
                v.adapter.watch = [kind |-> IF attempt = 0 THEN "Failed" ELSE "Launched",
                                   attempt |-> attempt]
           /\ w.adapter.watch.kind # "Watching" => v.adapter.watch = w.adapter.watch
           /\ v.preview # w.preview =>
                IF launched THEN w.preview = "Fetching"
                  /\ v.preview = "Live" ELSE v.preview = "Idle"
  <1> DEFINE x == SettlePreviewAdmission(w, launched, TRUE)
  <1>1. /\ Stays(w, x) /\ x.route = w.route /\ x.engine = w.engine
        /\ x.adapter.release = w.adapter.release /\ x.adapter.watch = w.adapter.watch
        /\ x.preview # w.preview =>
                IF launched THEN w.preview = "Fetching"
                  /\ x.preview = "Live" ELSE x.preview = "Idle"
    BY DEF SettlePreviewAdmission, Player, Adapter, Stays
  <1>2. v = [x EXCEPT !.adapter = QueuedStartRan(x.adapter, attempt)]
    BY DEF QueuedRan
  <1>3. x \in Player
    BY DEF SettlePreviewAdmission, Player, Adapter, Previews
  <1> HIDE DEF x
  <1>5. x.adapter \in Adapter
    BY <1>3, PlayerFacts
  <1>4. /\ Stays(x, v) /\ v.route = x.route /\ v.engine = x.engine /\ v.preview = x.preview
        /\ v.adapter = QueuedStartRan(x.adapter, attempt)
    BY <1>2, <1>3 DEF Player, Stays
  <1> QED
    BY <1>1, <1>4, <1>5 DEF Stays, QueuedStartRan, Adapter

\* A queued start that ran: the Engine it built is marked as a waited one exactly when
\* the request was a trailer's.
LEMMA QueuedStartedFields ==
    ASSUME NEW r, r.w \in Player, r.attempt \in Nat, NEW v, v = QueuedStarted(r)
    PROVE  /\ Stays(r.w, v) /\ v.route = r.w.route
           /\ v.engine.serial = r.w.engine.serial /\ v.engine.attempt = r.w.engine.attempt
           /\ v.engine.call = r.w.engine.call /\ v.engine.failed = r.w.engine.failed
           /\ v.engine.late = r.w.engine.late /\ v.engine.dead = r.w.engine.dead
           /\ v.engine.follows = r.w.engine.follows /\ v.engine.goal = r.w.engine.goal
           /\ v.engine.ready = r.w.engine.ready
           /\ v.engine.waited <=> r.out = "Launched" /\ r.w.session.as_preview
           /\ v.adapter.release = r.w.adapter.release
           /\ r.w.adapter.watch.kind = "Watching" =>
                v.adapter.watch = [kind |-> IF r.attempt = 0 THEN "Failed" ELSE "Launched",
                                   attempt |-> r.attempt]
           /\ r.w.adapter.watch.kind # "Watching" => v.adapter.watch = r.w.adapter.watch
           /\ v.preview # r.w.preview =>
                IF r.out = "Launched" THEN r.w.preview = "Fetching" /\ v.preview = "Live"
                ELSE v.preview = "Idle"
  <1> DEFINE b == r.out = "Launched"
             t == b /\ r.w.session.as_preview
             k == [kind |-> IF r.attempt = 0 THEN "Failed" ELSE "Launched", attempt |-> r.attempt]
             u == r.w
             x == QueuedRan(u, b, r.attempt)
  <1>0. u \in Player /\ b \in BOOLEAN /\ t \in BOOLEAN /\ (t <=> b /\ u.session.as_preview)
    BY PlayerFacts DEF Session
  <1>3. v = [x EXCEPT !.engine.waited = t]
    BY DEF QueuedStarted
  <1> HIDE DEF b, t, u
  <1>1. /\ Stays(u, x) /\ x.route = u.route /\ x.engine = u.engine
        /\ x.adapter.release = u.adapter.release
        /\ u.adapter.watch.kind = "Watching" => x.adapter.watch = k
        /\ u.adapter.watch.kind # "Watching" => x.adapter.watch = u.adapter.watch
        /\ x.preview # u.preview =>
                IF b THEN u.preview = "Fetching" /\ x.preview = "Live" ELSE x.preview = "Idle"
    BY <1>0, QueuedRanFields
  <1>2. x \in Player
    BY <1>0, ZenonT(30) DEF QueuedRan, SettlePreviewAdmission, QueuedStartRan, Player, Adapter, Watch,
       Previews
  <1> HIDE DEF x, k
  <1>4. /\ Stays(x, v) /\ v.route = x.route /\ v.preview = x.preview /\ v.adapter = x.adapter
        /\ v.engine = [x.engine EXCEPT !.waited = t] /\ x.engine \in Engine
    BY <1>0, <1>2, <1>3 DEF Player, Stays
  <1>5. /\ v.engine.serial = u.engine.serial /\ v.engine.attempt = u.engine.attempt
        /\ v.engine.call = u.engine.call /\ v.engine.failed = u.engine.failed
        /\ v.engine.late = u.engine.late /\ v.engine.dead = u.engine.dead
        /\ v.engine.follows = u.engine.follows /\ v.engine.waited = t
        /\ v.engine.goal = u.engine.goal /\ v.engine.ready = u.engine.ready
    BY <1>1, <1>4 DEF Engine
  <1>6. /\ Stays(u, v) /\ v.route = u.route
        /\ v.adapter.release = u.adapter.release
        /\ u.adapter.watch.kind = "Watching" => v.adapter.watch = k
        /\ u.adapter.watch.kind # "Watching" => v.adapter.watch = u.adapter.watch
        /\ v.preview # u.preview =>
             IF b THEN u.preview = "Fetching" /\ v.preview = "Live" ELSE v.preview = "Idle"
    BY <1>1, <1>4 DEF Stays
  <1> QED
    BY <1>0, <1>5, <1>6 DEF b, u, k

\* The tail of a returned Unload has run.
Tail(w) ==
    [w EXCEPT !.slot = [w.slot EXCEPT !.unload = 0, !.returned = FALSE, !.late = FALSE],
              !.adapter.release = Idle]

\* The tail of a returned Unload frees the native object and empties the release
\* machine; route, Engine and session are as they were.
LEMMA TailFields ==
    ASSUME NEW w \in Player, Good(w), w.adapter.release.kind # "Idle", w.slot.returned,
           NEW x, x = Tail(w)
    PROVE  /\ x \in Player /\ Good(x) /\ Stays(w, x) /\ x.route = w.route /\ x.engine = w.engine
           /\ x.preview = w.preview /\ x.adapter.watch = w.adapter.watch
           /\ x.adapter.release.kind = "Idle" /\ x.adapter.release.queued = 0
  <1> DEFINE free == [w.slot EXCEPT !.unload = 0, !.returned = FALSE, !.late = FALSE]
             a == [w.adapter EXCEPT !.release = Idle]
  <1>1. w.slot.unload # 0 /\ w.slot.abandoned = 0 /\ ~w.slot.back /\ w.slot \in Object
    BY PlayerFacts DEF Good, ObjectInv
  <1>2. free \in Object /\ free.unload = 0 /\ ~free.returned /\ free.abandoned = 0 /\ ~free.back
    BY <1>1 DEF Object
  <1>3. Idle \in Release /\ Idle.kind = "Idle" /\ Idle.queued = 0
    BY DEF Idle, Release
  <1>4. a \in Adapter /\ a.release = Idle /\ a.watch = w.adapter.watch
    BY <1>3, PlayerFacts DEF Adapter
  <1>5. x = [w EXCEPT !.slot = free, !.adapter = a]
    BY DEF Tail
  <1> HIDE DEF a, free
  <1>6. /\ x \in Player /\ Stays(w, x) /\ x.route = w.route /\ x.engine = w.engine
        /\ x.slot = free /\ x.preview = w.preview /\ x.adapter = a
    BY <1>2, <1>4, <1>5 DEF Player, Stays
  <1>7. Good(x)
    BY <1>2, <1>3, <1>4, <1>6, NativeFacts DEF Good, ObjectInv, PostInv, QueueInv, Stays
  <1> QED
    BY <1>3, <1>4, <1>6, <1>7

\* The worker is back: the tail runs, then the start that waited.
LEMMA DriveTailRuns ==
    ASSUME NEW w \in Player, Good(w), NEW may_start \in BOOLEAN, NEW e \in Chance,
           w.adapter.release.kind # "Idle", w.slot.returned
    PROVE  DriveRelease(w, may_start, e) =
             IF w.adapter.release.queued = 0 THEN Tail(w)
             ELSE RunReleaseEffects(Tail(w), "Start", w.adapter.release.queued, may_start, e)
  <1> DEFINE r == w.adapter.release
             q == r.queued
             free == [w.slot EXCEPT !.unload = 0, !.returned = FALSE, !.late = FALSE]
             x == [w EXCEPT !.slot = free, !.adapter.release = Idle]
             v == DriveRelease(w, may_start, e)
             X == UnloadReturned(r, w.slot.unload)
             Y == Tick(X.to, w.slot.late)
             Z == IF X.effect = "None" THEN Y ELSE X
             S == IF X.tail THEN free ELSE w.slot
  <1>1. r.epoch = w.slot.unload
    BY DEF Good, ObjectInv
  <1>2. X = Fx(Idle, TRUE, About("Start", q), q)
    BY <1>1 DEF UnloadReturned, IsBusy
  <1>3. X.to = Idle /\ X.tail = TRUE /\ X.effect = About("Start", q) /\ X.q = q
    BY <1>2 DEF Fx
  <1>4. Y.to = Idle /\ Y.effect = "None" /\ Y.q = 0
    BY <1>3 DEF Tick, Silent, Idle, Fx
  <1>5. S = free
    BY <1>3
  <1>6. v = RunReleaseEffects([w EXCEPT !.slot = S, !.adapter.release = Y.to],
                              Z.effect, Z.q, may_start, e)
    BY DEF DriveRelease
  <1> HIDE DEF X, Y, S, free, v
  <1>7. v = RunReleaseEffects(x, Z.effect, Z.q, may_start, e)
    BY <1>4, <1>5, <1>6
  <1>8. Z.effect = About("Start", q) /\ (q # 0 => Z.q = q)
    BY <1>3, <1>4 DEF About
  <1>9. x = Tail(w)
    BY DEF Tail, free
  <1> HIDE DEF Z, x
  <1>10. v = IF q = 0 THEN x ELSE RunReleaseEffects(x, "Start", q, may_start, e)
    BY <1>7, <1>8 DEF RunReleaseEffects, About
  <1> QED
    BY <1>9, <1>10 DEF v

------------------------------------------------------------------------------
(* Polls of the release machine.                                            *)

\* A new Engine with the goal g, that a queued start may have launched.
NewLoad(n, q, g) ==
    /\ n.serial = q /\ n.attempt # 0 /\ n.call = "out" /\ n.goal = g /\ ~n.ready
    /\ ~n.failed /\ ~n.late /\ ~n.dead /\ ~n.follows

\* No Engine before nor after.
NoLoad(n, m) ==
    n.attempt = 0 /\ m.attempt = 0 /\ m.call = n.call /\ m.failed = n.failed /\ m.dead = n.dead

\* What a poll of the release machine comes to.
Polled(w, v) ==
    LET q == w.adapter.release.queued
        m == w.adapter.watch
    IN  /\ v \in Player /\ Good(v) /\ Stays(w, v)
        /\ (w.adapter.release.kind = "Overdue" => q = 0) /\ v.adapter.release.kind = "Overdue"
             => v.adapter.release.queued = 0
        /\ w.adapter.release.kind = "Idle" => v = w
        /\ v.adapter.release.kind = "Releasing" => v = w /\ ~w.slot.returned /\ ~w.slot.late
        /\ \/ /\ v.route = w.route /\ v.engine = w.engine /\ v.preview = w.preview
              /\ v.adapter.release.queued = q /\ v.adapter.watch = m
           \/ /\ q # 0 /\ v.adapter.release.queued = 0 /\ v.adapter.release.kind # "Releasing"
              /\ NoLoad(w.engine, v.engine) /\ Drops(w.route, v.route, q)
              /\ v.preview \in {w.preview, "Idle"}
              /\ m.kind = "Watching" => v.adapter.watch.kind = "Failed"
              /\ m.kind # "Watching" => v.adapter.watch = m
           \/ /\ q # 0 /\ v.adapter.release.queued = 0 /\ v.adapter.release.kind = "Idle"
              /\ ~Live(w) /\ NewLoad(v.engine, q, w.session.paused) /\ w.session.url
              /\ v.engine.waited <=> w.session.as_preview
              /\ Claimed(w.route, v.route, q, v.engine.attempt)
              /\ v.preview = w.preview \/ (w.preview = "Fetching" /\ v.preview = "Live")
              /\ m.kind = "Watching" =>
                   v.adapter.watch.kind = "Launched" /\ v.adapter.watch.attempt = v.engine.attempt
              /\ m.kind # "Watching" => v.adapter.watch = m

\* The worker inside the Unload is back: the poll launches or drops the start that
\* waited, and tells the watch which.
LEMMA ReturnedPolled ==
    ASSUME NEW w \in Player, Good(w), NEW e \in Chance,
           w.adapter.release.kind # "Idle", w.slot.returned,
           NEW v, v = PollRelease(w, e)
    PROVE  Polled(w, v)
  <1> DEFINE q == w.adapter.release.queued
  <1>0. v = DriveRelease(w, TRUE, e)
    BY DEF PollRelease
  <1>1. v \in Player /\ Good(v)
    BY <1>0, DriveReleaseDriven
  <1>2. q \in Nat /\ ~Live(w) /\ w.route \in Route
    BY NativeFacts, PlayerFacts DEF Good, ObjectInv, Live
  <1> DEFINE x == Tail(w)
  <1>7. TRUE \in BOOLEAN
    OBVIOUS
  <1>8. v = IF q = 0 THEN x ELSE RunReleaseEffects(x, "Start", q, TRUE, e)
    BY <1>0, <1>7, DriveTailRuns
  <1>3. /\ x \in Player /\ Good(x) /\ Stays(w, x) /\ x.route = w.route /\ x.engine = w.engine
        /\ x.preview = w.preview /\ x.adapter.watch = w.adapter.watch
    BY TailFields
  <1>4. x.adapter.release.queued = 0 /\ x.adapter.release.kind = "Idle"
    BY TailFields
  <1> HIDE DEF x
  <1>5. CASE q = 0
    BY <1>1, <1>3, <1>4, <1>5, <1>8 DEF Polled
  <1>6. CASE q # 0
    <2> DEFINE r == StartPrepared(x, q, e)
    <2>1. StartFields(x, q, r)
      BY <1>2, <1>3, <1>6, StartPreparedFields
    <2>2. StartOutcome(x, q, r)
      BY <1>2, <1>3, <1>4, StartPreparedOutcome
    <2>3. r.w \in Player /\ r.attempt \in Nat
      BY <2>2, GoodTypes DEF StartOutcome
    <2>4. v = QueuedStarted(r)
      BY <1>6, <1>8 DEF RunReleaseEffects
    <2> HIDE DEF r, q
    <2> DEFINE k == [kind |-> IF r.attempt = 0 THEN "Failed" ELSE "Launched", attempt |-> r.attempt]
    <2>5. /\ Stays(r.w, v) /\ v.route = r.w.route
          /\ v.engine.serial = r.w.engine.serial /\ v.engine.attempt = r.w.engine.attempt
          /\ v.engine.call = r.w.engine.call /\ v.engine.failed = r.w.engine.failed
          /\ v.engine.late = r.w.engine.late /\ v.engine.dead = r.w.engine.dead
          /\ v.engine.follows = r.w.engine.follows /\ v.engine.goal = r.w.engine.goal
          /\ v.engine.ready = r.w.engine.ready
          /\ v.engine.waited <=> r.out = "Launched" /\ r.w.session.as_preview
          /\ v.adapter.release = r.w.adapter.release
          /\ r.w.adapter.watch.kind = "Watching" => v.adapter.watch = k
          /\ r.w.adapter.watch.kind # "Watching" => v.adapter.watch = r.w.adapter.watch
          /\ v.preview # r.w.preview =>
                IF r.out = "Launched" THEN r.w.preview = "Fetching" /\ v.preview = "Live"
                ELSE v.preview = "Idle"
      BY <2>3, <2>4, QueuedStartedFields
    <2>6. k.attempt = r.attempt /\ k.kind = IF r.attempt = 0 THEN "Failed" ELSE "Launched"
      OBVIOUS
    <2> HIDE DEF k
    <2>7. Stays(w, v) /\ v.adapter.release.queued = 0 /\ v.adapter.release.kind = "Idle"
      BY <1>3, <1>4, <2>1, <2>5 DEF Stays, StartFields
    <2>8. CASE r.out = "Failed"
      <3>1. r.attempt = 0 /\ r.w.engine = w.engine /\ Drops(w.route, v.route, q)
        BY <1>3, <2>1, <2>5, <2>8 DEF StartFields
      <3>2. NoLoad(w.engine, v.engine)
        BY <1>2, <2>5, <3>1 DEF NoLoad, Live
      <3> QED
        BY <1>1, <1>3, <1>6, <2>1, <2>5, <2>6, <2>7, <2>8, <3>1, <3>2 DEF Polled, StartFields, q
    <2>9. CASE r.out = "Launched"
      <3>1. /\ r.w.engine = NewEngine(q, r.attempt, w.session.paused)
            /\ Claimed(w.route, v.route, q, r.attempt)
        BY <1>3, <2>1, <2>5, <2>9 DEF StartFields, Stays
      <3>2. r.attempt # 0
        BY <1>2, <3>1 DEF Claimed, Route
      <3>3. NewLoad(v.engine, q, w.session.paused) /\ v.engine.attempt = r.attempt
        BY <2>5, <3>1, <3>2 DEF NewLoad, NewEngine, NoEngine
      <3>5. w.session.url
        BY <1>3, <2>1, <2>9 DEF Stays, StartFields
      <3>4. v.engine.waited <=> w.session.as_preview
        BY <1>3, <2>1, <2>5, <2>9 DEF Stays, StartFields
      <3> QED
        BY <1>1, <1>2, <1>3, <1>6, <2>1, <2>5, <2>6, <2>7, <2>9, <3>1, <3>2, <3>3, <3>4, <3>5
        DEF Polled, StartFields, q
    <2> QED
      BY <2>1, <2>8, <2>9 DEF StartFields
  <1> QED
    BY <1>5, <1>6

\* The worker is still inside the firmware: at the deadline the start that waited is refused.
LEMMA DriveTick ==
    ASSUME NEW w \in Player, Good(w), NEW may_start \in BOOLEAN, NEW e \in Chance,
           w.adapter.release.kind # "Idle", ~w.slot.returned,
           NEW x, x = [w EXCEPT !.adapter.release = Overdue(w.adapter.release.epoch)]
    PROVE  DriveRelease(w, may_start, e) =
             IF ~(w.adapter.release.kind = "Releasing" /\ w.slot.late) THEN w
             ELSE IF w.adapter.release.queued = 0 THEN x
             ELSE QueuedRan(AbortStart(x, w.adapter.release.queued, "StartFailed"), FALSE, 0)
  <1> DEFINE r == w.adapter.release
             q == r.queued
             X == Silent(r)
             Y == Tick(X.to, w.slot.late)
             Z == IF X.effect = "None" THEN Y ELSE X
             S == IF X.tail THEN [w.slot EXCEPT !.unload = 0, !.returned = FALSE, !.late = FALSE]
                  ELSE w.slot
             v == DriveRelease(w, may_start, e)
  <1>1. X.to = r /\ X.effect = "None" /\ X.tail = FALSE /\ X.q = 0
    BY DEF Silent, Fx
  <1>2. Z = Y /\ S = w.slot
    BY <1>1
  <1>3. v = RunReleaseEffects([w EXCEPT !.slot = S, !.adapter.release = Y.to],
                              Z.effect, Z.q, may_start, e)
    BY DEF DriveRelease
  <1> HIDE DEF S, v, Z
  <1>4. v = RunReleaseEffects([w EXCEPT !.slot = w.slot, !.adapter.release = Y.to],
                              Y.effect, Y.q, may_start, e)
    BY <1>2, <1>3
  <1>5. CASE ~(r.kind = "Releasing" /\ w.slot.late)
    <2>1. Y = Silent(r)
      BY <1>1, <1>5 DEF Tick
    <2>2. Y.to = r /\ Y.effect = "None"
      BY <2>1 DEF Silent, Fx
    <2>3. [w EXCEPT !.slot = w.slot, !.adapter.release = r] = w
      BY DEF Player, Adapter
    <2> HIDE DEF X, Y
    <2>4. v = w
      BY <1>4, <2>2, <2>3 DEF RunReleaseEffects
    <2> QED
      BY <1>5, <2>4 DEF v
  <1>6. CASE r.kind = "Releasing" /\ w.slot.late
    <2>1. Y = Fx(Overdue(r.epoch), FALSE, About("RefuseStart", q), q)
      BY <1>1, <1>6 DEF Tick
    <2>2. Y.to = Overdue(r.epoch) /\ Y.effect = About("RefuseStart", q) /\ Y.q = q
      BY <2>1 DEF Fx
    <2>3. [w EXCEPT !.slot = w.slot, !.adapter.release = Overdue(r.epoch)] = x
      BY DEF Player
    <2> HIDE DEF X, Y
    <2>4. v = RunReleaseEffects(x, About("RefuseStart", q), q, may_start, e)
      BY <1>4, <2>2, <2>3
    <2>5. v = IF q = 0 THEN x ELSE QueuedRan(AbortStart(x, q, "StartFailed"), FALSE, 0)
      BY <2>4 DEF RunReleaseEffects, About, RefuseStartForRelease
    <2> QED
      BY <1>6, <2>5 DEF v
  <1> QED
    BY <1>5, <1>6

\* The worker is not back: the poll does nothing before the deadline, and refuses the
\* start that waited at the deadline.
LEMMA WaitingPolled ==
    ASSUME NEW w \in Player, Good(w), NEW may_start \in BOOLEAN, NEW e \in Chance,
           w.adapter.release.kind # "Idle", ~w.slot.returned,
           NEW v, v = DriveRelease(w, may_start, e)
    PROVE  Polled(w, v)
  <1> DEFINE q == w.adapter.release.queued
             o == Overdue(w.adapter.release.epoch)
             a == [w.adapter EXCEPT !.release = o]
             x == [w EXCEPT !.adapter.release = o]
             y == AbortStart(x, q, "StartFailed")
  <1>1. v \in Player /\ Good(v)
    BY DriveReleaseDriven
  <1>2. q \in Nat /\ ~Live(w) /\ w.route \in Route /\ w.adapter.release.epoch \in Nat
    BY NativeFacts, PlayerFacts DEF Good, ObjectInv, Live
  <1>3. v = IF ~(w.adapter.release.kind = "Releasing" /\ w.slot.late) THEN w
            ELSE IF q = 0 THEN x ELSE QueuedRan(y, FALSE, 0)
    BY DriveTick
  <1>4. o \in Release /\ o.kind = "Overdue" /\ o.queued = 0
    BY <1>2 DEF Overdue, Release
  <1> HIDE DEF o
  <1>9. a \in Adapter /\ a.release = o /\ a.watch = w.adapter.watch
    BY <1>4 DEF Player, Adapter
  <1>10. x = [w EXCEPT !.adapter = a]
    BY DEF Player
  <1> HIDE DEF a, x
  <1>11. /\ x \in Player /\ x.route = w.route /\ x.engine = w.engine
         /\ x.preview = w.preview /\ x.adapter = a
    BY <1>9, <1>10 DEF Player
  <1>12. Stays(w, x)
    BY <1>10 DEF Player, Stays
  <1>5. /\ x \in Player /\ x.route = w.route /\ x.engine = w.engine /\ Stays(w, x)
        /\ x.preview = w.preview /\ x.adapter.release = o /\ x.adapter.watch = w.adapter.watch
    BY <1>9, <1>11, <1>12
  <1>6. CASE v = w /\ ~(w.adapter.release.kind = "Releasing" /\ w.slot.late)
    BY <1>1, <1>6 DEF Polled, Stays
  <1>7. CASE q = 0 /\ v = x
    BY <1>1, <1>4, <1>5, <1>7 DEF Polled
  <1>8. CASE q # 0 /\ v = QueuedRan(y, FALSE, 0)
    <2>1. /\ y.route = AbortRouteStart(x.route, q, "StartFailed") /\ Stays(x, y)
          /\ y.engine = x.engine /\ y.preview = x.preview /\ y.adapter = x.adapter
      BY <1>5 DEF AbortStart, Player, Stays
    <2>2. y.route \in Route
      BY <1>2, <1>5, <2>1, GoodIssued, AbortCarries DEF Carries, MovedOn
    <2>3. y \in Player
      BY <1>5, <2>1, <2>2 DEF AbortStart, Player
    <2>4. Drops(w.route, y.route, q)
      BY <1>2, <1>5, <1>8, <2>1, AbortDrops
    <2> HIDE DEF y
    <2> DEFINE z == 0
               b == FALSE
               k == [kind |-> IF z = 0 THEN "Failed" ELSE "Launched", attempt |-> z]
    <2>5. b \in BOOLEAN /\ ~b /\ z \in Nat /\ k.kind = "Failed" /\ v = QueuedRan(y, b, z)
      BY <1>8
    <2> HIDE DEF z, b
    <2>6. /\ Stays(y, v) /\ v.route = y.route /\ v.engine = y.engine
          /\ v.adapter.release = y.adapter.release
          /\ y.adapter.watch.kind = "Watching" => v.adapter.watch = k
          /\ y.adapter.watch.kind # "Watching" => v.adapter.watch = y.adapter.watch
          /\ v.preview # y.preview => v.preview = "Idle"
      BY <2>3, <2>5, QueuedRanFields
    <2> HIDE DEF k
    <2>7. Stays(w, v) /\ NoLoad(w.engine, v.engine)
      BY <1>2, <1>5, <2>1, <2>6 DEF Stays, NoLoad, Live
    <2> HIDE DEF q
    <2> QED
      BY <1>1, <1>4, <1>5, <1>8, <2>1, <2>4, <2>5, <2>6, <2>7 DEF Polled, q
  <1> QED
    BY <1>3, <1>6, <1>7, <1>8

\* poll_release: every poll keeps the queue, drops the start that waited, or launches
\* it under a fresh attempt.
LEMMA PollPolled ==
    ASSUME NEW w \in Player, Good(w), NEW e \in Chance, NEW v, v = PollRelease(w, e)
    PROVE  Polled(w, v)
  <1>1. v = DriveRelease(w, TRUE, e) /\ TRUE \in BOOLEAN
    BY DEF PollRelease
  <1>2. CASE w.adapter.release.kind = "Idle"
    <2>1. v = w
      BY <1>1, <1>2, DriveIdle
    <2> QED
      BY <1>2, <2>1 DEF Polled, Stays
  <1>3. CASE w.adapter.release.kind # "Idle" /\ ~w.slot.returned
    BY <1>1, <1>3, WaitingPolled
  <1>4. CASE w.adapter.release.kind # "Idle" /\ w.slot.returned
    BY <1>4, ReturnedPolled
  <1> QED
    BY <1>2, <1>3, <1>4

\* A poll on the way out never launches: the start that waited is kept or dropped.
LEMMA ExitPolled ==
    ASSUME NEW w \in Player, Good(w), NEW e \in Chance, NEW v, v = DriveRelease(w, FALSE, e)
    PROVE  /\ v \in Player /\ Good(v) /\ Stays(w, v)
           /\ \/ v.route = w.route /\ v.engine = w.engine
              \/ /\ w.adapter.release.queued # 0 /\ NoLoad(w.engine, v.engine)
                 /\ Drops(w.route, v.route, w.adapter.release.queued)
  <1> DEFINE q == w.adapter.release.queued
             x == Tail(w)
             y == SettlePreviewAdmission(x, FALSE, FALSE)
  <1>0. FALSE \in BOOLEAN
    OBVIOUS
  <1>1. v \in Player /\ Good(v) /\ (Live(v) => Live(w))
    BY <1>0, DriveReleaseDriven
  <1>2. CASE w.adapter.release.kind = "Idle"
    <2>1. v = w
      BY <1>0, <1>2, DriveIdle
    <2> QED
      BY <2>1 DEF Stays
  <1>3. CASE w.adapter.release.kind # "Idle" /\ ~w.slot.returned
    <2>1. Polled(w, v)
      BY <1>0, <1>3, WaitingPolled
    <2> QED
      BY <1>1, <2>1 DEF Polled, NewLoad, Live
  <1>4. CASE w.adapter.release.kind # "Idle" /\ w.slot.returned
    <2>1. v = IF q = 0 THEN x ELSE RunReleaseEffects(x, "Start", q, FALSE, e)
      BY <1>0, <1>4, DriveTailRuns
    <2>2. /\ x \in Player /\ Stays(w, x) /\ x.route = w.route /\ x.engine = w.engine
      BY <1>4, TailFields
    <2>3. q \in Nat /\ ~Live(w) /\ w.route \in Route
      BY <1>4, NativeFacts, PlayerFacts DEF Good, ObjectInv, Live
    <2> HIDE DEF x
    <2>4. CASE q = 0
      BY <1>1, <2>1, <2>2, <2>4
    <2>5. CASE q # 0
      <3>1. v = AbortStart(y, q, "StartFailed")
        BY <2>1, <2>5 DEF RunReleaseEffects
      <3>2. y \in Player /\ Stays(x, y) /\ y.route = x.route /\ y.engine = x.engine
        BY <2>2 DEF SettlePreviewAdmission, Player, Adapter, Previews, Stays
      <3> HIDE DEF y
      <3>3. /\ v.route = AbortRouteStart(y.route, q, "StartFailed") /\ Stays(y, v)
            /\ v.engine = y.engine
        BY <3>1, <3>2 DEF AbortStart, Player, Stays
      <3>4. Drops(w.route, v.route, q)
        BY <2>2, <2>3, <2>5, <3>2, <3>3, AbortDrops
      <3>5. NoLoad(w.engine, v.engine) /\ Stays(w, v)
        BY <2>2, <2>3, <3>2, <3>3 DEF NoLoad, Live, Stays
      <3> QED
        BY <1>1, <2>5, <3>4, <3>5
    <2> QED
      BY <2>4, <2>5
  <1> QED
    BY <1>2, <1>3, <1>4

------------------------------------------------------------------------------
(* Requests for a start.                                                    *)

\* What a request for the start q comes to.
RequestedFields(w, q, r) ==
    /\ Stays(w, r.w) /\ r.w.preview = w.preview
    /\ \/ /\ r.out = "Failed" /\ r.attempt = 0 /\ r.w.engine = w.engine
          /\ w.adapter.release.kind # "Releasing" /\ r.w.adapter = w.adapter
          /\ Drops(w.route, r.w.route, q)
       \/ /\ r.out = "Launched" /\ ~Live(w) /\ w.session.url
          /\ r.w.engine = NewEngine(q, r.attempt, w.session.paused)
          /\ w.adapter.release.kind = "Idle" /\ r.w.adapter = w.adapter
          /\ Claimed(w.route, r.w.route, q, r.attempt)
       \/ /\ r.out = "Deferred" /\ r.attempt = 0 /\ r.w.engine = w.engine
          /\ w.adapter.release.kind = "Releasing"
          /\ r.w.adapter.release.kind = "Releasing" /\ r.w.adapter.release.queued = q
          /\ r.w.slot = w.slot
          /\ w.adapter.release.queued \in {0, q} =>
               r.w.route = w.route /\ r.w.adapter.watch = w.adapter.watch
          /\ w.adapter.release.queued \notin {0, q} =>
               Drops(w.route, r.w.route, w.adapter.release.queued) /\ r.w.adapter.watch = NoWatch

\* AbortSuperseded drops the start it names and forgets the watch on it.
LEMMA SupersededFields ==
    ASSUME NEW w \in Player, NEW q \in Nat \ {0}, NEW v, v = RunAbortSuperseded(w, q)
    PROVE  /\ Stays(w, v) /\ v.preview = w.preview /\ v.engine = w.engine
           /\ v.adapter.release = w.adapter.release /\ v.adapter.watch = NoWatch
           /\ Drops(w.route, v.route, q) /\ v.slot = w.slot
  <1>1. w.route \in Route
    BY PlayerFacts
  <1>2. /\ Stays(w, v) /\ v.preview = w.preview /\ v.engine = w.engine
        /\ v.adapter.release = w.adapter.release /\ v.adapter.watch = NoWatch /\ v.slot = w.slot
        /\ v.route = AbortRouteStart(w.route, q, "StartFailed")
    BY DEF RunAbortSuperseded, AbortStart, SettlePreviewAdmission, QueuedStartDropped, Player,
       Adapter,
       Stays
  <1> QED
    BY <1>1, <1>2, AbortDrops

\* A start that is given up leaves everything but the route as it was.
LEMMA AbortFields ==
    ASSUME NEW w \in Player, NEW q \in Nat \ {0}, NEW v, v = AbortStart(w, q, "StartFailed")
    PROVE  /\ Stays(w, v) /\ v.preview = w.preview /\ v.engine = w.engine
           /\ v.adapter = w.adapter /\ Drops(w.route, v.route, q)
  <1>1. w.route \in Route
    BY PlayerFacts
  <1>2. /\ Stays(w, v) /\ v.preview = w.preview /\ v.engine = w.engine
        /\ v.adapter = w.adapter
        /\ v.route = AbortRouteStart(w.route, q, "StartFailed")
    BY DEF AbortStart, Player, Stays
  <1> QED
    BY <1>1, <1>2, AbortDrops

\* start_bufferfeed_for past the poll: the start fails, launches on an idle release
\* machine, or takes the queue and drops the start it supersedes.
LEMMA RequestStartFields ==
    ASSUME NEW w \in Player, Good(w), NEW q \in Nat \ {0}, q <= w.route.serials, NEW e \in Chance,
           NEW r, r = RequestStart(w, q, e)
    PROVE  RequestedFields(w, q, r)
  <1> DEFINE l == w.adapter.release
             x == StartRequested(l, q)
             v == [w EXCEPT !.adapter.release = x.to]
  <1>1. l \in Release /\ l.queued \in Nat /\ l.epoch \in Nat
        /\ l.kind \in {"Idle", "Releasing", "Overdue"}
    BY NativeFacts DEF Release
  <1>2. CASE l.kind = "Idle"
    <2>1. x.to = l /\ x.effect = "Start"
      BY <1>2 DEF StartRequested, Fx
    <2> HIDE DEF x
    <2>2. v = w
      BY <2>1 DEF Player, Adapter
    <2> HIDE DEF v
    <2>3. r = StartPrepared(w, q, e)
      BY <2>1, <2>2 DEF RequestStart, x, v
    <2>4. StartFields(w, q, r)
      BY <2>3, StartPreparedFields
    <2> QED
      BY <1>2, <2>4 DEF StartFields, RequestedFields
  <1>3. CASE l.kind = "Overdue"
    <2>1. x.to = l /\ x.effect = "RefuseStart"
      BY <1>3 DEF StartRequested, Fx
    <2> HIDE DEF x
    <2>2. v = w
      BY <2>1 DEF Player, Adapter
    <2> HIDE DEF v
    <2> DEFINE y == AbortStart(w, q, "StartFailed")
    <2>3. r = Started(y, "Failed", 0)
      BY <2>1, <2>2 DEF RequestStart, RefuseStartForRelease, x, v
    <2>4. /\ Stays(w, y) /\ y.preview = w.preview /\ y.engine = w.engine
          /\ y.adapter = w.adapter /\ Drops(w.route, y.route, q)
      BY AbortFields
    <2> HIDE DEF y
    <2>5. r.w = y /\ r.out = "Failed" /\ r.attempt = 0
      BY <2>3, StartedFacts
    <2> QED
      BY <1>3, <2>4, <2>5 DEF RequestedFields
  <1>4. CASE l.kind = "Releasing"
    <2>1. x.to = Releasing(l.epoch, q) /\ x.q = l.queued
          /\ x.effect = IF l.queued \in {0, q} THEN "None" ELSE "AbortSuperseded"
      BY <1>4 DEF StartRequested, Fx
    <2> DEFINE o == Releasing(l.epoch, q)
               a == [w.adapter EXCEPT !.release = o]
    <2>2. o \in Release /\ o.kind = "Releasing" /\ o.queued = q
      BY <1>1 DEF Releasing, Release
    <2>3. l.queued \in {0, q} => r = Started(v, "Deferred", 0)
      BY <2>1 DEF RequestStart
    <2>4. l.queued \notin {0, q} => r = Started(RunAbortSuperseded(v, l.queued), "Deferred", 0)
      BY <2>1 DEF RequestStart
    <2>5. v = [w EXCEPT !.adapter = a]
      BY <2>1 DEF Player
    <2> HIDE DEF x, v, o
    <2>6. a \in Adapter /\ a.release = o /\ a.watch = w.adapter.watch
      BY <2>2 DEF Player, Adapter
    <2> HIDE DEF a
    <2>7. /\ v \in Player /\ v.route = w.route /\ v.engine = w.engine
          /\ v.preview = w.preview /\ v.adapter = a /\ Stays(w, v) /\ v.slot = w.slot
      BY <2>5, <2>6 DEF Player, Stays
    <2>8. CASE l.queued \in {0, q}
      <3>1. r.w = v /\ r.out = "Deferred" /\ r.attempt = 0
        BY <2>3, <2>8, StartedFacts
      <3> QED
        BY <1>4, <2>2, <2>6, <2>7, <2>8, <3>1 DEF RequestedFields
    <2>9. CASE l.queued \notin {0, q}
      <3> DEFINE y == RunAbortSuperseded(v, l.queued)
      <3>1. r.w = y /\ r.out = "Deferred" /\ r.attempt = 0
        BY <2>4, <2>9, StartedFacts
      <3>2. /\ Stays(v, y) /\ y.preview = v.preview /\ y.engine = v.engine
            /\ y.adapter.release = v.adapter.release /\ y.adapter.watch = NoWatch
            /\ Drops(v.route, y.route, l.queued) /\ y.slot = v.slot
        BY <1>1, <2>7, <2>9, SupersededFields
      <3> HIDE DEF y
      <3> QED
        BY <1>4, <2>2, <2>6, <2>7, <2>9, <3>1, <3>2 DEF RequestedFields, Stays
    <2> QED
      BY <2>8, <2>9
  <1> QED
    BY <1>1, <1>2, <1>3, <1>4

\* The start the route's next Load belongs to.
NextSerial(c) == IF c.phase \in Pending THEN c.serial ELSE c.serials + 1

\* begin_route_start: a pending start keeps its serial, anything else takes the next
\* one; a stable route prepares, any other is prepared already.
LEMMA BeginFields ==
    ASSUME NEW c \in Route, MayBegin(c), c.phase # "Starting", NEW d, d = BeginRouteStart(c)
    PROVE  /\ d.under = c.under /\ d.flight = c.flight /\ d.last = c.last
           /\ d.serial = NextSerial(c) /\ d.phase \in {"Preparing", "Prepared"}
           /\ d.phase = "Preparing" <=> c.phase \in {"Preparing", "Stable"}
           /\ c.phase \in Pending => d = c
  BY DEF BeginRouteStart, MayBegin, NextSerial, Fresh, Enter, Route, Phases, Pending

\* What an attempt to start comes to, where no Engine is installed.
Starts(w, r) ==
    LET s == NextSerial(w.route)
        q == w.adapter.release.queued
        n == r.w.engine
        c == r.w.route
    IN  /\ Stays(w, r.w) /\ c.under = w.route.under /\ c.flight = w.route.flight
        /\ c.last = w.route.last
        /\ r.w.preview \in {w.preview, "Idle"} \/ (w.preview = "Fetching" /\ r.w.preview = "Live")
        /\ q = 0 => r.w.preview = w.preview
        /\ r.w.adapter.release.kind = "Overdue" => r.w.adapter.release.queued = 0
        /\ \/ /\ r.out = "Failed" /\ r.attempt = 0 /\ r.w.adapter.release.queued = 0
              /\ \/ c.phase = "Failed" /\ c.serial = s
                 \/ c.phase = "Stable" /\ w.route.phase \in {"Preparing", "Stable"}
              /\ NoLoad(w.engine, n)
           \/ /\ r.out = "Failed" /\ r.attempt = 0 /\ r.w.adapter.release.queued = 0
              /\ c.phase = "Failed" /\ c.serial = s
              /\ q = s /\ w.route.phase \in Pending /\ NewLoad(n, s, w.session.paused)
              /\ w.session.url
              /\ n.waited <=> w.session.as_preview
           \/ /\ r.out = "Launched" /\ r.attempt = n.attempt /\ r.w.adapter.release.queued = 0
              /\ NewLoad(n, s, w.session.paused) /\ ~n.waited /\ w.session.url
              /\ c.phase = "Starting" /\ c.serial = s /\ c.attempt = n.attempt
           \/ /\ r.out = "Deferred" /\ r.attempt = 0 /\ r.w.adapter.release.queued = s
              /\ r.w.engine = w.engine
              /\ c.phase \in {"Preparing", "Prepared"} /\ c.serial = s
              /\ c.phase = "Preparing" <=> w.route.phase \in {"Preparing", "Stable"}
              /\ r.w.adapter.watch \in {w.adapter.watch, NoWatch}
              /\ ~r.w.slot.returned /\ ~r.w.slot.late

\* A start answered with Launched has an Engine of that attempt, with its Load out and
\* no flag raised.
LEMMA LaunchedLoad ==
    ASSUME NEW w \in Player, NEW r, NEW s \in Nat \ {0}, RequestedFields(w, s, r),
           r.out = "Launched"
    PROVE  NewLoad(r.w.engine, s, w.session.paused) /\ ~r.w.engine.waited /\ r.w.engine.attempt = r.attempt
  <1>1. r.w.engine = NewEngine(s, r.attempt, w.session.paused) /\ r.attempt = w.route.attempts + 1
    BY DEF RequestedFields, Claimed
  <1>2. w.route.attempts \in Nat
    BY NativeFacts
  <1>3. r.attempt # 0
    BY <1>1, <1>2
  <1> QED
    BY <1>1, <1>3 DEF NewLoad, NewEngine, NoEngine

\* A start asked for while a release is busy: the poll that comes first may run or
\* drop what waited, and the request then fails, launches or waits.
LEMMA PolledRequests ==
    ASSUME NEW x \in Player, Good(x), NEW y \in Player, Good(y), NEW r, NEW s \in Nat \ {0},
           Polled(x, y), RequestedFields(y, s, r), ~Live(x),
           x.adapter.release.kind = "Overdue" => x.adapter.release.queued = 0,
           x.route.phase \in {"Preparing", "Prepared"}, x.route.serial = s
    PROVE  LET q == x.adapter.release.queued
               n == r.w.engine
               c == r.w.route
           IN  /\ Stays(x, r.w) /\ c.under = x.route.under /\ c.flight = x.route.flight
               /\ c.last = x.route.last
               /\ r.w.preview \in {x.preview, "Idle"} \/ (x.preview = "Fetching" /\ r.w.preview = "Live")
               /\ q = 0 => r.w.preview = x.preview
               /\ r.w.adapter.release.kind = "Overdue" => r.w.adapter.release.queued = 0
               /\ \/ /\ r.out = "Failed" /\ r.attempt = 0 /\ r.w.adapter.release.queued = 0
                     /\ \/ c.phase = "Failed" /\ c.serial = s
                        \/ c.phase = "Stable" /\ x.route.phase = "Preparing"
                     /\ NoLoad(x.engine, n)
                  \/ /\ r.out = "Failed" /\ r.attempt = 0 /\ r.w.adapter.release.queued = 0
                     /\ c.phase = "Failed" /\ c.serial = s
                     /\ q = s /\ NewLoad(n, s, x.session.paused) /\ x.session.url
                     /\ n.waited <=> x.session.as_preview
                  \/ /\ r.out = "Launched" /\ r.attempt = n.attempt
                     /\ r.w.adapter.release.queued = 0
                     /\ NewLoad(n, s, x.session.paused) /\ ~n.waited /\ x.session.url
                     /\ c.phase = "Starting" /\ c.serial = s /\ c.attempt = n.attempt
                  \/ /\ r.out = "Deferred" /\ r.attempt = 0 /\ r.w.adapter.release.queued = s
                     /\ r.w.engine = x.engine
                     /\ c.phase = x.route.phase /\ c.serial = s
                     /\ r.w.adapter.watch \in {x.adapter.watch, NoWatch}
                     /\ ~r.w.slot.returned /\ ~r.w.slot.late
  <1> DEFINE q == x.adapter.release.queued
             n == r.w.engine
             c == r.w.route
  <1>1. x.route \in Route /\ y.route \in Route /\ x.engine.attempt = 0
    BY PlayerFacts DEF Live
  <1>2. Stays(x, y) /\ Stays(y, r.w) /\ Stays(x, r.w)
    BY DEF Polled, RequestedFields, Stays
  <1>3. r.w.preview = y.preview
    BY DEF RequestedFields
  <1>4. /\ y.preview \in {x.preview, "Idle"} \/ (x.preview = "Fetching" /\ y.preview = "Live")
        /\ q = 0 => y.preview = x.preview
    BY DEF Polled
  <1>5. y.adapter.release.kind = "Overdue" => y.adapter.release.queued = 0
    BY DEF Polled
  <1>6. y.adapter.release.kind = "Idle" => y.adapter.release.queued = 0
    BY DEF Good, ObjectInv
  <1>11. y.adapter.release.kind \in {"Idle", "Overdue", "Releasing"}
    BY NativeFacts DEF Release
  <1>7. r.w.adapter.release.kind = "Overdue" => r.w.adapter.release.queued = 0
    BY <1>5 DEF RequestedFields
  <1>8. c.under = x.route.under /\ c.flight = x.route.flight /\ c.last = x.route.last
    BY DEF Polled, RequestedFields, Drops, Claimed
  <1>9. CASE y.route = x.route /\ y.engine = x.engine /\ y.adapter.release.queued = q
             /\ y.adapter.watch = x.adapter.watch
    <2>1. CASE r.out = "Failed"
      BY <1>1, <1>2, <1>3, <1>4, <1>5, <1>6, <1>7, <1>8, <1>9, <1>11, <2>1
      DEF RequestedFields, Drops, NoLoad, Pending
    <2>2. CASE r.out = "Launched"
      <3>1. NewLoad(n, s, x.session.paused) /\ ~n.waited /\ n.attempt = r.attempt
        BY <1>2, <2>2, LaunchedLoad DEF Stays
      <3> QED
        BY <1>2, <1>3, <1>4, <1>5, <1>6, <1>7, <1>8, <1>9, <1>11, <2>2, <3>1
        DEF RequestedFields, Claimed, Stays
    <2>3. CASE r.out = "Deferred"
      <3>1. c = x.route
        BY <1>9, <2>3 DEF RequestedFields, Drops
      <3>2. ~r.w.slot.returned /\ ~r.w.slot.late
        BY <2>3 DEF RequestedFields, Polled
      <3> QED
        BY <1>2, <1>3, <1>4, <1>5, <1>6, <1>7, <1>8, <1>9, <2>3, <3>1, <3>2 DEF RequestedFields
    <2> QED
      BY <2>1, <2>2, <2>3 DEF RequestedFields
  <1>10. CASE q # 0 /\ y.adapter.release.queued = 0 /\ y.adapter.release.kind # "Releasing"
              /\ NoLoad(x.engine, y.engine) /\ Drops(x.route, y.route, q)
    <2>1. CASE r.out = "Failed"
      BY <1>1, <1>2, <1>3, <1>4, <1>5, <1>6, <1>7, <1>8, <1>10, <2>1
      DEF RequestedFields, Drops, NoLoad, Pending
    <2>2. CASE r.out = "Launched"
      <3>1. NewLoad(n, s, x.session.paused) /\ ~n.waited /\ n.attempt = r.attempt
        BY <1>2, <2>2, LaunchedLoad DEF Stays
      <3> QED
        BY <1>2, <1>3, <1>4, <1>5, <1>6, <1>7, <1>8, <1>10, <2>2, <3>1
        DEF RequestedFields, Claimed, Stays
    <2> QED
      BY <1>10, <2>1, <2>2 DEF RequestedFields
  <1>12. CASE q # 0 /\ y.adapter.release.queued = 0 /\ y.adapter.release.kind = "Idle"
              /\ NewLoad(y.engine, q, x.session.paused) /\ x.session.url
              /\ (y.engine.waited <=> x.session.as_preview)
              /\ Claimed(x.route, y.route, q, y.engine.attempt)
    <2>1. Live(y) /\ q = s
      BY <1>12 DEF Live, NewLoad, Claimed
    <2>2. r.out = "Failed" /\ r.attempt = 0 /\ n = y.engine /\ Drops(y.route, c, q)
          /\ r.w.adapter = y.adapter
      BY <1>12, <2>1 DEF RequestedFields
    <2>3. c.phase = "Failed" /\ c.serial = s
      BY <1>12, <2>1, <2>2 DEF Drops, Claimed, Pending
    <2> QED
      BY <1>2, <1>3, <1>4, <1>7, <1>8, <1>12, <2>1, <2>2, <2>3
  <1> HIDE DEF q, n, c
  <1> QED
    BY <1>9, <1>10, <1>12 DEF Polled, q, n, c

\* start_bufferfeed_tracked where no Engine is installed: the start failed with no
\* Engine, failed because the same start had just been launched from the queue,
\* launched, or waits in the queue.
LEMMA StartTrackedStarts ==
    ASSUME NEW w \in Player, Good(w), NEW e \in Chance, NEW r, r = StartTracked(w, e),
           ~Live(w), MayBegin(w.route), w.route.phase # "Starting",
           w.route.phase \in Pending => w.route.serial # 0,
           w.adapter.release.kind = "Overdue" => w.adapter.release.queued = 0
    PROVE  r.w \in Player /\ Good(r.w) /\ Starts(w, r)
  <1> DEFINE c == BeginRouteStart(w.route)
             s == c.serial
             x == [w EXCEPT !.route = c]
             y == IF IsBusy(x.adapter.release) THEN PollRelease(x, e) ELSE x
  <1>0. r.w \in Player /\ Good(r.w)
    BY StartTrackedTracked
  <1>1. r = RequestStart(y, s, e)
    BY DEF StartTracked, StartFor
  <1>2. w.route \in Route
    BY PlayerFacts
  <1>3. /\ c.under = w.route.under /\ c.flight = w.route.flight /\ c.last = w.route.last
        /\ s = NextSerial(w.route) /\ c.phase \in {"Preparing", "Prepared"}
        /\ c.phase = "Preparing" <=> w.route.phase \in {"Preparing", "Stable"}
        /\ w.route.phase \in Pending => c = w.route
    BY <1>2, BeginFields
  <1>4. Carries(w.route, c) /\ s \in Nat /\ c \in Route
    BY GoodIssued, BeginCarries DEF Carries, MovedOn
  <1>5. s # 0
    BY <1>3, NativeFacts DEF NextSerial
  <1>6. s <= c.serials
    BY <1>4 DEF Carries, MovedOn, Issued
  <1> HIDE DEF c
  <1>7. /\ x \in Player /\ x.route = c /\ x.session = w.session /\ x.preview = w.preview
        /\ x.held = w.held /\ x.engine = w.engine /\ x.fg = w.fg /\ x.screen = w.screen
        /\ x.exiting = w.exiting /\ x.wish = w.wish /\ x.mail = w.mail /\ x.slot = w.slot
        /\ x.adapter = w.adapter
    BY <1>4, SetRouteFields
  <1>8. Good(x)
    BY <1>4, RouteBeside, BesideGood
  <1> HIDE DEF x
  <1>9. Polled(x, y) /\ y \in Player /\ Good(y)
    <2>1. CASE IsBusy(x.adapter.release)
      <3>1. y = PollRelease(x, e)
        BY <2>1
      <3>2. Polled(x, y)
        BY <1>7, <1>8, <3>1, PollPolled
      <3> QED
        BY <3>2 DEF Polled
    <2>2. CASE ~IsBusy(x.adapter.release)
      BY <1>7, <1>8, <2>2 DEF Polled, Stays, IsBusy
    <2> QED
      BY <2>1, <2>2
  <1>10. s <= y.route.serials
    <2>1. x.route.serials <= y.route.serials
      <3>1. CASE IsBusy(x.adapter.release)
        BY <1>7, <1>8, <3>1, DriveReleaseDriven DEF PollRelease, Driven, Advances, Goes
      <3>2. CASE ~IsBusy(x.adapter.release)
        BY <1>7, <3>2, NativeFacts
      <3> QED
        BY <3>1, <3>2
    <2>2. x.route.serials \in Nat /\ y.route.serials \in Nat
      BY <1>7, <1>9, NativeFacts
    <2> QED
      BY <1>4, <1>6, <1>7, <2>1, <2>2
  <1> HIDE DEF y
  <1>11. RequestedFields(y, s, r)
    BY <1>1, <1>4, <1>5, <1>9, <1>10, RequestStartFields
  <1>14. s \in Nat \ {0} /\ ~Live(x)
    BY <1>4, <1>5, <1>7 DEF Live
  <1>12. s = x.adapter.release.queued => w.route.phase \in Pending
    <2>1. w.adapter.release.queued <= w.route.serials /\ w.adapter.release.queued \in Nat
          /\ w.route.serials \in Nat
      BY NativeFacts DEF Good, QueueInv
    <2> QED
      BY <1>3, <1>7, <2>1 DEF NextSerial
  <1> DEFINE q == x.adapter.release.queued
             n == r.w.engine
             d == r.w.route
  <1>15. x.route.phase \in {"Preparing", "Prepared"} /\ x.route.serial = s
    BY <1>3, <1>7
  <1>16. x.adapter.release.kind = "Overdue" => x.adapter.release.queued = 0
    BY <1>7
  <1> HIDE DEF s
  <1>13. /\ Stays(x, r.w) /\ d.under = x.route.under /\ d.flight = x.route.flight
         /\ d.last = x.route.last
         /\ r.w.preview \in {x.preview, "Idle"} \/ (x.preview = "Fetching" /\ r.w.preview = "Live")
         /\ q = 0 => r.w.preview = x.preview
         /\ r.w.adapter.release.kind = "Overdue" => r.w.adapter.release.queued = 0
         /\ \/ /\ r.out = "Failed" /\ r.attempt = 0 /\ r.w.adapter.release.queued = 0
               /\ \/ d.phase = "Failed" /\ d.serial = s
                  \/ d.phase = "Stable" /\ x.route.phase = "Preparing"
               /\ NoLoad(x.engine, n)
            \/ /\ r.out = "Failed" /\ r.attempt = 0 /\ r.w.adapter.release.queued = 0
               /\ d.phase = "Failed" /\ d.serial = s
               /\ q = s /\ NewLoad(n, s, x.session.paused) /\ x.session.url
               /\ n.waited <=> x.session.as_preview
            \/ /\ r.out = "Launched" /\ r.attempt = n.attempt /\ r.w.adapter.release.queued = 0
               /\ NewLoad(n, s, x.session.paused) /\ ~n.waited /\ x.session.url
               /\ d.phase = "Starting" /\ d.serial = s /\ d.attempt = n.attempt
            \/ /\ r.out = "Deferred" /\ r.attempt = 0 /\ r.w.adapter.release.queued = s
               /\ r.w.engine = x.engine
               /\ d.phase = x.route.phase /\ d.serial = s
               /\ r.w.adapter.watch \in {x.adapter.watch, NoWatch}
               /\ ~r.w.slot.returned /\ ~r.w.slot.late
    BY <1>7, <1>8, <1>9, <1>11, <1>14, <1>15, <1>16, PolledRequests
  <1>17. Stays(w, r.w)
    BY <1>7, <1>13 DEF Stays
  <1>18. s = NextSerial(w.route)
    BY <1>3 DEF s
  <1> QED
    BY <1>0, <1>3, <1>7, <1>12, <1>13, <1>17, <1>18 DEF Starts

------------------------------------------------------------------------------
(* What the parts of the player owe each other, and halting a preview.      *)

\* A stable playback is up, or was when the request now resolving was made.
StableBelow(c) == c.phase = "Stable" \/ (c.phase = "Resolving" /\ c.under.phase = "Stable")

\* The start that waits in the release machine, 0 for none.
Queued(w) == w.adapter.release.queued

\* The states in which the lifecycle holds a parked playback whose Load is not asked
\* for.
Parks == {"Suspended", "Prepared", "PreparePending"}

\* The clock the viewer sees and the one that was asked for are both c.
ClockIs(w, c) == w.wish = c /\ (w.session.paused <=> c = "Paused")

\* The viewer sees the clock that was asked for.
Heard(w) == w.session.paused <=> w.wish = "Paused"

\* The playback runs and was asked to.
Playing(w) == ~w.session.paused /\ w.wish = "Playing"

\* A Load that is out and in its budget is the start the route stands in; a route
\* that is starting has its Engine (settle_route_start, route_start.rs).
Owned(w) ==
    /\ Live(w) /\ w.engine.call = "out" /\ ~w.engine.late => w.route.phase = "Starting"
    /\ w.route.phase = "Starting" =>
         Live(w) /\ w.route.attempt = w.engine.attempt /\ w.route.serial = w.engine.serial

\* An Engine is on the player page, or it is a trailer's, or a trailer's queued start
\* launched it.
OnRoute(w) == Live(w) /\ ~w.engine.waited => w.screen.page = "Player" \/ w.session.preview

\* A film's Engine has the goal that was asked for; without one, and once the
\* lifecycle owes nothing, the clock is the one that was asked for.
IdleHeard(w) ==
    ~w.session.as_preview =>
      /\ Live(w) => (w.engine.goal <=> w.wish = "Paused")
      /\ ~Live(w) /\ w.fg.kind = "Idle" => Heard(w)

\* What holds to the last step of the process, the exit included.
Core(w) == Owned(w) /\ OnRoute(w) /\ IdleHeard(w)

\* Serials and attempts: what is pending or failed has a serial, an overdue release
\* has no start waiting, and the last result the route took is not newer than the
\* Engine.
Numbered(w) ==
    /\ w.route.flight <= w.route.serials /\ w.route.last.attempt <= w.route.attempts
    /\ w.route.phase \in Pending \cup {"Failed"} => w.route.serial # 0
    /\ w.route.under.phase = "Failed" => w.route.under.serial # 0
    /\ w.adapter.release.kind = "Overdue" => Queued(w) = 0
    /\ Live(w) => w.route.last.attempt <= w.engine.attempt

\* The flags of the Engine follow its Load: a failure flag only after a refusal, a
\* picture under a stable route, and a route that is starting finds the result of a
\* returned Load in the inbox.
Loaded(w) ==
    /\ w.engine.failed => w.engine.call = "bad"
    /\ w.engine.dead => w.fg.kind = "Idle" /\ w.engine.call = "ok"
    /\ Live(w) /\ StableBelow(w.route) => w.engine.call = "ok"
    /\ w.route.phase = "Starting" /\ w.engine.call # "out" =>
         \E m \in w.mail : m.attempt = w.engine.attempt

\* While a page's request is out the clock plays, the route resolves or holds nothing
\* to play, and a film's request is on the player page with nothing queued. A held
\* film and the pages other than the player leave the clock playing.
Asked(w, t) ==
    /\ w.session.pend = "film" =>
         /\ w.route.phase \in {"Resolving", "Idle"} /\ w.screen.page = "Player" /\ Queued(w) = 0
         /\ ~w.session.as_preview
    /\ w.session.pend # "none" =>
         /\ Playing(w)
         /\ \/ w.route.phase = "Resolving"
            \/ w.route.phase \in {"Idle", "Prepared", "Failed"} /\ ~w.session.url /\ ~Live(w)
         /\ Queued(w) # 0 => w.screen.page = "Player" /\ (t = "asks" => ~w.held)
    /\ w.session.pend = "preview" /\ Live(w) => w.engine.waited
    /\ w.held => Playing(w)
    /\ w.screen.page = "Browse" => Playing(w)

\* A start waits in the queue only for the player page or for a restore; a resume's
\* flight is the cold one of a film on the player page or the one a restore waits on.
Waits(w) ==
    /\ Queued(w) # 0 /\ MayRequest(w.route) => w.screen.page = "Player" /\ ~w.held
    /\ Queued(w) # 0 /\ PendingRouteStart(w.route) = Queued(w) /\ ~w.session.as_preview
         => w.screen.page = "Player" \/ w.fg.kind = "RecoveryPending"
    /\ ResumeFlightOutstanding(w.route) =>
         /\ ~w.session.preview /\ (Queued(w) # 0 => Queued(w) # w.route.serial)
         /\ (w.fg.kind = "Idle" /\ w.screen.page = "Player") \/ w.fg.kind = "PreparePending"

\* A trailer's Engine is shown by the preview machine; a film is held only under a
\* trailer that has not loaded.
Shown(w, t) ==
    /\ Live(w) /\ w.preview = "Idle" => w.engine.waited \/ w.screen.page = "Player"
    /\ t = "asks" /\ w.session.preview /\ Live(w) /\ ~w.engine.waited => w.preview # "Idle"
    /\ w.held /\ t \in {"events", "asks"} => ~(Live(w) /\ StableBelow(w.route))
    /\ w.session.preview => Playing(w) \/ w.engine.call = "ok"

\* A parked playback: no Engine, nothing queued, no trailer; its clock is the viewer's
\* wish unless another playback was asked for, and a restore that waits for its queued
\* start has the watch on it.
Parked(w, t) ==
    /\ w.fg.kind # "ClockPending"
    /\ w.fg.kind # "Idle" => ~w.session.as_preview /\ ~w.session.preview
    /\ w.fg.kind \in Parks \cup {"RecoveryPending"} =>
         ~Live(w) /\ (w.session.pend = "none" \/ w.route.phase = "Resolving")
    /\ w.fg.kind \in Parks =>
         /\ Queued(w) = 0
         /\ w.session.pend # "none" =>
              (t = "asks" /\ w.screen.front) \/ (w.fg.clock = "Playing" /\ w.fg.saved = "Playing")
         /\ w.screen.page = "Browse" => w.fg.clock = "Playing" /\ w.fg.saved = "Playing"
    /\ w.fg.kind \in {"Suspended", "Prepared"} /\ w.session.pend = "none" => w.wish = w.fg.clock
    /\ w.fg.kind = "PreparePending" =>
         IF ResumeFlightOutstanding(w.route) THEN w.wish = w.fg.clock ELSE w.session.pend # "none"
    /\ w.fg.kind = "RecoveryPending" =>
         /\ w.adapter.watch.kind = "Watching" /\ ClockIs(w, w.fg.clock)
         /\ Queued(w) # 0 /\ PendingRouteStart(w.route) = Queued(w) /\ w.session.pend = "none"

\* A restore that follows its Load follows the installed Engine's attempt, carries the
\* viewer's clock, and finds the refusal of that Load as the last result on the route.
Restores(w, t) ==
    w.fg.kind = "LoadPending" =>
      /\ w.screen.page = "Player" /\ w.session.pend = "none"
      /\ Live(w) =>
           /\ w.fg.attempt = w.engine.attempt /\ (w.session.paused <=> w.fg.clock = "Paused")
           /\ ~w.engine.ready /\ w.engine.follows /\ ~w.engine.waited
           /\ w.route.phase = "Stable" => w.engine.call = "ok"
      /\ ~Live(w) => t = "settle" /\ w.route.phase = "Idle" /\ Heard(w) /\ w.fg.attempt # 0
      /\ t \in {"requests", "asks", "events"} => w.route.phase = "Starting"
      /\ w.engine.call = "bad" /\ ~w.engine.late =>
           \/ w.route.phase = "Starting"
           \/ /\ w.route.phase = "Failed" /\ w.route.last.attempt = w.engine.attempt
              /\ ~w.route.last.ok /\ w.route.last.serial = w.route.serial

\* The player page has no trailer, and no request beside an Engine; a trailer was the
\* last plan to land; and a film is held only behind one, on another page.
Paged(w) ==
    /\ w.screen.page = "Player" => w.session.pend # "preview" /\ ~w.session.preview
    /\ w.screen.page = "Player" /\ Live(w) => w.session.pend = "none"
    /\ w.session.preview => w.session.as_preview
    /\ w.held => w.session.as_preview /\ w.screen.page = "Browse"

\* What the parts of a running player owe each other between two handlers; t is how
\* far the frame has come.
Coherent(w, t) ==
    /\ Numbered(w) /\ Loaded(w) /\ Asked(w, t) /\ Waits(w) /\ Shown(w, t) /\ Parked(w, t)
    /\ Restores(w, t) /\ Paged(w)

\* The coherent states within which a handler is followed.
Whole(w, t) == w \in Player /\ Good(w) /\ w.fg \in Lifecycle /\ Core(w) /\ Coherent(w, t)

\* A restore is under way only while the window is in front.
Front(w) == w.fg.kind \in {"PreparePending", "RecoveryPending", "LoadPending"} => w.screen.front

\* The types that the arguments below use.
Typed(w) ==
    /\ w.route.flight \in Nat /\ w.route.last.attempt \in Nat /\ w.route.serial \in Nat
    /\ w.route.serials \in Nat /\ w.route.attempts \in Nat
    /\ w.engine.attempt \in Nat /\ Queued(w) \in Nat
    /\ w.wish \in {"Playing", "Paused"} /\ w.fg.clock \in {"Playing", "Paused"}
    /\ w.fg.saved \in {"Playing", "Paused"} /\ NoFallback.phase = "None"
    /\ w.screen.page \in {"Browse", "Player"} /\ w.session.pend \in {"none", "film", "preview"}

\* The parts of a player have their types.
LEMMA TypedFacts == ASSUME NEW w \in Player PROVE Typed(w)
  <1>1. w.route \in Route /\ w.wish \in Clocks /\ w.fg \in Machine /\ w.screen \in Screen
        /\ w.session \in Session
    BY PlayerFacts
  <1>2. NoFallback.phase = "None"
    BY DEF NoFallback, At
  <1>3. w.screen.page \in {"Browse", "Player"} /\ w.session.pend \in {"none", "film", "preview"}
    BY <1>1 DEF Screen, Session
  <1>4. w.fg.clock \in {"Playing", "Paused"} /\ w.fg.saved \in {"Playing", "Paused"}
    BY <1>1 DEF Machine, Clocks
  <1> QED
    BY <1>1, <1>2, <1>3, <1>4, NativeFacts DEF Typed, Route, Queued, Clocks

\* What halting a preview comes to.
Halted(w, v) ==
    /\ v \in Player /\ Good(v)
    /\ v.held = w.held /\ v.fg = w.fg /\ v.screen = w.screen /\ v.exiting = w.exiting
    /\ v.session.pend = w.session.pend /\ v.session.as_preview = w.session.as_preview
    /\ v.route.under = w.route.under /\ v.route.last = w.route.last
    /\ w.route.serials <= v.route.serials /\ w.route.attempts <= v.route.attempts
    /\ v.route.flight \in {0, w.route.flight}
    /\ \/ /\ v.route = w.route /\ v.engine = w.engine /\ v.mail = w.mail
          /\ v.adapter = w.adapter /\ v.wish = w.wish
          /\ v.session.url = w.session.url /\ v.session.paused = w.session.paused
          /\ \/ ~w.session.preview /\ ~v.session.preview /\ v.preview = "Idle"
             \/ w.session.preview /\ ~Live(w) /\ ~v.session.preview /\ v.preview = "Idle"
             \/ w.session.preview /\ Live(w) /\ ~Finished(w.engine) /\ v.session.preview
                /\ v.preview = "Abandoning"
       \/ /\ w.session.preview /\ Live(w) /\ Finished(w.engine)
          /\ v.engine = NoEngine /\ v.route.phase = "Idle" /\ Queued(v) = 0
          /\ ~v.session.url /\ Playing(v) /\ v.preview = "Idle" /\ ~v.session.preview

\* retire, past the stop: an Engine that is still installed leaves the preview
\* abandoning, none leaves it idle.
LEMMA RetiredFields ==
    ASSUME NEW w \in Player, Good(w), NEW v, v = Retired(w)
    PROVE  /\ v \in Player /\ Good(v)
           /\ v.held = w.held /\ v.fg = w.fg /\ v.screen = w.screen /\ v.exiting = w.exiting
           /\ v.session.pend = w.session.pend /\ v.session.as_preview = w.session.as_preview
           /\ v.session.url = w.session.url /\ v.session.paused = w.session.paused
           /\ v.route = w.route /\ v.engine = w.engine /\ v.mail = w.mail
           /\ v.adapter = w.adapter /\ v.wish = w.wish
           /\ Live(w) => v.preview = "Abandoning" /\ v.session.preview = w.session.preview
           /\ ~Live(w) => v.preview = "Idle" /\ ~v.session.preview
  <1>1. Aside(w, v) /\ v.fg = w.fg
    BY SetPreview, ForgetPreview DEF Retired, Previews
  <1>2. v \in Player /\ Good(v)
    BY <1>1, AsideEnds, EndsTypes
  <1>3. CASE Live(w)
    BY <1>2, <1>3 DEF Retired, Player
  <1>4. CASE ~Live(w)
    <2> DEFINE s == [w.session EXCEPT !.preview = FALSE]
    <2>1. v = [w EXCEPT !.preview = "Idle", !.session = s]
      BY <1>4 DEF Retired
    <2>2. /\ s.pend = w.session.pend /\ s.as_preview = w.session.as_preview
          /\ s.url = w.session.url /\ s.paused = w.session.paused /\ ~s.preview
      BY PlayerFacts DEF Session
    <2> HIDE DEF s
    <2> QED
      BY <1>2, <1>4, <2>1, <2>2 DEF Player
  <1> QED
    BY <1>3, <1>4

\* retire of a trailer halts it.
LEMMA RetireFields ==
    ASSUME NEW w \in Player, Good(w), NEW e \in Chance, w.session.preview, NEW v, v = Retire(w, e)
    PROVE  Halted(w, v)
  <1> DEFINE x == IF Live(w) THEN Teardown(w, FALSE, e) ELSE w
             b == FALSE
  <1>1. v = Retired(x)
    BY DEF Retire
  <1>2. CASE ~Live(w)
    <2>1. x = w
      BY <1>2
    <2>2. w.route.serials \in Nat /\ w.route.attempts \in Nat
      BY NativeFacts
    <2> HIDE DEF x
    <2> QED
      BY <1>1, <1>2, <2>1, <2>2, RetiredFields DEF Halted
  <1>3. CASE Live(w)
    <2>1. b \in BOOLEAN /\ ~b /\ x = Teardown(w, b, e)
      BY <1>3
    <2> HIDE DEF x, b
    <2>2. Torn(w, x, b)
      BY <2>1, TeardownTorn
    <2>3. x \in Player /\ Good(x)
      BY <2>2 DEF Torn
    <2>4. /\ v \in Player /\ Good(v)
          /\ v.held = x.held /\ v.fg = x.fg /\ v.screen = x.screen /\ v.exiting = x.exiting
          /\ v.session.pend = x.session.pend /\ v.session.as_preview = x.session.as_preview
          /\ v.session.url = x.session.url /\ v.session.paused = x.session.paused
          /\ v.route = x.route /\ v.engine = x.engine /\ v.mail = x.mail
          /\ v.adapter = x.adapter /\ v.wish = x.wish
          /\ Live(x) => v.preview = "Abandoning" /\ v.session.preview = x.session.preview
          /\ ~Live(x) => v.preview = "Idle" /\ ~v.session.preview
      BY <1>1, <2>3, RetiredFields
    <2>5. CASE x = w /\ ~Finished(w.engine)
      BY <1>3, <2>2, <2>4, <2>5 DEF Halted, Torn, Spares
    <2>6. CASE x.engine = NoEngine /\ Finished(w.engine)
      <3>1. ~Live(x)
        BY <2>6 DEF Live, NoEngine
      <3> QED
        BY <1>3, <2>1, <2>2, <2>4, <2>6, <3>1 DEF Halted, Torn, Spares, Queued, Playing
    <2> QED
      BY <1>3, <2>1, <2>2, <2>5, <2>6 DEF Torn
  <1> QED
    BY <1>2, <1>3

\* halt: the trailer's stop is put off while its Load is out, and is complete
\* otherwise.
LEMMA HaltFields ==
    ASSUME NEW w \in Player, Good(w), NEW e \in Chance, NEW v, v = Halt(w, e)
    PROVE  Halted(w, v)
  <1>1. CASE w.session.preview
    BY <1>1, RetireFields DEF Halt
  <1>2. CASE ~w.session.preview
    <2>1. v = [w EXCEPT !.preview = "Idle"]
      BY <1>2 DEF Halt
    <2>2. v \in Player /\ Good(v)
      BY HaltEnds, EndsTypes
    <2>3. w.route.serials \in Nat /\ w.route.attempts \in Nat
      BY NativeFacts
    <2>4. /\ v.held = w.held /\ v.fg = w.fg /\ v.screen = w.screen /\ v.exiting = w.exiting
          /\ v.session = w.session /\ v.route = w.route /\ v.engine = w.engine /\ v.mail = w.mail
          /\ v.adapter = w.adapter /\ v.wish = w.wish /\ v.preview = "Idle"
      BY <2>1 DEF Player
    <2> QED
      BY <1>2, <2>2, <2>3, <2>4 DEF Halted
  <1> QED
    BY <1>1, <1>2

\* Halting a preview keeps the player coherent, at every point of the frame.
LEMMA HaltWhole ==
    ASSUME NEW w, NEW t, Whole(w, t), NEW v, Halted(w, v)
    PROVE  Whole(v, t)
  <1>1. /\ w \in Player /\ Good(w) /\ w.fg \in Lifecycle /\ Typed(w)
        /\ v \in Player /\ Good(v) /\ v.fg \in Lifecycle /\ Typed(v)
    BY TypedFacts DEF Whole, Halted
  <1>20. Core(v) /\ Coherent(v, t)
    <2> USE DEF Whole, Coherent, Core, Owned, OnRoute, IdleHeard, Numbered, Loaded, Asked, Waits,
       Shown, Parked, Restores, Paged, Typed, Live, Playing, Heard, ClockIs, Queued, Pending,
       StableBelow, MayRequest, PendingRouteStart, ResumeFlightOutstanding, Parks
    <2>1. Owned(v)
      BY <1>1 DEF Halted, Finished, NoEngine
    <2>2. OnRoute(v)
      BY <1>1 DEF Halted, Finished, NoEngine
    <2>3. IdleHeard(v)
      BY <1>1 DEF Halted, Finished, NoEngine
    <2>4. Numbered(v)
      BY <1>1 DEF Halted, Finished, NoEngine
    <2>5. Loaded(v)
      BY <1>1 DEF Halted, Finished, NoEngine
    <2>6. Asked(v, t)
      BY <1>1 DEF Halted, Finished, NoEngine
    <2>7. Waits(v)
      BY <1>1 DEF Halted, Finished, NoEngine
    <2>8. Shown(v, t)
      BY <1>1 DEF Halted, Finished, NoEngine
    <2>9. Parked(v, t)
      BY <1>1 DEF Halted, Finished, NoEngine
    <2>10. Restores(v, t)
      BY <1>1 DEF Halted, Finished, NoEngine
    <2>11. Paged(v)
      BY <1>1 DEF Halted, Finished, NoEngine
    <2> QED
      BY <2>1, <2>2, <2>3, <2>4, <2>5, <2>6, <2>7, <2>8, <2>9, <2>10, <2>11
  <1> QED
    BY <1>1, <1>20 DEF Whole

------------------------------------------------------------------------------
(* Parking a film.                                                          *)

\* What the native object owes its owners is read from route, Engine, inbox, object
\* and release machine only.
LEMMA KeepsGood ==
    ASSUME NEW w, Good(w), NEW v, v.route = w.route /\ v.engine = w.engine /\ v.mail = w.mail
             /\ v.slot = w.slot,
           v.adapter.release = w.adapter.release
    PROVE  Good(v)
  BY DEF Good, ObjectInv, PostInv, QueueInv

\* Where a cancelled request leaves the route.
Cancels(c, d) ==
    /\ d.last = c.last /\ d.flight = c.flight
    /\ c.phase # "Resolving" => d = c
    /\ c.phase = "Resolving" =>
         /\ d.under = NoFallback
         /\ \/ d.phase \in {"Idle", "Stable", "Failed"} /\ d.phase = c.under.phase
               /\ d.serial = c.under.serial
            \/ d.phase = "Idle" /\ c.under = NoFallback

\* cancel_playback_request gives a resolving route back the phase it was asked from,
\* and no other route anything.
LEMMA CancelRoute ==
    ASSUME NEW c \in Route, NEW d, d = CancelPlaybackRequest(c)
    PROVE  Cancels(c, d)
  <1>1. c.under \in Fallbacks
    BY RouteFacts
  <1>2. CASE c.phase = "Resolving" /\ c.under = NoFallback
    BY <1>2 DEF Cancels, CancelPlaybackRequest, Enter, At, Route
  <1>3. CASE c.phase = "Resolving" /\ c.under # NoFallback
    <2>1. d = [Enter(c, c.under.phase, c.under.serial) EXCEPT !.under = NoFallback]
      BY <1>3 DEF CancelPlaybackRequest
    <2>2. c.under.phase \in {"Idle", "Stable", "Failed"}
      BY <1>1, <1>3 DEF Fallbacks
    <2> QED
      BY <1>3, <2>1, <2>2 DEF Cancels, Enter, Route
  <1>4. CASE c.phase # "Resolving"
    BY <1>4 DEF Cancels, CancelPlaybackRequest
  <1> QED
    BY <1>2, <1>3, <1>4

\* cancel_play takes the request back and leaves Engine, clock and lifecycle alone.
LEMMA CancelPlayFields ==
    ASSUME NEW w \in Player, Good(w), NEW v, v = CancelPlay(w)
    PROVE  /\ v \in Player /\ Good(v) /\ Cancels(w.route, v.route)
           /\ w.route.serials <= v.route.serials /\ w.route.attempts <= v.route.attempts
           /\ v.preview = w.preview /\ v.held = w.held /\ v.engine = w.engine /\ v.mail = w.mail
           /\ v.adapter = w.adapter /\ v.fg = w.fg /\ v.screen = w.screen
           /\ v.exiting = w.exiting /\ v.wish = w.wish
           /\ v.session.pend = "none" /\ v.session.url = w.session.url
           /\ v.session.preview = w.session.preview /\ v.session.as_preview = w.session.as_preview
           /\ v.session.paused = w.session.paused
  <1> DEFINE c == CancelPlaybackRequest(w.route)
             s == [w.session EXCEPT !.pend = "none", !.answered = FALSE]
  <1>1. v = [w EXCEPT !.route = c, !.session = s]
    BY DEF CancelPlay
  <1>2. Ends(w, v)
    BY CancelPlayEnds
  <1>3. v \in Player /\ Good(v)
        /\ w.route.serials <= v.route.serials /\ w.route.attempts <= v.route.attempts
    BY <1>2, EndsTypes DEF Ends, Halts, Goes
  <1>4. Cancels(w.route, c)
    BY PlayerFacts, CancelRoute
  <1>5. /\ s.pend = "none" /\ s.url = w.session.url /\ s.preview = w.session.preview
        /\ s.as_preview = w.session.as_preview /\ s.paused = w.session.paused
    BY PlayerFacts DEF Session
  <1> HIDE DEF c, s
  <1>6. /\ v.preview = w.preview /\ v.held = w.held /\ v.engine = w.engine /\ v.mail = w.mail
        /\ v.adapter = w.adapter /\ v.fg = w.fg /\ v.screen = w.screen
        /\ v.exiting = w.exiting /\ v.wish = w.wish /\ v.route = c /\ v.session = s
    BY <1>1 DEF Player
  <1> QED
    BY <1>3, <1>4, <1>5, <1>6

\* A step of the lifecycle alone leaves every other part of the player as it was.
LEMMA SetFgFields ==
    ASSUME NEW w \in Player, Good(w), NEW f \in Machine, NEW v, v = [w EXCEPT !.fg = f]
    PROVE  /\ v \in Player /\ Good(v) /\ v.fg = f /\ v.route = w.route /\ v.session = w.session
           /\ v.preview = w.preview /\ v.held = w.held /\ v.engine = w.engine /\ v.mail = w.mail
           /\ v.adapter = w.adapter /\ v.screen = w.screen /\ v.slot = w.slot
           /\ v.exiting = w.exiting /\ v.wish = w.wish
  <1>1. v \in Player /\ Good(v)
    BY SetFg, AsideBeside, BesideGood DEF Aside
  <1> QED
    BY <1>1 DEF Player

\* What a teardown of a parked playback comes to.
LetBe(w, v) ==
    /\ v \in Player /\ Good(v) /\ Queued(v) = 0 /\ ~Live(v)
    /\ v.preview = w.preview /\ v.held = w.held /\ v.screen = w.screen /\ v.exiting = w.exiting
    /\ v.session.preview = w.session.preview /\ v.session.as_preview = w.session.as_preview
    /\ v.session.url = w.session.url /\ v.session.paused = w.session.paused
    /\ w.route.serials <= v.route.serials /\ w.route.attempts <= v.route.attempts
    /\ v.route.flight \in {0, w.route.flight} /\ v.route.last = w.route.last
    /\ v.engine = NoEngine \/ (~Live(w) /\ v.engine = w.engine)

\* Where an app switch's stop leaves the route: a start under way is prepared again, a
\* flight is given up, and the start q that waited is failed.
Reloads(c, d, q) ==
    /\ d.under = c.under
    /\ c.phase = "Starting" => d.phase = "Prepared" /\ d.serial = c.serial
    /\ ResumeFlightOutstanding(c) => d.phase = "Stable" \/ (d.phase = "Failed" /\ d.serial = c.serial)
    /\ c.phase # "Starting" /\ ~ResumeFlightOutstanding(c) => Fails(c, d, q)

\* The stop of an app switch takes the Engine and the queue, and keeps the session,
\* the clock and the lifecycle.
LEMMA ReloadFields ==
    ASSUME NEW w \in Player, Good(w), NEW e \in Chance, ~w.session.preview,
           w.route.phase = "Starting" => Live(w),
           NEW v, v = Teardown(w, TRUE, e)
    PROVE  /\ LetBe(w, v) /\ v.session = w.session /\ v.fg = w.fg /\ v.wish = w.wish
           /\ Reloads(w.route, v.route, Queued(w))
  <1> DEFINE b == TRUE
  <1>1. b \in BOOLEAN /\ b /\ v = Teardown(w, b, e)
    OBVIOUS
  <1> HIDE DEF b
  <1>2. Torn(w, v, b)
    BY <1>1, TeardownTorn
  <1>3. Live(w) => Queued(w) = 0
    BY DEF Good, ObjectInv, Live, Queued
  <1>4. Live(w) => v.engine = NoEngine
    BY <1>2 DEF Torn
  <1>5. ~Live(v)
    <2>1. NoEngine.attempt = 0
      BY DEF NoEngine
    <2> QED
      BY <1>1, <1>2, <1>4, <2>1 DEF Torn, Live
  <1>6. LetBe(w, v) /\ v.session = w.session /\ v.fg = w.fg /\ v.wish = w.wish
    BY <1>1, <1>2, <1>4, <1>5 DEF Torn, Spares, LetBe, Queued
  <1>7. Reloads(w.route, v.route, Queued(w))
    <2>1. CASE Live(w)
      BY <1>1, <1>2, <1>3, <2>1 DEF Torn, Spares, Reloads, Fails, Queued
    <2>2. CASE ~Live(w)
      BY <1>1, <1>2, <2>2 DEF Torn, Spares, Reloads, Queued
    <2> QED
      BY <2>1, <2>2
  <1> QED
    BY <1>6, <1>7

\* What a park comes to.
ParkedBy(w, v) ==
    /\ LetBe(w, v) /\ v.session.pend = "none"
    /\ v.wish = IF Follows(w.fg) THEN w.fg.clock ELSE w.wish
    /\ v.fg \in Lifecycle /\ v.fg.kind = "Suspended" /\ v.fg.saved = v.fg.clock
    /\ v.fg.clock = ClockForSuspend(w.fg, ViewerPaused(w))
    /\ w.route.phase = "Resolving" => Cancels(w.route, v.route)
    /\ w.route.phase # "Resolving" => Reloads(w.route, v.route, Queued(w))

\* park_playback: the lifecycle holds the clock clock_for_suspend chose, the Engine
\* and the queue are gone, and no request is out.
LEMMA ParkFields ==
    ASSUME NEW w \in Player, Good(w), w.fg \in Lifecycle, NEW e \in Chance, ~w.session.preview,
           w.route.phase = "Starting" => Live(w), NEW v, v = ParkPlayback(w, e)
    PROVE  ParkedBy(w, v)
  <1> DEFINE c == ClockForSuspend(w.fg, ViewerPaused(w))
             f == Park(w.fg, ViewerPaused(w))
             k == IF Follows(w.fg) THEN w.fg.clock ELSE w.wish
             x == [w EXCEPT !.fg = f, !.wish = k]
             y == Teardown(x, TRUE, e)
  <1>1. v = CancelPlay(y)
    BY DEF ParkPlayback
  <1>15. ViewerPaused(w) \in BOOLEAN
    BY PlayerFacts DEF ViewerPaused, Engine, Session
  <1>2. f \in Lifecycle /\ f \in Machine
    BY <1>15, EndingFacts, LifecycleMachine
  <1>16. k \in Clocks
    BY PlayerFacts DEF Machine
  <1>3. f.kind = "Suspended" /\ f.saved = c /\ f.clock = c
    BY DEF Park, SuspendedAt, Fg
  <1>17. k = IF Follows(w.fg) THEN w.fg.clock ELSE w.wish
    OBVIOUS
  <1> HIDE DEF f, c, k
  <1>4. /\ x \in Player /\ Good(x) /\ x.fg = f /\ x.wish = k
        /\ x.route = w.route /\ x.session = w.session
        /\ x.preview = w.preview /\ x.held = w.held /\ x.engine = w.engine /\ x.mail = w.mail
        /\ x.adapter = w.adapter /\ x.screen = w.screen /\ x.slot = w.slot
        /\ x.exiting = w.exiting
    <2>1. /\ x \in Player /\ x.fg = f /\ x.wish = k
          /\ x.route = w.route /\ x.session = w.session
          /\ x.preview = w.preview /\ x.held = w.held /\ x.engine = w.engine
          /\ x.mail = w.mail /\ x.adapter = w.adapter /\ x.screen = w.screen
          /\ x.slot = w.slot /\ x.exiting = w.exiting
      BY <1>2, <1>16 DEF Player
    <2> QED
      BY <2>1, KeepsGood
  <1>14. y = Teardown(x, TRUE, e) /\ (x.route.phase = "Starting" => Live(x)) /\ ~x.session.preview
    BY <1>4 DEF Live
  <1> HIDE DEF x, y
  <1>5. /\ LetBe(x, y) /\ y.session = x.session /\ y.fg = x.fg /\ y.wish = x.wish
        /\ Reloads(x.route, y.route, Queued(x))
    BY <1>4, <1>14, ReloadFields
  <1>6. y \in Player /\ Good(y)
    BY <1>5 DEF LetBe
  <1>7. /\ v \in Player /\ Good(v) /\ Cancels(y.route, v.route)
        /\ y.route.serials <= v.route.serials /\ y.route.attempts <= v.route.attempts
        /\ v.preview = y.preview /\ v.held = y.held /\ v.engine = y.engine /\ v.mail = y.mail
        /\ v.adapter = y.adapter /\ v.fg = y.fg /\ v.screen = y.screen
        /\ v.exiting = y.exiting /\ v.wish = y.wish
        /\ v.session.pend = "none" /\ v.session.url = y.session.url
        /\ v.session.preview = y.session.preview /\ v.session.as_preview = y.session.as_preview
        /\ v.session.paused = y.session.paused
    BY <1>1, <1>6, CancelPlayFields
  <1>8. /\ w.route.serials \in Nat /\ y.route.serials \in Nat /\ v.route.serials \in Nat
        /\ w.route.attempts \in Nat /\ y.route.attempts \in Nat /\ v.route.attempts \in Nat
    BY <1>6, <1>7, NativeFacts
  <1>9. LetBe(w, v)
    BY <1>4, <1>5, <1>7, <1>8 DEF LetBe, Queued, Live, Cancels
  <1>10. w.route.phase = "Resolving" => y.route = w.route
    BY <1>4, <1>5 DEF Reloads, Fails, ResumeFlightOutstanding, Pending
  <1>11. w.route.phase # "Resolving" => y.route.phase # "Resolving"
    BY <1>4, <1>5 DEF Reloads, Fails, ResumeFlightOutstanding, Pending
  <1>12. Queued(x) = Queued(w)
    BY <1>4 DEF Queued
  <1>13. w.route.phase # "Resolving" => Reloads(w.route, v.route, Queued(w))
    BY <1>4, <1>5, <1>7, <1>11, <1>12 DEF Cancels
  <1> QED
    BY <1>2, <1>3, <1>4, <1>5, <1>7, <1>9, <1>10, <1>13, <1>17 DEF ParkedBy, c

\* Parking a film keeps the player coherent: the clock the park holds is the viewer's
\* wish.
LEMMA ParkWhole ==
    ASSUME NEW w, Whole(w, "events"), NEW v, ParkedBy(w, v), ~PreviewRequest(w),
           ~AwaitingLoad(w.fg)
    PROVE  Whole(v, "events")
  <1>1. /\ w \in Player /\ Good(w) /\ w.fg \in Lifecycle /\ Typed(w)
        /\ v \in Player /\ Good(v) /\ v.fg \in Lifecycle /\ Typed(v)
    BY TypedFacts DEF Whole, ParkedBy, LetBe
  <1>3. w.fg.kind \in {"Idle", "LoadPending"} /\ ~w.session.preview /\ ~w.session.as_preview
    BY <1>1 DEF Whole, Coherent, Parked, AwaitingLoad, PreviewRequest, Lifecycle, Kinds
  <1>4. /\ v.engine.call \notin {"out", "ok", "bad"} /\ ~Live(v)
        /\ v.engine.failed = FALSE /\ v.engine.dead = FALSE
    BY <1>1 DEF ParkedBy, LetBe, NoEngine, Good, ObjectInv, Live, Whole, Coherent, Loaded
  <1>6. ViewerPaused(w) \in BOOLEAN
    BY <1>1, PlayerFacts DEF ViewerPaused, Engine, Session
  <1>5. v.wish = v.fg.clock /\ v.fg.saved = v.fg.clock
    BY <1>1, <1>3, <1>6 DEF Typed, ParkedBy, ClockForSuspend, Whole, Coherent, Core, IdleHeard,
       Heard, ViewerPaused, Follows
  <1>7. w.screen.page = "Browse" => ~w.session.paused /\ v.wish = "Playing"
    BY <1>1, <1>3 DEF ParkedBy, Whole, Coherent, Asked, Playing, Restores, Follows
  <1>20. Core(v) /\ Coherent(v, "events")
    <2> USE DEF Whole, Coherent, Core, Owned, OnRoute, IdleHeard, Numbered, Loaded, Asked, Waits,
       Shown, Parked, Restores, Paged, Typed, Live, Playing, Heard, ClockIs, Queued, Pending,
       StableBelow, MayRequest, PendingRouteStart, ResumeFlightOutstanding, Parks
    <2>1. Owned(v)
      BY <1>1, <1>3, <1>4, <1>5 DEF ParkedBy, LetBe, Cancels, Reloads, Fails
    <2>2. OnRoute(v)
      BY <1>1, <1>3, <1>4, <1>5 DEF ParkedBy, LetBe, Cancels, Reloads, Fails
    <2>3. IdleHeard(v)
      BY <1>1, <1>3, <1>4, <1>5 DEF ParkedBy, LetBe, Cancels, Reloads, Fails
    <2>4. Numbered(v)
      BY <1>1, <1>3, <1>4, <1>5 DEF ParkedBy, LetBe, Cancels, Reloads, Fails
    <2>5. Loaded(v)
      BY <1>1, <1>3, <1>4, <1>5 DEF ParkedBy, LetBe, Cancels, Reloads, Fails
    <2>6. Asked(v, "events")
      BY <1>1, <1>3, <1>4, <1>5, <1>7 DEF ParkedBy, LetBe, Cancels, Reloads, Fails
    <2>7. Waits(v)
      BY <1>1, <1>3, <1>4, <1>5 DEF ParkedBy, LetBe, Cancels, Reloads, Fails
    <2>8. Shown(v, "events")
      BY <1>1, <1>3, <1>4, <1>5 DEF ParkedBy, LetBe, Cancels, Reloads, Fails
    <2>9. Parked(v, "events")
      BY <1>1, <1>3, <1>4, <1>5, <1>7 DEF ParkedBy, LetBe, Cancels, Reloads, Fails
    <2>10. Restores(v, "events")
      BY <1>1, <1>3, <1>4, <1>5 DEF ParkedBy, LetBe, Cancels, Reloads, Fails
    <2>11. Paged(v)
      BY <1>1, <1>3, <1>4, <1>5 DEF ParkedBy, LetBe, Cancels, Reloads, Fails
    <2> QED
      BY <2>1, <2>2, <2>3, <2>4, <2>5, <2>6, <2>7, <2>8, <2>9, <2>10, <2>11
  <1> QED
    BY <1>1, <1>20 DEF Whole

------------------------------------------------------------------------------
(* The television takes the screen, or the decoder.                         *)

\* The window going to or from the front changes nothing the parts owe each other.
LEMMA FrontWhole ==
    ASSUME NEW w, Whole(w, "events"), NEW b \in BOOLEAN, NEW v, v = [w EXCEPT !.screen.front = b]
    PROVE  Whole(v, "events") /\ v.screen.front = b /\ v.fg = w.fg /\ v.exiting = w.exiting
  <1>0. w \in Player /\ Good(w)
    BY DEF Whole
  <1>1. /\ v \in Player /\ Good(v) /\ v.screen.page = w.screen.page /\ v.screen.front = b
        /\ v.route = w.route /\ v.session = w.session /\ v.preview = w.preview
        /\ v.held = w.held /\ v.engine = w.engine /\ v.mail = w.mail
        /\ v.adapter = w.adapter /\ v.slot = w.slot /\ v.fg = w.fg /\ v.exiting = w.exiting
        /\ v.wish = w.wish
    <2> DEFINE s == [w.screen EXCEPT !.front = b]
    <2>1. w.screen \in Screen
      BY <1>0, PlayerFacts
    <2>2. s \in Screen /\ s.page = w.screen.page /\ s.front = b /\ v = [w EXCEPT !.screen = s]
      BY <2>1 DEF Screen
    <2> HIDE DEF s
    <2>3. /\ v \in Player /\ v.screen = s
          /\ v.route = w.route /\ v.session = w.session /\ v.preview = w.preview
          /\ v.held = w.held /\ v.engine = w.engine /\ v.mail = w.mail
          /\ v.adapter = w.adapter /\ v.slot = w.slot /\ v.fg = w.fg /\ v.exiting = w.exiting
          /\ v.wish = w.wish
      BY <1>0, <2>2 DEF Player
    <2>4. Good(v)
      BY <1>0, <2>3, KeepsGood
    <2> QED
      BY <2>2, <2>3, <2>4
  <1> QED
    BY <1>1 DEF Whole, Coherent, Core, Owned, OnRoute, IdleHeard, Numbered, Loaded, Asked, Waits,
          Shown, Parked, Restores, Paged, Live, Playing, Heard, ClockIs, Queued

\* What putting a restore back that waits on a flight comes to.
PutBack(w, v) ==
    /\ LetBe(w, v) /\ v.session = w.session /\ v.fg = ParkFlight(w.fg)
    /\ v.fg \in Lifecycle /\ v.wish = v.fg.clock
    /\ v.fg.kind = "Suspended" /\ v.fg.saved = v.fg.clock
    /\ v.fg.clock = IF w.fg.kind = "PreparePending" THEN w.fg.saved ELSE w.fg.clock
    /\ Reloads(w.route, v.route, Queued(w))

\* A restore that waits on a flight when the television takes the screen is parked
\* back with the clock of its first park.
LEMMA PutBackFields ==
    ASSUME NEW w \in Player, Good(w), w.fg \in Lifecycle, NEW e \in Chance, ~w.session.preview,
           w.route.phase = "Starting" => Live(w), FlightPending(w.fg),
           NEW v, v = ParkPending(w, e)
    PROVE  PutBack(w, v)
  <1> DEFINE f == ParkFlight(w.fg)
             c == f.clock
             x == [w EXCEPT !.fg = f, !.wish = c]
  <1>1. v = Teardown(x, TRUE, e)
    BY DEF ParkPending
  <1>2. w.session.paused \in BOOLEAN
    BY PlayerFacts DEF Session
  <1>3. f \in Lifecycle /\ f \in Machine /\ c \in Clocks
    BY <1>2, EndingFacts, LifecycleMachine
  <1>4. /\ f.kind = "Suspended" /\ f.saved = f.clock
        /\ f.clock = IF w.fg.kind = "PreparePending" THEN w.fg.saved ELSE w.fg.clock
    BY DEF ParkFlight, SuspendedAt, Fg, FlightPending
  <1>5. f = ParkFlight(w.fg) /\ c = f.clock /\ x = [w EXCEPT !.fg = f, !.wish = c]
    OBVIOUS
  <1> HIDE DEF f, c, x
  <1>6. /\ x \in Player /\ Good(x) /\ x.fg = f /\ x.wish = c
        /\ x.route = w.route /\ x.session = w.session /\ x.preview = w.preview
        /\ x.held = w.held /\ x.engine = w.engine /\ x.mail = w.mail
        /\ x.adapter = w.adapter /\ x.slot = w.slot /\ x.screen = w.screen
        /\ x.exiting = w.exiting
    <2>1. /\ x \in Player /\ x.fg = f /\ x.wish = c
          /\ x.route = w.route /\ x.session = w.session /\ x.preview = w.preview
          /\ x.held = w.held /\ x.engine = w.engine /\ x.mail = w.mail
          /\ x.adapter = w.adapter /\ x.slot = w.slot /\ x.screen = w.screen
          /\ x.exiting = w.exiting
      BY <1>3, <1>5 DEF Player
    <2> QED
      BY <2>1, KeepsGood
  <1>7. (x.route.phase = "Starting" => Live(x)) /\ ~x.session.preview
    BY <1>6 DEF Live
  <1>8. /\ LetBe(x, v) /\ v.session = x.session /\ v.fg = x.fg /\ v.wish = x.wish
        /\ Reloads(x.route, v.route, Queued(x))
    BY <1>1, <1>6, <1>7, ReloadFields
  <1>9. LetBe(w, v) /\ Queued(x) = Queued(w)
    BY <1>6, <1>8 DEF LetBe, Live, Queued
  <1> QED
    BY <1>3, <1>4, <1>5, <1>6, <1>8, <1>9 DEF PutBack

\* Parking such a restore back keeps the player coherent.
LEMMA PutBackWhole ==
    ASSUME NEW w, Whole(w, "events"), NEW v, PutBack(w, v), FlightPending(w.fg)
    PROVE  Whole(v, "events")
  <1>1. /\ w \in Player /\ Good(w) /\ w.fg \in Lifecycle /\ Typed(w)
        /\ v \in Player /\ Good(v) /\ v.fg \in Lifecycle /\ Typed(v)
    BY TypedFacts DEF Whole, PutBack, LetBe
  <1>3. /\ w.fg.kind \in {"PreparePending", "RecoveryPending"}
        /\ ~w.session.preview /\ ~w.session.as_preview
    BY <1>1 DEF Whole, Coherent, Parked, FlightPending
  <1>4. /\ v.engine.call \notin {"out", "ok", "bad"} /\ ~Live(v)
        /\ v.engine.failed = FALSE /\ v.engine.dead = FALSE
    BY <1>1, <1>3 DEF PutBack, LetBe, NoEngine, Good, ObjectInv, Live, Whole, Coherent, Loaded
  <1>5. v.wish = v.fg.clock /\ v.fg.saved = v.fg.clock
    BY DEF PutBack
  <1>20. Core(v) /\ Coherent(v, "events")
    <2> USE DEF Whole, Coherent, Core, Owned, OnRoute, IdleHeard, Numbered, Loaded, Asked, Waits,
       Shown, Parked, Restores, Paged, Typed, Live, Playing, Heard, ClockIs, Queued, Pending,
       StableBelow, MayRequest, PendingRouteStart, ResumeFlightOutstanding, Parks
    <2>1. Owned(v)
      BY <1>1, <1>3, <1>4, <1>5 DEF PutBack, LetBe, Reloads, Fails
    <2>2. OnRoute(v)
      BY <1>1, <1>3, <1>4, <1>5 DEF PutBack, LetBe, Reloads, Fails
    <2>3. IdleHeard(v)
      BY <1>1, <1>3, <1>4, <1>5 DEF PutBack, LetBe, Reloads, Fails
    <2>4. Numbered(v)
      BY <1>1, <1>3, <1>4, <1>5 DEF PutBack, LetBe, Reloads, Fails
    <2>5. Loaded(v)
      BY <1>1, <1>3, <1>4, <1>5 DEF PutBack, LetBe, Reloads, Fails
    <2>6. Asked(v, "events")
      BY <1>1, <1>3, <1>4, <1>5 DEF PutBack, LetBe, Reloads, Fails
    <2>7. Waits(v)
      BY <1>1, <1>3, <1>4, <1>5 DEF PutBack, LetBe, Reloads, Fails
    <2>8. Shown(v, "events")
      BY <1>1, <1>3, <1>4, <1>5 DEF PutBack, LetBe, Reloads, Fails
    <2>9. Parked(v, "events")
      BY <1>1, <1>3, <1>4, <1>5 DEF PutBack, LetBe, Reloads, Fails
    <2>10. Restores(v, "events")
      BY <1>1, <1>3, <1>4, <1>5 DEF PutBack, LetBe, Reloads, Fails
    <2>11. Paged(v)
      BY <1>1, <1>3, <1>4, <1>5 DEF PutBack, LetBe, Reloads, Fails
    <2> QED
      BY <2>1, <2>2, <2>3, <2>4, <2>5, <2>6, <2>7, <2>8, <2>9, <2>10, <2>11
  <1> QED
    BY <1>1, <1>20 DEF Whole

\* The park of an app switch keeps the player coherent and leaves no restore under
\* way; a restore that followed its Load is suspended, never forgotten.
LEMMA ParkIfPlayingWhole ==
    ASSUME NEW w, Whole(w, "events"), NEW e \in Chance, ~FlightPending(w.fg),
           NEW v, v = ParkIfPlaying(w, e)
    PROVE  /\ Whole(v, "events") /\ v.exiting = w.exiting
           /\ v.fg.kind \notin {"PreparePending", "RecoveryPending", "LoadPending"}
           /\ w.fg.kind = "LoadPending" => v.fg.kind = "Suspended"
  <1>1. CASE ~PreviewRequest(w) /\ ~AwaitingLoad(w.fg) /\ v = ParkPlayback(w, e)
    <2>1. /\ w \in Player /\ Good(w) /\ w.fg \in Lifecycle /\ ~w.session.preview
          /\ w.route.phase = "Starting" => Live(w)
      BY <1>1 DEF Whole, Core, Owned, PreviewRequest
    <2>2. ParkedBy(w, v)
      BY <1>1, <2>1, ParkFields
    <2> QED
      BY <1>1, <2>2, ParkWhole DEF ParkedBy, LetBe
  <1>2. CASE v = w
    <2>1. w.fg.kind = "LoadPending" => ~PreviewRequest(w) /\ Live(w) /\ ~AwaitingLoad(w.fg)
      BY DEF Whole, Coherent, Parked, Restores, PreviewRequest, AwaitingLoad
    <2>2. w.fg.kind = "LoadPending" => v = ParkPlayback(w, e)
      BY <2>1 DEF ParkIfPlaying
    <2>3. CASE w.fg.kind = "LoadPending"
      BY <1>1, <2>1, <2>2, <2>3
    <2> QED
      BY <1>2, <2>3 DEF FlightPending
  <1> QED
    BY <1>1, <1>2 DEF ParkIfPlaying

\* The television takes the screen: halting, parking back and parking, in that order,
\* leave a coherent player with no restore under way.
LEMMA BackgroundWhole ==
    ASSUME NEW w, Whole(w, "events"), NEW e \in Chance,
           NEW v, v = ParkIfPlaying(ParkPending(Halt([w EXCEPT !.screen.front = FALSE], e), e), e)
    PROVE  /\ Whole(v, "events") /\ Front(v) /\ v.exiting = w.exiting
           /\ w.fg.kind = "LoadPending" => v.fg.kind # "Idle"
  <1> DEFINE b == FALSE
             x == [w EXCEPT !.screen.front = b]
             y == Halt(x, e)
             z == ParkPending(y, e)
  <1>1. b \in BOOLEAN /\ v = ParkIfPlaying(z, e)
    OBVIOUS
  <1> HIDE DEF b
  <1>2. Whole(x, "events") /\ x.exiting = w.exiting /\ x.fg = w.fg
    BY <1>1, FrontWhole
  <1> HIDE DEF x
  <1>3. x \in Player /\ Good(x)
    BY <1>2 DEF Whole
  <1>4. Halted(x, y)
    BY <1>3, HaltFields
  <1> HIDE DEF y
  <1>5. Whole(y, "events") /\ y.exiting = x.exiting /\ y.fg = x.fg
    BY <1>2, <1>4, HaltWhole DEF Halted
  <1>6. Whole(z, "events") /\ ~FlightPending(z.fg) /\ z.exiting = y.exiting
        /\ (y.fg.kind = "LoadPending" => z.fg = y.fg)
    <2>1. CASE ~FlightPending(y.fg)
      BY <1>5, <2>1 DEF ParkPending
    <2>2. CASE FlightPending(y.fg)
      <3>1. /\ y \in Player /\ Good(y) /\ y.fg \in Lifecycle /\ ~y.session.preview
            /\ y.route.phase = "Starting" => Live(y)
        BY <1>5, <2>2 DEF Whole, Core, Owned, Coherent, Parked, FlightPending
      <3>2. PutBack(y, z)
        BY <2>2, <3>1, PutBackFields
      <3> HIDE DEF z
      <3> QED
        BY <1>5, <2>2, <3>2, PutBackWhole DEF PutBack, LetBe, FlightPending
    <2> QED
      BY <2>1, <2>2
  <1> HIDE DEF z
  <1> QED
    BY <1>1, <1>2, <1>5, <1>6, ParkIfPlayingWhole DEF Front

\* park_on_decoder_release keeps the player coherent.
LEMMA RevokedWhole ==
    ASSUME NEW w, Whole(w, "events"), Front(w), NEW e \in Chance,
           NEW v, v = IF PreviewRequest(w) THEN Halt(w, e)
                      ELSE IF AwaitingLoad(w.fg) THEN w ELSE ParkPlayback(w, e)
    PROVE  Whole(v, "events") /\ Front(v) /\ v.exiting = w.exiting
  <1>1. /\ w \in Player /\ Good(w) /\ w.fg \in Lifecycle
        /\ w.route.phase = "Starting" => Live(w)
    BY DEF Whole, Core, Owned
  <1>2. CASE PreviewRequest(w)
    <2>1. Halted(w, v)
      BY <1>1, <1>2, HaltFields
    <2> QED
      BY <2>1, HaltWhole DEF Halted, Front
  <1>3. CASE ~PreviewRequest(w) /\ AwaitingLoad(w.fg)
    BY <1>3
  <1>4. CASE ~PreviewRequest(w) /\ ~AwaitingLoad(w.fg)
    <2>1. ParkedBy(w, v)
      BY <1>1, <1>4, ParkFields DEF PreviewRequest
    <2> QED
      BY <1>4, <2>1, ParkWhole DEF ParkedBy, LetBe, Front
  <1> QED
    BY <1>2, <1>3, <1>4

------------------------------------------------------------------------------
(* The native threads, the transport, and an Engine that fails.             *)

\* A step of a native thread: it turns the Engine's flags, the inbox and the object.
Threads(w, v) ==
    /\ v \in Player /\ Good(v)
    /\ v.route = w.route /\ v.preview = w.preview /\ v.held = w.held /\ v.adapter = w.adapter
    /\ v.fg = w.fg /\ v.screen = w.screen /\ v.exiting = w.exiting /\ v.wish = w.wish
    /\ v.session.url = w.session.url /\ v.session.pend = w.session.pend
    /\ v.session.preview = w.session.preview /\ v.session.as_preview = w.session.as_preview
    /\ v.session.paused = w.session.paused
    /\ v.engine.serial = w.engine.serial /\ v.engine.attempt = w.engine.attempt
    /\ v.engine.dead = w.engine.dead /\ v.engine.follows = w.engine.follows
    /\ v.engine.waited = w.engine.waited
    /\ v.engine.goal = w.engine.goal /\ v.engine.ready = w.engine.ready

\* A step of the media thread leaves all but the Engine and the inbox as it was.
LEMMA SetEngineFields ==
    ASSUME NEW w \in Player, NEW n \in Engine, NEW m \in SUBSET Post,
           NEW v, v = [w EXCEPT !.engine = n, !.mail = m]
    PROVE  /\ v \in Player /\ v.engine = n /\ v.mail = m
           /\ v.route = w.route /\ v.session = w.session /\ v.preview = w.preview
           /\ v.held = w.held /\ v.slot = w.slot /\ v.adapter = w.adapter /\ v.fg = w.fg
           /\ v.screen = w.screen /\ v.exiting = w.exiting /\ v.wish = w.wish
  BY DEF Player

\* A worker's answer only raises the landing flag.
LEMMA AnswersThread ==
    ASSUME NEW w \in Player, Good(w), NEW v, v = [w EXCEPT !.session.answered = TRUE]
    PROVE  Threads(w, v) /\ v.engine = w.engine /\ v.mail = w.mail
  <1> DEFINE s == [w.session EXCEPT !.answered = TRUE]
  <1>1. /\ s \in Session /\ v = [w EXCEPT !.session = s]
        /\ s.url = w.session.url /\ s.pend = w.session.pend /\ s.preview = w.session.preview
        /\ s.as_preview = w.session.as_preview /\ s.paused = w.session.paused
    BY PlayerFacts DEF Session
  <1> HIDE DEF s
  <1>2. /\ v \in Player /\ v.session = s
        /\ v.route = w.route /\ v.engine = w.engine /\ v.mail = w.mail /\ v.slot = w.slot
        /\ v.preview = w.preview /\ v.held = w.held /\ v.adapter = w.adapter /\ v.fg = w.fg
        /\ v.screen = w.screen /\ v.exiting = w.exiting /\ v.wish = w.wish
    BY <1>1 DEF Player
  <1>3. Good(v)
    BY <1>2, KeepsGood
  <1> QED
    BY <1>1, <1>2, <1>3 DEF Threads

\* A Load has returned with its answer.
Answering(w, ok) ==
    [w EXCEPT !.engine.call = IF ok THEN "ok" ELSE "bad",
              !.mail = @ \cup {[attempt |-> w.engine.attempt, ok |-> ok]}]

\* A Load that returns posts its result under its own attempt and raises no flag.
LEMMA ReturnsThread ==
    ASSUME NEW w \in Player, Good(w), w.engine.call = "out", NEW ok \in BOOLEAN,
           NEW v, v = Answering(w, ok), Good(v)
    PROVE  /\ Threads(w, v) /\ v.engine.call = IF ok THEN "ok" ELSE "bad"
           /\ v.engine.failed = w.engine.failed /\ v.engine.late = w.engine.late
           /\ v.mail = w.mail \cup {[attempt |-> w.engine.attempt, ok |-> ok]}
  <1> DEFINE c == IF ok THEN "ok" ELSE "bad"
             n == [w.engine EXCEPT !.call = c]
             a == [attempt |-> w.engine.attempt, ok |-> ok]
             m == w.mail \cup {a}
  <1>1. c \in Calls
    BY DEF Calls
  <1> HIDE DEF c
  <1>2. /\ n \in Engine /\ n.call = c /\ n.failed = w.engine.failed /\ n.late = w.engine.late
        /\ n.serial = w.engine.serial /\ n.attempt = w.engine.attempt /\ n.dead = w.engine.dead
        /\ n.follows = w.engine.follows /\ n.waited = w.engine.waited
        /\ n.goal = w.engine.goal /\ n.ready = w.engine.ready
    BY <1>1, PlayerFacts DEF Engine
  <1>3. m \in SUBSET Post
    BY PlayerFacts, NativeFacts DEF Post
  <1>4. v = [w EXCEPT !.engine = n, !.mail = m] /\ m = w.mail \cup {a}
    BY DEF c, Answering
  <1> HIDE DEF n, m
  <1>5. /\ v \in Player /\ v.engine = n /\ v.mail = m
        /\ v.route = w.route /\ v.session = w.session /\ v.preview = w.preview
        /\ v.held = w.held /\ v.slot = w.slot /\ v.adapter = w.adapter /\ v.fg = w.fg
        /\ v.screen = w.screen /\ v.exiting = w.exiting /\ v.wish = w.wish
    BY <1>2, <1>3, <1>4 DEF Player
  <1> QED
    BY <1>2, <1>4, <1>5 DEF Threads, c

\* The failure flag and the budget are raised one at a time, by a step that does
\* nothing else.
LEMMA FlagThread ==
    ASSUME NEW w \in Player, Good(w), NEW v,
           v = [w EXCEPT !.engine.failed = TRUE] \/ v = [w EXCEPT !.engine.late = TRUE]
    PROVE  /\ Threads(w, v) /\ v.mail = w.mail /\ v.engine.call = w.engine.call
           /\ v = [w EXCEPT !.engine.failed = TRUE] =>
                v.engine.failed /\ v.engine.late = w.engine.late
           /\ v = [w EXCEPT !.engine.late = TRUE] =>
                v.engine.late /\ v.engine.failed = w.engine.failed
  <1> DEFINE n == [w.engine EXCEPT !.failed = TRUE]
             m == [w.engine EXCEPT !.late = TRUE]
  <1>1. /\ n \in Engine /\ n.call = w.engine.call /\ n.failed = TRUE /\ n.late = w.engine.late
        /\ n.serial = w.engine.serial /\ n.attempt = w.engine.attempt /\ n.dead = w.engine.dead
        /\ n.follows = w.engine.follows /\ n.waited = w.engine.waited
        /\ n.goal = w.engine.goal /\ n.ready = w.engine.ready
        /\ m \in Engine /\ m.call = w.engine.call /\ m.late = TRUE /\ m.failed = w.engine.failed
        /\ m.serial = w.engine.serial /\ m.attempt = w.engine.attempt /\ m.dead = w.engine.dead
        /\ m.follows = w.engine.follows /\ m.waited = w.engine.waited
        /\ m.goal = w.engine.goal /\ m.ready = w.engine.ready
    BY PlayerFacts DEF Engine
  <1>2. v = [w EXCEPT !.engine = n] \/ v = [w EXCEPT !.engine = m]
    OBVIOUS
  <1>3. /\ v = [w EXCEPT !.engine.failed = TRUE] => v = [w EXCEPT !.engine = n]
        /\ v = [w EXCEPT !.engine.late = TRUE] => v = [w EXCEPT !.engine = m]
    OBVIOUS
  <1> HIDE DEF n, m
  <1>4. /\ v \in Player
        /\ v.mail = w.mail /\ v.route = w.route /\ v.session = w.session
        /\ v.preview = w.preview /\ v.held = w.held /\ v.slot = w.slot /\ v.adapter = w.adapter
        /\ v.fg = w.fg /\ v.screen = w.screen /\ v.exiting = w.exiting /\ v.wish = w.wish
    BY <1>1, <1>2 DEF Player
  <1>5. /\ v = [w EXCEPT !.engine = n] => v.engine = n
        /\ v = [w EXCEPT !.engine = m] => v.engine = m
    BY DEF Player
  <1>6. Good(v)
    BY <1>1, <1>2, <1>4, <1>5 DEF Good, ObjectInv, PostInv, QueueInv
  <1> QED
    BY <1>1, <1>2, <1>3, <1>4, <1>5, <1>6 DEF Threads

\* A step of the worker inside an Unload or of an abandoned Load turns the object and
\* the inbox only.
LEMMA SlotThread ==
    ASSUME NEW w \in Player, NEW o \in Object, NEW m \in SUBSET Post,
           NEW v, v = [w EXCEPT !.slot = o, !.mail = m], Good(v)
    PROVE  Threads(w, v) /\ v.engine = w.engine /\ v.mail = m /\ v.slot = o
  BY DEF Player, Threads

\* The native threads keep the core: a Load that returns or runs late asks less of the
\* route.
LEMMA ThreadCore ==
    ASSUME NEW w, NEW v, Threads(w, v), Core(w),
           v.engine.call = "out" => w.engine.call = "out",
           w.engine.late => v.engine.late
    PROVE  Core(v)
  BY DEF Threads, Core, Owned, OnRoute, IdleHeard, Live, Heard

\* The native threads keep the player coherent at every point of the frame: the result
\* is in the inbox before any flag that speaks of it.
LEMMA ThreadWhole ==
    ASSUME NEW w, NEW t, Whole(w, t), Front(w), NEW v, Threads(w, v),
           w.engine.call # "out" => v.engine.call = w.engine.call,
           w.engine.late => v.engine.late,
           w.engine.call = "out" /\ v.engine.call # "out" =>
              v.engine.failed = w.engine.failed /\ v.engine.late = w.engine.late
              /\ \E m \in v.mail : m.attempt = w.engine.attempt,
           v.engine.failed => v.engine.call = "bad",
           \A m \in w.mail : m \in v.mail
    PROVE  Whole(v, t) /\ Front(v)
  <1>1. Front(v)
    BY DEF Front, Threads
  <1>2. Whole(v, t)
    <2>1. /\ w \in Player /\ Good(w) /\ w.fg \in Lifecycle /\ Typed(w)
          /\ v \in Player /\ Good(v) /\ v.fg \in Lifecycle /\ Typed(v)
      BY TypedFacts DEF Whole, Threads
    <2>2. Core(v)
      BY <2>1, ThreadCore DEF Whole
    <2>3. Numbered(v) /\ Asked(v, t) /\ Waits(v) /\ Parked(v, t)
      BY <2>1 DEF Whole, Coherent, Numbered, Asked, Waits, Parked, Threads, Live, Playing, Heard,
           ClockIs, Queued
    <2>4. Loaded(v)
      BY <2>1 DEF Whole, Coherent, Core, Owned, Loaded, Threads, Live, StableBelow
    <2>5. Shown(v, t)
      BY <2>1 DEF Whole, Coherent, Shown, Loaded, Threads, Live, Playing, StableBelow
    <2>6. Restores(v, t)
      BY <2>1 DEF Whole, Coherent, Core, Owned, Restores, Loaded, Threads, Live, Heard, ClockIs,
           StableBelow, Good, ObjectInv
    <2>7. Paged(v)
      BY DEF Whole, Coherent, Paged, Threads, Live
    <2> QED
      BY <2>1, <2>2, <2>3, <2>4, <2>5, <2>6, <2>7 DEF Whole, Coherent
  <1> QED
    BY <1>1, <1>2

\* The Engine has the given goal and readiness, the read-out the given pause and the
\* viewer the given wish; all else is as it was.
Clocked(w, v, goal, ready, paused, c) ==
    /\ v \in Player /\ Good(v)
    /\ v.engine.goal = goal /\ v.engine.ready = ready /\ v.session.paused = paused /\ v.wish = c
    /\ v.engine.serial = w.engine.serial /\ v.engine.attempt = w.engine.attempt
    /\ v.engine.call = w.engine.call /\ v.engine.failed = w.engine.failed
    /\ v.engine.late = w.engine.late /\ v.engine.dead = w.engine.dead
    /\ v.engine.follows = w.engine.follows /\ v.engine.waited = w.engine.waited
    /\ v.session.url = w.session.url /\ v.session.pend = w.session.pend
    /\ v.session.preview = w.session.preview /\ v.session.as_preview = w.session.as_preview
    /\ v.route = w.route /\ v.mail = w.mail /\ v.slot = w.slot
    /\ v.preview = w.preview /\ v.held = w.held /\ v.adapter = w.adapter /\ v.fg = w.fg
    /\ v.screen = w.screen /\ v.exiting = w.exiting

\* Setting the clocks touches nothing else.
LEMMA ClockFields ==
    ASSUME NEW w \in Player, Good(w), NEW goal \in BOOLEAN, NEW ready \in BOOLEAN,
           NEW paused \in BOOLEAN, NEW c \in Clocks,
           NEW n, n = [w.engine EXCEPT !.goal = goal, !.ready = ready],
           NEW s, s = [w.session EXCEPT !.paused = paused],
           NEW v, v = [w EXCEPT !.engine = n, !.session = s, !.wish = c]
    PROVE  Clocked(w, v, goal, ready, paused, c)
  <1>1. /\ n \in Engine /\ n.goal = goal /\ n.ready = ready
        /\ n.serial = w.engine.serial /\ n.attempt = w.engine.attempt /\ n.call = w.engine.call
        /\ n.failed = w.engine.failed /\ n.late = w.engine.late /\ n.dead = w.engine.dead
        /\ n.follows = w.engine.follows /\ n.waited = w.engine.waited
    BY PlayerFacts DEF Engine
  <1>2. /\ s \in Session /\ s.paused = paused /\ s.url = w.session.url
        /\ s.pend = w.session.pend /\ s.preview = w.session.preview
        /\ s.as_preview = w.session.as_preview
    BY PlayerFacts DEF Session
  <1>3. /\ v \in Player /\ v.engine = n /\ v.session = s /\ v.wish = c
        /\ v.route = w.route /\ v.mail = w.mail /\ v.slot = w.slot
        /\ v.preview = w.preview /\ v.held = w.held /\ v.adapter = w.adapter /\ v.fg = w.fg
        /\ v.screen = w.screen /\ v.exiting = w.exiting
    BY <1>1, <1>2 DEF Player
  <1>4. Aside(w, v)
    BY <1>1, <1>3 DEF Aside, Untouched
  <1>5. Good(v)
    BY <1>4, AsideBeside, BesideGood
  <1> QED
    BY <1>1, <1>2, <1>3, <1>5, ZenonT(30) DEF Clocked

\* A press on the transport keeps the player coherent: beside a film's Engine on the
\* player page nothing else is asked for, held or shown, and a restore's read-out
\* keeps its clock until the startup is done.
LEMMA TransportWhole ==
    ASSUME NEW w, Whole(w, "asks"), Front(w), w.screen.page = "Player", Live(w),
           NEW paused \in BOOLEAN, NEW v, v = Transported(w, paused)
    PROVE  Whole(v, "asks") /\ Front(v) /\ v.exiting = w.exiting
  <1> DEFINE p == IF w.engine.ready THEN paused ELSE w.session.paused
             n == [w.engine EXCEPT !.goal = paused, !.ready = w.engine.ready]
             s == [w.session EXCEPT !.paused = p]
             c == ClockOf(paused)
             u == [w EXCEPT !.engine = n, !.session = s, !.wish = c]
  <1>1. w \in Player /\ Good(w) /\ w.engine \in Engine /\ w.session \in Session
        /\ w.fg \in Lifecycle
    BY PlayerFacts DEF Whole
  <1>2. p \in BOOLEAN /\ w.engine.ready \in BOOLEAN /\ c \in Clocks
        /\ (paused <=> c = "Paused") /\ (~w.engine.ready => p = w.session.paused)
    BY <1>1 DEF Engine, Session, ClockOf, Clocks
  <1>3. n = [w.engine EXCEPT !.goal = paused]
    BY <1>1 DEF Engine
  <1>4. v = u
    BY <1>1, <1>3 DEF Transported, Player
  <1>11. Clocked(w, u, paused, w.engine.ready, p, c)
    BY <1>1, <1>2, ClockFields
  <1> HIDE DEF n, s, c, p, u
  <1>5. Clocked(w, v, paused, w.engine.ready, p, c)
    BY <1>4, <1>11
  <1>6. Typed(w) /\ Typed(v)
    BY <1>1, <1>5, TypedFacts DEF Clocked
  <1>7. Core(v)
    BY <1>2, <1>5, <1>6 DEF Clocked, Whole, Core, Owned, OnRoute, IdleHeard, Live
  <1>8. Numbered(v) /\ Loaded(v) /\ Waits(v) /\ Paged(v)
    BY <1>5 DEF Clocked, Whole, Coherent, Numbered, Loaded, Waits, Paged, Live, Queued
  <1>9. Asked(v, "asks") /\ Shown(v, "asks")
    BY <1>5 DEF Clocked, Whole, Coherent, Asked, Shown, Paged, Live, Queued
  <1>10. Parked(v, "asks") /\ Restores(v, "asks")
    BY <1>2, <1>5 DEF Clocked, Whole, Coherent, Parked, Restores, Live, Parks
  <1> QED
    BY <1>1, <1>5, <1>7, <1>8, <1>9, <1>10 DEF Whole, Coherent, Clocked, Front

\* The end of a startup keeps the player coherent: the lifecycle owes nothing by then,
\* and the read-out can only be unpaused.
LEMMA StartedUpWhole ==
    ASSUME NEW w, Whole(w, "events"), Front(w), ~AwaitingLoad(w.fg), w.route.phase = "Stable",
           Live(w), NEW v, v = StartedUp(w)
    PROVE  Whole(v, "events") /\ Front(v) /\ v.exiting = w.exiting
  <1> DEFINE p == w.session.paused /\ w.engine.goal
             n == [w.engine EXCEPT !.goal = w.engine.goal, !.ready = TRUE]
             s == [w.session EXCEPT !.paused = p]
             u == [w EXCEPT !.engine = n, !.session = s, !.wish = w.wish]
  <1>1. w \in Player /\ Good(w) /\ w.engine \in Engine /\ w.session \in Session
        /\ w.fg \in Lifecycle /\ w.wish \in Clocks
    BY PlayerFacts DEF Whole
  <1>2. p \in BOOLEAN /\ w.engine.goal \in BOOLEAN
    BY <1>1 DEF Engine
  <1>3. n = [w.engine EXCEPT !.ready = TRUE]
    BY <1>1 DEF Engine
  <1>4. v = u
    BY <1>1, <1>3 DEF StartedUp, Player
  <1>5. p => w.session.paused
    OBVIOUS
  <1>12. Clocked(w, u, w.engine.goal, TRUE, p, w.wish)
    BY <1>1, <1>2, ClockFields
  <1> HIDE DEF n, s, p, u
  <1>6. Clocked(w, v, w.engine.goal, TRUE, p, w.wish)
    BY <1>4, <1>12
  <1>7. w.fg.kind = "Idle"
    BY <1>1 DEF AwaitingLoad, Lifecycle, Kinds, Whole, Coherent, Parked, Restores
  <1>8. Core(v)
    BY <1>6, <1>7 DEF Clocked, Whole, Core, Owned, OnRoute, IdleHeard, Live
  <1>9. Numbered(v) /\ Loaded(v) /\ Waits(v) /\ Paged(v)
    BY <1>6 DEF Clocked, Whole, Coherent, Numbered, Loaded, Waits, Paged, Live, Queued
  <1>10. Asked(v, "events") /\ Shown(v, "events")
    BY <1>5, <1>6 DEF Clocked, Whole, Coherent, Asked, Shown, Paged, Live, Queued, Playing
  <1>11. Parked(v, "events") /\ Restores(v, "events")
    BY <1>6, <1>7 DEF Clocked, Whole, Coherent, Parked, Restores, Parks
  <1> QED
    BY <1>1, <1>6, <1>8, <1>9, <1>10, <1>11 DEF Whole, Coherent, Clocked, Front

\* fail_current_engine fails what is pending or stable, under a serial, and leaves any
\* other route alone.
LEMMA FailRoute ==
    ASSUME NEW c \in Route, NEW d, d = FailCurrentEngine(c)
    PROVE  /\ d \in Route /\ d.under = c.under /\ d.last = c.last /\ d.attempts = c.attempts
           /\ c.serials <= d.serials /\ d.flight \in {0, c.flight}
           /\ c.phase \in Pending => d.phase = "Failed" /\ d.serial = c.serial
           /\ c.phase = "Stable" => d.phase = "Failed" /\ d.serial # 0
           /\ c.phase \notin Pending \cup {"Stable"} => d = c
  <1>1. CASE c.phase \in Pending
    <2> DEFINE x == [c EXCEPT !.flight = 0]
    <2>1. d = Enter(x, "Failed", c.serial)
      BY <1>1 DEF FailCurrentEngine, Pending
    <2>2. /\ x \in Route /\ x.flight = 0 /\ x.under = c.under /\ x.last = c.last
          /\ x.attempts = c.attempts /\ x.serials = c.serials /\ x.serial = c.serial
      BY DEF Route
    <2> HIDE DEF x
    <2>3. c.serial \in Nat /\ c.serials \in Nat
      BY DEF Route
    <2>4. /\ d \in Route /\ d.under = x.under /\ d.last = x.last /\ d.attempts = x.attempts
          /\ d.serials = x.serials /\ d.flight = x.flight
          /\ d.phase = "Failed" /\ d.serial = c.serial
      BY <2>1, <2>2, <2>3 DEF Route, Enter, Phases
    <2> QED
      BY <1>1, <2>2, <2>3, <2>4 DEF Pending
  <1>2. CASE c.phase = "Stable"
    <2> DEFINE x == [c EXCEPT !.flight = 0]
    <2>1. d = Fresh(x, "Failed")
      BY <1>2 DEF FailCurrentEngine, Pending
    <2>2. /\ x \in Route /\ x.flight = 0 /\ x.under = c.under /\ x.last = c.last
          /\ x.attempts = c.attempts /\ x.serials = c.serials /\ x.serial = c.serial
      BY DEF Route
    <2> HIDE DEF x
    <2>3. c.serial \in Nat /\ c.serials \in Nat
      BY DEF Route
    <2>5. x.serials + 1 \in Nat /\ "Failed" \in Phases
      BY <2>2, <2>3 DEF Phases
    <2> DEFINE k == x.serials + 1
               y == Enter(x, "Failed", k)
    <2>6. d = [y EXCEPT !.serials = k] /\ k \in Nat /\ k = x.serials + 1
      BY <2>1, <2>5 DEF Fresh
    <2> HIDE DEF k
    <2>7. /\ y \in Route /\ y.under = x.under /\ y.last = x.last /\ y.attempts = x.attempts
          /\ y.flight = x.flight /\ y.phase = "Failed" /\ y.serial = k
      BY <2>2, <2>5, <2>6, ZenonT(30) DEF Route, Enter
    <2> HIDE DEF y
    <2>4. /\ d \in Route /\ d.under = x.under /\ d.last = x.last /\ d.attempts = x.attempts
          /\ d.flight = x.flight /\ d.serials = x.serials + 1
          /\ d.phase = "Failed" /\ d.serial = x.serials + 1
      BY <2>6, <2>7 DEF Route
    <2> QED
      BY <1>2, <2>2, <2>3, <2>4 DEF Pending
  <1>3. CASE c.phase \notin Pending \cup {"Stable"}
    BY <1>3 DEF FailCurrentEngine, Route
  <1> QED
    BY <1>1, <1>2, <1>3

\* A film's Engine that fails with a picture up keeps the player coherent.
LEMMA EngineFailsWhole ==
    ASSUME NEW w, Whole(w, "events"), Front(w), MayRun(w), Live(w), ~PreviewRequest(w),
           w.route.phase = "Stable", w.engine.call = "ok",
           NEW v, v = [w EXCEPT !.route = FailCurrentEngine(@), !.engine.dead = TRUE], Good(v)
    PROVE  Whole(v, "events") /\ Front(v) /\ v.exiting = w.exiting
  <1> DEFINE n == [w.engine EXCEPT !.dead = TRUE]
             c == FailCurrentEngine(w.route)
  <1>2. w \in Player /\ Good(w) /\ w.fg \in Lifecycle
    BY DEF Whole
  <1>3. /\ n \in Engine /\ n.dead = TRUE /\ v = [w EXCEPT !.route = c, !.engine = n]
        /\ n.serial = w.engine.serial /\ n.attempt = w.engine.attempt /\ n.call = w.engine.call
        /\ n.failed = w.engine.failed /\ n.late = w.engine.late /\ n.follows = w.engine.follows
        /\ n.waited = w.engine.waited /\ n.goal = w.engine.goal /\ n.ready = w.engine.ready
    BY <1>2, PlayerFacts DEF Engine
  <1>4. /\ c \in Route /\ c.under = w.route.under /\ c.last = w.route.last
        /\ c.attempts = w.route.attempts
        /\ w.route.serials <= c.serials /\ c.flight \in {0, w.route.flight}
        /\ c.phase = "Failed" /\ c.serial # 0
    BY <1>2, PlayerFacts, FailRoute
  <1> HIDE DEF n, c
  <1>5. /\ v \in Player /\ v.route = c /\ v.engine = n
        /\ v.session = w.session /\ v.wish = w.wish /\ v.mail = w.mail /\ v.slot = w.slot
        /\ v.preview = w.preview /\ v.held = w.held /\ v.adapter = w.adapter /\ v.fg = w.fg
        /\ v.screen = w.screen /\ v.exiting = w.exiting
    BY <1>2, <1>3, <1>4, ZenonT(30) DEF Player
  <1>6. Typed(w) /\ Typed(v) /\ Front(v)
    BY <1>2, <1>5, TypedFacts DEF Front
  <1>7. w.fg.kind = "Idle"
    BY <1>2 DEF Whole, Coherent, Restores, Parked, MayRun, AwaitingLoad, Lifecycle, Kinds
  <1>9. /\ v.engine.dead = TRUE
        /\ v.engine.serial = w.engine.serial /\ v.engine.attempt = w.engine.attempt
        /\ v.engine.call = w.engine.call /\ v.engine.failed = w.engine.failed
        /\ v.engine.late = w.engine.late /\ v.engine.follows = w.engine.follows
        /\ v.engine.waited = w.engine.waited
        /\ v.engine.goal = w.engine.goal /\ v.engine.ready = w.engine.ready
        /\ v.route.under = w.route.under /\ v.route.last = w.route.last
        /\ v.route.attempts = w.route.attempts
        /\ w.route.serials <= v.route.serials /\ v.route.flight \in {0, w.route.flight}
        /\ v.route.phase = "Failed" /\ v.route.serial # 0
        /\ v.session = w.session /\ v.wish = w.wish /\ v.mail = w.mail /\ v.slot = w.slot
        /\ v.preview = w.preview /\ v.held = w.held /\ v.adapter = w.adapter /\ v.fg = w.fg
        /\ v.screen = w.screen /\ v.exiting = w.exiting
    BY <1>3, <1>4, <1>5
  <1>8. Whole(v, "events")
    <2> USE <1>2, <1>5, <1>6, <1>7, <1>9 DEF Whole, Coherent, Core, Live, Typed, PreviewRequest
    <2>1. Core(v)
      BY DEF Owned, OnRoute, IdleHeard, Heard
    <2>2. Numbered(v)
      BY DEF Numbered, Queued
    <2>3. Loaded(v)
      BY DEF Loaded, StableBelow
    <2>4. Asked(v, "events") /\ Shown(v, "events")
      BY DEF Asked, Shown, Playing, Queued, StableBelow
    <2>5. Waits(v) /\ Parked(v, "events") /\ Restores(v, "events")
      BY DEF Waits, Parked, Restores, Queued, MayRequest, Pending, PendingRouteStart,
         ResumeFlightOutstanding, Parks, StableBelow, Loaded
    <2>6. Paged(v)
      BY DEF Paged
    <2> QED
      BY <2>1, <2>2, <2>3, <2>4, <2>5, <2>6
  <1> QED
    BY <1>5, <1>6, <1>8

------------------------------------------------------------------------------
(* Requests of the pages.                                                   *)

\* Where a request for playback leaves the route.
Resolves(c, d) ==
    /\ d.phase = "Resolving" /\ d.serial = 0 /\ d.flight = 0 /\ d.last = c.last
    /\ d.serials = c.serials /\ d.attempts = c.attempts
    /\ c.phase = "Resolving" => d.under = c.under
    /\ c.phase = "Preparing" => d.under.phase = "Failed" /\ d.under.serial = c.serial
    /\ c.phase \notin Pending \cup {"Resolving"} =>
         d.under.phase = c.phase /\ d.under.serial = c.serial

\* begin_playback_request resolves with no flight and remembers what to fall back to;
\* a start that was being prepared falls back to its failure.
LEMMA RequestRoute ==
    ASSUME NEW c \in Route, MayRequest(c), NEW d, d = BeginPlaybackRequest(c)
    PROVE  Resolves(c, d)
  <1> DEFINE k == IF c.phase = "Resolving" THEN c.under
                  ELSE IF c.phase = "Preparing" THEN At("Failed", c.serial)
                  ELSE At(c.phase, c.serial)
             x == Enter(c, "Resolving", 0)
  <1>1. d = [x EXCEPT !.under = k, !.flight = 0]
    BY DEF BeginPlaybackRequest
  <1>2. /\ c.phase = "Resolving" => k = c.under
        /\ c.phase = "Preparing" => k.phase = "Failed" /\ k.serial = c.serial
        /\ c.phase \notin Pending \cup {"Resolving"} => k.phase = c.phase /\ k.serial = c.serial
    BY DEF At, Pending
  <1> HIDE DEF k
  <1>3. d = [c EXCEPT !.phase = "Resolving", !.serial = 0, !.attempt = 0, !.under = k, !.flight = 0]
    BY <1>1 DEF Enter
  <1>4. /\ d.phase = "Resolving" /\ d.serial = 0 /\ d.flight = 0 /\ d.last = c.last
        /\ d.serials = c.serials /\ d.attempts = c.attempts
        /\ d.under = k
    BY <1>3 DEF Route
  <1> QED
    BY <1>2, <1>4 DEF Resolves

\* What a request for a film comes to.
Filmed(w, v) ==
    /\ v \in Player /\ Good(v)
    /\ ~MayRequest(w.route) => v = w
    /\ MayRequest(w.route) =>
         /\ Resolves(w.route, v.route) /\ v.session.pend = "film" /\ ~v.session.as_preview
         /\ v.session.url = w.session.url /\ v.session.preview = w.session.preview /\ Playing(v)
         /\ v.screen.page = "Player" /\ v.screen.front = w.screen.front
         /\ v.preview = w.preview /\ v.held = w.held /\ v.engine = w.engine /\ v.mail = w.mail
         /\ v.slot = w.slot /\ v.adapter = w.adapter /\ v.fg = w.fg /\ v.exiting = w.exiting

\* request_play for a film: the route resolves, the page is the player and the clock
\* plays, or the route is busy and nothing happens.
LEMMA FilmFields ==
    ASSUME NEW w \in Player, Good(w), NEW v, v = RequestFilm(w)
    PROVE  Filmed(w, v)
  <1>1. v \in Player /\ Good(v)
    BY RequestFilmEnds, EndsTypes
  <1>2. CASE ~MayRequest(w.route)
    BY <1>1, <1>2 DEF RequestFilm, Filmed
  <1>3. CASE MayRequest(w.route)
    <2> DEFINE c == BeginPlaybackRequest(w.route)
               s == [w.session EXCEPT !.pend = "film", !.as_preview = FALSE, !.paused = FALSE,
                                      !.answered = FALSE]
               p == [w.screen EXCEPT !.page = "Player"]
    <2>1. v = [w EXCEPT !.route = c, !.session = s, !.screen = p, !.wish = "Playing"]
      BY <1>3 DEF RequestFilm
    <2>2. w.route \in Route /\ w.session \in Session /\ w.screen \in Screen
      BY PlayerFacts
    <2>3. Resolves(w.route, c)
      BY <1>3, <2>2, RequestRoute
    <2>4. /\ s.pend = "film" /\ ~s.as_preview /\ ~s.paused /\ s.url = w.session.url
          /\ s.preview = w.session.preview
          /\ p.page = "Player" /\ p.front = w.screen.front
      BY <2>2 DEF Session, Screen
    <2> HIDE DEF c, s, p
    <2>5. /\ v.route = c /\ v.session = s /\ v.screen = p /\ v.wish = "Playing"
          /\ v.preview = w.preview /\ v.held = w.held /\ v.engine = w.engine /\ v.mail = w.mail
          /\ v.slot = w.slot /\ v.adapter = w.adapter /\ v.fg = w.fg /\ v.exiting = w.exiting
      BY <2>1 DEF Player
    <2> QED
      BY <1>1, <1>3, <2>3, <2>4, <2>5 DEF Filmed, Playing
  <1> QED
    BY <1>2, <1>3

\* The guards under which a film is asked for.
MayFilm(w) ==
    /\ MayRequest(w.route) => Queued(w) = 0
    /\ w.fg.kind \in Parks =>
         w.screen.front \/ (w.fg.clock = "Playing" /\ w.fg.saved = "Playing")

\* A film's request keeps the player coherent.
LEMMA FilmWhole ==
    ASSUME NEW w, Whole(w, "asks"), MayFilm(w), ~Live(w), ~w.session.preview, ~w.held,
           NEW v, Filmed(w, v)
    PROVE  Whole(v, "asks")
  <1>2. CASE ~MayRequest(w.route)
    BY <1>2 DEF Filmed
  <1>3. CASE MayRequest(w.route)
    <2>1. w \in Player /\ Good(w) /\ w.fg \in Lifecycle /\ v \in Player /\ Good(v) /\ v.fg = w.fg
      BY <1>3 DEF Whole, Filmed
    <2>2. Typed(w) /\ Typed(v) /\ Queued(w) = 0 /\ Queued(v) = 0
      BY <1>3, <2>1, TypedFacts DEF MayFilm, Filmed, Queued
    <2>3. w.fg.kind # "LoadPending" /\ w.fg.kind # "RecoveryPending"
      BY <1>3, <2>2 DEF Whole, Coherent, Restores, Parked, MayRequest, Pending
    <2>4. Core(v) /\ Coherent(v, "asks")
      <3> USE <1>3, <2>1, <2>2, <2>3 DEF Filmed, Resolves, MayRequest, Whole, Coherent, Core,
         Live, Typed
      <3>1. Core(v)
        BY DEF Owned, OnRoute, IdleHeard, Heard, Playing, Pending
      <3>2. Numbered(v)
        BY DEF Numbered, Queued, Pending
      <3>3. Loaded(v)
        BY DEF Loaded, StableBelow, Pending
      <3>4. Asked(v, "asks")
        BY DEF Asked, Playing, Queued
      <3>5. Waits(v)
        BY DEF Waits, ResumeFlightOutstanding
      <3>6. Shown(v, "asks")
        BY DEF Shown, Playing, Loaded, StableBelow, Pending
      <3>7. Parked(v, "asks")
        BY DEF Parked, MayFilm, Playing, ResumeFlightOutstanding, Heard, Parks, Queued
      <3>8. Restores(v, "asks")
        BY DEF Restores
      <3>12. Paged(v)
        BY DEF Paged
      <3> QED
        BY <3>1, <3>2, <3>3, <3>4, <3>5, <3>6, <3>7, <3>8, <3>12
    <2> QED
      BY <2>1, <2>4 DEF Whole
  <1> QED
    BY <1>2, <1>3

\* request_preview from an idle preview on a page keeps the player coherent.
LEMMA RequestPreviewWhole ==
    ASSUME NEW w, Whole(w, "asks"), Front(w), w.screen.front, w.screen.page = "Browse",
           w.preview = "Idle", ~w.held, NEW v, v = RequestPreview(w)
    PROVE  Whole(v, "asks") /\ Front(v) /\ v.exiting = w.exiting
  <1>1. w \in Player /\ Good(w) /\ w.fg \in Lifecycle
    BY DEF Whole
  <1>2. CASE ~MayRequest(w.route)
    BY <1>2 DEF RequestPreview
  <1>3. CASE MayRequest(w.route)
    <2> DEFINE c == BeginPlaybackRequest(w.route)
               s == [w.session EXCEPT !.pend = "preview", !.answered = FALSE]
    <2>1. v = [w EXCEPT !.route = c, !.session = s, !.preview = "Fetching"]
      BY <1>3 DEF RequestPreview
    <2>2. w.route \in Route /\ w.session \in Session
      BY <1>1, PlayerFacts
    <2>3. Resolves(w.route, c)
      BY <1>3, <2>2, RequestRoute
    <2>4. /\ s.pend = "preview" /\ s.url = w.session.url /\ s.preview = w.session.preview
          /\ s.as_preview = w.session.as_preview /\ s.paused = w.session.paused
      BY <2>2 DEF Session
    <2> HIDE DEF c, s
    <2>5. /\ v.route = c /\ v.session = s /\ v.preview = "Fetching"
          /\ v.held = w.held /\ v.engine = w.engine /\ v.mail = w.mail /\ v.slot = w.slot
          /\ v.adapter = w.adapter /\ v.fg = w.fg /\ v.screen = w.screen
          /\ v.exiting = w.exiting /\ v.wish = w.wish
      BY <1>1, <2>1 DEF Player
    <2>6. v \in Player /\ Good(v)
      BY <1>1, RequestPreviewEnds, EndsTypes
    <2>7. Typed(w) /\ Typed(v)
      BY <1>1, <2>6, TypedFacts
    <2>8. /\ Resolves(w.route, v.route) /\ v.session.pend = "preview"
          /\ v.session.url = w.session.url /\ v.session.preview = w.session.preview
          /\ v.session.as_preview = w.session.as_preview /\ v.session.paused = w.session.paused
          /\ v.held = w.held /\ v.engine = w.engine /\ v.mail = w.mail /\ v.slot = w.slot
          /\ v.adapter = w.adapter /\ v.fg = w.fg /\ v.screen = w.screen
          /\ v.exiting = w.exiting /\ v.wish = w.wish
          /\ v.preview = "Fetching"
      BY <2>3, <2>4, <2>5
    <2>9. Playing(w) /\ Queued(w) = 0 /\ Playing(v) /\ Queued(v) = 0
      BY <1>3, <2>7, <2>8 DEF Whole, Coherent, Asked, Waits, Typed, Playing, Queued
    <2>10. w.fg.kind # "LoadPending" /\ w.fg.kind # "RecoveryPending"
      BY <1>3, <2>9 DEF Whole, Coherent, Restores, Parked
    <2>11. Core(v) /\ Coherent(v, "asks")
      <3> USE <1>1, <1>3, <2>6, <2>7, <2>8, <2>9, <2>10
          DEF Resolves, MayRequest, Whole, Coherent, Core, Live, Typed
      <3>1. Core(v)
        BY DEF Owned, OnRoute, IdleHeard, Heard, Playing, Pending
      <3>2. Numbered(v)
        BY DEF Numbered, Queued, Pending
      <3>3. Loaded(v)
        BY DEF Loaded, StableBelow, Pending
      <3>4. Asked(v, "asks")
        BY DEF Asked, Playing, Queued, Shown
      <3>5. Waits(v)
        BY DEF Waits, ResumeFlightOutstanding
      <3>6. Shown(v, "asks")
        BY DEF Shown, Playing, Loaded, StableBelow, Pending
      <3>7. Parked(v, "asks")
        BY DEF Parked, Playing, ResumeFlightOutstanding, Heard, Parks, Queued
      <3>8. Restores(v, "asks")
        BY DEF Restores
      <3>12. Paged(v)
        BY DEF Paged
      <3> QED
        BY <3>1, <3>2, <3>3, <3>4, <3>5, <3>6, <3>7, <3>8, <3>12
    <2> QED
      BY <1>1, <2>6, <2>8, <2>11 DEF Whole, Front
  <1> QED
    BY <1>2, <1>3

\* What a full stop comes to.
Cleared(w, v) ==
    /\ v \in Player /\ Good(v) /\ v.preview = w.preview /\ v.held = w.held /\ v.fg = w.fg
    /\ v.screen = w.screen /\ v.exiting = w.exiting
    /\ v.session.pend = w.session.pend /\ v.session.preview = w.session.preview
    /\ v.session.as_preview = w.session.as_preview /\ v.route.under = w.route.under
    /\ v.route.last = w.route.last
    /\ w.route.serials <= v.route.serials /\ w.route.attempts <= v.route.attempts
    /\ v.route.flight \in {0, w.route.flight} /\ Queued(v) = 0
    /\ \/ Live(w) /\ w.session.preview /\ ~Finished(w.engine) /\ v = w
       \/ /\ Live(w) => (w.session.preview => Finished(w.engine)) /\ v.engine = NoEngine
          /\ ~Live(w) => v.engine = w.engine
          /\ v.route.phase = "Idle" /\ ~v.session.url /\ Playing(v)

\* A full stop clears the player, unless a trailer's Load is still out.
LEMMA ClearFields ==
    ASSUME NEW w \in Player, Good(w), NEW e \in Chance, NEW v, v = Teardown(w, FALSE, e)
    PROVE  Cleared(w, v)
  <1> DEFINE b == FALSE
  <1>1. b \in BOOLEAN /\ ~b /\ v = Teardown(w, b, e)
    OBVIOUS
  <1> HIDE DEF b
  <1>2. Torn(w, v, b)
    BY <1>1, TeardownTorn
  <1> QED
    BY <1>1, <1>2 DEF Torn, Spares, Cleared, Queued, Playing

------------------------------------------------------------------------------
(* The film that is held under a trailer, and the retry.                    *)

\* The film waits for the trailer's Engine to go.
LEMMA HoldWhole ==
    ASSUME NEW w, NEW t \in {"requests", "asks"}, Whole(w, t), NEW v,
           v = [w EXCEPT !.held = TRUE],
           w.session.preview, Live(w), ~Finished(w.engine), w.preview = "Abandoning"
    PROVE  Whole(v, "asks") /\ v.fg = w.fg /\ v.screen = w.screen /\ v.exiting = w.exiting
  <1> DEFINE b == TRUE
  <1>2. b \in BOOLEAN /\ b /\ v = [w EXCEPT !.held = b] /\ w \in Player /\ Good(w)
    BY DEF Whole
  <1> HIDE DEF b
  <1>3. /\ v \in Player /\ Good(v) /\ v.held
        /\ v.route = w.route /\ v.session = w.session /\ v.preview = w.preview
        /\ v.engine = w.engine /\ v.mail = w.mail /\ v.slot = w.slot /\ v.adapter = w.adapter
        /\ v.fg = w.fg /\ v.screen = w.screen /\ v.exiting = w.exiting /\ v.wish = w.wish
    <2>1. /\ v \in Player /\ v.held = b
          /\ v.route = w.route /\ v.session = w.session /\ v.preview = w.preview
          /\ v.engine = w.engine /\ v.mail = w.mail /\ v.slot = w.slot /\ v.adapter = w.adapter
          /\ v.fg = w.fg /\ v.screen = w.screen /\ v.exiting = w.exiting /\ v.wish = w.wish
      BY <1>2 DEF Player
    <2> QED
      BY <1>2, <2>1, KeepsGood
  <1>4. Typed(w) /\ Typed(v) /\ w.fg \in Lifecycle
    BY <1>2, <1>3, TypedFacts DEF Whole
  <1>5. Queued(w) = 0 /\ w.engine.call # "ok" /\ Queued(v) = 0
    BY <1>2, <1>3 DEF Good, ObjectInv, Live, Queued, Finished
  <1>20. Core(v) /\ Coherent(v, "asks")
    <2> USE DEF Whole, Coherent, Core, Owned, OnRoute, IdleHeard, Numbered, Loaded, Asked, Waits,
       Shown, Parked, Restores, Paged, Typed, Live, Playing, Heard, ClockIs, Queued, Pending,
       StableBelow, MayRequest, PendingRouteStart, ResumeFlightOutstanding, Parks
    <2>1. Owned(v)
      BY <1>3, <1>4, <1>5
    <2>2. OnRoute(v)
      BY <1>3, <1>4, <1>5
    <2>3. IdleHeard(v)
      BY <1>3, <1>4, <1>5
    <2>4. Numbered(v)
      BY <1>3, <1>4, <1>5
    <2>5. Loaded(v)
      BY <1>3, <1>4, <1>5
    <2>6. Asked(v, "asks")
      BY <1>3, <1>4, <1>5
    <2>7. Waits(v)
      BY <1>3, <1>4, <1>5
    <2>8. Shown(v, "asks")
      BY <1>3, <1>4, <1>5
    <2>9. Parked(v, "asks")
      BY <1>3, <1>4, <1>5
    <2>10. Restores(v, "asks")
      BY <1>3, <1>4, <1>5
    <2>11. Paged(v)
      BY <1>3, <1>4, <1>5
    <2> QED
      BY <2>1, <2>2, <2>3, <2>4, <2>5, <2>6, <2>7, <2>8, <2>9, <2>10, <2>11
  <1> QED
    BY <1>3, <1>4, <1>20 DEF Whole

\* The held film is let go of where no trailer is installed.
LEMMA DropHeldWhole ==
    ASSUME NEW w, NEW t \in {"requests", "asks"}, Whole(w, t), NEW v,
           v = [w EXCEPT !.held = FALSE],
           ~w.session.preview
    PROVE  Whole(v, "asks") /\ v.route = w.route /\ v.adapter = w.adapter /\ v.fg = w.fg
             /\ v.screen = w.screen /\ v.exiting = w.exiting
             /\ v.engine = w.engine /\ v.session = w.session /\ ~v.held
  <1> DEFINE b == FALSE
  <1>2. b \in BOOLEAN /\ ~b /\ v = [w EXCEPT !.held = b] /\ w \in Player /\ Good(w)
    BY DEF Whole
  <1> HIDE DEF b
  <1>3. /\ v \in Player /\ Good(v) /\ ~v.held
        /\ v.route = w.route /\ v.session = w.session /\ v.preview = w.preview
        /\ v.engine = w.engine /\ v.mail = w.mail /\ v.slot = w.slot /\ v.adapter = w.adapter
        /\ v.fg = w.fg /\ v.screen = w.screen /\ v.exiting = w.exiting /\ v.wish = w.wish
    <2>1. /\ v \in Player /\ v.held = b
          /\ v.route = w.route /\ v.session = w.session /\ v.preview = w.preview
          /\ v.engine = w.engine /\ v.mail = w.mail /\ v.slot = w.slot /\ v.adapter = w.adapter
          /\ v.fg = w.fg /\ v.screen = w.screen /\ v.exiting = w.exiting /\ v.wish = w.wish
      BY <1>2 DEF Player
    <2> QED
      BY <1>2, <2>1, KeepsGood
  <1>4. Typed(w) /\ Typed(v) /\ w.fg \in Lifecycle
    BY <1>2, <1>3, TypedFacts DEF Whole
  <1>20. Core(v) /\ Coherent(v, "asks")
    <2> USE DEF Whole, Coherent, Core, Owned, OnRoute, IdleHeard, Numbered, Loaded, Asked, Waits,
       Shown, Parked, Restores, Paged, Typed, Live, Playing, Heard, ClockIs, Queued, Pending,
       StableBelow, MayRequest, PendingRouteStart, ResumeFlightOutstanding, Parks
    <2>1. Owned(v)
      BY <1>3, <1>4
    <2>2. OnRoute(v)
      BY <1>3, <1>4
    <2>3. IdleHeard(v)
      BY <1>3, <1>4
    <2>4. Numbered(v)
      BY <1>3, <1>4
    <2>5. Loaded(v)
      BY <1>3, <1>4
    <2>6. Asked(v, "asks")
      BY <1>3, <1>4
    <2>7. Waits(v)
      BY <1>3, <1>4
    <2>8. Shown(v, "asks")
      BY <1>3, <1>4
    <2>9. Parked(v, "asks")
      BY <1>3, <1>4
    <2>10. Restores(v, "asks")
      BY <1>3, <1>4
    <2>11. Paged(v)
      BY <1>3, <1>4
    <2> QED
      BY <2>1, <2>2, <2>3, <2>4, <2>5, <2>6, <2>7, <2>8, <2>9, <2>10, <2>11
  <1> QED
    BY <1>3, <1>4, <1>20 DEF Whole

\* clear_engine_for_play's stop of a film's Engine that is off the player page keeps
\* the player coherent.
LEMMA OrphanWhole ==
    ASSUME NEW w, NEW t \in {"requests", "asks"}, Whole(w, t), NEW v, Cleared(w, v),
           Live(w), ~w.session.preview, w.screen.page # "Player"
    PROVE  Whole(v, t)
  <1>1. /\ w \in Player /\ Good(w) /\ w.fg \in Lifecycle /\ Typed(w)
        /\ v \in Player /\ Good(v) /\ v.fg \in Lifecycle /\ Typed(v)
    BY TypedFacts DEF Whole, Cleared
  <1>2. w.fg.kind = "Idle" /\ v.engine = NoEngine /\ NoEngine.attempt = 0
        /\ NoEngine.call = "none" /\ ~NoEngine.failed /\ ~NoEngine.dead
    BY <1>1 DEF Whole, Coherent, Restores, Parked, Parks, Lifecycle, Kinds, Cleared, NoEngine
  <1>20. Core(v) /\ Coherent(v, t)
    <2> USE DEF Whole, Coherent, Core, Owned, OnRoute, IdleHeard, Numbered, Loaded, Asked, Waits,
       Shown, Parked, Restores, Paged, Typed, Live, Playing, Heard, ClockIs, Queued, Pending,
       StableBelow, MayRequest, PendingRouteStart, ResumeFlightOutstanding, Parks
    <2>1. Owned(v)
      BY <1>1, <1>2 DEF Cleared
    <2>2. OnRoute(v)
      BY <1>1, <1>2 DEF Cleared
    <2>3. IdleHeard(v)
      BY <1>1, <1>2 DEF Cleared
    <2>4. Numbered(v)
      BY <1>1, <1>2 DEF Cleared
    <2>5. Loaded(v)
      BY <1>1, <1>2 DEF Cleared
    <2>6. Asked(v, t)
      BY <1>1, <1>2 DEF Cleared
    <2>7. Waits(v)
      BY <1>1, <1>2 DEF Cleared
    <2>8. Shown(v, t)
      BY <1>1, <1>2 DEF Cleared
    <2>9. Parked(v, t)
      BY <1>1, <1>2 DEF Cleared
    <2>10. Restores(v, t)
      BY <1>1, <1>2 DEF Cleared
    <2>11. Paged(v)
      BY <1>1, <1>2 DEF Cleared
    <2> QED
      BY <2>1, <2>2, <2>3, <2>4, <2>5, <2>6, <2>7, <2>8, <2>9, <2>10, <2>11
  <1> QED
    BY <1>1, <1>20 DEF Whole

\* A film asked for while a trailer plays is held or asked for at once; either way the
\* player stays coherent.
LEMMA HeldOrNowWhole ==
    ASSUME NEW w, NEW t \in {"requests", "asks"}, Whole(w, t), MayFilm(w), NEW e \in Chance,
           w.screen.page = "Browse", NEW v, v = PlayHeldOrNow(w, e)
    PROVE  Whole(v, "asks") /\ v.fg = w.fg /\ v.screen.front = w.screen.front
             /\ v.exiting = w.exiting
  <1> DEFINE x == Halt(w, e)
             o == Live(x) /\ ~x.session.preview /\ x.screen.page # "Player"
             y == IF o THEN Teardown(x, FALSE, e) ELSE x
             z == [y EXCEPT !.held = FALSE]
  <1>1. v = PlayHalted(x, e) /\ w \in Player /\ Good(w)
    BY DEF PlayHeldOrNow, Whole
  <1>2. Halted(w, x)
    BY <1>1, HaltFields
  <1>3. Whole(x, t) /\ x.fg = w.fg /\ x.screen = w.screen /\ x.exiting = w.exiting
    BY <1>2, HaltWhole DEF Halted
  <1>4. MayFilm(x)
    BY <1>2, <1>3 DEF MayFilm, Halted, Queued
  <1>5. v = IF x.preview # "Idle" THEN [x EXCEPT !.held = TRUE] ELSE RequestFilm(z)
    BY <1>1 DEF PlayHalted
  <1>6. /\ x.preview # "Idle" => x.session.preview /\ Live(x) /\ ~Finished(x.engine)
             /\ x.preview = "Abandoning"
        /\ x.preview = "Idle" => ~x.session.preview
    BY <1>2 DEF Halted, Live
  <1> HIDE DEF x
  <1>7. CASE x.preview # "Idle"
    <2>1. v = [x EXCEPT !.held = TRUE]
      BY <1>5, <1>7
    <2> QED
      BY <1>3, <1>6, <1>7, <2>1, HoldWhole
  <1>8. CASE x.preview = "Idle"
    <2>1. v = RequestFilm(z)
      BY <1>5, <1>8
    <2>2. /\ Whole(y, t) /\ ~y.session.preview /\ y.fg = w.fg /\ y.screen = w.screen
          /\ y.exiting = w.exiting /\ MayFilm(y) /\ ~Live(y)
      <3>1. CASE ~o
        BY <1>3, <1>4, <1>6, <1>8, <3>1
      <3>2. CASE o
        <4>1. x \in Player /\ Good(x) /\ y = Teardown(x, FALSE, e)
          BY <1>3, <3>2 DEF Whole
        <4>2. Cleared(x, y)
          BY <4>1, ClearFields
        <4>3. Live(x) /\ ~x.session.preview /\ x.screen.page # "Player"
          BY <3>2
        <4> HIDE DEF o, y
        <4>4. Whole(y, t)
          BY <1>3, <4>2, <4>3, OrphanWhole
        <4> QED
          BY <1>3, <1>4, <4>2, <4>3, <4>4 DEF Cleared, MayFilm, Live, NoEngine
      <3> QED
        BY <3>1, <3>2
    <2>3. z = [y EXCEPT !.held = FALSE]
      OBVIOUS
    <2> HIDE DEF y, z, o
    <2>4. /\ Whole(z, "asks") /\ z.route = y.route /\ z.adapter = y.adapter /\ z.fg = y.fg
          /\ z.screen = y.screen /\ z.exiting = y.exiting
          /\ z.engine = y.engine /\ z.session = y.session /\ ~z.held
      BY <2>2, <2>3, DropHeldWhole
    <2>5. MayFilm(z) /\ z \in Player /\ Good(z) /\ ~Live(z) /\ ~z.session.preview
      BY <2>2, <2>4 DEF MayFilm, Queued, Whole, Live
    <2>6. Filmed(z, v)
      BY <2>1, <2>5, FilmFields
    <2>7. Whole(v, "asks")
      BY <2>4, <2>5, <2>6, FilmWhole
    <2> QED
      BY <2>2, <2>4, <2>6, <2>7 DEF Filmed
  <1> QED
    BY <1>7, <1>8

\* The page's request for a film keeps the player coherent.
LEMMA PlayFilmWhole ==
    ASSUME NEW w, Whole(w, "asks"), Front(w), w.screen.front, w.screen.page = "Browse",
           NEW e \in Chance, NEW v, v = PlayHeldOrNow(w, e)
    PROVE  Whole(v, "asks") /\ Front(v) /\ v.exiting = w.exiting
  <1>1. MayFilm(w)
    BY DEF MayFilm, Whole, Coherent, Waits
  <1>2. "asks" \in {"requests", "asks"}
    OBVIOUS
  <1> QED
    BY <1>1, <1>2, HeldOrNowWhole DEF Front

\* halt_preview_off_its_page, where no film is held, keeps the player coherent.
LEMMA OffPageWhole ==
    ASSUME NEW w, Whole(w, "requests"), ~w.held, NEW e \in Chance, NEW v, v = HaltOffPage(w, e)
    PROVE  Whole(v, "asks")
  <1>1. w \in Player /\ Good(w) /\ w.fg \in Lifecycle
    BY DEF Whole
  <1>2. CASE v = Halt(w, e)
    <2>1. Halted(w, v)
      BY <1>1, <1>2, HaltFields
    <2>2. Whole(v, "requests") /\ ~v.held
      BY <2>1, HaltWhole DEF Halted
    <2>3. v.session.preview => v.preview # "Idle"
      BY <2>1 DEF Halted, Live
    <2> QED
      BY <2>2, <2>3 DEF Whole, Coherent, Asked, Shown, Parked, Restores
  <1>3. CASE v = w /\ ~((w.preview # "Idle" \/ w.session.preview) /\ w.preview # "Abandoning"
                        /\ w.screen.page = "Player")
    BY <1>1, <1>3 DEF Whole, Coherent, Asked, Shown, Parked, Restores
  <1> QED
    BY <1>2, <1>3 DEF HaltOffPage

\* content_requests keeps the player coherent: the held film is asked for only once
\* the trailer's Engine has gone.
LEMMA RequestsWhole ==
    ASSUME NEW w, Whole(w, "requests"), Front(w), NEW e \in Chance, NEW v,
           v = ContentRequests(w, e)
    PROVE  Whole(v, "asks") /\ Front(v) /\ v.exiting = w.exiting
  <1> DEFINE x == HaltOffPage(w, e)
  <1>1. w \in Player /\ Good(w) /\ w.fg \in Lifecycle
    BY DEF Whole
  <1>2. /\ Whole(x, "requests") /\ x.held = w.held /\ x.fg = w.fg /\ x.screen = w.screen
        /\ x.exiting = w.exiting
    <2>1. CASE x = w
      BY <2>1
    <2>2. CASE x = Halt(w, e)
      <3>1. Halted(w, x)
        BY <1>1, <2>2, HaltFields
      <3> QED
        BY <3>1, HaltWhole DEF Halted
    <2> QED
      BY <2>1, <2>2 DEF HaltOffPage
  <1>3. CASE ~w.held
    <2>1. v = x
      BY <1>2, <1>3 DEF ContentRequests, DrainHeld
    <2> QED
      BY <1>2, <1>3, <2>1, OffPageWhole DEF Front
  <1>4. CASE w.held
    <2>1. v = PlayHeldOrNow(x, e)
      BY <1>2, <1>4 DEF ContentRequests, DrainHeld
    <2>2. MayFilm(x) /\ x.screen.page = "Browse"
      BY <1>2, <1>4 DEF MayFilm, Whole, Coherent, Waits, Parked, Paged, Parks
    <2>3. "requests" \in {"requests", "asks"}
      OBVIOUS
    <2> HIDE DEF x
    <2>4. /\ Whole(v, "asks") /\ v.fg = x.fg /\ v.screen.front = x.screen.front
          /\ v.exiting = x.exiting
      BY <1>2, <2>1, <2>2, <2>3, HeldOrNowWhole
    <2> QED
      BY <1>2, <2>4 DEF Front
  <1> QED
    BY <1>3, <1>4

\* A retry asks for the film again once the failed one is stopped.
LEMMA RetriedWhole ==
    ASSUME NEW w, Whole(w, "asks"), w.route.phase = "Failed", w.session.pend = "none",
           w.screen.page = "Player", w.screen.front, NEW x, Cleared(w, x), NEW v, Filmed(x, v)
    PROVE  Whole(v, "asks")
  <1>2. CASE x = w
    <2>1. ~w.session.preview
      BY DEF Whole, Coherent, Paged
    <2> QED
      BY <1>2, <2>1 DEF Cleared
  <1>3. CASE x # w
    <2>2. /\ w \in Player /\ Good(w) /\ w.fg \in Lifecycle /\ Typed(w) /\ x \in Player
          /\ v \in Player /\ Good(v) /\ Typed(v) /\ MayRequest(x.route) /\ Typed(x)
      BY <1>3, TypedFacts DEF Whole, Cleared, Filmed, MayRequest, Pending
    <2>3. w.fg.kind # "LoadPending" /\ ~Live(v) /\ w.fg.kind # "RecoveryPending"
      BY <1>3, <2>2 DEF Cleared, Filmed, NoEngine, Live, Whole, Coherent, Restores, Parked,
         PendingRouteStart, Pending
    <2>4. v.engine.call = "none" /\ ~v.engine.failed /\ ~v.engine.dead /\ v.fg \in Lifecycle
      BY <1>3, <2>2, <2>3 DEF Cleared, Filmed, NoEngine, Live, Whole, Coherent, Loaded, Good,
         ObjectInv
    <2>1. Core(v) /\ Coherent(v, "asks")
      <3> USE DEF Whole, Coherent, Core, Owned, OnRoute, IdleHeard, Numbered, Loaded, Asked,
         Waits, Shown, Parked, Restores, Paged, Typed, Live, Playing, Heard, ClockIs, Queued, Pending,
         StableBelow, MayRequest, PendingRouteStart, ResumeFlightOutstanding, Parks
      <3>1. Owned(v)
        BY <1>3, <2>2, <2>3, <2>4 DEF Cleared, Filmed, Resolves
      <3>2. OnRoute(v)
        BY <1>3, <2>2, <2>3, <2>4 DEF Cleared, Filmed, Resolves
      <3>3. IdleHeard(v)
        BY <1>3, <2>2, <2>3, <2>4 DEF Cleared, Filmed, Resolves
      <3>4. Numbered(v)
        BY <1>3, <2>2, <2>3, <2>4 DEF Cleared, Filmed, Resolves
      <3>5. Loaded(v)
        BY <1>3, <2>2, <2>3, <2>4 DEF Cleared, Filmed, Resolves
      <3>6. Asked(v, "asks")
        BY <1>3, <2>2, <2>3, <2>4 DEF Cleared, Filmed, Resolves
      <3>7. Waits(v)
        BY <1>3, <2>2, <2>3, <2>4 DEF Cleared, Filmed, Resolves
      <3>8. Shown(v, "asks")
        BY <1>3, <2>2, <2>3, <2>4 DEF Cleared, Filmed, Resolves
      <3>9. Parked(v, "asks")
        BY <1>3, <2>2, <2>3, <2>4 DEF Cleared, Filmed, Resolves
      <3>10. Restores(v, "asks")
        BY <1>3, <2>2, <2>3, <2>4 DEF Cleared, Filmed, Resolves
      <3>11. Paged(v)
        BY <1>3, <2>2, <2>3, <2>4 DEF Cleared, Filmed, Resolves
      <3> QED
        BY <3>1, <3>2, <3>3, <3>4, <3>5, <3>6, <3>7, <3>8, <3>9, <3>10, <3>11
    <2> QED
      BY <2>1, <2>2, <2>4 DEF Whole
  <1> QED
    BY <1>2, <1>3

\* retry_failed_playback keeps the player coherent.
LEMMA RetryWhole ==
    ASSUME NEW w, Whole(w, "asks"), Front(w), w.screen.front, w.route.phase = "Failed",
           w.session.pend = "none", w.screen.page = "Player", NEW e \in Chance,
           NEW v, v = RequestFilm(Teardown(w, FALSE, e))
    PROVE  Whole(v, "asks") /\ Front(v) /\ v.exiting = w.exiting
  <1> DEFINE x == Teardown(w, FALSE, e)
  <1>1. w \in Player /\ Good(w) /\ v = RequestFilm(x)
    BY DEF Whole
  <1>2. Cleared(w, x)
    BY <1>1, ClearFields
  <1> HIDE DEF x
  <1>4. x \in Player /\ Good(x)
    BY <1>2 DEF Cleared
  <1>5. Filmed(x, v)
    BY <1>1, <1>4, FilmFields
  <1>6. Whole(v, "asks")
    BY <1>2, <1>5, RetriedWhole
  <1> QED
    BY <1>2, <1>5, <1>6 DEF Filmed, Cleared, Front

------------------------------------------------------------------------------
(* Leaving the player, and the end of a trailer.                            *)

\* What leaving the player comes to.
LeftPlayer(w, v) ==
    /\ v \in Player /\ Good(v) /\ v.fg \in Lifecycle /\ v.fg.kind = "Idle"
    /\ v.screen.page = "Browse" /\ v.preview = w.preview /\ v.held = w.held
    /\ v.exiting = w.exiting
    /\ v.session.pend = "none" /\ v.session.preview = w.session.preview
    /\ v.session.as_preview = w.session.as_preview
    /\ w.route.serials <= v.route.serials /\ w.route.attempts <= v.route.attempts
    /\ v.route.flight \in {0, w.route.flight} /\ v.route.last = w.route.last /\ Queued(v) = 0
    /\ \/ /\ Live(w) /\ w.session.preview /\ ~Finished(w.engine) /\ Cancels(w.route, v.route)
          /\ v.engine = w.engine /\ v.mail = w.mail /\ v.adapter = w.adapter /\ v.wish = w.wish
          /\ v.session.paused = w.session.paused /\ v.session.url = w.session.url
       \/ /\ v.route.phase = "Idle" /\ ~v.session.url /\ Playing(v)
          /\ v.route.under \in {w.route.under, NoFallback}
          /\ v.engine = NoEngine \/ (~Live(w) /\ v.engine = w.engine)

\* A change of page leaves every other part of the player as it was.
LEMMA SetPageFields ==
    ASSUME NEW w \in Player, Good(w), NEW p \in {"Browse", "Player"},
           NEW v, v = [w EXCEPT !.screen.page = p]
    PROVE  /\ v \in Player /\ Good(v) /\ v.screen.page = p /\ v.screen.front = w.screen.front
           /\ v.route = w.route /\ v.session = w.session /\ v.preview = w.preview
           /\ v.held = w.held /\ v.engine = w.engine /\ v.mail = w.mail /\ v.slot = w.slot
           /\ v.adapter = w.adapter /\ v.fg = w.fg /\ v.exiting = w.exiting /\ v.wish = w.wish
  <1> DEFINE s == [w.screen EXCEPT !.page = p]
  <1>1. s \in Screen /\ s.page = p /\ s.front = w.screen.front /\ v = [w EXCEPT !.screen = s]
    BY PlayerFacts DEF Screen
  <1> HIDE DEF s
  <1>2. /\ v \in Player /\ v.screen = s
        /\ v.route = w.route /\ v.session = w.session /\ v.preview = w.preview
        /\ v.held = w.held /\ v.engine = w.engine /\ v.mail = w.mail /\ v.slot = w.slot
        /\ v.adapter = w.adapter /\ v.fg = w.fg /\ v.exiting = w.exiting /\ v.wish = w.wish
    BY <1>1 DEF Player
  <1> QED
    BY <1>1, <1>2, KeepsGood

\* The steps of exit_player put together: the request is taken back, the player
\* cleared, the page changed.
LEMMA ExitParts ==
    ASSUME NEW w \in Player, NEW y \in Player, NEW z \in Player, NEW v \in Player, Good(v),
           Cancels(w.route, y.route),
           w.route.serials <= y.route.serials, w.route.attempts <= y.route.attempts,
           y.preview = w.preview /\ y.held = w.held /\ y.engine = w.engine /\ y.mail = w.mail
             /\ y.adapter = w.adapter /\ y.exiting = w.exiting /\ y.wish = w.wish,
           y.fg \in Lifecycle, y.fg.kind = "Idle",
           y.session.pend = "none", y.session.url = w.session.url
             /\ y.session.preview = w.session.preview
             /\ y.session.as_preview = w.session.as_preview
             /\ y.session.paused = w.session.paused,
           Cleared(y, z), v.screen.page = "Browse",
           v.route = z.route /\ v.session = z.session /\ v.preview = z.preview
             /\ v.held = z.held /\ v.engine = z.engine /\ v.mail = z.mail
             /\ v.adapter = z.adapter /\ v.fg = z.fg /\ v.exiting = z.exiting /\ v.wish = z.wish
    PROVE  LeftPlayer(w, v)
  <1>9. /\ w.route.serials \in Nat /\ y.route.serials \in Nat /\ z.route.serials \in Nat
        /\ w.route.attempts \in Nat /\ y.route.attempts \in Nat /\ z.route.attempts \in Nat
    BY NativeFacts
  <1>10. /\ y.route.under \in {w.route.under, NoFallback}
         /\ y.route.flight = w.route.flight /\ y.route.last = w.route.last
    BY DEF Cancels
  <1>11. /\ z.route.under = y.route.under /\ z.route.last = y.route.last
         /\ z.route.flight \in {0, y.route.flight}
         /\ y.route.serials <= z.route.serials /\ y.route.attempts <= z.route.attempts
         /\ z.preview = y.preview /\ z.held = y.held /\ z.fg = y.fg /\ z.exiting = y.exiting
         /\ Queued(z) = 0
         /\ z.session.pend = y.session.pend /\ z.session.preview = y.session.preview
         /\ z.session.as_preview = y.session.as_preview
    BY DEF Cleared
  <1>12. w.route.serials <= v.route.serials /\ w.route.attempts <= v.route.attempts
    BY <1>9, <1>11
  <1>13. /\ v \in Player /\ Good(v) /\ v.fg \in Lifecycle /\ v.fg.kind = "Idle"
         /\ v.screen.page = "Browse" /\ v.preview = w.preview /\ v.held = w.held
         /\ v.exiting = w.exiting
         /\ v.session.pend = "none" /\ v.session.preview = w.session.preview
         /\ v.session.as_preview = w.session.as_preview
         /\ v.route.flight \in {0, w.route.flight} /\ v.route.last = w.route.last /\ Queued(v) = 0
    BY <1>10, <1>11 DEF Queued
  <1>14. CASE Live(y) /\ y.session.preview /\ ~Finished(y.engine) /\ z = y
    BY <1>10, <1>12, <1>13, <1>14 DEF LeftPlayer, Live
  <1>15. CASE /\ Live(y) => (y.session.preview => Finished(y.engine)) /\ z.engine = NoEngine
              /\ ~Live(y) => z.engine = y.engine
              /\ z.route.phase = "Idle" /\ ~z.session.url /\ Playing(z)
    BY <1>10, <1>11, <1>12, <1>13, <1>15 DEF LeftPlayer, Live, Playing
  <1> QED
    BY <1>14, <1>15 DEF Cleared

\* exit_player leaves nothing queued, no request and no restore; only a trailer whose
\* Load is out keeps its Engine.
LEMMA ExitFields ==
    ASSUME NEW w \in Player, Good(w), w.fg \in Lifecycle, NEW e \in Chance, NEW v,
           v = [Teardown(CancelPlay([w EXCEPT !.fg = Supersede(@, TRUE)]), FALSE, e)
                 EXCEPT !.screen.page = "Browse"]
    PROVE  LeftPlayer(w, v)
  <1> DEFINE f == Supersede(w.fg, TRUE)
             x == [w EXCEPT !.fg = f]
             y == CancelPlay(x)
             z == Teardown(y, FALSE, e)
             p == "Browse"
  <1>1. f \in Lifecycle /\ f \in Machine /\ f.kind = "Idle"
    <2>1. TRUE \in BOOLEAN
      OBVIOUS
    <2>2. f.kind = "Idle"
      BY UnowedFacts DEF Supersede
    <2> QED
      BY <2>1, <2>2, EndingFacts, LifecycleMachine
  <1>2. v = [z EXCEPT !.screen.page = p] /\ p = "Browse" /\ p \in {"Browse", "Player"}
    OBVIOUS
  <1> HIDE DEF f, p
  <1>3. /\ x \in Player /\ Good(x) /\ x.fg = f
        /\ x.route = w.route /\ x.session = w.session /\ x.preview = w.preview
        /\ x.held = w.held /\ x.engine = w.engine /\ x.mail = w.mail /\ x.adapter = w.adapter
        /\ x.screen = w.screen /\ x.slot = w.slot /\ x.exiting = w.exiting /\ x.wish = w.wish
    BY <1>1, SetFgFields
  <1>4. y = CancelPlay(x)
    OBVIOUS
  <1> HIDE DEF x, y
  <1>5. /\ y \in Player /\ Good(y) /\ Cancels(x.route, y.route)
        /\ x.route.serials <= y.route.serials /\ x.route.attempts <= y.route.attempts
        /\ y.preview = x.preview /\ y.held = x.held /\ y.engine = x.engine /\ y.mail = x.mail
        /\ y.adapter = x.adapter /\ y.fg = x.fg /\ y.screen = x.screen /\ y.exiting = x.exiting
        /\ y.wish = x.wish
        /\ y.session.pend = "none" /\ y.session.url = x.session.url
        /\ y.session.preview = x.session.preview /\ y.session.as_preview = x.session.as_preview
        /\ y.session.paused = x.session.paused
    BY <1>3, <1>4, CancelPlayFields
  <1>6. Cleared(y, z)
    BY <1>5, ClearFields
  <1> HIDE DEF z
  <1>7. z \in Player /\ Good(z)
    BY <1>6 DEF Cleared
  <1>8. /\ v \in Player /\ Good(v) /\ v.screen.page = p /\ v.screen.front = z.screen.front
        /\ v.route = z.route /\ v.session = z.session /\ v.preview = z.preview
        /\ v.held = z.held /\ v.engine = z.engine /\ v.mail = z.mail /\ v.slot = z.slot
        /\ v.adapter = z.adapter /\ v.fg = z.fg /\ v.exiting = z.exiting /\ v.wish = z.wish
    <2> DEFINE s == [z.screen EXCEPT !.page = p]
    <2>1. s \in Screen /\ s.page = p /\ s.front = z.screen.front /\ v = [z EXCEPT !.screen = s]
      BY <1>2, <1>7, PlayerFacts DEF Screen
    <2> HIDE DEF s
    <2>2. /\ v \in Player /\ v.screen = s
          /\ v.route = z.route /\ v.session = z.session /\ v.preview = z.preview
          /\ v.held = z.held /\ v.engine = z.engine /\ v.mail = z.mail /\ v.slot = z.slot
          /\ v.adapter = z.adapter /\ v.fg = z.fg /\ v.exiting = z.exiting /\ v.wish = z.wish
      BY <1>7, <2>1 DEF Player
    <2> QED
      BY <1>7, <2>1, <2>2, KeepsGood
  <1>9. Cancels(w.route, y.route)
    BY <1>3, <1>5
  <1>10. /\ y.preview = w.preview /\ y.held = w.held /\ y.engine = w.engine /\ y.mail = w.mail
         /\ y.adapter = w.adapter /\ y.exiting = w.exiting /\ y.wish = w.wish /\ y.fg = f
         /\ w.route.serials <= y.route.serials /\ w.route.attempts <= y.route.attempts
         /\ y.session.pend = "none" /\ y.session.url = w.session.url
         /\ y.session.preview = w.session.preview /\ y.session.as_preview = w.session.as_preview
         /\ y.session.paused = w.session.paused
    BY <1>3, <1>5
  <1> QED
    BY <1>1, <1>2, <1>5, <1>6, <1>7, <1>8, <1>9, <1>10, ExitParts, ZenonT(30)

\* Leaving the player keeps the player coherent: no film's Engine stays behind on
\* another page.
LEMMA ExitWhole ==
    ASSUME NEW w, Whole(w, "asks"), NEW v, LeftPlayer(w, v)
    PROVE  Whole(v, "asks") /\ Front(v)
  <1>1. /\ w \in Player /\ Good(w) /\ w.fg \in Lifecycle /\ Typed(w)
        /\ v \in Player /\ Good(v) /\ v.fg \in Lifecycle /\ Typed(v)
    BY TypedFacts DEF Whole, LeftPlayer
  <1>2. Live(v) \/ (v.engine.call = "none" /\ ~v.engine.failed /\ ~v.engine.dead)
    BY <1>1 DEF LeftPlayer, NoEngine, Live, Whole, Coherent, Loaded, Good, ObjectInv
  <1>3. Live(v) => /\ Live(w) /\ w.session.preview /\ ~Finished(w.engine)
                   /\ Cancels(w.route, v.route)
                   /\ v.engine = w.engine /\ v.mail = w.mail /\ v.adapter = w.adapter
                   /\ v.wish = w.wish /\ v.session.paused = w.session.paused
                   /\ v.session.url = w.session.url
    BY <1>1 DEF LeftPlayer, NoEngine, Live
  <1>4. CASE ~Live(v)
    <2>3. v.route.phase # "Starting"
      BY <1>1, <1>4 DEF Whole, Core, Owned, LeftPlayer, Live, Cancels
    <2>1. Core(v) /\ Coherent(v, "asks")
      <3> USE DEF Whole, Coherent, Core, Owned, OnRoute, IdleHeard, Numbered, Loaded, Asked,
         Waits, Shown, Parked, Restores, Paged, Typed, Live, Playing, Heard, ClockIs, Queued, Pending,
         StableBelow, MayRequest, PendingRouteStart, ResumeFlightOutstanding, Parks
      <3>1. Owned(v)
        BY <1>1, <1>2, <1>4, <2>3 DEF LeftPlayer, Cancels
      <3>2. OnRoute(v)
        BY <1>1, <1>2, <1>4, <2>3 DEF LeftPlayer, Cancels
      <3>3. IdleHeard(v)
        BY <1>1, <1>2, <1>4, <2>3 DEF LeftPlayer, Cancels
      <3>4. Numbered(v)
        BY <1>1, <1>2, <1>4, <2>3 DEF LeftPlayer, Cancels
      <3>5. Loaded(v)
        BY <1>1, <1>2, <1>4, <2>3 DEF LeftPlayer, Cancels
      <3>6. Asked(v, "asks")
        BY <1>1, <1>2, <1>4, <2>3 DEF LeftPlayer, Cancels
      <3>7. Waits(v)
        BY <1>1, <1>2, <1>4, <2>3 DEF LeftPlayer, Cancels
      <3>8. Shown(v, "asks")
        BY <1>1, <1>2, <1>4, <2>3 DEF LeftPlayer, Cancels
      <3>9. Parked(v, "asks")
        BY <1>1, <1>2, <1>4, <2>3 DEF LeftPlayer, Cancels
      <3>10. Restores(v, "asks")
        BY <1>1, <1>2, <1>4, <2>3 DEF LeftPlayer, Cancels
      <3>11. Paged(v)
        BY <1>1, <1>2, <1>4, <2>3 DEF LeftPlayer, Cancels
      <3> QED
        BY <3>1, <3>2, <3>3, <3>4, <3>5, <3>6, <3>7, <3>8, <3>9, <3>10, <3>11
    <2> QED
      BY <1>1, <2>1 DEF Whole, LeftPlayer, Front
  <1>5. CASE Live(v)
    <2>2. w.engine.call # "ok"
      BY <1>3, <1>5 DEF Finished
    <2>1. Core(v) /\ Coherent(v, "asks")
      <3> USE DEF Whole, Coherent, Core, Owned, OnRoute, IdleHeard, Numbered, Loaded, Asked,
         Waits, Shown, Parked, Restores, Paged, Typed, Live, Playing, Heard, ClockIs, Queued, Pending,
         StableBelow, MayRequest, PendingRouteStart, ResumeFlightOutstanding, Parks
      <3>1. Owned(v)
        BY <1>1, <1>2, <1>3, <1>5, <2>2 DEF LeftPlayer, Cancels
      <3>2. OnRoute(v)
        BY <1>1, <1>2, <1>3, <1>5, <2>2 DEF LeftPlayer, Cancels
      <3>3. IdleHeard(v)
        BY <1>1, <1>2, <1>3, <1>5, <2>2 DEF LeftPlayer, Cancels
      <3>4. Numbered(v)
        BY <1>1, <1>2, <1>3, <1>5, <2>2 DEF LeftPlayer, Cancels
      <3>5. Loaded(v)
        BY <1>1, <1>2, <1>3, <1>5, <2>2 DEF LeftPlayer, Cancels
      <3>6. Asked(v, "asks")
        BY <1>1, <1>2, <1>3, <1>5, <2>2 DEF LeftPlayer, Cancels
      <3>7. Waits(v)
        BY <1>1, <1>2, <1>3, <1>5, <2>2 DEF LeftPlayer, Cancels
      <3>8. Shown(v, "asks")
        BY <1>1, <1>2, <1>3, <1>5, <2>2 DEF LeftPlayer, Cancels
      <3>9. Parked(v, "asks")
        BY <1>1, <1>2, <1>3, <1>5, <2>2 DEF LeftPlayer, Cancels
      <3>10. Restores(v, "asks")
        BY <1>1, <1>2, <1>3, <1>5, <2>2 DEF LeftPlayer, Cancels
      <3>11. Paged(v)
        BY <1>1, <1>2, <1>3, <1>5, <2>2 DEF LeftPlayer, Cancels
      <3> QED
        BY <3>1, <3>2, <3>3, <3>4, <3>5, <3>6, <3>7, <3>8, <3>9, <3>10, <3>11
    <2> QED
      BY <1>1, <2>1 DEF Whole, LeftPlayer, Front
  <1> QED
    BY <1>4, <1>5

\* What retiring whatever plays comes to.
Retires(w, v) ==
    /\ v \in Player /\ Good(v) /\ v.held = w.held /\ v.fg = w.fg /\ v.screen = w.screen
    /\ v.exiting = w.exiting
    /\ v.session.pend = w.session.pend /\ v.session.as_preview = w.session.as_preview
    /\ v.route.under = w.route.under /\ v.route.last = w.route.last
    /\ w.route.serials <= v.route.serials /\ w.route.attempts <= v.route.attempts
    /\ v.route.flight \in {0, w.route.flight}
    /\ \/ /\ v.route = w.route /\ v.engine = w.engine /\ v.mail = w.mail
          /\ v.adapter = w.adapter /\ v.wish = w.wish /\ v.session.url = w.session.url
          /\ v.session.paused = w.session.paused
          /\ \/ ~Live(w) /\ ~v.session.preview /\ v.preview = "Idle"
             \/ Live(w) /\ ~Finished(w.engine) /\ w.session.preview /\ v.session.preview
                /\ v.preview = "Abandoning"
       \/ /\ Live(w) /\ v.engine = NoEngine /\ v.route.phase = "Idle" /\ Queued(v) = 0
          /\ ~v.session.url /\ Playing(v) /\ v.preview = "Idle" /\ ~v.session.preview

\* retire, of a trailer or of whatever Engine is installed.
LEMMA RetireAny ==
    ASSUME NEW w \in Player, Good(w), NEW e \in Chance, NEW v, v = Retire(w, e)
    PROVE  Retires(w, v)
  <1> DEFINE x == Teardown(w, FALSE, e)
  <1>0. w.route.serials \in Nat /\ w.route.attempts \in Nat
    BY NativeFacts
  <1>1. CASE ~Live(w)
    <2>1. v = Retired(w)
      BY <1>1 DEF Retire
    <2> QED
      BY <1>0, <1>1, <2>1, RetiredFields DEF Retires
  <1>2. CASE Live(w)
    <2>1. v = Retired(x)
      BY <1>2 DEF Retire
    <2>2. Cleared(w, x)
      BY ClearFields
    <2> HIDE DEF x
    <2>3. x \in Player /\ Good(x)
      BY <2>2 DEF Cleared
    <2>4. /\ v \in Player /\ Good(v)
          /\ v.held = x.held /\ v.fg = x.fg /\ v.screen = x.screen /\ v.exiting = x.exiting
          /\ v.route = x.route /\ v.engine = x.engine /\ v.mail = x.mail
          /\ v.adapter = x.adapter /\ v.wish = x.wish
          /\ v.session.pend = x.session.pend /\ v.session.as_preview = x.session.as_preview
          /\ v.session.url = x.session.url /\ v.session.paused = x.session.paused
          /\ Live(x) => v.preview = "Abandoning" /\ v.session.preview = x.session.preview
          /\ ~Live(x) => v.preview = "Idle" /\ ~v.session.preview
      BY <2>1, <2>3, RetiredFields
    <2>5. CASE w.session.preview /\ ~Finished(w.engine) /\ x = w
      BY <1>0, <1>2, <2>4, <2>5 DEF Retires
    <2>6. CASE x.engine = NoEngine /\ x.route.phase = "Idle" /\ ~x.session.url /\ Playing(x)
      <3>1. ~Live(x)
        BY <2>6 DEF Live, NoEngine
      <3> QED
        BY <1>2, <2>2, <2>4, <2>6, <3>1 DEF Retires, Cleared, Queued, Playing
    <2> QED
      BY <1>2, <2>2, <2>5, <2>6 DEF Cleared
  <1> QED
    BY <1>1, <1>2

\* Retiring after the pump keeps the player coherent.
LEMMA RetiresWhole ==
    ASSUME NEW w, NEW t \in {"after", "settle"}, Whole(w, t), NEW v, Retires(w, v),
           t = "after" => PreviewRequest(w)
    PROVE  Whole(v, t)
  <1>1. /\ w \in Player /\ Good(w) /\ w.fg \in Lifecycle /\ Typed(w)
        /\ v \in Player /\ Good(v) /\ v.fg \in Lifecycle /\ Typed(v)
    BY TypedFacts DEF Whole, Retires
  <1>2. Live(v) \/ (v.engine.call = "none" /\ ~v.engine.failed /\ ~v.engine.dead)
    BY <1>1 DEF Retires, NoEngine, Live, Whole, Coherent, Loaded, Good, ObjectInv
  <1>3. /\ Live(v) => /\ Live(w) /\ v.route = w.route /\ v.engine = w.engine /\ v.mail = w.mail
                      /\ v.adapter = w.adapter /\ v.wish = w.wish
                      /\ v.session.url = w.session.url /\ v.session.paused = w.session.paused
                      /\ ~Finished(w.engine) /\ w.session.preview /\ v.session.preview
                      /\ v.preview = "Abandoning"
        /\ Live(w) /\ ~Live(v) => w.fg.kind \in {"Idle", "LoadPending"}
        /\ t = "after" => w.fg.kind = "Idle"
        /\ NoEngine.attempt = 0
    BY <1>1 DEF Retires, NoEngine, Live, Whole, Coherent, Parked, Parks, PreviewRequest,
       Lifecycle, Kinds
  <1>20. Core(v) /\ Coherent(v, t)
    <2> USE DEF Whole, Coherent, Core, Owned, OnRoute, IdleHeard, Numbered, Loaded, Asked, Waits,
       Shown, Parked, Restores, Paged, Typed, Live, Playing, Heard, ClockIs, Queued, Pending,
       StableBelow, MayRequest, PendingRouteStart, ResumeFlightOutstanding, Parks
    <2>1. Owned(v)
      BY <1>1, <1>2, <1>3 DEF Retires
    <2>2. OnRoute(v)
      BY <1>1, <1>2, <1>3 DEF Retires
    <2>3. IdleHeard(v)
      BY <1>1, <1>2, <1>3 DEF Retires
    <2>4. Numbered(v)
      BY <1>1, <1>2, <1>3 DEF Retires
    <2>5. Loaded(v)
      BY <1>1, <1>2, <1>3 DEF Retires
    <2>6. Asked(v, t)
      BY <1>1, <1>2, <1>3 DEF Retires
    <2>7. Waits(v)
      BY <1>1, <1>2, <1>3 DEF Retires
    <2>8. Shown(v, t)
      BY <1>1, <1>2, <1>3 DEF Retires
    <2>9. Parked(v, t)
      BY <1>1, <1>2, <1>3 DEF Retires
    <2>10. Restores(v, t)
      BY <1>1, <1>2, <1>3 DEF Retires
    <2>11. Paged(v)
      BY <1>1, <1>2, <1>3 DEF Retires
    <2> QED
      BY <2>1, <2>2, <2>3, <2>4, <2>5, <2>6, <2>7, <2>8, <2>9, <2>10, <2>11
  <1> QED
    BY <1>1, <1>20 DEF Whole

\* after_pump keeps the player coherent, however the trailer ended.
LEMMA AfterPumpWhole ==
    ASSUME NEW w, Whole(w, "after"), Front(w), NEW ended \in BOOLEAN, NEW e \in Chance,
           NEW v, v = IF MayRun(w) THEN AfterPump(w, ended, e) ELSE w
    PROVE  Whole(v, "settle") /\ Front(v) /\ v.exiting = w.exiting
  <1>1. w \in Player /\ Good(w) /\ w.fg \in Lifecycle
    BY DEF Whole
  <1>2. Whole(w, "settle")
    BY DEF Whole, Coherent, Asked, Shown, Parked, Restores
  <1>3. CASE v = w
    BY <1>2, <1>3
  <1>4. CASE v = Retire(w, e)
    <2>1. Retires(w, v)
      BY <1>1, <1>4, RetireAny
    <2>2. "settle" \in {"after", "settle"}
      OBVIOUS
    <2> QED
      BY <1>2, <2>1, <2>2, RetiresWhole DEF Retires, Front
  <1>5. CASE /\ ~w.session.preview \/ ~Live(w)
             /\ v = [w EXCEPT !.preview = "Idle", !.session.preview = FALSE]
    <2> DEFINE s == [w.session EXCEPT !.preview = FALSE]
    <2>1. v = [w EXCEPT !.preview = "Idle", !.session = s]
      BY <1>5
    <2>2. /\ s \in Session /\ ~s.preview /\ s.pend = w.session.pend
          /\ s.as_preview = w.session.as_preview /\ s.url = w.session.url
          /\ s.paused = w.session.paused
      BY <1>1, PlayerFacts DEF Session
    <2> HIDE DEF s
    <2>3. /\ v.preview = "Idle" /\ v.session = s /\ v \in Player
          /\ v.route = w.route /\ v.held = w.held /\ v.engine = w.engine /\ v.mail = w.mail
          /\ v.slot = w.slot /\ v.adapter = w.adapter /\ v.fg = w.fg /\ v.screen = w.screen
          /\ v.exiting = w.exiting /\ v.wish = w.wish
      BY <1>1, <2>1, <2>2 DEF Player, Previews
    <2>4. Good(v)
      BY <1>1, <2>3, KeepsGood
    <2>5. Typed(w) /\ Typed(v) /\ v.fg \in Lifecycle /\ ~v.session.preview /\ v.preview = "Idle"
          /\ v.session.pend = w.session.pend /\ v.session.as_preview = w.session.as_preview
          /\ v.session.url = w.session.url /\ v.session.paused = w.session.paused
          /\ v.route = w.route /\ v.held = w.held /\ v.engine = w.engine /\ v.mail = w.mail
          /\ v.slot = w.slot /\ v.adapter = w.adapter /\ v.fg = w.fg /\ v.screen = w.screen
          /\ v.exiting = w.exiting /\ v.wish = w.wish
      BY <1>1, <2>2, <2>3, TypedFacts
    <2>20. Core(v) /\ Coherent(v, "settle")
      <3> USE DEF Whole, Coherent, Core, Owned, OnRoute, IdleHeard, Numbered, Loaded, Asked,
         Waits, Shown, Parked, Restores, Paged, Typed, Live, Playing, Heard, ClockIs, Queued, Pending,
         StableBelow, MayRequest, PendingRouteStart, ResumeFlightOutstanding, Parks
      <3>1. Owned(v)
        BY <1>1, <1>2, <1>5, <2>5
      <3>2. OnRoute(v)
        BY <1>1, <1>2, <1>5, <2>5, SMTT(30)
      <3>3. IdleHeard(v)
        BY <1>1, <1>2, <1>5, <2>5
      <3>4. Numbered(v)
        BY <1>1, <1>2, <1>5, <2>5
      <3>5. Loaded(v)
        BY <1>1, <1>2, <1>5, <2>5, SMTT(30)
      <3>6. Asked(v, "settle")
        BY <1>1, <1>2, <1>5, <2>5, SMTT(30)
      <3>7. Waits(v)
        BY <1>1, <1>2, <1>5, <2>5, SMTT(30)
      <3>8. Shown(v, "settle")
        BY <1>1, <1>2, <1>5, <2>5
      <3>9. Parked(v, "settle")
        BY <1>1, <1>2, <1>5, <2>5, SMTT(30)
      <3>10. Restores(v, "settle")
        BY <1>1, <1>2, <1>5, <2>5
      <3>11. Paged(v)
        BY <1>1, <1>2, <1>5, <2>5
      <3> HIDE DEF Owned, OnRoute, IdleHeard, Numbered, Loaded, Asked, Waits, Shown, Parked,
         Restores, Paged
      <3> QED
        BY <3>1, <3>2, <3>3, <3>4, <3>5, <3>6, <3>7, <3>8, <3>9, <3>10, <3>11
    <2> QED
      BY <2>3, <2>4, <2>5, <2>20 DEF Whole, Front
  <1> QED
    BY <1>3, <1>4, <1>5 DEF AfterPump

------------------------------------------------------------------------------
(* The pump.                                                                *)

\* Where the answer of the Load that owns the route leaves it.
AnsweredBy(c, d, n) ==
    /\ d.under = c.under /\ d.flight = c.flight /\ d.serials = c.serials
    /\ d.attempts = c.attempts
    /\ d.last.serial = n.serial /\ d.last.attempt = n.attempt /\ (d.last.ok <=> n.call = "ok")
    /\ IF n.call = "ok" THEN d.phase = "Stable" ELSE d.phase = "Failed" /\ d.serial = n.serial

\* What draining the inbox comes to.
Emptied(w, v) ==
    /\ v \in Player /\ Good(v) /\ v.mail = {}
    /\ v.session = w.session /\ v.preview = w.preview /\ v.held = w.held /\ v.engine = w.engine
    /\ v.slot = w.slot /\ v.adapter = w.adapter /\ v.fg = w.fg /\ v.screen = w.screen
    /\ v.exiting = w.exiting /\ v.wish = w.wish
    /\ \/ /\ v.route = w.route
          /\ \/ \A m \in w.mail : m.attempt # w.engine.attempt
             \/ ~(w.route.phase = "Starting" /\ w.route.serial = w.engine.serial
                  /\ w.route.attempt = w.engine.attempt)
       \/ /\ w.route.phase = "Starting" /\ w.route.serial = w.engine.serial
          /\ w.route.attempt = w.engine.attempt /\ w.engine.call # "out"
          /\ AnsweredBy(w.route, v.route, w.engine)

\* drain_load_outcomes empties the inbox, and only the result of the Engine that owns
\* the route settles it.
LEMMA DrainFields ==
    ASSUME NEW w \in Player, Good(w), Live(w), NEW v, v = DrainLoadOutcomes(w)
    PROVE  Emptied(w, v)
  <1> DEFINE n == w.engine
             own == {m \in w.mail : m.attempt = n.attempt}
             answer == CHOOSE m \in own : TRUE
             c == IF own = {} THEN w.route
                  ELSE SettleRouteStart(w.route, n.serial, n.attempt, answer.ok)
  <1>1. v = [w EXCEPT !.mail = {}, !.route = c]
    BY DEF DrainLoadOutcomes
  <1>2. own # {} => answer \in own
    OBVIOUS
  <1>3. w.mail \in SUBSET Post /\ n.serial \in Nat /\ n.attempt \in Nat /\ n.attempt # 0
    BY PlayerFacts, NativeFacts DEF Live
  <1>4. own # {} => answer.ok \in BOOLEAN /\ answer.ok = (n.call = "ok") /\ n.call # "out"
    BY <1>2, <1>3 DEF Post, Good, PostInv
  <1>5. own = {} => \A m \in w.mail : m.attempt # n.attempt
    OBVIOUS
  <1>6. /\ own = {} => c = w.route
        /\ own # {} => c = SettleRouteStart(w.route, n.serial, n.attempt, answer.ok)
    OBVIOUS
  <1>7. v \in Player /\ Good(v)
    BY DrainDrained DEF Drained
  <1> HIDE DEF answer, own, c
  <1>8. /\ v.route = c /\ v.mail = {}
        /\ v.session = w.session /\ v.preview = w.preview /\ v.held = w.held
        /\ v.engine = w.engine /\ v.slot = w.slot /\ v.adapter = w.adapter /\ v.fg = w.fg
        /\ v.screen = w.screen /\ v.exiting = w.exiting /\ v.wish = w.wish
    BY <1>1 DEF Player
  <1>9. CASE own = {}
    BY <1>5, <1>6, <1>7, <1>8, <1>9 DEF Emptied
  <1>10. CASE own # {}
    <2> DEFINE ok == answer.ok
    <2>1. ok \in BOOLEAN /\ ok = (n.call = "ok") /\ n.call # "out"
          /\ c = SettleRouteStart(w.route, n.serial, n.attempt, ok)
      BY <1>4, <1>6, <1>10
    <2> HIDE DEF ok
    <2>2. w.route \in Route
      BY PlayerFacts
    <2> DEFINE s == n.serial
               a == n.attempt
               b == w.route
    <2>4. c = SettleRouteStart(b, s, a, ok) /\ b \in Route
      BY <2>1, <2>2
    <2> HIDE DEF s, a, b
    <2>3.     /\ ~(b.phase = "Starting" /\ b.serial = s /\ b.attempt = a) => c = b
              /\ b.phase = "Starting" /\ b.serial = s /\ b.attempt = a =>
                  /\ c.under = b.under /\ c.flight = b.flight /\ c.serials = b.serials
                  /\ c.attempts = b.attempts
                  /\ c.last.serial = s /\ c.last.attempt = a /\ (c.last.ok <=> ok)
                  /\ IF ok THEN c.phase = "Stable" ELSE c.phase = "Failed" /\ c.serial = s
      <3>1. CASE ~(b.phase = "Starting" /\ b.serial = s /\ b.attempt = a)
        BY <2>4, <3>1 DEF SettleRouteStart
      <3>2. CASE b.phase = "Starting" /\ b.serial = s /\ b.attempt = a /\ ok
        BY <2>4, <3>2 DEF SettleRouteStart, Enter, Route
      <3>3. CASE b.phase = "Starting" /\ b.serial = s /\ b.attempt = a /\ ~ok
        BY <2>4, <3>3 DEF SettleRouteStart, Enter, Route
      <3> QED
        BY <3>1, <3>2, <3>3
    <2> QED
      BY <1>7, <1>8, <2>1, <2>3 DEF Emptied, AnsweredBy, s, a, b
  <1> QED
    BY <1>9, <1>10

\* Draining keeps the player coherent: a restore that follows a refused Load now finds
\* the refusal on the route.
LEMMA EmptiedWhole ==
    ASSUME NEW w, Whole(w, "events"), Live(w), NEW v, Emptied(w, v)
    PROVE  Whole(v, "after")
  <1>1. /\ w \in Player /\ Good(w) /\ w.fg \in Lifecycle /\ Typed(w)
        /\ v \in Player /\ Good(v) /\ v.fg \in Lifecycle /\ Typed(v)
    BY TypedFacts DEF Whole, Emptied
  <1>2. w.engine.attempt <= w.route.attempts /\ w.engine.call \in {"none", "out", "ok", "bad"}
        /\ Queued(w) = 0
    BY <1>1, NativeFacts DEF Good, ObjectInv, Calls, Live, Queued
  <1>20. Core(v) /\ Coherent(v, "after")
    <2> USE DEF Whole, Coherent, Core, Owned, OnRoute, IdleHeard, Numbered, Loaded, Asked, Waits,
       Shown, Parked, Restores, Paged, Typed, Live, Playing, Heard, ClockIs, Queued, Pending,
       StableBelow, MayRequest, PendingRouteStart, ResumeFlightOutstanding, Parks
    <2>1. Owned(v)
      BY <1>1, <1>2 DEF Emptied, AnsweredBy
    <2>2. OnRoute(v)
      BY <1>1, <1>2 DEF Emptied, AnsweredBy
    <2>3. IdleHeard(v)
      BY <1>1, <1>2 DEF Emptied, AnsweredBy
    <2>4. Numbered(v)
      BY <1>1, <1>2 DEF Emptied, AnsweredBy
    <2>5. Loaded(v)
      BY <1>1, <1>2 DEF Emptied, AnsweredBy
    <2>6. Asked(v, "after")
      BY <1>1, <1>2 DEF Emptied, AnsweredBy
    <2>7. Waits(v)
      BY <1>1, <1>2 DEF Emptied, AnsweredBy
    <2>8. Shown(v, "after")
      BY <1>1, <1>2 DEF Emptied, AnsweredBy
    <2>9. Parked(v, "after")
      BY <1>1, <1>2 DEF Emptied, AnsweredBy
    <2>10. Restores(v, "after")
      BY <1>1, <1>2 DEF Emptied, AnsweredBy
    <2>11. Paged(v)
      BY <1>1, <1>2 DEF Emptied, AnsweredBy
    <2> QED
      BY <2>1, <2>2, <2>3, <2>4, <2>5, <2>6, <2>7, <2>8, <2>9, <2>10, <2>11
  <1> QED
    BY <1>1, <1>20 DEF Whole

\* The Engine that failed, or whose Load is past its budget, is given up.
LEMMA GiveUpWhole ==
    ASSUME NEW w, Whole(w, "after"), Live(w), w.mail = {}, w.engine.failed \/ w.engine.late,
           ~PreviewRequest(w),
           ~(w.engine.follows /\ RouteStartStatus(w.route, w.engine.attempt).what = "Failed"),
           NEW v, v = [w EXCEPT !.route = FailCurrentEngine(@)]
    PROVE  Whole(v, "after") /\ v.fg = w.fg /\ v.screen = w.screen /\ v.exiting = w.exiting
  <1> DEFINE c == FailCurrentEngine(w.route)
  <1>1. w \in Player /\ Good(w) /\ w.fg \in Lifecycle /\ Typed(w) /\ Queued(w) = 0
    BY TypedFacts DEF Whole, Good, ObjectInv, Live, Queued
  <1>2. /\ c \in Route /\ c.under = w.route.under /\ c.last = w.route.last
        /\ c.attempts = w.route.attempts
        /\ w.route.serials <= c.serials /\ c.flight \in {0, w.route.flight}
        /\ w.route.phase \in Pending => c.phase = "Failed" /\ c.serial = w.route.serial
        /\ w.route.phase = "Stable" => c.phase = "Failed" /\ c.serial # 0
        /\ w.route.phase \notin Pending \cup {"Stable"} => c = w.route
    BY <1>1, PlayerFacts, FailRoute
  <1>3. v = [w EXCEPT !.route = c] /\ Carries(w.route, c)
    BY <1>1, GoodIssued, FailCarries
  <1> HIDE DEF c
  <1>4. v \in Player /\ Good(v)
    <2>1. Beside(w, v)
      BY <1>1, <1>3, RouteBeside
    <2> QED
      BY <1>1, <2>1, BesideGood DEF Beside
  <1>5. /\ v.route = c /\ v.session = w.session /\ v.preview = w.preview /\ v.held = w.held
        /\ v.engine = w.engine /\ v.mail = w.mail /\ v.slot = w.slot /\ v.adapter = w.adapter
        /\ v.fg = w.fg /\ v.screen = w.screen /\ v.exiting = w.exiting /\ v.wish = w.wish
    BY <1>1, <1>3 DEF Player
  <1>6. Typed(v)
    BY <1>4, TypedFacts
  <1>7. /\ w.route.phase \in Pending => v.route.phase = "Failed"
             /\ v.route.serial = w.route.serial
        /\ w.route.phase = "Stable" => v.route.phase = "Failed" /\ v.route.serial # 0
        /\ w.route.phase \notin Pending \cup {"Stable"} => v.route = w.route
        /\ v.route.under = w.route.under /\ v.route.last = w.route.last
        /\ v.route.attempts = w.route.attempts
        /\ w.route.serials <= v.route.serials /\ v.route.flight \in {0, w.route.flight}
        /\ v.session = w.session /\ v.preview = w.preview /\ v.held = w.held
        /\ v.engine = w.engine /\ v.mail = w.mail /\ v.slot = w.slot /\ v.adapter = w.adapter
        /\ v.fg = w.fg /\ v.screen = w.screen /\ v.exiting = w.exiting /\ v.wish = w.wish
    BY <1>2, <1>5
  <1>8. w.fg.kind = "LoadPending" /\ w.engine.call = "bad" => w.engine.late
    <2> SUFFICES ASSUME w.fg.kind = "LoadPending", w.engine.call = "bad", ~w.engine.late
                 PROVE  FALSE
      OBVIOUS
    <2>1. w.engine.follows /\ w.route.phase # "Starting"
      BY DEF Whole, Coherent, Restores, Loaded
    <2>2. /\ w.route.phase = "Failed" /\ w.route.last.attempt = w.engine.attempt
          /\ ~w.route.last.ok /\ w.route.last.serial = w.route.serial
      BY <2>1 DEF Whole, Coherent, Restores
    <2>3. w.engine.attempt # 0
      BY DEF Live
    <2>4. RouteStartStatus(w.route, w.engine.attempt).what = "Failed"
      <3> DEFINE a == w.engine.attempt
                 d == w.route
      <3>1. d.phase = "Failed" /\ d.last.attempt = a /\ Completed(d) /\ a \in Nat
        BY <1>1, <2>2, <2>3 DEF Completed, Typed
      <3> HIDE DEF a, d
      <3>2. RouteStartStatus(d, a) = Status("Failed", 0)
        BY <3>1 DEF RouteStartStatus
      <3> QED
        BY <3>2 DEF Status, a, d
    <2> QED
      BY <2>1, <2>4
  <1>20. Core(v) /\ Coherent(v, "after")
    <2> USE DEF Whole, Coherent, Core, Owned, OnRoute, IdleHeard, Numbered, Loaded, Asked, Waits,
       Shown, Parked, Restores, Paged, Typed, Live, Playing, Heard, ClockIs, Queued, Pending,
       StableBelow, MayRequest, PendingRouteStart, ResumeFlightOutstanding, Parks
    <2>1. Owned(v)
      BY <1>1, <1>6, <1>7, <1>8 DEF PreviewRequest
    <2>2. OnRoute(v)
      BY <1>1, <1>6, <1>7, <1>8 DEF PreviewRequest
    <2>3. IdleHeard(v)
      BY <1>1, <1>6, <1>7, <1>8 DEF PreviewRequest
    <2>4. Numbered(v)
      BY <1>1, <1>6, <1>7, <1>8 DEF PreviewRequest
    <2>5. Loaded(v)
      BY <1>1, <1>6, <1>7, <1>8 DEF PreviewRequest
    <2>6. Asked(v, "after")
      BY <1>1, <1>6, <1>7, <1>8 DEF PreviewRequest
    <2>7. Waits(v)
      BY <1>1, <1>6, <1>7, <1>8 DEF PreviewRequest
    <2>8. Shown(v, "after")
      BY <1>1, <1>6, <1>7, <1>8 DEF PreviewRequest
    <2>9. Parked(v, "after")
      BY <1>1, <1>6, <1>7, <1>8 DEF PreviewRequest
    <2>10. Restores(v, "after")
      BY <1>1, <1>6, <1>7, <1>8 DEF PreviewRequest
    <2>11. Paged(v)
      BY <1>1, <1>6, <1>7, <1>8 DEF PreviewRequest
    <2> QED
      BY <2>1, <2>2, <2>3, <2>4, <2>5, <2>6, <2>7, <2>8, <2>9, <2>10, <2>11
  <1> QED
    BY <1>1, <1>4, <1>5, <1>20 DEF Whole

\* The wish alone leaves every other part of the player as it was.
LEMMA SetWishFields ==
    ASSUME NEW w \in Player, Good(w), NEW c \in Clocks, NEW v, v = [w EXCEPT !.wish = c]
    PROVE  /\ v \in Player /\ Good(v) /\ v.wish = c /\ v.route = w.route
           /\ v.session = w.session /\ v.preview = w.preview /\ v.held = w.held
           /\ v.engine = w.engine /\ v.mail = w.mail /\ v.slot = w.slot
           /\ v.adapter = w.adapter /\ v.fg = w.fg /\ v.screen = w.screen
           /\ v.exiting = w.exiting
  <1>1. /\ v \in Player /\ v.wish = c /\ v.route = w.route
        /\ v.session = w.session /\ v.preview = w.preview /\ v.held = w.held
        /\ v.engine = w.engine /\ v.mail = w.mail /\ v.slot = w.slot
        /\ v.adapter = w.adapter /\ v.fg = w.fg /\ v.screen = w.screen
        /\ v.exiting = w.exiting
    BY DEF Player
  <1> QED
    BY <1>1, KeepsGood

\* What letting go of a dead Engine comes to: the wish is the read-out's.
LEMMA LetGoFields ==
    ASSUME NEW w \in Player, Good(w), NEW e \in Chance, ~w.session.preview, Live(w),
           NEW v, v = LetGoDead(w, e)
    PROVE  /\ LetBe(w, v) /\ v.session = w.session /\ v.fg = w.fg
           /\ v.wish = ClockOf(w.session.paused) /\ Reloads(w.route, v.route, Queued(w))
  <1> DEFINE c == ClockOf(w.session.paused)
             x == [w EXCEPT !.wish = c]
  <1>1. v = Teardown(x, TRUE, e)
    BY DEF LetGoDead
  <1>2. c \in Clocks
    BY DEF ClockOf, Clocks
  <1> HIDE DEF c
  <1>3. /\ x \in Player /\ Good(x) /\ x.wish = c /\ x.route = w.route
        /\ x.session = w.session /\ x.preview = w.preview /\ x.held = w.held
        /\ x.engine = w.engine /\ x.mail = w.mail /\ x.slot = w.slot
        /\ x.adapter = w.adapter /\ x.fg = w.fg /\ x.screen = w.screen
        /\ x.exiting = w.exiting
    BY <1>2, SetWishFields
  <1> HIDE DEF x
  <1>4. (x.route.phase = "Starting" => Live(x)) /\ ~x.session.preview
    BY <1>3 DEF Live
  <1>5. /\ LetBe(x, v) /\ v.session = x.session /\ v.fg = x.fg /\ v.wish = x.wish
        /\ Reloads(x.route, v.route, Queued(x))
    BY <1>1, <1>3, <1>4, ReloadFields
  <1>6. LetBe(w, v) /\ Queued(x) = Queued(w)
    BY <1>3, <1>5 DEF LetBe, Live, Queued
  <1> QED
    BY <1>3, <1>5, <1>6 DEF c

\* A dead Engine is let go, and the film stays loaded.
LEMMA LetGoWhole ==
    ASSUME NEW w, Whole(w, "events"), Live(w), w.engine.dead, ~w.session.preview, NEW v,
           LetBe(w, v), v.session = w.session, v.fg = w.fg,
           v.wish = ClockOf(w.session.paused), Reloads(w.route, v.route, Queued(w))
    PROVE  Whole(v, "after")
  <1>1. /\ w \in Player /\ Good(w) /\ w.fg \in Lifecycle /\ Typed(w)
        /\ v \in Player /\ Good(v) /\ v.fg \in Lifecycle /\ Typed(v)
    BY TypedFacts DEF Whole, LetBe
  <1>2. /\ w.fg.kind = "Idle" /\ v.engine = NoEngine /\ NoEngine.attempt = 0
        /\ NoEngine.call = "none" /\ ~NoEngine.failed /\ ~NoEngine.dead /\ Queued(w) = 0
    BY <1>1 DEF Whole, Coherent, Core, Owned, Loaded, LetBe, NoEngine, Good, ObjectInv, Live,
       Queued
  <1>20. Core(v) /\ Coherent(v, "after")
    <2> USE DEF Whole, Coherent, Core, Owned, OnRoute, IdleHeard, Numbered, Loaded, Asked, Waits,
       Shown, Parked, Restores, Paged, Typed, Live, Playing, Heard, ClockIs, Queued, Pending,
       StableBelow, MayRequest, PendingRouteStart, ResumeFlightOutstanding, Parks
    <2>1. Owned(v)
      BY <1>1, <1>2 DEF LetBe, Reloads, Fails, ClockOf
    <2>2. OnRoute(v)
      BY <1>1, <1>2 DEF LetBe, Reloads, Fails, ClockOf
    <2>3. IdleHeard(v)
      BY <1>1, <1>2 DEF LetBe, Reloads, Fails, ClockOf
    <2>4. Numbered(v)
      BY <1>1, <1>2 DEF LetBe, Reloads, Fails, ClockOf
    <2>5. Loaded(v)
      BY <1>1, <1>2 DEF LetBe, Reloads, Fails, ClockOf
    <2>6. Asked(v, "after")
      BY <1>1, <1>2 DEF LetBe, Reloads, Fails, ClockOf
    <2>7. Waits(v)
      BY <1>1, <1>2 DEF LetBe, Reloads, Fails, ClockOf
    <2>8. Shown(v, "after")
      BY <1>1, <1>2 DEF LetBe, Reloads, Fails, ClockOf
    <2>9. Parked(v, "after")
      BY <1>1, <1>2 DEF LetBe, Reloads, Fails, ClockOf
    <2>10. Restores(v, "after")
      BY <1>1, <1>2 DEF LetBe, Reloads, Fails, ClockOf
    <2>11. Paged(v)
      BY <1>1, <1>2 DEF LetBe, Reloads, Fails, ClockOf
    <2> QED
      BY <2>1, <2>2, <2>3, <2>4, <2>5, <2>6, <2>7, <2>8, <2>9, <2>10, <2>11
  <1> QED
    BY <1>1, <1>20 DEF Whole

\* pump_frame keeps the player coherent, in whatever order result, failure flag and
\* budget came.
LEMMA PumpWhole ==
    ASSUME NEW w, Whole(w, "events"), Front(w), NEW e \in Chance,
           NEW v, v = IF MayRun(w) /\ Live(w) THEN Pump(w, e) ELSE w
    PROVE  Whole(v, "after") /\ Front(v) /\ v.exiting = w.exiting
  <1>1. w \in Player /\ Good(w) /\ w.fg \in Lifecycle
    BY DEF Whole
  <1>2. CASE v = w
    <2>1. Whole(w, "after")
      BY DEF Whole, Coherent, Asked, Shown, Parked, Restores
    <2> QED
      BY <1>2, <2>1
  <1>3. CASE Live(w) /\ v = Pump(w, e)
    <2> DEFINE x == DrainLoadOutcomes(w)
    <2>1. Emptied(w, x)
      BY <1>1, <1>3, DrainFields
    <2>2. /\ x.mail = {} /\ x.session = w.session /\ x.preview = w.preview
          /\ x.engine = w.engine /\ x.fg = w.fg /\ x.screen = w.screen /\ x.exiting = w.exiting
          /\ x \in Player /\ Good(x)
      BY <2>1 DEF Emptied
    <2>3. \/ w.engine.dead /\ ~w.session.preview /\ v = LetGoDead(w, e)
          \/ v = x
          \/ PreviewRequest(x) /\ v = Retire(x, e)
          \/ /\ w.engine.failed \/ w.engine.late
             /\ ~PreviewRequest(x)
             /\ ~(w.engine.follows /\ RouteStartStatus(x.route, w.engine.attempt).what = "Failed")
             /\ v = [x EXCEPT !.route = FailCurrentEngine(@)]
      BY <1>3 DEF Pump
    <2> HIDE DEF x
    <2>4. Whole(x, "after") /\ Live(x)
      BY <1>3, <2>1, <2>2, EmptiedWhole DEF Live
    <2>5. CASE w.engine.dead /\ ~w.session.preview /\ v = LetGoDead(w, e)
      <3>2. /\ LetBe(w, v) /\ v.session = w.session /\ v.fg = w.fg
            /\ v.wish = ClockOf(w.session.paused) /\ Reloads(w.route, v.route, Queued(w))
        BY <1>1, <1>3, <2>5, LetGoFields
      <3>3. Whole(v, "after")
        BY <1>3, <2>5, <3>2, LetGoWhole
      <3> QED
        BY <3>2, <3>3 DEF LetBe, Front
    <2>6. CASE v = x
      BY <2>2, <2>4, <2>6 DEF Front
    <2>7. CASE PreviewRequest(x) /\ v = Retire(x, e)
      <3>1. Retires(x, v)
        BY <2>2, <2>7, RetireAny
      <3>2. "after" \in {"after", "settle"}
        OBVIOUS
      <3>3. Whole(v, "after")
        BY <2>4, <2>7, <3>1, <3>2, RetiresWhole
      <3> QED
        BY <2>2, <3>1, <3>3 DEF Retires, Front
    <2>8. CASE /\ w.engine.failed \/ w.engine.late
               /\ ~PreviewRequest(x)
               /\ ~(w.engine.follows /\ RouteStartStatus(x.route, w.engine.attempt).what = "Failed")
               /\ v = [x EXCEPT !.route = FailCurrentEngine(@)]
      <3>1. Whole(v, "after") /\ v.fg = x.fg /\ v.screen = x.screen /\ v.exiting = x.exiting
        BY <2>2, <2>4, <2>8, GiveUpWhole
      <3> QED
        BY <2>2, <3>1 DEF Front
    <2> QED
      BY <2>3, <2>5, <2>6, <2>7, <2>8
  <1> QED
    BY <1>2, <1>3

==============================================================================
