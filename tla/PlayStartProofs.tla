---------------------------- MODULE PlayStartProofs ----------------------------
(***************************************************************************)
(* PlayStart's safety, for any number of presses and app switches.  Each   *)
(* action is shown to be one step of the player in the sense of Steps: the *)
(* native object is exchanged as the abstract slot allows, a route takes   *)
(* only its own Load's result, and no queued start is lost.                *)
(***************************************************************************)
EXTENDS PlayHandlerProofs, FiniteSetTheorems, TLAPS

------------------------------------------------------------------------------
(* One step of the player.                                                  *)

\* The firmware has returned from what a worker or a given up Load was in.
Returned(w, v) ==
    /\ ~Live(w) /\ ~Live(v)
    /\ v.slot.unload = w.slot.unload /\ v.slot.abandoned = w.slot.abandoned
    /\ \/ w.slot.unload # 0 /\ ~w.slot.returned /\ v.slot.returned
       \/ w.slot.abandoned # 0 /\ ~w.slot.back /\ v.slot.back

Kept(w, v) ==
    /\ v.engine.attempt = w.engine.attempt
    /\ v.slot.unload = w.slot.unload /\ v.slot.abandoned = w.slot.abandoned
    /\ v.slot.returned = w.slot.returned /\ v.slot.back = w.slot.back

Exchanges(w, v) ==
    \/ Kept(w, v) \/ Stopped(w, v) \/ Returned(w, v)
    \/ Vacant(w) /\ (NoHolder(v) \/ Opened(w, v))

Takes(w, v) ==
    v.route.last # w.route.last =>
      /\ v.route.last.attempt = w.engine.attempt
      /\ v.route.last.ok = (w.engine.call = "ok")

Settles(w, v) ==
    Left(w, v) => GivenUp(w, v) \/ v.engine.serial = w.adapter.release.queued

LeftClean(w) == w.exiting = "clean" => NoHolder(w)

Steps(w, v) ==
    /\ v \in Player /\ Good(v) /\ v.fg \in Lifecycle /\ LeftClean(v)
    /\ Exchanges(w, v) /\ Takes(w, v) /\ Settles(w, v)

\* A handler that moves is a step of the player.
LEMMA MovesSteps ==
    ASSUME NEW w \in Player, Good(w), w.exiting # "clean", NEW v, Moves(w, v), v.fg \in Lifecycle
    PROVE  Steps(w, v)
  <1>1. v \in Player /\ Good(v)
    BY MovesTypes
  <1>2. v.exiting = w.exiting /\ v.route.last = w.route.last
    BY DEF Moves, Advances, Halts, Flies, Goes, MovedOn
  <1>3. Untouched(w, v) => Kept(w, v)
    BY DEF Untouched, Kept
  <1>4. Exchanges(w, v)
    BY <1>3 DEF Moves, Advances, Halts, Flies, Exchanges
  <1>5. Settles(w, v)
    BY DEF Moves, Advances, Halts, Flies, Settles, Left
  <1> QED
    BY <1>1, <1>2, <1>4, <1>5 DEF Steps, LeftClean, Takes

\* So is the pump.
LEMMA PumpedSteps ==
    ASSUME NEW w \in Player, Good(w), Live(w), w.exiting = "running", w.fg \in Lifecycle,
           NEW u, Pumped(w, u)
    PROVE  Steps(w, u)
  <1>1. CASE Ends(w, u)
    BY <1>1, MovesSteps DEF Ends, Moves
  <1>2. ASSUME NEW v, Drained(w, v), Ends(v, u) PROVE Steps(w, u)
    <2>1. v \in Player /\ Good(v) /\ v.exiting = "running" /\ v.fg = w.fg /\ u.fg = w.fg
      BY <1>2 DEF Drained, Ends
    <2>2. Steps(v, u)
      BY <1>2, <2>1, MovesSteps DEF Ends, Moves
    <2>3. u.route.last = v.route.last
      BY <1>2 DEF Ends, Halts, Goes
    <2>4. Takes(w, u)
      BY <1>2, <2>3 DEF Takes, Drained
    <2>5. Settles(w, u)
      BY DEF Settles, Left, Good, ObjectInv, Live
    <2>6. Exchanges(w, u)
      BY <1>2, <2>2 DEF Drained, Steps, Exchanges, Kept, Stopped, Returned, Vacant, Opened, Live
    <2> QED
      BY <2>2, <2>4, <2>5, <2>6 DEF Steps
  <1> QED
    BY <1>1, <1>2 DEF Pumped

\* What the outside may answer is within the chances of the handlers.
LEMMA ChanceFacts ==
    /\ Stops \subseteq Chance /\ Claiming \subseteq Chance
    /\ Settling \subseteq Chance /\ Landings \subseteq Chance
  BY DEF Stops, Claiming, Settling, Landings, Chance, Chances, Resumes

\* An action that leaves the state a handler built.
LEMMA BecomeFacts ==
    ASSUME NEW u \in Player, Become(u)
    PROVE  World' = u
  BY DEF Become, World, Player

\* The record of the variables has their values.
LEMMA WorldFacts ==
    /\ World.route = route /\ World.session = session /\ World.preview = preview
    /\ World.held = held /\ World.engine = engine /\ World.mail = mail /\ World.slot = slot
    /\ World.adapter = adapter /\ World.fg = fg /\ World.screen = screen
    /\ World.exiting = exiting /\ World.wish = wish
  BY DEF World

------------------------------------------------------------------------------
(* The handlers of the viewer and of the television.                        *)

Sound(w) == w \in Player /\ Good(w) /\ w.fg \in Lifecycle

\* A handler that halts is a step.
LEMMA HaltsSteps ==
    ASSUME NEW w, Sound(w), w.exiting # "clean", NEW v, Halts(w, v), v.fg \in Lifecycle
    PROVE  Steps(w, v)
  BY MovesSteps DEF Moves, Sound

\* So is one that ends a playback.
LEMMA EndsSteps ==
    ASSUME NEW w, Sound(w), w.exiting # "clean", NEW v, Ends(w, v)
    PROVE  Steps(w, v)
  BY MovesSteps DEF Moves, Sound, Ends

\* So is bookkeeping.
LEMMA AsideSteps ==
    ASSUME NEW w, Sound(w), w.exiting # "clean", NEW v, Aside(w, v), v.fg = w.fg
    PROVE  Steps(w, v) /\ Ends(w, v)
  BY EndsSteps, AsideEnds DEF Sound

\* Whether the window is in front is bookkeeping.
LEMMA SetFront ==
    ASSUME NEW w \in Player, NEW b \in BOOLEAN
    PROVE  LET v == [w EXCEPT !.screen.front = b] IN Aside(w, v) /\ v.fg = w.fg
  <1> DEFINE s == [w.screen EXCEPT !.front = b]
             v == [w EXCEPT !.screen = s]
  <1>1. s \in Screen
    BY PlayerFacts DEF Screen
  <1> HIDE DEF s
  <1>2. v \in Player /\ v.route = w.route /\ v.engine = w.engine /\ v.mail = w.mail
        /\ v.slot = w.slot /\ v.exiting = w.exiting /\ v.fg = w.fg /\ v.adapter = w.adapter
    BY <1>1 DEF Player
  <1>3. [w EXCEPT !.screen.front = b] = v
    BY DEF s
  <1> HIDE DEF v
  <1>4. Aside(w, v)
    BY <1>2 DEF Aside, Untouched
  <1> QED
    BY <1>2, <1>3, <1>4

\* The television puts the application away.
LEMMA BackgroundSteps ==
    ASSUME NEW w, Sound(w), w.exiting = "running", NEW e \in Chance
    PROVE  Steps(w, ParkIfPlaying(ParkPending(Halt([w EXCEPT !.screen.front = FALSE], e), e), e))
  <1> DEFINE a == [w EXCEPT !.screen.front = FALSE]
             b == Halt(a, e)
             c == ParkPending(b, e)
             d == ParkIfPlaying(c, e)
  <1>0. w \in Player /\ Good(w) /\ w.fg \in Lifecycle
    BY DEF Sound
  <1>1. Aside(w, a) /\ a.fg = w.fg
    BY <1>0, SetFront
  <1> HIDE DEF a
  <1>2. Ends(w, a)
    BY <1>0, <1>1, AsideEnds
  <1>3. a \in Player /\ Good(a) /\ Halts(w, a)
    BY <1>2, EndsTypes
  <1>4. Ends(a, b)
    BY <1>3, HaltEnds
  <1> HIDE DEF b
  <1>5. b \in Player /\ Good(b) /\ Halts(a, b) /\ b.fg \in Lifecycle
    BY <1>0, <1>1, <1>4, EndsTypes
  <1>6. Halts(b, c) /\ c.fg \in Lifecycle
    BY <1>5, ParkPendingHalts
  <1> HIDE DEF c
  <1>7. c \in Player /\ Good(c)
    BY <1>6 DEF Halts, Goes
  <1>8. Halts(c, d) /\ d.fg \in Lifecycle
    BY <1>6, <1>7, ParkIfPlayingHalts
  <1> HIDE DEF d
  <1>9. Halts(w, b)
    BY <1>0, <1>3, <1>5, HaltsTrans
  <1>10. Halts(w, c)
    BY <1>0, <1>6, <1>9, HaltsTrans
  <1>11. Halts(w, d)
    BY <1>0, <1>8, <1>10, HaltsTrans
  <1>12. Steps(w, d)
    BY <1>8, <1>11, HaltsSteps
  <1> QED
    BY <1>12 DEF d, c, b, a

\* A claim of the restore, from the return or from a press.
LEMMA ClaimSteps ==
    ASSUME NEW w, Sound(w), w.exiting = "running", NEW v, Aside(w, v), v.fg = w.fg,
           NEW key, NEW e \in Chance
    PROVE  Steps(w, Mounted(DriveForeground(v, key, e)))
  <1> DEFINE d == DriveForeground(v, key, e)
             x == Mounted(d)
  <1>0. w \in Player /\ Good(w) /\ w.fg \in Lifecycle
    BY DEF Sound
  <1>1. v \in Player /\ Beside(w, v) /\ Good(v)
    BY <1>0, AsideBeside DEF Aside
  <1>2. Moves(v, d.w) /\ d.w.fg \in Lifecycle
    BY <1>0, <1>1, DriveForegroundMoves DEF Moves
  <1> HIDE DEF d
  <1>3. d.w \in Player /\ Good(d.w)
    BY <1>1, <1>2, MovesTypes
  <1>4. Beside(d.w, x) /\ x.fg = d.w.fg
    BY <1>3, MountedAside, AsideBeside
  <1> HIDE DEF x
  <1>5. Moves(v, x)
    BY <1>1, <1>2, <1>4, MovesBeside
  <1>6. Moves(w, x)
    BY <1>0, <1>1, <1>5, BesideMoves
  <1>7. Steps(w, x)
    BY <1>0, <1>2, <1>4, <1>6, MovesSteps
  <1> QED
    BY <1>7 DEF x, d

\* The viewer leaves the player page.
LEMMA ExitPlayerSteps ==
    ASSUME NEW w, Sound(w), w.exiting = "running", NEW e \in Chance
    PROVE  Steps(w, [Teardown(CancelPlay([w EXCEPT !.fg = Supersede(@, TRUE)]), FALSE, e)
                       EXCEPT !.screen.page = "Browse"])
  <1> DEFINE f == Supersede(w.fg, TRUE)
             a == [w EXCEPT !.fg = f]
             b == CancelPlay(a)
             c == Teardown(b, FALSE, e)
             d == [c EXCEPT !.screen.page = "Browse"]
  <1>0. w \in Player /\ Good(w) /\ w.fg \in Lifecycle
    BY DEF Sound
  <1>1. f \in Lifecycle
    BY <1>0, EndingFacts
  <1> HIDE DEF f
  <1>2. a \in Player /\ Good(a) /\ a.fg = f /\ Halts(w, a)
    BY <1>0, <1>1, SetFgEnds
  <1> HIDE DEF a
  <1>3. Ends(a, b)
    BY <1>2, CancelPlayEnds
  <1> HIDE DEF b
  <1>4. b \in Player /\ Good(b)
    BY <1>3, EndsTypes
  <1>5. Ends(b, c)
    BY <1>4, TeardownEnds
  <1> HIDE DEF c
  <1>6. c \in Player /\ Good(c)
    BY <1>5, EndsTypes
  <1>7. Aside(c, d) /\ d.fg = c.fg
    BY <1>6, SetPage
  <1> HIDE DEF d
  <1>8. Ends(c, d)
    BY <1>6, <1>7, AsideEnds
  <1>9. Ends(a, d)
    BY <1>2, <1>3, <1>4, <1>5, <1>8, EndsTrans
  <1>10. Halts(w, d) /\ d.fg \in Lifecycle
    BY <1>0, <1>1, <1>2, <1>9, HaltsTrans DEF Ends
  <1>11. Steps(w, d)
    BY <1>10, HaltsSteps
  <1> QED
    BY <1>11 DEF d, c, b, a, f

\* The viewer retries a failed playback.
LEMMA RetrySteps ==
    ASSUME NEW w, Sound(w), w.exiting = "running", NEW e \in Chance
    PROVE  Steps(w, RequestFilm(Teardown(w, FALSE, e)))
  <1> DEFINE c == Teardown(w, FALSE, e)
             d == RequestFilm(c)
  <1>0. w \in Player /\ Good(w) /\ w.fg \in Lifecycle
    BY DEF Sound
  <1>1. Ends(w, c)
    BY <1>0, TeardownEnds
  <1> HIDE DEF c
  <1>2. c \in Player /\ Good(c)
    BY <1>1, EndsTypes
  <1>3. Ends(c, d)
    BY <1>2, RequestFilmEnds
  <1> HIDE DEF d
  <1>4. Ends(w, d)
    BY <1>0, <1>1, <1>3, EndsTrans
  <1> QED
    BY <1>4, EndsSteps DEF d, c

\* What a press on the transport and the end of a startup do to the player.
Transported(w, paused) ==
    [w EXCEPT !.engine.goal = paused, !.wish = ClockOf(paused),
              !.session.paused = IF w.engine.ready THEN paused ELSE @]

StartedUp(w) == [w EXCEPT !.engine.ready = TRUE, !.session.paused = @ /\ w.engine.goal]

\* The Engine's goal and readiness, the read-out's pause and the wish touch no native
\* object.
LEMMA ClocksSteps ==
    ASSUME NEW w, Sound(w), w.exiting = "running", NEW goal \in BOOLEAN, NEW ready \in BOOLEAN,
           NEW paused \in BOOLEAN, NEW c \in Clocks,
           NEW n, n = [w.engine EXCEPT !.goal = goal, !.ready = ready],
           NEW s, s = [w.session EXCEPT !.paused = paused],
           NEW v, v = [w EXCEPT !.engine = n, !.session = s, !.wish = c]
    PROVE  Steps(w, v)
  <1>1. w \in Player
    BY DEF Sound
  <1>2. s \in Session /\ n \in Engine /\ n.attempt = w.engine.attempt
        /\ n.serial = w.engine.serial /\ n.call = w.engine.call
    BY <1>1, PlayerFacts DEF Session, Engine
  <1>3. v \in Player /\ v.route = w.route /\ v.engine = n /\ v.mail = w.mail
        /\ v.slot = w.slot /\ v.exiting = w.exiting /\ v.fg = w.fg /\ v.adapter = w.adapter
    BY <1>1, <1>2 DEF Player
  <1>4. Aside(w, v)
    BY <1>2, <1>3 DEF Aside, Untouched
  <1> QED
    BY <1>3, <1>4, AsideSteps

\* A press on the transport is a step.
LEMMA TransportSteps ==
    ASSUME NEW w, Sound(w), w.exiting = "running", NEW paused \in BOOLEAN
    PROVE  Steps(w, Transported(w, paused))
  <1> DEFINE p == IF w.engine.ready THEN paused ELSE w.session.paused
             n == [w.engine EXCEPT !.goal = paused, !.ready = w.engine.ready]
             s == [w.session EXCEPT !.paused = p]
             v == [w EXCEPT !.engine = n, !.session = s, !.wish = ClockOf(paused)]
  <1>1. w.engine \in Engine /\ w.session \in Session /\ w \in Player
    BY PlayerFacts DEF Sound
  <1>2. p \in BOOLEAN /\ w.engine.ready \in BOOLEAN /\ ClockOf(paused) \in Clocks
    BY <1>1 DEF Engine, Session, ClockOf, Clocks
  <1>3. n = [w.engine EXCEPT !.goal = paused]
    BY <1>1 DEF Engine
  <1>4. Transported(w, paused) = v
    BY <1>1, <1>3 DEF Transported, Player
  <1>5. Steps(w, v)
    BY <1>2, ClocksSteps
  <1> QED
    BY <1>4, <1>5

\* The end of a startup is a step.
LEMMA StartedUpSteps ==
    ASSUME NEW w, Sound(w), w.exiting = "running"
    PROVE  Steps(w, StartedUp(w))
  <1> DEFINE p == w.session.paused /\ w.engine.goal
             n == [w.engine EXCEPT !.goal = w.engine.goal, !.ready = TRUE]
             s == [w.session EXCEPT !.paused = p]
             v == [w EXCEPT !.engine = n, !.session = s, !.wish = w.wish]
  <1>1. w.engine \in Engine /\ w.session \in Session /\ w \in Player /\ w.wish \in Clocks
    BY PlayerFacts DEF Sound
  <1>2. p \in BOOLEAN /\ w.engine.goal \in BOOLEAN
    BY <1>1 DEF Engine
  <1>3. n = [w.engine EXCEPT !.ready = TRUE]
    BY <1>1 DEF Engine
  <1>4. StartedUp(w) = v
    BY <1>1, <1>3 DEF StartedUp, Player
  <1>5. Steps(w, v)
    BY <1>1, <1>2, ClocksSteps
  <1> QED
    BY <1>4, <1>5

\* A running Engine fails.
LEMMA EngineFailsSteps ==
    ASSUME NEW w, Sound(w), w.exiting = "running"
    PROVE  Steps(w, [w EXCEPT !.route = FailCurrentEngine(@), !.engine.dead = TRUE])
  <1> DEFINE c == FailCurrentEngine(w.route)
             n == [w.engine EXCEPT !.dead = TRUE]
             v == [w EXCEPT !.route = c, !.engine = n]
  <1>0. w \in Player /\ Good(w) /\ w.fg \in Lifecycle
    BY DEF Sound
  <1>1. n \in Engine /\ n.attempt = w.engine.attempt /\ n.serial = w.engine.serial
        /\ n.call = w.engine.call
    BY <1>0, PlayerFacts DEF Engine
  <1>2. Carries(w.route, c)
    BY <1>0, GoodIssued, FailCarries
  <1>3. [w EXCEPT !.route = FailCurrentEngine(@), !.engine.dead = TRUE] = v
    OBVIOUS
  <1> HIDE DEF n, c
  <1>4. c \in Route
    BY <1>2 DEF Carries, MovedOn
  <1>5. v \in Player /\ v.route = c /\ v.engine = n /\ v.mail = w.mail
        /\ v.slot = w.slot /\ v.exiting = w.exiting /\ v.fg = w.fg /\ v.adapter = w.adapter
    BY <1>0, <1>1, <1>4 DEF Player
  <1> HIDE DEF v
  <1>6. Beside(w, v)
    BY <1>1, <1>2, <1>5 DEF Beside, Untouched
  <1> QED
    BY <1>0, <1>3, <1>5, <1>6, AsideEnds, EndsSteps

------------------------------------------------------------------------------
(* The native threads and the clocks.                                       *)

\* What only the firmware's callers touch: the Engine's flags, the slot's, and
\* the inbox.  The process may be leaving meanwhile.
Outside(w, v) ==
    /\ v \in Player /\ v.route = w.route /\ v.adapter = w.adapter /\ v.fg = w.fg
    /\ v.exiting = w.exiting
    /\ v.engine.attempt = w.engine.attempt /\ v.engine.serial = w.engine.serial
    /\ v.slot.unload = w.slot.unload /\ v.slot.abandoned = w.slot.abandoned

\* A fact of another thread that changes the object only by its return is a step.
LEMMA OutsideSteps ==
    ASSUME NEW w, Sound(w), LeftClean(w), NEW v, Outside(w, v), Kept(w, v) \/ Returned(w, v),
           ObjectInv(v), PostInv(v)
    PROVE  Steps(w, v)
  <1>1. QueueInv(v)
    BY DEF Outside, QueueInv, Sound, Good
  <1>2. LeftClean(v)
    BY DEF LeftClean, Outside, NoHolder, Live
  <1>3. Takes(w, v) /\ Settles(w, v) /\ Exchanges(w, v)
    BY DEF Takes, Settles, Left, Outside, Exchanges
  <1> QED
    BY <1>1, <1>2, <1>3 DEF Steps, Outside, Sound, Good

\* A resolve's worker answers.
LEMMA WorkerAnswersSteps ==
    ASSUME NEW w, Sound(w), w.exiting = "running"
    PROVE  Steps(w, [w EXCEPT !.session.answered = TRUE])
  <1> DEFINE s == [w.session EXCEPT !.answered = TRUE]
  <1>1. w \in Player /\ s \in Session
    BY PlayerFacts DEF Session, Sound
  <1> HIDE DEF s
  <1>2. Steps(w, [w EXCEPT !.session = s])
    BY <1>1, SetSession, AsideSteps
  <1> QED
    BY <1>2 DEF s

\* A Load returns, and posts its own result.
LEMMA LoadReturnsSteps ==
    ASSUME NEW w, Sound(w), LeftClean(w), w.engine.call = "out", NEW ok \in BOOLEAN
    PROVE  Steps(w, [w EXCEPT !.engine.call = IF ok THEN "ok" ELSE "bad",
                              !.mail = @ \cup {[attempt |-> w.engine.attempt, ok |-> ok]}])
  <1> DEFINE call == IF ok THEN "ok" ELSE "bad"
             n == [w.engine EXCEPT !.call = call]
             m == w.mail \cup {[attempt |-> w.engine.attempt, ok |-> ok]}
             v == [w EXCEPT !.engine = n, !.mail = m]
  <1>0. w \in Player /\ ObjectInv(w) /\ PostInv(w)
    BY DEF Sound, Good
  <1>1. call \in Calls /\ call # "out" /\ call # "none" /\ ok = (call = "ok")
    BY DEF Calls
  <1>2. [w EXCEPT !.engine.call = IF ok THEN "ok" ELSE "bad",
                  !.mail = @ \cup {[attempt |-> w.engine.attempt, ok |-> ok]}] = v
    OBVIOUS
  <1> HIDE DEF call
  <1>3. n \in Engine /\ n.attempt = w.engine.attempt /\ n.serial = w.engine.serial /\ n.call = call
    BY <1>0, <1>1, PlayerFacts DEF Engine
  <1>4. m \in SUBSET Post
    BY <1>0, PlayerFacts, NativeFacts DEF Post
  <1>5. \A x \in m : x \in w.mail \/ (x.attempt = w.engine.attempt /\ x.ok = ok)
    OBVIOUS
  <1>6. w.engine.attempt # 0 /\ w.engine.attempt <= w.route.attempts
    BY <1>0 DEF ObjectInv
  <1> HIDE DEF n, m
  <1>7. v \in Player /\ v.engine = n /\ v.mail = m /\ v.route = w.route /\ v.slot = w.slot
        /\ v.adapter = w.adapter /\ v.fg = w.fg /\ v.exiting = w.exiting
    BY <1>0, <1>3, <1>4 DEF Player
  <1> HIDE DEF v
  <1>8. Outside(w, v) /\ Kept(w, v)
    BY <1>3, <1>7 DEF Outside, Kept
  <1>9. ObjectInv(v)
    BY <1>0, <1>3, <1>6, <1>7 DEF ObjectInv
  <1>10. PostInv(v)
    <2> SUFFICES ASSUME NEW x \in m
                 PROVE  /\ x.attempt <= w.route.attempts
                        /\ x.attempt = w.engine.attempt => x.ok = (call = "ok")
      BY <1>1, <1>3, <1>7 DEF PostInv
    <2>1. CASE x \in w.mail
      BY <1>0, <1>6, <2>1 DEF PostInv
    <2>2. CASE x.attempt = w.engine.attempt /\ x.ok = ok
      BY <1>1, <1>6, <2>2
    <2> QED
      BY <1>5, <2>1, <2>2
  <1>11. Steps(w, v)
    BY <1>8, <1>9, <1>10, OutsideSteps
  <1> QED
    BY <1>2, <1>11

\* The Engine's flags.
LEMMA FlagSteps ==
    ASSUME NEW w, Sound(w), LeftClean(w)
    PROVE  /\ Steps(w, [w EXCEPT !.engine.failed = TRUE])
           /\ Steps(w, [w EXCEPT !.engine.late = TRUE])
           /\ Steps(w, [w EXCEPT !.slot.late = TRUE])
  <1>0. w \in Player /\ ObjectInv(w) /\ PostInv(w)
    BY DEF Sound, Good
  <1>1. ASSUME NEW n \in Engine, n.attempt = w.engine.attempt, n.serial = w.engine.serial,
               n.call = w.engine.call
        PROVE  Steps(w, [w EXCEPT !.engine = n])
    <2> DEFINE v == [w EXCEPT !.engine = n]
    <2>1. v \in Player /\ v.engine = n /\ v.mail = w.mail /\ v.route = w.route /\ v.slot = w.slot
          /\ v.adapter = w.adapter /\ v.fg = w.fg /\ v.exiting = w.exiting
      BY <1>0, <1>1 DEF Player
    <2> HIDE DEF v
    <2>2. Outside(w, v) /\ Kept(w, v) /\ ObjectInv(v) /\ PostInv(v)
      BY <1>0, <1>1, <2>1 DEF Outside, Kept, ObjectInv, PostInv
    <2>3. Steps(w, v)
      BY <2>2, OutsideSteps
    <2> QED
      BY <2>3 DEF v
  <1>2. ASSUME NEW s \in Object, s.unload = w.slot.unload, s.abandoned = w.slot.abandoned,
               s.returned = w.slot.returned, s.back = w.slot.back
        PROVE  Steps(w, [w EXCEPT !.slot = s])
    <2> DEFINE v == [w EXCEPT !.slot = s]
    <2>1. v \in Player /\ v.slot = s /\ v.mail = w.mail /\ v.route = w.route
          /\ v.engine = w.engine /\ v.adapter = w.adapter /\ v.fg = w.fg /\ v.exiting = w.exiting
      BY <1>0, <1>2 DEF Player
    <2> HIDE DEF v
    <2>2. Outside(w, v) /\ Kept(w, v) /\ ObjectInv(v) /\ PostInv(v)
      BY <1>0, <1>2, <2>1 DEF Outside, Kept, ObjectInv, PostInv
    <2>3. Steps(w, v)
      BY <2>2, OutsideSteps
    <2> QED
      BY <2>3 DEF v
  <1>3. ASSUME NEW n, n = [w.engine EXCEPT !.failed = TRUE] \/ n = [w.engine EXCEPT !.late = TRUE]
        PROVE  n \in Engine /\ n.attempt = w.engine.attempt /\ n.serial = w.engine.serial
               /\ n.call = w.engine.call
    BY <1>0, <1>3, PlayerFacts DEF Engine
  <1>4. ASSUME NEW s, s = [w.slot EXCEPT !.late = TRUE]
        PROVE  s \in Object /\ s.unload = w.slot.unload /\ s.abandoned = w.slot.abandoned
               /\ s.returned = w.slot.returned /\ s.back = w.slot.back
    BY <1>0, <1>4, PlayerFacts DEF Object
  <1>5. Steps(w, [w EXCEPT !.engine = [w.engine EXCEPT !.failed = TRUE]])
    BY <1>1, <1>3
  <1>6. Steps(w, [w EXCEPT !.engine = [w.engine EXCEPT !.late = TRUE]])
    BY <1>1, <1>3
  <1>7. Steps(w, [w EXCEPT !.slot = [w.slot EXCEPT !.late = TRUE]])
    BY <1>2, <1>4
  <1> QED
    BY <1>5, <1>6, <1>7


\* A given up Load's thread comes back.
LEMMA AbandonedReturnsSteps ==
    ASSUME NEW w, Sound(w), LeftClean(w), w.slot.abandoned # 0, ~w.slot.back, NEW ok \in BOOLEAN
    PROVE  Steps(w, [w EXCEPT !.slot.back = TRUE,
                              !.mail = @ \cup {[attempt |-> w.slot.abandoned, ok |-> ok]}])
  <1> DEFINE s == [w.slot EXCEPT !.back = TRUE]
             m == w.mail \cup {[attempt |-> w.slot.abandoned, ok |-> ok]}
             v == [w EXCEPT !.slot = s, !.mail = m]
  <1>0. w \in Player /\ ObjectInv(w) /\ PostInv(w)
    BY DEF Sound, Good
  <1>1. [w EXCEPT !.slot.back = TRUE,
                  !.mail = @ \cup {[attempt |-> w.slot.abandoned, ok |-> ok]}] = v
    OBVIOUS
  <1>2. s \in Object /\ s.unload = w.slot.unload /\ s.abandoned = w.slot.abandoned
        /\ s.returned = w.slot.returned /\ s.back
    BY <1>0, PlayerFacts DEF Object
  <1>3. m \in SUBSET Post
    BY <1>0, PlayerFacts, NativeFacts DEF Post
  <1>4. \A x \in m : x \in w.mail \/ x.attempt = w.slot.abandoned
    OBVIOUS
  <1>5. w.engine.attempt = 0 /\ w.slot.abandoned <= w.route.attempts
    BY <1>0 DEF ObjectInv
  <1> HIDE DEF s, m
  <1>6. v \in Player /\ v.engine = w.engine /\ v.mail = m /\ v.route = w.route /\ v.slot = s
        /\ v.adapter = w.adapter /\ v.fg = w.fg /\ v.exiting = w.exiting
    BY <1>0, <1>2, <1>3 DEF Player
  <1> HIDE DEF v
  <1>7. Outside(w, v) /\ Returned(w, v)
    BY <1>2, <1>5, <1>6 DEF Outside, Returned, Live
  <1>8. ObjectInv(v)
    BY <1>0, <1>2, <1>6 DEF ObjectInv
  <1>9. PostInv(v)
    BY <1>0, <1>4, <1>5, <1>6 DEF PostInv
  <1>10. Steps(w, v)
    BY <1>7, <1>8, <1>9, OutsideSteps
  <1> QED
    BY <1>1, <1>10

\* An Unload's worker comes back.
LEMMA UnloadReturnsSteps ==
    ASSUME NEW w, Sound(w), LeftClean(w), w.slot.unload # 0, ~w.slot.returned
    PROVE  Steps(w, [w EXCEPT !.slot.returned = TRUE])
  <1> DEFINE s == [w.slot EXCEPT !.returned = TRUE]
             v == [w EXCEPT !.slot = s]
  <1>0. w \in Player /\ ObjectInv(w) /\ PostInv(w)
    BY DEF Sound, Good
  <1>1. s \in Object /\ s.unload = w.slot.unload /\ s.abandoned = w.slot.abandoned
        /\ s.returned /\ s.back = w.slot.back
    BY <1>0, PlayerFacts DEF Object
  <1>2. w.engine.attempt = 0
    BY <1>0 DEF ObjectInv
  <1>3. [w EXCEPT !.slot.returned = TRUE] = v
    OBVIOUS
  <1> HIDE DEF s
  <1>4. v \in Player /\ v.engine = w.engine /\ v.mail = w.mail /\ v.route = w.route /\ v.slot = s
        /\ v.adapter = w.adapter /\ v.fg = w.fg /\ v.exiting = w.exiting
    BY <1>0, <1>1 DEF Player
  <1> HIDE DEF v
  <1>5. Outside(w, v) /\ Returned(w, v)
    BY <1>1, <1>2, <1>4 DEF Outside, Returned, Live
  <1>6. ObjectInv(v) /\ PostInv(v)
    BY <1>0, <1>1, <1>4 DEF ObjectInv, PostInv
  <1>7. Steps(w, v)
    BY <1>5, <1>6, OutsideSteps
  <1> QED
    BY <1>3, <1>7

------------------------------------------------------------------------------
(* Leaving.                                                                 *)

\* A handler of the exit, and the verdict it leaves.
LEMMA VerdictSteps ==
    ASSUME NEW w, NEW v, Sound(v), Exchanges(w, v), Takes(w, v), Settles(w, v),
           NEW x \in Exits, x = "clean" => NoHolder(v)
    PROVE  Steps(w, [v EXCEPT !.exiting = x])
  <1> DEFINE u == [v EXCEPT !.exiting = x]
  <1>1. u \in Player /\ u.route = v.route /\ u.engine = v.engine /\ u.mail = v.mail
        /\ u.slot = v.slot /\ u.exiting = x /\ u.fg = v.fg /\ u.adapter = v.adapter
    BY DEF Player, Sound
  <1> HIDE DEF u
  <1>2. Good(u) /\ u.fg \in Lifecycle
    BY <1>1 DEF Sound, Good, ObjectInv, PostInv, QueueInv
  <1>3. LeftClean(u)
    BY <1>1 DEF LeftClean, NoHolder, Live
  <1>4. Exchanges(w, u)
    BY <1>1 DEF Exchanges, Kept, Stopped, Returned, NoHolder, Opened, Live
  <1>5. Takes(w, u) /\ Settles(w, u)
    BY <1>1 DEF Takes, Settles, Left, GivenUp
  <1>6. Steps(w, u)
    BY <1>1, <1>2, <1>3, <1>4, <1>5 DEF Steps
  <1> QED
    BY <1>6 DEF u

\* The process begins to leave.
LEMMA ShutdownSteps ==
    ASSUME NEW w, Sound(w), w.exiting = "running", NEW e \in Chance
    PROVE  LET v == IF Live(w) THEN Teardown(w, FALSE, e) ELSE w
           IN  Steps(w, [CancelQueuedStart(v) EXCEPT !.exiting = "leaving"])
  <1> DEFINE t == Teardown(w, FALSE, e)
             v == IF Live(w) THEN t ELSE w
             u == CancelQueuedStart(v)
  <1>0. w \in Player /\ Good(w) /\ w.fg \in Lifecycle
    BY DEF Sound
  <1>1. Ends(w, t) /\ Ends(w, w)
    BY <1>0, TeardownEnds, SelfEnds
  <1> HIDE DEF t
  <1>2. Ends(w, v)
    BY <1>1
  <1> HIDE DEF v
  <1>3. v \in Player /\ Good(v) /\ v.fg = w.fg
    BY <1>2, EndsTypes
  <1>4. Ends(v, u)
    BY <1>3, CancelQueuedHalts DEF Ends
  <1> HIDE DEF u
  <1>5. Ends(w, u)
    BY <1>0, <1>2, <1>4, EndsTrans
  <1>6. Steps(w, u) /\ Sound(u)
    BY <1>0, <1>5, EndsSteps, EndsTypes DEF Sound
  <1>7. "leaving" \in Exits /\ "leaving" # "clean"
    BY DEF Exits
  <1>8. Steps(w, [u EXCEPT !.exiting = "leaving"])
    BY <1>6, <1>7, VerdictSteps DEF Steps
  <1> QED
    BY <1>8 DEF u, v, t

Exited(w, e) ==
    LET v == Reap(w)
        u == DriveRelease(v, FALSE, e)
    IN  IF Live(w)
          THEN IF Finished(w.engine) THEN Teardown(w, FALSE, e)
               ELSE [w EXCEPT !.exiting = "firmware"]
        ELSE IF v.slot.abandoned # 0 THEN [v EXCEPT !.exiting = "firmware"]
        ELSE [u EXCEPT !.exiting = Verdict(Exit(u.adapter.release))]

\* An exit is called clean only with no object left.
LEMMA VerdictFacts ==
    ASSUME NEW r \in Release
    PROVE  Verdict(Exit(r)) \in Exits /\ (Verdict(Exit(r)) = "clean" => r.kind = "Idle")
  BY DEF Release, Exits, Verdict, Exit

\* A handler towards a Load is a step.
LEMMA AdvancesSteps ==
    ASSUME NEW w, Sound(w), NEW v, Advances(w, v), v.fg = w.fg
    PROVE  Sound(v) /\ Exchanges(w, v) /\ Takes(w, v) /\ Settles(w, v)
  <1>1. Sound(v) /\ v.route.last = w.route.last
    BY DEF Sound, Advances, Goes
  <1>2. Untouched(w, v) => Kept(w, v)
    BY DEF Untouched, Kept
  <1> QED
    BY <1>1, <1>2 DEF Advances, Exchanges, Takes, Settles

\* The exit's poll is a step.
LEMMA ExitedSteps ==
    ASSUME NEW w, Sound(w), w.exiting = "leaving", NEW e \in Chance
    PROVE  Steps(w, Exited(w, e))
  <1> DEFINE v == Reap(w)
             u == DriveRelease(v, FALSE, e)
             x == Verdict(Exit(u.adapter.release))
  <1>0. w \in Player /\ Good(w) /\ w.fg \in Lifecycle /\ "firmware" \in Exits
    BY DEF Sound, Exits
  <1>1. CASE Live(w) /\ Finished(w.engine)
    <2> DEFINE t == Teardown(w, FALSE, e)
    <2>1. Ends(w, t)
      BY <1>0, TeardownEnds
    <2>2. Exited(w, e) = t
      BY <1>1 DEF Exited
    <2> HIDE DEF t
    <2> QED
      BY <2>1, <2>2, EndsSteps
  <1>2. CASE Live(w) /\ ~Finished(w.engine)
    <2>1. Exchanges(w, w) /\ Takes(w, w) /\ Settles(w, w)
      BY DEF Exchanges, Kept, Takes, Settles, Left
    <2>2. Steps(w, [w EXCEPT !.exiting = "firmware"])
      BY <1>0, <2>1, VerdictSteps
    <2> QED
      BY <1>2, <2>2 DEF Exited
  <1>3. Advances(w, v) /\ v \in Player /\ Good(v) /\ v.fg = w.fg /\ v.engine = w.engine
    BY <1>0, ReapAdvances
  <1> HIDE DEF v
  <1>4. Sound(v) /\ Exchanges(w, v) /\ Takes(w, v) /\ Settles(w, v)
    BY <1>3, AdvancesSteps
  <1>5. CASE ~Live(w) /\ v.slot.abandoned # 0
    <2>1. Steps(w, [v EXCEPT !.exiting = "firmware"])
      BY <1>0, <1>4, VerdictSteps
    <2> QED
      BY <1>5, <2>1 DEF Exited, v
  <1>6. CASE ~Live(w) /\ v.slot.abandoned = 0
    <2>1. /\ Driven(v, u) /\ u \in Player /\ Good(u)
          /\ Live(v) \/ ~Live(u)
      BY <1>3, DriveReleaseDriven
    <2> HIDE DEF u
    <2>2. ~Live(v) /\ ~Live(u)
      BY <1>3, <1>6, <2>1 DEF Live
    <2>3. Advances(w, u) /\ u.fg = w.fg
      BY <1>0, <1>3, <2>1, AdvancesTrans DEF Driven
    <2>4. Sound(u) /\ Exchanges(w, u) /\ Takes(w, u) /\ Settles(w, u)
      BY <2>3, AdvancesSteps
    <2>5. u.slot.abandoned = 0
      BY <1>6, <2>1, <2>2 DEF Driven, Advances, Untouched, NoHolder, Opened
    <2>6. x \in Exits /\ (x = "clean" => u.adapter.release.kind = "Idle")
      BY <2>1, NativeFacts, VerdictFacts
    <2> HIDE DEF x
    <2>7. x = "clean" => NoHolder(u)
      BY <2>1, <2>2, <2>5, <2>6 DEF NoHolder, Good, ObjectInv
    <2>8. Steps(w, [u EXCEPT !.exiting = x])
      BY <2>4, <2>6, <2>7, VerdictSteps
    <2> QED
      BY <1>6, <2>8 DEF Exited, x, u, v
  <1> QED
    BY <1>1, <1>2, <1>5, <1>6


------------------------------------------------------------------------------
(* The actions.                                                             *)

Turns == {"events", "after", "settle", "requests", "asks", "exit", "idle"}

\* The inductive invariant.
Inv == Sound(World) /\ LeftClean(World) /\ turn \in Turns

\* An action that applies a handler is that handler's step.
LEMMA BecomeSteps ==
    ASSUME NEW u, Steps(World, u), Become(u)
    PROVE  Steps(World, World')
  BY BecomeFacts DEF Steps

\* The frame's turns follow one another.
LEMMA TurnFacts == ASSUME turn \in Turns PROVE NextTurn \in Turns
  BY DEF Turns, NextTurn

\* What the viewer and the television ask.
LEMMA AsksSteps ==
    ASSUME Inv,
           \/ Background \/ DidForeground \/ ClaimParked \/ DecoderRevoked
           \/ StartupDone \/ EngineFails
           \/ PlayFilm \/ PreviewStart \/ PreviewStop \/ Transport \/ ExitPlayer \/ Retry
    PROVE  Steps(World, World') /\ turn' \in Turns
  <1> DEFINE w == World
  <1>1. Sound(w) /\ w \in Player /\ Good(w) /\ w.fg \in Lifecycle
    BY DEF Inv, Sound
  <1>2. w.exiting = "running" /\ w.exiting # "clean" /\ turn' = turn
    BY WorldFacts DEF Background, DidForeground, ClaimParked, DecoderRevoked, StartupDone, Transport,
                      EngineFails, PlayFilm, PreviewStart, PreviewStop, ExitPlayer, Retry,
                      Press, Running
  <1>3. turn' \in Turns
    BY <1>2 DEF Inv
  <1>4. w.engine = engine /\ w.fg = fg /\ w.screen = screen
    BY WorldFacts
  <1> HIDE DEF w
  <1>5. CASE Background
    <2>1. PICK e \in Stops :
             Become(ParkIfPlaying(ParkPending(Halt([w EXCEPT !.screen.front = FALSE], e), e), e))
      BY <1>5 DEF Background, w
    <2>2. e \in Chance
      BY ChanceFacts
    <2> QED
      BY <1>1, <1>2, <1>3, <2>1, <2>2, BackgroundSteps, BecomeSteps DEF w
  <1>6. CASE DidForeground
    <2>1. PICK e \in Claiming, key \in {"DidForeground", "DidForegroundSuperseded"} :
             Become(Mounted(DriveForeground([w EXCEPT !.screen.front = TRUE], key, e)))
      BY <1>6 DEF DidForeground, w
    <2>2. e \in Chance
      BY ChanceFacts
    <2> DEFINE v == [w EXCEPT !.screen.front = TRUE]
    <2>3. Aside(w, v) /\ v.fg = w.fg
      BY <1>1, SetFront
    <2> HIDE DEF v
    <2>4. Steps(w, Mounted(DriveForeground(v, key, e)))
      BY <1>1, <1>2, <2>2, <2>3, ClaimSteps
    <2> QED
      BY <1>3, <2>1, <2>4, BecomeSteps DEF w, v
  <1>7. CASE ClaimParked
    <2>1. PICK e \in Claiming, key \in {"DidForeground", "PlayKey"} :
             Become(Mounted(DriveForeground(
               [w EXCEPT !.wish = IF key = "PlayKey" THEN "Playing" ELSE w.wish], key, e)))
      BY <1>7 DEF ClaimParked, w
    <2>2. e \in Chance
      BY ChanceFacts
    <2> DEFINE c == IF key = "PlayKey" THEN "Playing" ELSE w.wish
               v == [w EXCEPT !.wish = c]
    <2>3. c \in Clocks
      BY <1>1, PlayerFacts DEF Clocks
    <2> HIDE DEF c
    <2>4. Aside(w, v) /\ v.fg = w.fg
      BY <1>1, <2>3, SetWish
    <2> HIDE DEF v
    <2>5. Steps(w, Mounted(DriveForeground(v, key, e)))
      BY <1>1, <1>2, <2>2, <2>4, ClaimSteps
    <2> QED
      BY <1>3, <2>1, <2>5, BecomeSteps DEF w, v, c
  <1>8. CASE DecoderRevoked
    <2>1. PICK e \in Stops :
             Become(IF PreviewRequest(w) THEN Halt(w, e)
                    ELSE IF AwaitingLoad(w.fg) THEN w ELSE ParkPlayback(w, e))
      BY <1>4, <1>8 DEF DecoderRevoked, w
    <2>2. e \in Chance
      BY ChanceFacts
    <2>3. Steps(w, Halt(w, e)) /\ Steps(w, w)
      BY <1>1, <1>2, <2>2, HaltEnds, SelfEnds, EndsSteps
    <2>4. Steps(w, ParkPlayback(w, e))
      BY <1>1, <1>2, <2>2, ParkPlaybackHalts, HaltsSteps
    <2> QED
      BY <1>3, <2>1, <2>3, <2>4, BecomeSteps DEF w
  <1>9. CASE StartupDone
    <2>1. Become(StartedUp(w))
      BY <1>9, WorldFacts DEF StartupDone, StartedUp, w
    <2> QED
      BY <1>1, <1>2, <1>3, <2>1, StartedUpSteps, BecomeSteps DEF w
  <1>10. CASE Transport
    <2>1. PICK paused \in BOOLEAN : Become(Transported(w, paused))
      BY <1>10, WorldFacts DEF Transport, Transported, w
    <2> QED
      BY <1>1, <1>2, <1>3, <2>1, TransportSteps, BecomeSteps DEF w
  <1>11. CASE EngineFails
    <2>1. Become([w EXCEPT !.route = FailCurrentEngine(@), !.engine.dead = TRUE])
      BY <1>11 DEF EngineFails, w
    <2> QED
      BY <1>1, <1>2, <1>3, <2>1, EngineFailsSteps, BecomeSteps DEF w
  <1>12. CASE PlayFilm
    <2>1. PICK e \in Stops : Become(PlayHeldOrNow(w, e))
      BY <1>12 DEF PlayFilm, w
    <2>2. Steps(w, PlayHeldOrNow(w, e))
      BY <1>1, <1>2, ChanceFacts, PlayHeldOrNowEnds, EndsSteps
    <2> QED
      BY <1>3, <2>1, <2>2, BecomeSteps DEF w
  <1>13. CASE PreviewStart
    <2>1. Become(RequestPreview(w))
      BY <1>13 DEF PreviewStart, w
    <2>2. Steps(w, RequestPreview(w))
      BY <1>1, <1>2, RequestPreviewEnds, EndsSteps
    <2> QED
      BY <1>3, <2>1, <2>2, BecomeSteps DEF w
  <1>14. CASE PreviewStop
    <2>1. PICK e \in Stops : Become(Halt(w, e))
      BY <1>14 DEF PreviewStop, w
    <2>2. Steps(w, Halt(w, e))
      BY <1>1, <1>2, ChanceFacts, HaltEnds, EndsSteps
    <2> QED
      BY <1>3, <2>1, <2>2, BecomeSteps DEF w
  <1>15. CASE ExitPlayer
    <2>1. PICK e \in Stops :
             Become([Teardown(CancelPlay([w EXCEPT !.fg = Supersede(@, TRUE)]), FALSE, e)
                       EXCEPT !.screen.page = "Browse"])
      BY <1>15 DEF ExitPlayer, w
    <2>2. e \in Chance
      BY ChanceFacts
    <2> QED
      BY <1>1, <1>2, <1>3, <2>1, <2>2, ExitPlayerSteps, BecomeSteps DEF w
  <1>16. CASE Retry
    <2>1. PICK e \in Stops : Become(RequestFilm(Teardown(w, FALSE, e)))
      BY <1>16 DEF Retry, w
    <2>2. e \in Chance
      BY ChanceFacts
    <2> QED
      BY <1>1, <1>2, <1>3, <2>1, <2>2, RetrySteps, BecomeSteps DEF w
  <1> QED
    BY <1>5, <1>6, <1>7, <1>8, <1>9, <1>10, <1>11, <1>12, <1>13, <1>14, <1>15, <1>16

\* The frame's steps.
LEMMA FrameSteps ==
    ASSUME Inv, PumpStep \/ AfterPumpStep \/ SettleStep \/ RequestsStep \/ LandingStep
    PROVE  Steps(World, World') /\ turn' \in Turns
  <1> DEFINE w == World
  <1>1. Sound(w) /\ w \in Player /\ Good(w) /\ w.fg \in Lifecycle
    BY DEF Inv, Sound
  <1>2. w.exiting = "running" /\ w.exiting # "clean" /\ turn' = NextTurn
    BY WorldFacts DEF PumpStep, AfterPumpStep, SettleStep, RequestsStep, LandingStep,
                      Frame, Running
  <1>3. turn' \in Turns
    BY <1>2, TurnFacts DEF Inv
  <1> HIDE DEF w
  <1>4. Steps(w, w)
    BY <1>1, <1>2, SelfEnds, EndsSteps
  <1>5. CASE PumpStep
    <2>1. PICK e \in Stops : Become(IF MayRun(w) /\ Live(w) THEN Pump(w, e) ELSE w)
      BY <1>5 DEF PumpStep, w
    <2>2. e \in Chance
      BY ChanceFacts
    <2>3. Live(w) => Steps(w, Pump(w, e))
      BY <1>1, <1>2, <2>2, PumpPumped, PumpedSteps
    <2> QED
      BY <1>3, <1>4, <2>1, <2>3, BecomeSteps DEF w
  <1>6. CASE AfterPumpStep
    <2>1. PICK e \in Stops, ended \in BOOLEAN :
             Become(IF MayRun(w) THEN AfterPump(w, ended, e) ELSE w)
      BY <1>6 DEF AfterPumpStep, w
    <2>2. e \in Chance
      BY ChanceFacts
    <2>3. Steps(w, AfterPump(w, ended, e))
      BY <1>1, <1>2, <2>2, AfterPumpEnds, EndsSteps
    <2> QED
      BY <1>3, <1>4, <2>1, <2>3, BecomeSteps DEF w
  <1>7. CASE SettleStep
    <2>1. PICK e \in Settling : Become(Settled(w, e))
      BY <1>7 DEF SettleStep, Settled, w
    <2>2. e \in Chance
      BY ChanceFacts
    <2>3. Moves(w, Settled(w, e)) /\ Settled(w, e).fg \in Lifecycle
      BY <1>1, <2>2, SettledMoves DEF Moves
    <2>4. Steps(w, Settled(w, e))
      BY <1>1, <1>2, <2>3, MovesSteps
    <2> QED
      BY <1>3, <2>1, <2>4, BecomeSteps DEF w
  <1>8. CASE RequestsStep
    <2>1. PICK e \in Stops : Become(ContentRequests(w, e))
      BY <1>8 DEF RequestsStep, w
    <2>2. Steps(w, ContentRequests(w, e))
      BY <1>1, <1>2, ChanceFacts, ContentRequestsEnds, EndsSteps
    <2> QED
      BY <1>3, <2>1, <2>2, BecomeSteps DEF w
  <1>9. CASE LandingStep
    <2>1. PICK e \in Landings : Become(Landing(w, e))
      BY <1>9 DEF LandingStep, w
    <2>2. e \in Chance
      BY ChanceFacts
    <2>3. Steps(w, Landing(w, e))
      BY <1>1, <1>2, <2>2, LandingMoves, MovesSteps
    <2> QED
      BY <1>3, <2>1, <2>3, BecomeSteps DEF w
  <1> QED
    BY <1>5, <1>6, <1>7, <1>8, <1>9

\* The native threads, the clocks and the exit.
LEMMA ThreadSteps ==
    ASSUME Inv,
           \/ WorkerAnswers
           \/ \E ok \in BOOLEAN : LoadReturns(ok) \/ AbandonedReturns(ok)
           \/ PublishLoadFailure \/ LoadTimesOut \/ UnloadReturns \/ ReleaseDeadline
           \/ Shutdown \/ ExitStep
    PROVE  Steps(World, World') /\ turn' \in Turns
  <1> DEFINE w == World
  <1>1. Sound(w) /\ LeftClean(w) /\ turn \in Turns
    BY DEF Inv
  <1>2. w.engine = engine /\ w.slot = slot /\ w.exiting = exiting
    BY WorldFacts
  <1>3. NextTurn \in Turns /\ "exit" \in Turns
    BY <1>1, TurnFacts DEF Turns
  <1> HIDE DEF w
  <1>4. CASE WorkerAnswers
    <2>1. Become([w EXCEPT !.session.answered = TRUE]) /\ turn' = turn /\ w.exiting = "running"
      BY <1>2, <1>4 DEF WorkerAnswers, Elsewhere, AnswerDue, Running, w
    <2> QED
      BY <1>1, <2>1, WorkerAnswersSteps, BecomeSteps DEF w
  <1>5. ASSUME NEW ok \in BOOLEAN, LoadReturns(ok) PROVE Steps(World, World') /\ turn' \in Turns
    <2>1. turn' = turn /\ w.engine.call = "out"
      BY <1>2, <1>5 DEF LoadReturns, Elsewhere
    <2>2. Become([w EXCEPT !.engine.call = IF ok THEN "ok" ELSE "bad",
                           !.mail = @ \cup {[attempt |-> w.engine.attempt, ok |-> ok]}])
      BY <1>2, <1>5 DEF LoadReturns, w
    <2>3. Steps(w, [w EXCEPT !.engine.call = IF ok THEN "ok" ELSE "bad",
                             !.mail = @ \cup {[attempt |-> w.engine.attempt, ok |-> ok]}])
      BY <1>1, <2>1, LoadReturnsSteps
    <2> QED
      BY <1>1, <2>1, <2>2, <2>3, BecomeSteps DEF w
  <1>6. ASSUME NEW ok \in BOOLEAN, AbandonedReturns(ok) PROVE Steps(World, World') /\ turn' \in Turns
    <2>1. turn' = turn /\ w.slot.abandoned # 0 /\ ~w.slot.back
      BY <1>2, <1>6 DEF AbandonedReturns, Elsewhere
    <2>2. Become([w EXCEPT !.slot.back = TRUE,
                           !.mail = @ \cup {[attempt |-> w.slot.abandoned, ok |-> ok]}])
      BY <1>2, <1>6 DEF AbandonedReturns, w
    <2>3. Steps(w, [w EXCEPT !.slot.back = TRUE,
                             !.mail = @ \cup {[attempt |-> w.slot.abandoned, ok |-> ok]}])
      BY <1>1, <2>1, AbandonedReturnsSteps
    <2> QED
      BY <1>1, <2>1, <2>2, <2>3, BecomeSteps DEF w
  <1>7. CASE PublishLoadFailure
    <2>1. Become([w EXCEPT !.engine.failed = TRUE]) /\ turn' = turn
      BY <1>7 DEF PublishLoadFailure, Elsewhere, w
    <2> QED
      BY <1>1, <2>1, FlagSteps, BecomeSteps DEF w
  <1>8. CASE LoadTimesOut
    <2>1. Become([w EXCEPT !.engine.late = TRUE]) /\ turn' = turn
      BY <1>8 DEF LoadTimesOut, Elsewhere, w
    <2> QED
      BY <1>1, <2>1, FlagSteps, BecomeSteps DEF w
  <1>9. CASE UnloadReturns
    <2>1. Become([w EXCEPT !.slot.returned = TRUE]) /\ turn' = turn
          /\ w.slot.unload # 0 /\ ~w.slot.returned
      BY <1>2, <1>9 DEF UnloadReturns, Elsewhere, w
    <2> QED
      BY <1>1, <2>1, UnloadReturnsSteps, BecomeSteps DEF w
  <1>10. CASE ReleaseDeadline
    <2>1. Become([w EXCEPT !.slot.late = TRUE]) /\ turn' = turn
      BY <1>10 DEF ReleaseDeadline, Elsewhere, w
    <2> QED
      BY <1>1, <2>1, FlagSteps, BecomeSteps DEF w
  <1>11. CASE Shutdown
    <2>1. turn' = "exit" /\ w.exiting = "running"
      BY <1>2, <1>11 DEF Shutdown, Running
    <2>2. PICK e \in Stops :
             Become([CancelQueuedStart(IF Live(w) THEN Teardown(w, FALSE, e) ELSE w)
                       EXCEPT !.exiting = "leaving"])
      BY <1>11 DEF Shutdown, w
    <2>3. e \in Chance
      BY ChanceFacts
    <2>4. Steps(w, [CancelQueuedStart(IF Live(w) THEN Teardown(w, FALSE, e) ELSE w)
                       EXCEPT !.exiting = "leaving"])
      BY <1>1, <2>1, <2>3, ShutdownSteps
    <2> QED
      BY <1>3, <2>1, <2>2, <2>4, BecomeSteps DEF w
  <1>12. CASE ExitStep
    <2>1. turn' = NextTurn /\ w.exiting = "leaving"
      BY <1>2, <1>12 DEF ExitStep
    <2>2. PICK e \in Stops : Become(Exited(w, e))
      BY <1>2, <1>12 DEF ExitStep, Exited, w
    <2>3. e \in Chance
      BY ChanceFacts
    <2>4. Steps(w, Exited(w, e))
      BY <1>1, <2>1, <2>3, ExitedSteps
    <2> QED
      BY <1>3, <2>1, <2>2, <2>4, BecomeSteps DEF w
  <1> QED
    BY <1>4, <1>5, <1>6, <1>7, <1>8, <1>9, <1>10, <1>11, <1>12


\* Every action is a step of the player.
LEMMA NextSteps ==
    ASSUME Inv, Next
    PROVE  Steps(World, World') /\ turn' \in Turns
  BY AsksSteps, FrameSteps, ThreadSteps DEF Next

\* Nothing is installed at the start.
LEMMA InitInv == ASSUME Init PROVE Inv
  <1> DEFINE w == World
  <1>1. /\ w.route = IdleRoute /\ w.engine = NoEngine /\ w.mail = {} /\ w.slot = NoSlot
        /\ w.adapter = [release |-> Idle, watch |-> NoWatch, admission |-> FALSE]
        /\ w.fg = Unowed /\ w.exiting = "running" /\ turn \in Turns
    BY WorldFacts DEF Init, Turns
  <1>2. IdleRoute \in Route /\ Issued(IdleRoute) /\ IdleRoute.attempts = 0 /\ IdleRoute.serials = 0
    BY DEF IdleRoute, Route, Phases, Pending, Issued, Fallbacks, NoFallback, At, NoStartResult
  <1>3. NoEngine \in Engine /\ NoEngine.attempt = 0 /\ NoEngine.call = "none"
    BY DEF NoEngine, Engine, Calls
  <1>4. NoSlot \in Object /\ NoSlot.unload = 0 /\ NoSlot.abandoned = 0
        /\ ~NoSlot.returned /\ ~NoSlot.back
    BY DEF NoSlot, Object
  <1>5. Idle \in Release /\ Idle.kind = "Idle" /\ Idle.queued = 0
    BY DEF Idle, Release
  <1>6. NoWatch \in Watch
    BY DEF NoWatch, Watch
  <1>7. [release |-> Idle, watch |-> NoWatch, admission |-> FALSE] \in Adapter
    BY <1>5, <1>6 DEF Adapter
  <1>8. Unowed \in Lifecycle /\ Unowed \in Machine
    BY UnowedFacts, LifecycleMachine
  <1>9. session \in Session /\ preview \in Previews /\ held \in BOOLEAN /\ screen \in Screen
        /\ wish \in Clocks /\ exiting \in Exits
    BY DEF Init, Session, Previews, Screen, Clocks, Exits
  <1>10. route \in Route /\ engine \in Engine /\ mail \in SUBSET Post /\ slot \in Object
         /\ adapter \in Adapter /\ fg \in Machine
    BY <1>2, <1>3, <1>4, <1>7, <1>8 DEF Init
  <1>11. w \in Player
    BY <1>9, <1>10 DEF World, Player
  <1> HIDE DEF w
  <1>12. Good(w)
    BY <1>1, <1>2, <1>3, <1>4, <1>5 DEF Good, ObjectInv, PostInv, QueueInv
  <1>13. LeftClean(w)
    BY <1>1 DEF LeftClean
  <1> QED
    BY <1>1, <1>8, <1>11, <1>12, <1>13 DEF Inv, Sound, w

\* A stuttering step changes nothing.
LEMMA StutterFacts == ASSUME UNCHANGED vars PROVE World' = World /\ turn' = turn
  BY DEF vars, World

\* Every step keeps the invariant.
LEMMA NextInv == Inv /\ [Next]_vars => Inv'
  <1> SUFFICES ASSUME Inv, [Next]_vars PROVE Inv'
    OBVIOUS
  <1>1. CASE Next
    <2>1. Steps(World, World') /\ turn' \in Turns
      BY <1>1, NextSteps
    <2>2. (Sound(World))' /\ (LeftClean(World))'
      BY <2>1 DEF Steps, Sound, LeftClean, NoHolder, Live, Good, ObjectInv, PostInv, QueueInv
    <2> QED
      BY <2>1, <2>2 DEF Inv
  <1>2. CASE UNCHANGED vars
    BY <1>2, StutterFacts DEF Inv, vars, Sound, LeftClean
  <1> QED
    BY <1>1, <1>2

\* Between two steps the firmware holds one object, the release machine is busy
\* exactly while an Unload is on its worker, the inbox holds of the installed
\* Engine's Load only what it answered, and the start that waits was issued.
THEOREM Invariant == Spec => []Inv
  <1>1. Init => Inv
    BY InitInv
  <1> QED
    BY <1>1, NextInv, PTL DEF Spec


------------------------------------------------------------------------------
(* The theorems.                                                            *)

\* The type invariant: a route with a phase, an Engine whose Load has a state,
\* a lifecycle that is at rest between two steps (no claim is left unanswered
\* by the actuator of src/app/lifecycle.rs), whatever the presses.
THEOREM PlayTypeCorrect == Spec => []TypeOK
  <1>1. Inv => TypeOK
    <2> SUFFICES ASSUME Inv PROVE TypeOK
      OBVIOUS
    <2>1. World \in Player /\ fg \in Lifecycle /\ turn \in Turns
      BY WorldFacts DEF Inv, Sound
    <2>2. route \in Route /\ session \in Session /\ preview \in Previews /\ engine \in Engine
          /\ adapter \in Adapter /\ exiting \in Exits
      BY <2>1, PlayerFacts, WorldFacts
    <2>3. route.phase \in Phases /\ engine.call \in Calls
      BY <2>2 DEF Route, Engine
    <2>4. adapter.watch.kind \in {"Unwatched", "Watching", "Launched", "Failed"}
      BY <2>2 DEF Adapter, Watch
    <2> QED
      BY <2>1, <2>2, <2>3, <2>4 DEF TypeOK, Phases, Session, Previews, Exits, Turns
  <1> QED
    BY <1>1, Invariant, PTL

\* The firmware never holds two objects: begin_native_open is reached only once
\* the Engine is gone, its Unload's worker has returned and no given up Load is
\* still inside.
THEOREM SingleObject == Spec => []OneNativeObject
  <1>1. Inv => OneNativeObject
    <2> SUFFICES ASSUME Inv PROVE OneNativeObject
      OBVIOUS
    <2> DEFINE H == {n \in {engine.attempt, slot.unload, slot.abandoned} : n # 0}
    <2>1. ObjectInv(World)
      BY DEF Inv, Sound, Good
    <2>2. /\ engine.attempt # 0 => slot.unload = 0 /\ slot.abandoned = 0
          /\ slot.unload = 0 \/ slot.abandoned = 0
      BY <2>1, WorldFacts DEF ObjectInv
    <2>3. H = {} \/ \E n : H = {n}
      <3>1. CASE engine.attempt # 0
        <4>1. H = {engine.attempt}
          BY <2>2, <3>1
        <4> QED
          BY <4>1
      <3>2. CASE engine.attempt = 0 /\ slot.unload # 0
        <4>1. H = {slot.unload}
          BY <2>2, <3>2
        <4> QED
          BY <4>1
      <3>3. CASE engine.attempt = 0 /\ slot.unload = 0 /\ slot.abandoned # 0
        <4>1. H = {slot.abandoned}
          BY <3>3
        <4> QED
          BY <4>1
      <3>4. CASE engine.attempt = 0 /\ slot.unload = 0 /\ slot.abandoned = 0
        BY <3>4
      <3> QED
        BY <3>1, <3>2, <3>3, <3>4
    <2> HIDE DEF H
    <2>4. Cardinality(H) \in {0, 1}
      BY <2>3, FS_EmptySet, FS_Singleton
    <2>5. Cardinality(H) <= 1
      BY <2>4
    <2> QED
      BY <2>5 DEF OneNativeObject, H
  <1> QED
    BY <1>1, Invariant, PTL

\* exit_native never calls the display clean while a thread of the player is
\* inside the firmware, whichever of shutdown, a given up Load or an Unload's
\* worker it has to wait for.
THEOREM ExitsClean == Spec => []CleanExit
  <1>1. Inv => CleanExit
    BY WorldFacts DEF Inv, LeftClean, NoHolder, Live, CleanExit
  <1> QED
    BY <1>1, Invariant, PTL

\* A route's result comes from the Load of the Engine that is installed, and
\* says what that Load answered: drain_load_outcomes drops what an earlier Load
\* posted late.
THEOREM OwnAnswer == Spec => AnswerIsItsOwn
  <1> DEFINE A == route'.last # route.last
                    => /\ route'.last.attempt = engine.attempt
                       /\ route'.last.ok = (engine.call = "ok")
  <1>1. Inv /\ [Next]_vars => [A]_vars
    <2> SUFFICES ASSUME Inv, Next PROVE A
      OBVIOUS
    <2>1. Takes(World, World')
      BY NextSteps DEF Steps
    <2>2. World'.route = route' /\ World.route = route /\ World.engine = engine
      BY WorldFacts DEF World
    <2> QED
      BY <2>1, <2>2 DEF Takes
  <1> QED
    BY <1>1, Invariant, PTL DEF Spec, AnswerIsItsOwn

\* No start is lost in the release machine: when one leaves its queue, its
\* Engine was launched in the same step or the route has stopped waiting for it.
THEOREM QueueSettled == Spec => QueuedStartSettled
  <1> DEFINE A == LET q == adapter.release.queued
                  IN  q # 0 /\ adapter'.release.queued # q
                        => engine'.serial = q \/ PendingRouteStart(route') # q
  <1>1. Inv /\ [Next]_vars => [A]_vars
    <2> SUFFICES ASSUME Inv, Next PROVE A
      OBVIOUS
    <2>1. Settles(World, World')
      BY NextSteps DEF Steps
    <2>2. World'.route = route' /\ World'.engine = engine' /\ World'.adapter = adapter'
          /\ World.adapter = adapter
      BY WorldFacts DEF World
    <2> QED
      BY <2>1, <2>2 DEF Settles, Left, GivenUp
  <1> QED
    BY <1>1, Invariant, PTL DEF Spec, QueuedStartSettled


------------------------------------------------------------------------------
(* The refinement: the player implements the abstract native object.        *)

Holder(w) == IF w.engine.attempt # 0 THEN "engine" ELSE IF w.slot.unload # 0 THEN "unload"
             ELSE IF w.slot.abandoned # 0 THEN "parked" ELSE "free"

Id(w) == w.engine.attempt + w.slot.unload + w.slot.abandoned

Done(w) == w.slot.returned \/ w.slot.back

\* One step of the abstract object, between two states of the player.
SlotStep(w, v) ==
    LET clear == Holder(w) = "free" \/ (Holder(w) \in {"unload", "parked"} /\ Done(w))
    IN  \/ clear /\ Holder(v) = "engine" /\ Id(v) \in Nat \ {0, Id(w)} /\ ~Done(v)
        \/ /\ Holder(w) = "engine"
           /\ \/ Holder(v) = "free" /\ Id(v) = 0 /\ ~Done(v)
              \/ Holder(v) = "unload" /\ Id(v) = Id(w) /\ ~Done(v)
              \/ Holder(v) = "parked" /\ Id(v) = Id(w)
        \/ /\ Holder(w) \in {"unload", "parked"} /\ ~Done(w)
           /\ Done(v) /\ Holder(v) = Holder(w) /\ Id(v) = Id(w)
        \/ clear /\ Holder(w) # "free" /\ Holder(v) = "free" /\ Id(v) = 0 /\ ~Done(v)
        \/ Holder(v) = Holder(w) /\ Id(v) = Id(w) /\ (Done(v) <=> Done(w))

\* What an exchange of the object is to the abstract slot.
LEMMA ExchangesSlot ==
    ASSUME NEW w \in Player, Good(w), NEW v \in Player, Good(v), Exchanges(w, v)
    PROVE  SlotStep(w, v)
  <1>1. /\ w.engine.attempt \in Nat /\ w.slot.unload \in Nat /\ w.slot.abandoned \in Nat
        /\ v.engine.attempt \in Nat /\ v.slot.unload \in Nat /\ v.slot.abandoned \in Nat
        /\ w.route.attempts \in Nat
    BY NativeFacts
  <1>2. /\ w.engine.attempt # 0 => w.slot.unload = 0 /\ w.slot.abandoned = 0
        /\ w.slot.unload = 0 \/ w.slot.abandoned = 0
        /\ w.slot.unload = 0 => ~w.slot.returned
        /\ w.slot.abandoned = 0 => ~w.slot.back
        /\ w.engine.attempt <= w.route.attempts /\ w.slot.unload <= w.route.attempts
        /\ w.slot.abandoned <= w.route.attempts
    BY DEF Good, ObjectInv
  <1>3. /\ v.engine.attempt # 0 => v.slot.unload = 0 /\ v.slot.abandoned = 0
        /\ v.slot.unload = 0 \/ v.slot.abandoned = 0
        /\ v.slot.unload = 0 => ~v.slot.returned
        /\ v.slot.abandoned = 0 => ~v.slot.back
    BY DEF Good, ObjectInv
  <1>4. Id(w) <= w.route.attempts
    BY <1>1, <1>2, SMTT(30) DEF Id
  <1>5. CASE Kept(w, v)
    BY <1>1, <1>5 DEF Kept, SlotStep, Holder, Id, Done
  <1>6. CASE Stopped(w, v)
    <2>1. Holder(w) = "engine" /\ Id(w) = w.engine.attempt /\ w.engine.attempt # 0
      BY <1>1, <1>2, <1>6 DEF Stopped, Live, Holder, Id
    <2>2. CASE v.slot.unload = 0 /\ v.slot.abandoned = 0
      <3>1. Holder(v) = "free" /\ Id(v) = 0 /\ ~Done(v)
        BY <1>3, <1>6, <2>2 DEF Stopped, Live, Holder, Id, Done
      <3> QED
        BY <2>1, <3>1 DEF SlotStep
    <2>3. CASE v.slot.unload = w.engine.attempt /\ ~v.slot.returned /\ v.slot.abandoned = 0
      <3>1. Holder(v) = "unload" /\ Id(v) = Id(w) /\ ~Done(v)
        BY <1>1, <1>3, <1>6, <2>1, <2>3 DEF Stopped, Live, Holder, Id, Done
      <3> QED
        BY <2>1, <3>1 DEF SlotStep
    <2>4. CASE v.slot.abandoned = w.engine.attempt /\ v.slot.unload = 0
      <3>1. Holder(v) = "parked" /\ Id(v) = Id(w)
        BY <1>1, <1>6, <2>1, <2>4 DEF Stopped, Live, Holder, Id
      <3> QED
        BY <2>1, <3>1 DEF SlotStep
    <2> QED
      BY <1>6, <2>2, <2>3, <2>4 DEF Stopped
  <1>7. CASE Returned(w, v)
    BY <1>1, <1>2, <1>3, <1>7 DEF Returned, Live, SlotStep, Holder, Id, Done
  <1>8. CASE Vacant(w) /\ NoHolder(v)
    BY <1>1, <1>2, <1>3, <1>8 DEF Vacant, NoHolder, Live, SlotStep, Holder, Id, Done
  <1>9. CASE Vacant(w) /\ Opened(w, v)
    <2>1. Holder(v) = "engine" /\ Id(v) \in Nat \ {0, Id(w)} /\ ~Done(v)
      BY <1>1, <1>3, <1>4, <1>9 DEF Opened, Live, Holder, Id, Done
    <2>2. Holder(w) = "free" \/ (Holder(w) \in {"unload", "parked"} /\ Done(w))
      BY <1>9 DEF Vacant, Live, Holder, Done
    <2> QED
      BY <2>1, <2>2 DEF SlotStep
  <1> QED
    BY <1>5, <1>6, <1>7, <1>8, <1>9 DEF Exchanges

\* Every behaviour of the player is one of the abstract native object's: a Load
\* opens it only when nobody is inside the firmware, under a number never used
\* for the last one, a stop frees it, hands it to a worker or parks it, and it
\* is freed only after the firmware returned (NativeStop, reap_abandoned_load,
\* drive_release).
THEOREM SlotImplemented == Spec => SlotKept
  <1>1. Init => Slot!SlotInit
    BY DEF Init, Slot!SlotInit, NoEngine, NoSlot
  <1>2. Inv /\ [Next]_vars => [Slot!SlotNext]_(Slot!slotVars)
    <2> SUFFICES ASSUME Inv, [Next]_vars PROVE [Slot!SlotNext]_(Slot!slotVars)
      OBVIOUS
    <2>1. CASE UNCHANGED vars
      BY <2>1 DEF vars, Slot!slotVars
    <2>2. CASE Next
      <3>1. SlotStep(World, World')
        BY <2>2, NextSteps, ExchangesSlot DEF Inv, Sound, Steps
      <3>2. /\ World.engine = engine /\ World.slot = slot
            /\ World'.engine = engine' /\ World'.slot = slot'
        BY DEF World
      <3>3. slot.returned \in BOOLEAN /\ slot.back \in BOOLEAN
            /\ slot'.returned \in BOOLEAN /\ slot'.back \in BOOLEAN
        BY <2>2, <3>2, NextSteps, NativeFacts DEF Inv, Sound, Steps
      <3> QED
        BY <3>1, <3>2, <3>3 DEF SlotStep, Holder, Id, Done, Slot!SlotNext, Slot!slotVars,
             Slot!Opens, Slot!Stops, Slot!Returns, Slot!Frees, Slot!Clear
    <2> QED
      BY <2>1, <2>2
  <1> QED
    BY <1>1, <1>2, Invariant, PTL DEF Spec, SlotKept, Slot!SlotSpec

====
