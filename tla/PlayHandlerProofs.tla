--------------------------- MODULE PlayHandlerProofs --------------------------
(***************************************************************************)
(* The handlers of PlayStart, one by one: what each may do to the native   *)
(* object, to the inbox of Load results and to the start that waits in the *)
(* release machine.  PlayStartProofs puts them together.                   *)
(***************************************************************************)
EXTENDS PlayStart, TLAPS

------------------------------------------------------------------------------
(* The reducer of the play route: what each call leaves of the route, which  *)
(* serials it issues, and that a start once given up is never pending again. *)

Phases == Pending \cup {"Idle", "Resolving", "Stable", "Failed"}

\* A request gives back a phase in which no start is pending.
Fallbacks == {NoFallback} \cup [phase : {"Idle", "Stable", "Failed"}, serial : Nat]

Route == [phase : Phases, serial : Nat, attempt : Nat, under : Fallbacks, flight : Nat,
          serials : Nat, attempts : Nat, last : [serial : Nat, attempt : Nat, ok : BOOLEAN]]

\* Every serial the route carries was issued.
Issued(c) == c.serial <= c.serials /\ c.under.serial <= c.serials

\* A serial that was issued before does not become pending again.
NoRevival(c, d) ==
    PendingRouteStart(d) = PendingRouteStart(c) \/ PendingRouteStart(d) = 0
      \/ c.serials < PendingRouteStart(d)

\* d is c moved on by a call that claims no Load and settles none.
MovedOn(c, d) ==
    /\ d \in Route /\ Issued(d)
    /\ d.last = c.last /\ d.attempts = c.attempts /\ c.serials <= d.serials

Carries(c, d) == MovedOn(c, d) /\ NoRevival(c, d)

\* Doing nothing carries the route on.
LEMMA CarriesSelf == ASSUME NEW c \in Route, Issued(c) PROVE Carries(c, c)
  BY DEF Carries, MovedOn, NoRevival, Route

\* Two operations in a row carry it on.
LEMMA CarriesTrans ==
    ASSUME NEW b \in Route, NEW c \in Route, NEW d \in Route, Carries(b, c), Carries(c, d)
    PROVE  Carries(b, d)
  <1>1. PendingRouteStart(b) \in Nat /\ PendingRouteStart(c) \in Nat /\ PendingRouteStart(d) \in Nat
    BY DEF PendingRouteStart, Route
  <1>2. b.serials \in Nat /\ c.serials \in Nat /\ d.serials \in Nat
    BY DEF Route
  <1> QED
    BY <1>1, <1>2 DEF Carries, MovedOn, NoRevival

\* What Enter leaves alone.
LEMMA EnterFacts ==
    ASSUME NEW c \in Route, NEW phase \in Phases, NEW serial \in Nat
    PROVE  /\ Enter(c, phase, serial) \in Route
           /\ Enter(c, phase, serial).phase = phase
           /\ Enter(c, phase, serial).serial = serial
           /\ Enter(c, phase, serial).under = c.under
           /\ Enter(c, phase, serial).serials = c.serials
           /\ Enter(c, phase, serial).attempts = c.attempts
           /\ Enter(c, phase, serial).last = c.last
           /\ Enter(c, phase, serial).flight = c.flight
  BY DEF Enter, Route

\* The start that is pending after entering a phase.
LEMMA EnterPending ==
    ASSUME NEW c \in Route, NEW phase \in Phases, NEW serial \in Nat
    PROVE  PendingRouteStart(Enter(c, phase, serial)) = IF phase \in Pending THEN serial ELSE 0
  BY EnterFacts DEF PendingRouteStart

\* Entering a phase carries the route on, if it makes no other start pending.
LEMMA EnterCarries ==
    ASSUME NEW c \in Route, Issued(c), NEW phase \in Phases, NEW serial \in Nat, 
           serial <= c.serials,
           phase \in Pending => c.phase \in Pending /\ c.serial = serial
    PROVE  Carries(c, Enter(c, phase, serial))
  <1>1. c.serials \in Nat BY DEF Route
  <1> QED BY <1>1, EnterFacts DEF Carries, MovedOn, NoRevival, Issued, PendingRouteStart

\* Which phases wait for a start.
LEMMA PhaseFacts ==
    /\ "Idle" \in Phases /\ "Resolving" \in Phases /\ "Stable" \in Phases /\ "Failed" \in Phases
    /\ "Preparing" \in Phases /\ "Prepared" \in Phases /\ "Starting" \in Phases
    /\ "Idle" \notin Pending /\ "Resolving" \notin Pending
    /\ "Stable" \notin Pending /\ "Failed" \notin Pending
    /\ "Preparing" \in Pending /\ "Prepared" \in Pending /\ "Starting" \in Pending
  BY DEF Phases, Pending

\* A phase is one of a pending start, or one of the four others.
LEMMA NotPending ==
    ASSUME NEW p \in Phases
    PROVE  p \in Pending \/ p \in {"Idle", "Resolving", "Stable", "Failed"}
  BY DEF Phases, Pending

\* The fields of a route have their types.
LEMMA RouteFacts ==
    ASSUME NEW c \in Route
    PROVE  /\ c.phase \in Phases /\ c.serial \in Nat /\ c.serials \in Nat /\ c.attempts \in Nat
           /\ c.under \in Fallbacks /\ c.flight \in Nat /\ c.attempt \in Nat
           /\ PendingRouteStart(c) \in Nat
           /\ PendingRouteStart(c) # 0 => c.phase \in Pending /\ c.serial = PendingRouteStart(c)
           /\ c.phase \in Pending => PendingRouteStart(c) = c.serial
           /\ c.phase \notin Pending => PendingRouteStart(c) = 0
  BY DEF Route, PendingRouteStart

\* The flight, and what lies under a request, are the reducer's own business.
LEMMA AsideCarries ==
    ASSUME NEW b \in Route, NEW c \in Route, Carries(b, c), NEW f \in Nat, NEW u \in Fallbacks,
           u.serial <= c.serials
    PROVE  /\ Carries(b, [c EXCEPT !.flight = f])
           /\ Carries(b, [c EXCEPT !.under = u])
           /\ Carries(b, [c EXCEPT !.under = u, !.flight = f])
  <1> DEFINE d == [c EXCEPT !.flight = f]
             e == [c EXCEPT !.under = u]
             g == [c EXCEPT !.under = u, !.flight = f]
  <1>1. d \in Route /\ e \in Route /\ g \in Route
    BY DEF Route
  <1>2. \A r \in {d, e, g} : /\ r.phase = c.phase /\ r.serial = c.serial /\ r.serials = c.serials
                             /\ r.last = c.last /\ r.attempts = c.attempts
    BY DEF Route
  <1>3. d.under = c.under /\ e.under = u /\ g.under = u
    BY DEF Route
  <1> HIDE DEF d, e, g
  <1>4. Carries(b, d) /\ Carries(b, e) /\ Carries(b, g)
    BY <1>1, <1>2, <1>3 DEF Carries, MovedOn, NoRevival, Issued, PendingRouteStart
  <1> QED
    BY <1>4 DEF d, e, g

\* A fresh serial was never issued before.
LEMMA FreshCarries ==
    ASSUME NEW c \in Route, Issued(c), NEW phase \in Phases
    PROVE  /\ Carries(c, Fresh(c, phase))
           /\ Fresh(c, phase).phase = phase
           /\ Fresh(c, phase).serial = c.serials + 1
           /\ Fresh(c, phase).serials = c.serials + 1
  <1> DEFINE d == Enter(c, phase, c.serials + 1)
             f == [d EXCEPT !.serials = c.serials + 1]
  <1>1. c.serials \in Nat /\ c.serials + 1 \in Nat
    BY RouteFacts
  <1>2. d \in Route /\ d.phase = phase /\ d.serial = c.serials + 1 /\ d.under = c.under
        /\ d.attempts = c.attempts /\ d.last = c.last
    BY <1>1, EnterFacts
  <1> HIDE DEF d
  <1>3. f \in Route /\ f.phase = phase /\ f.serial = c.serials + 1 /\ f.under = c.under
        /\ f.attempts = c.attempts /\ f.last = c.last /\ f.serials = c.serials + 1
    BY <1>1, <1>2 DEF Route
  <1>4. c.under.serial \in Nat
    BY RouteFacts DEF Fallbacks, NoFallback, At
  <1> HIDE DEF f
  <1>5. Carries(c, f)
    BY <1>1, <1>3, <1>4 DEF Carries, MovedOn, NoRevival, Issued, PendingRouteStart
  <1>6. f = Fresh(c, phase)
    BY DEF f, d, Fresh
  <1> QED
    BY <1>3, <1>5, <1>6

\* Phases without a serial.
LEMMA RestCarries ==
    ASSUME NEW c \in Route, Issued(c), NEW p \in {"Idle", "Resolving", "Stable"}
    PROVE  /\ Carries(c, Enter(c, p, 0)) /\ Enter(c, p, 0) \in Route
           /\ Enter(c, p, 0).serials = c.serials /\ 0 <= c.serials
  <1>1. p \in Phases /\ p \notin Pending /\ c.serials \in Nat /\ 0 \in Nat /\ 0 <= c.serials
    BY PhaseFacts, RouteFacts
  <1>2. Carries(c, Enter(c, p, 0))
    BY <1>1, EnterCarries
  <1>3. Enter(c, p, 0) \in Route /\ Enter(c, p, 0).serials = c.serials
    BY <1>1, EnterFacts
  <1> QED
    BY <1>1, <1>2, <1>3

\* Aborting a start carries the route on.
LEMMA AbortCarries ==
    ASSUME NEW c \in Route, Issued(c), NEW q \in Nat, NEW result
    PROVE  /\ Carries(c, AbortRouteStart(c, q, result))
           /\ q # 0 => PendingRouteStart(AbortRouteStart(c, q, result)) # q
  <1>1. Carries(c, AbortRouteStart(c, q, result))
    BY PhaseFacts, RouteFacts, CarriesSelf, EnterCarries DEF AbortRouteStart, Issued
  <1>2. PendingRouteStart(Enter(c, "Stable", 0)) = 0 /\ PendingRouteStart(Enter(c, "Failed", q)) = 0
    BY PhaseFacts, EnterPending
  <1>3. q # 0 => PendingRouteStart(AbortRouteStart(c, q, result)) # q
    BY <1>2, RouteFacts DEF AbortRouteStart
  <1> QED
    BY <1>1, <1>3

\* Preparing carries it on.
LEMMA PrepareCarries ==
    ASSUME NEW c \in Route, Issued(c), NEW q \in Nat
    PROVE  Carries(c, PrepareRouteStart(c, q))
  BY PhaseFacts, RouteFacts, CarriesSelf, EnterCarries DEF PrepareRouteStart, MayPrepare, Issued

\* Rejecting carries it on.
LEMMA RejectCarries ==
    ASSUME NEW c \in Route, Issued(c), NEW q \in Nat
    PROVE  Carries(c, RejectRouteStartPreparation(c, q))
  BY PhaseFacts, RouteFacts, CarriesSelf, EnterCarries DEF RejectRouteStartPreparation, Issued

\* Beginning a start carries it on.
LEMMA BeginCarries ==
    ASSUME NEW c \in Route, Issued(c), MayBegin(c)
    PROVE  /\ Carries(c, BeginRouteStart(c))
           /\ BeginRouteStart(c).serial \in Nat
           /\ PendingRouteStart(BeginRouteStart(c)) = BeginRouteStart(c).serial
  <1>1. Carries(c, BeginRouteStart(c))
    BY PhaseFacts, NotPending, RouteFacts, CarriesSelf, FreshCarries DEF BeginRouteStart, MayBegin
  <1>2. BeginRouteStart(c) \in Route
    BY <1>1 DEF Carries, MovedOn
  <1>3. BeginRouteStart(c).phase \in Pending
    BY PhaseFacts, NotPending, RouteFacts, FreshCarries DEF BeginRouteStart, MayBegin
  <1> QED
    BY <1>1, <1>2, <1>3, RouteFacts

\* A teardown carries it on.
LEMMA TeardownCarries ==
    ASSUME NEW c \in Route, Issued(c), NEW reload \in BOOLEAN
    PROVE  Carries(c, EngineTeardown(c, reload))
  <1>1. c.phase \in Pending => Carries(c, Enter(c, "Prepared", c.serial))
    BY PhaseFacts, RouteFacts, EnterCarries DEF Issued
  <1>2. NoFallback \in Fallbacks /\ NoFallback.serial = 0 /\ 0 \in Nat
    BY DEF Fallbacks, NoFallback, At
  <1>3. Carries(c, [Enter(c, "Idle", 0) EXCEPT !.flight = 0])
    BY <1>2, RestCarries, AsideCarries
  <1>4. Carries(c, [Enter(c, "Stable", 0) EXCEPT !.flight = 0])
    BY <1>2, RestCarries, AsideCarries
  <1> QED
    BY <1>1, <1>3, <1>4, CarriesSelf, PhaseFacts DEF EngineTeardown

\* A failure carries it on.
LEMMA FailCarries ==
    ASSUME NEW c \in Route, Issued(c)
    PROVE  Carries(c, FailCurrentEngine(c))
  <1> DEFINE d == [c EXCEPT !.flight = 0]
  <1>1. NoFallback \in Fallbacks /\ NoFallback.serial = 0 /\ 0 <= c.serials
    BY RouteFacts DEF Fallbacks, NoFallback, At
  <1>2. Carries(c, d)
    BY <1>1, CarriesSelf, AsideCarries
  <1>3. d \in Route /\ Issued(d)
    BY <1>2 DEF Carries, MovedOn
  <1>4. d.serials = c.serials
    BY DEF Route
  <1> HIDE DEF d
  <1>5. Carries(d, Fresh(d, "Failed")) 
    BY <1>3, PhaseFacts, FreshCarries
  <1>6. c.phase \in Pending => Carries(d, Enter(d, "Failed", c.serial))
    BY <1>3, <1>4, PhaseFacts, RouteFacts, EnterCarries DEF Issued
  <1>7. Fresh(d, "Failed") \in Route
    BY <1>5 DEF Carries, MovedOn
  <1>8. Enter(d, "Failed", c.serial) \in Route
    BY <1>3, PhaseFacts, RouteFacts, EnterFacts
  <1>9. Carries(c, Fresh(d, "Failed"))
    BY <1>2, <1>3, <1>5, <1>7, CarriesTrans
  <1>10. c.phase \in Pending => Carries(c, Enter(d, "Failed", c.serial))
    BY <1>2, <1>3, <1>6, <1>8, CarriesTrans
  <1> QED
    BY <1>9, <1>10, CarriesSelf, PhaseFacts DEF FailCurrentEngine, d

\* A landing carries it on.
LEMMA LandingCarries ==
    ASSUME NEW c \in Route, Issued(c), NEW playable \in BOOLEAN
    PROVE  Carries(c, PreparePlaybackLanding(c, playable))
  <1> DEFINE d == [c EXCEPT !.under = NoFallback]
  <1>1. NoFallback \in Fallbacks /\ NoFallback.serial = 0 /\ 0 <= c.serials /\ 0 \in Nat
    BY RouteFacts DEF Fallbacks, NoFallback, At
  <1>2. Carries(c, d)
    BY <1>1, CarriesSelf, AsideCarries
  <1>3. d \in Route /\ Issued(d)
    BY <1>2 DEF Carries, MovedOn
  <1> HIDE DEF d
  <1>4. Carries(d, Fresh(d, "Prepared")) /\ Carries(d, d) /\ Carries(d, Enter(d, "Idle", 0))
    BY <1>3, PhaseFacts, RouteFacts, FreshCarries, CarriesSelf, EnterCarries
  <1>5. d.phase \in Pending => Carries(d, Enter(d, "Prepared", d.serial))
    BY <1>3, PhaseFacts, RouteFacts, EnterCarries DEF Issued
  <1>6. Carries(d, PreparePlaybackLanding(c, playable))
    BY <1>4, <1>5 DEF PreparePlaybackLanding, d
  <1>7. PreparePlaybackLanding(c, playable) \in Route
    BY <1>6 DEF Carries, MovedOn
  <1> QED
    BY <1>2, <1>3, <1>6, <1>7, CarriesTrans

\* A cancel carries it on.
LEMMA CancelCarries ==
    ASSUME NEW c \in Route, Issued(c)
    PROVE  Carries(c, CancelPlaybackRequest(c))
  <1> DEFINE back == IF c.under = NoFallback THEN At("Idle", 0) ELSE c.under
             d == Enter(c, back.phase, back.serial)
  <1>1. c.under \in Fallbacks /\ c.serials \in Nat
    BY RouteFacts
  <1>2. back.phase \in {"Idle", "Stable", "Failed"} /\ back.serial \in Nat
    BY <1>1 DEF Fallbacks, At
  <1>3. back.serial <= c.serials
    BY <1>1 DEF Issued, At
  <1> HIDE DEF back
  <1>4. back.phase \in Phases /\ back.phase \notin Pending
    BY <1>2, PhaseFacts
  <1>5. Carries(c, d) /\ d \in Route /\ 0 <= d.serials
    BY <1>1, <1>2, <1>3, <1>4, EnterCarries, EnterFacts
  <1>6. NoFallback \in Fallbacks /\ NoFallback.serial = 0 /\ 0 \in Nat
    BY DEF Fallbacks, NoFallback, At
  <1> HIDE DEF d
  <1>7. Carries(c, [d EXCEPT !.under = NoFallback])
    BY <1>5, <1>6, AsideCarries
  <1> QED
    BY <1>7, CarriesSelf DEF CancelPlaybackRequest, d, back

\* A request takes a fresh serial and carries it on.
LEMMA RequestCarries ==
    ASSUME NEW c \in Route, Issued(c), MayRequest(c)
    PROVE  Carries(c, BeginPlaybackRequest(c))
  <1> DEFINE keep == IF c.phase = "Resolving" THEN c.under
                     ELSE IF c.phase = "Preparing" THEN At("Failed", c.serial)
                     ELSE At(c.phase, c.serial)
             d == Enter(c, "Resolving", 0)
  <1>1. c.under \in Fallbacks /\ c.serials \in Nat /\ c.serial \in Nat /\ c.phase \in Phases
    BY RouteFacts
  <1>2. c.phase \in {"Idle", "Resolving", "Stable", "Failed", "Preparing"}
    BY <1>1, NotPending DEF MayRequest
  <1>3. keep \in Fallbacks
    BY <1>1, <1>2 DEF Fallbacks, At
  <1>4. keep.serial <= c.serials
    BY <1>1 DEF Issued, At
  <1> HIDE DEF keep
  <1>5. Carries(c, d) /\ d \in Route /\ d.serials = c.serials
    BY RestCarries
  <1> HIDE DEF d
  <1>6. Carries(c, [d EXCEPT !.under = keep, !.flight = 0])
    BY <1>3, <1>4, <1>5, AsideCarries
  <1> QED
    BY <1>6 DEF BeginPlaybackRequest, d, keep

\* A flight may make the serial of a failed start pending again.
LEMMA FlightMovesOn ==
    ASSUME NEW c \in Route, Issued(c), MayFly(c)
    PROVE  MovedOn(c, BeginResumeFlight(c))
  <1> DEFINE d == IF c.phase = "Stable" THEN Fresh(c, "Preparing")
                  ELSE Enter(c, "Preparing", c.serial)
             f == [d EXCEPT !.flight = d.serial]
  <1>1. MovedOn(c, Fresh(c, "Preparing"))
    BY PhaseFacts, FreshCarries DEF Carries
  <1>2. MovedOn(c, Enter(c, "Preparing", c.serial))
    <2>1. "Preparing" \in Phases /\ c.serial \in Nat /\ c.serials \in Nat
      BY PhaseFacts, RouteFacts
    <2> QED
      BY <2>1, EnterFacts DEF MovedOn, Issued
  <1>3. MovedOn(c, d)
    BY <1>1, <1>2
  <1> HIDE DEF d
  <1>4. d \in Route /\ d.serial \in Nat
    BY <1>3, RouteFacts DEF MovedOn
  <1>5. f \in Route /\ f.serial = d.serial /\ f.under = d.under /\ f.serials = d.serials
        /\ f.last = d.last /\ f.attempts = d.attempts
    BY <1>4 DEF Route
  <1> HIDE DEF f
  <1>6. MovedOn(c, f)
    BY <1>3, <1>5 DEF MovedOn, Issued
  <1> QED
    BY <1>6 DEF BeginResumeFlight, f, d

\* A flight that lands carries it on.
LEMMA FlightLands ==
    ASSUME NEW c \in Route, Issued(c), ResumeFlightOutstanding(c), NEW installed \in BOOLEAN
    PROVE  Carries(c, LandResumeFlight(c, installed))
  <1> DEFINE p == IF installed THEN "Prepared" ELSE "Failed"
             d == Enter(c, p, c.serial)
  <1>1. p \in Phases /\ c.phase \in Pending /\ c.serial \in Nat /\ c.serial <= c.serials
    BY PhaseFacts, RouteFacts DEF ResumeFlightOutstanding, Issued
  <1> HIDE DEF p
  <1>2. Carries(c, d) /\ d \in Route
    BY <1>1, EnterCarries, EnterFacts
  <1>3. NoFallback \in Fallbacks /\ NoFallback.serial = 0 /\ 0 \in Nat /\ 0 <= d.serials
    BY <1>2, RouteFacts DEF Fallbacks, NoFallback, At
  <1> HIDE DEF d
  <1>4. Carries(c, [d EXCEPT !.flight = 0])
    BY <1>2, <1>3, AsideCarries
  <1> QED
    BY <1>4 DEF LandResumeFlight, d, p

\* A flight that cannot be begun carries it on.
LEMMA FlightStuck ==
    ASSUME NEW c \in Route, Issued(c), MayFly(c)
    PROVE  Carries(c, LandResumeFlight(BeginResumeFlight(c), FALSE))
  <1> DEFINE b == BeginResumeFlight(c)
             d == Enter(b, "Failed", b.serial)
             f == [d EXCEPT !.flight = 0]
  <1>1. MovedOn(c, b)
    BY FlightMovesOn
  <1> HIDE DEF b
  <1>2. b \in Route /\ b.serial \in Nat /\ "Failed" \in Phases
    BY <1>1, RouteFacts, PhaseFacts DEF MovedOn
  <1>3. d \in Route /\ d.phase = "Failed" /\ d.serial = b.serial /\ d.under = b.under
        /\ d.serials = b.serials /\ d.last = b.last /\ d.attempts = b.attempts
    BY <1>2, EnterFacts
  <1> HIDE DEF d
  <1>4. f \in Route /\ f.phase = "Failed" /\ f.serial = b.serial /\ f.under = b.under
        /\ f.serials = b.serials /\ f.last = b.last /\ f.attempts = b.attempts
    BY <1>3 DEF Route
  <1> HIDE DEF f
  <1>5. PendingRouteStart(f) = 0
    BY <1>4, PhaseFacts DEF PendingRouteStart
  <1>6. Carries(c, f)
    BY <1>1, <1>4, <1>5 DEF Carries, MovedOn, Issued, NoRevival
  <1> QED
    BY <1>6 DEF LandResumeFlight, f, d, b

\* Claiming a start takes a fresh attempt.
LEMMA ClaimMovesOn ==
    ASSUME NEW c \in Route, Issued(c), NEW q \in Nat, MayClaim(c, q)
    PROVE  LET d == ClaimRouteStartAttempt(c, q)
           IN  /\ d \in Route /\ Issued(d) /\ d.last = c.last /\ d.serials = c.serials
               /\ PendingRouteStart(d) = PendingRouteStart(c)
               /\ d.attempts = c.attempts + 1 /\ d.attempt = c.attempts + 1
               /\ d.phase = "Starting" /\ d.serial = q
  <1> DEFINE d == ClaimRouteStartAttempt(c, q)
  <1>1. c.attempts + 1 \in Nat /\ c.phase = "Prepared" /\ c.serial = q
    BY RouteFacts DEF MayClaim
  <1>2. d \in Route /\ d.last = c.last /\ d.serials = c.serials /\ d.serial = q
        /\ d.attempts = c.attempts + 1 /\ d.attempt = c.attempts + 1
        /\ d.phase = "Starting" /\ d.under = c.under
    BY <1>1, PhaseFacts DEF ClaimRouteStartAttempt, Route
  <1> HIDE DEF d
  <1>3. Issued(d) /\ PendingRouteStart(d) = PendingRouteStart(c)
    BY <1>1, <1>2, PhaseFacts DEF Issued, PendingRouteStart
  <1> QED
    BY <1>2, <1>3 DEF d

\* Settling takes the installed attempt's result.
LEMMA SettleMovesOn ==
    ASSUME NEW c \in Route, Issued(c), NEW q \in Nat, NEW attempt \in Nat, NEW ok \in BOOLEAN
    PROVE  LET d == SettleRouteStart(c, q, attempt, ok)
           IN  /\ d \in Route /\ Issued(d) /\ d.serials = c.serials /\ d.attempts = c.attempts
               /\ NoRevival(c, d)
               /\ d.last # c.last => d.last = [serial |-> q, attempt |-> attempt, ok |-> ok]
  <1> DEFINE b == IF ok THEN Enter(c, "Stable", 0) ELSE Enter(c, "Failed", q)
             f == [b EXCEPT !.last = [serial |-> q, attempt |-> attempt, ok |-> ok]]
  <1>1. CASE c.phase = "Starting" /\ c.serial = q /\ c.attempt = attempt
    <2>1. Carries(c, Enter(c, "Stable", 0)) /\ Carries(c, Enter(c, "Failed", q))
      BY <1>1, PhaseFacts, RestCarries, EnterCarries DEF Issued
    <2>2. "Failed" \in Phases
      BY PhaseFacts
    <2>3. Enter(c, "Failed", q).serials = c.serials /\ Enter(c, "Stable", 0).serials = c.serials
      BY <2>2, RestCarries, EnterFacts
    <2>4. Carries(c, b) /\ b.serials = c.serials
      BY <2>1, <2>3
    <2> HIDE DEF b
    <2>5. f \in Route /\ f.phase = b.phase /\ f.serial = b.serial /\ f.under = b.under
          /\ f.serials = b.serials /\ f.attempts = b.attempts
          /\ f.last = [serial |-> q, attempt |-> attempt, ok |-> ok]
      BY <2>4 DEF Route, Carries, MovedOn
    <2> HIDE DEF f
    <2>6. Issued(f) /\ NoRevival(c, f) /\ f.attempts = c.attempts /\ f.serials = c.serials
      BY <2>4, <2>5 DEF Carries, MovedOn, Issued, NoRevival, PendingRouteStart
    <2>7. SettleRouteStart(c, q, attempt, ok) = f
      BY <1>1 DEF SettleRouteStart, f, b
    <2> QED
      BY <2>5, <2>6, <2>7
  <1>2. CASE ~(c.phase = "Starting" /\ c.serial = q /\ c.attempt = attempt)
    <2>1. SettleRouteStart(c, q, attempt, ok) = c
      BY <1>2 DEF SettleRouteStart
    <2> QED
      BY <2>1 DEF NoRevival
  <1> QED
    BY <1>1, <1>2

------------------------------------------------------------------------------
(* What the variables hold.                                                 *)

Session == [url : BOOLEAN, pend : {"none", "film", "preview"}, preview : BOOLEAN,
            as_preview : BOOLEAN, paused : BOOLEAN, answered : BOOLEAN]

Engine == [serial : Nat, attempt : Nat, call : Calls, failed : BOOLEAN, late : BOOLEAN,
           dead : BOOLEAN, follows : BOOLEAN, goal : BOOLEAN, ready : BOOLEAN,
           waited : BOOLEAN]

Post == [attempt : Nat, ok : BOOLEAN]

Object == [unload : Nat, returned : BOOLEAN, late : BOOLEAN, abandoned : Nat, back : BOOLEAN]

Release == [kind : {"Idle", "Releasing", "Overdue"}, epoch : Nat, queued : Nat]

Watch == [kind : {"Unwatched", "Watching", "Launched", "Failed"}, attempt : Nat]

Adapter == [release : Release, watch : Watch, admission : BOOLEAN]

Claims == {"ClaimPrepare", "ClaimLoad", "ClaimClock"}

\* The lifecycle within a handler, where a claim may still be unanswered.
Machine == [kind : Kinds \cup Claims, clock : Clocks, saved : Clocks, attempt : Nat]

Previews == {"Idle", "Fetching", "Live", "Abandoning"}

Screen == [page : {"Browse", "Player"}, front : BOOLEAN]

Exits == {"running", "leaving", "clean", "firmware"}

Player == [route : Route, session : Session, preview : Previews, held : BOOLEAN,
           engine : Engine, mail : SUBSET Post, slot : Object, adapter : Adapter,
           fg : Machine, screen : Screen, exiting : Exits, wish : Clocks]

Chance == Chances(BOOLEAN, BOOLEAN, BOOLEAN, BOOLEAN, Resumes, BOOLEAN)

------------------------------------------------------------------------------
(* The invariant, as a predicate of the record the handlers pass along.     *)

\* The firmware holds one object, the release machine is busy exactly while
\* an Unload is on its worker, and every Load was given a number.
ObjectInv(w) ==
    LET n == w.engine  s == w.slot  r == w.adapter.release
    IN  /\ r.kind = "Idle" => s.unload = 0 /\ r.queued = 0
        /\ r.kind # "Idle" => s.unload # 0 /\ r.epoch = s.unload
        /\ n.attempt # 0 => s.unload = 0 /\ s.abandoned = 0
        /\ s.unload = 0 \/ s.abandoned = 0
        /\ s.unload = 0 => ~s.returned
        /\ s.abandoned = 0 => ~s.back
        /\ n.attempt = 0 => n.call = "none"
        /\ n.attempt <= w.route.attempts
        /\ s.unload <= w.route.attempts /\ s.abandoned <= w.route.attempts

\* What the inbox holds of the installed Engine's Load is what it answered.
PostInv(w) ==
    \A m \in w.mail :
        /\ m.attempt <= w.route.attempts
        /\ w.engine.attempt # 0 /\ m.attempt = w.engine.attempt =>
              w.engine.call # "out" /\ m.ok = (w.engine.call = "ok")

\* The start that waits was issued.
QueueInv(w) == Issued(w.route) /\ w.adapter.release.queued <= w.route.serials

Good(w) == ObjectInv(w) /\ PostInv(w) /\ QueueInv(w)

------------------------------------------------------------------------------
(* What a handler may do to the native object.                              *)

Untouched(w, v) ==
    /\ v.engine.attempt = w.engine.attempt /\ v.engine.serial = w.engine.serial
    /\ v.engine.call = w.engine.call
    /\ v.mail = w.mail /\ v.slot = w.slot

Beside(w, v) ==
    /\ v \in Player /\ Carries(w.route, v.route) /\ Untouched(w, v)
    /\ v.adapter.release = w.adapter.release /\ v.exiting = w.exiting

\* Common to all: no result is taken, no number is used twice, no start that
\* was given up is pending again.
Goes(w, v) ==
    /\ v \in Player /\ Good(v) /\ v.exiting = w.exiting
    /\ v.route.last = w.route.last /\ w.route.attempts <= v.route.attempts
    /\ w.route.serials <= v.route.serials /\ NoRevival(w.route, v.route)

NoHolder(w) == ~Live(w) /\ w.slot.unload = 0 /\ w.slot.abandoned = 0

\* Nobody is inside the firmware any more.
Vacant(w) ==
    ~Live(w) /\ (w.slot.unload # 0 => w.slot.returned) /\ (w.slot.abandoned # 0 => w.slot.back)

Opened(w, v) ==
    /\ Live(v) /\ w.route.attempts < v.engine.attempt
    /\ v.slot.unload = 0 /\ v.slot.abandoned = 0

\* The start that waited in w no longer does in v.
Left(w, v) ==
    w.adapter.release.queued # 0 /\ v.adapter.release.queued # w.adapter.release.queued

GivenUp(w, v) == PendingRouteStart(v.route) # w.adapter.release.queued

\* Towards a Load: the object is let go once it is vacant, and opened again.
Advances(w, v) ==
    /\ Goes(w, v) /\ v.mail = w.mail
    /\ Untouched(w, v) \/ (Vacant(w) /\ (NoHolder(v) \/ Opened(w, v)))
    /\ Left(w, v) => GivenUp(w, v) \/ (Live(v) /\ v.engine.serial = w.adapter.release.queued)

Stopped(w, v) ==
    /\ Live(w) /\ ~Live(v)
    /\ \/ v.slot.unload = 0 /\ v.slot.abandoned = 0
       \/ v.slot.unload = w.engine.attempt /\ ~v.slot.returned /\ v.slot.abandoned = 0
       \/ v.slot.abandoned = w.engine.attempt /\ v.slot.unload = 0

\* Away from it: at most the installed Engine is stopped.
Halts(w, v) ==
    /\ Goes(w, v)
    /\ Untouched(w, v) \/ Stopped(w, v)
    /\ Left(w, v) => GivenUp(w, v)

\* The fields of the player's record have their types.
LEMMA PlayerFacts ==
    ASSUME NEW w \in Player
    PROVE  /\ w.route \in Route /\ w.session \in Session /\ w.preview \in Previews
           /\ w.held \in BOOLEAN /\ w.engine \in Engine /\ w.mail \in SUBSET Post
           /\ w.slot \in Object /\ w.adapter \in Adapter /\ w.fg \in Machine
           /\ w.screen \in Screen /\ w.exiting \in Exits /\ w.wish \in Clocks
  BY DEF Player

\* The fields of the Engine, the slot and the release machine have their types.
LEMMA NativeFacts ==
    ASSUME NEW w \in Player
    PROVE  /\ w.engine.attempt \in Nat /\ w.engine.serial \in Nat /\ w.engine.call \in Calls
           /\ w.slot.unload \in Nat /\ w.slot.abandoned \in Nat
           /\ w.slot.returned \in BOOLEAN /\ w.slot.back \in BOOLEAN /\ w.slot.late \in BOOLEAN
           /\ w.adapter.release \in Release /\ w.adapter.watch \in Watch
           /\ w.adapter.release.queued \in Nat /\ w.adapter.release.epoch \in Nat
           /\ w.route.attempts \in Nat /\ w.route.serials \in Nat /\ w.route.serial \in Nat
           /\ PendingRouteStart(w.route) \in Nat
  <1>1. w.route \in Route /\ w.engine \in Engine /\ w.slot \in Object /\ w.adapter \in Adapter
    BY PlayerFacts
  <1>2. w.route.attempts \in Nat /\ w.route.serials \in Nat /\ w.route.serial \in Nat
        /\ PendingRouteStart(w.route) \in Nat
    BY <1>1, RouteFacts
  <1>3. w.engine.attempt \in Nat /\ w.engine.serial \in Nat /\ w.engine.call \in Calls
    BY <1>1 DEF Engine
  <1>4. w.slot.unload \in Nat /\ w.slot.abandoned \in Nat
           /\ w.slot.returned \in BOOLEAN /\ w.slot.back \in BOOLEAN /\ w.slot.late \in BOOLEAN
    BY <1>1 DEF Object
  <1>5. w.adapter.release \in Release /\ w.adapter.watch \in Watch
    BY <1>1 DEF Adapter
  <1>6. w.adapter.release.queued \in Nat /\ w.adapter.release.epoch \in Nat
    BY <1>5 DEF Release
  <1> QED
    BY <1>2, <1>3, <1>4, <1>5, <1>6

\* A handler that leaves the native object alone keeps the invariant.
LEMMA BesideGood ==
    ASSUME NEW w \in Player, Good(w), NEW v, Beside(w, v)
    PROVE  Good(v)
  <1>1. v.route.attempts = w.route.attempts /\ w.route.serials <= v.route.serials /\ Issued(v.route)
        /\ v \in Player
    BY DEF Beside, Carries, MovedOn
  <1>2. v.engine.attempt = w.engine.attempt /\ v.engine.call = w.engine.call
        /\ v.mail = w.mail /\ v.slot = w.slot /\ v.adapter.release = w.adapter.release
    BY DEF Beside, Untouched
  <1>3. ObjectInv(v)
    BY <1>1, <1>2 DEF ObjectInv, Good
  <1>4. PostInv(v)
    BY <1>1, <1>2 DEF PostInv, Good
  <1>5. QueueInv(v)
    BY <1>1, <1>2, NativeFacts DEF QueueInv, Good
  <1> QED
    BY <1>3, <1>4, <1>5 DEF Good

\* Such a handler counts as going either way.
LEMMA BesideGoes ==
    ASSUME NEW w \in Player, Good(w), NEW v, Beside(w, v)
    PROVE  Advances(w, v) /\ Halts(w, v)
  <1>1. v.route.attempts = w.route.attempts /\ w.route.serials <= v.route.serials
        /\ v \in Player /\ v.route.last = w.route.last /\ NoRevival(w.route, v.route)
        /\ v.exiting = w.exiting /\ v.adapter.release = w.adapter.release /\ Untouched(w, v)
    BY DEF Beside, Carries, MovedOn
  <1>2. Good(v) /\ w.route.attempts <= v.route.attempts
    BY <1>1, BesideGood, NativeFacts
  <1>3. Goes(w, v) /\ ~Left(w, v) /\ v.mail = w.mail
    BY <1>1, <1>2 DEF Goes, Left, Untouched
  <1> QED
    BY <1>1, <1>3 DEF Advances, Halts

\* Two of them in a row are one.
LEMMA BesideTrans ==
    ASSUME NEW w \in Player, NEW v, NEW u, Beside(w, v), Beside(v, u)
    PROVE  Beside(w, u)
  <1>1. v \in Player /\ u \in Player
    BY DEF Beside
  <1>2. Carries(w.route, u.route)
    BY <1>1, PlayerFacts, CarriesTrans DEF Beside
  <1> QED
    BY <1>1, <1>2 DEF Beside, Untouched

\* Two handlers in a row go as one, and a start given up by the first stays given up.
LEMMA GoesTrans ==
    ASSUME NEW w \in Player, NEW v, NEW u, Goes(w, v), Goes(v, u)
    PROVE  /\ Goes(w, u)
           /\ Good(w) /\ Left(w, v) /\ GivenUp(w, v) => GivenUp(w, u)
  <1>1. v \in Player /\ u \in Player
    BY DEF Goes
  <1>2. /\ w.route.attempts \in Nat /\ v.route.attempts \in Nat /\ u.route.attempts \in Nat
        /\ w.route.serials \in Nat /\ v.route.serials \in Nat /\ u.route.serials \in Nat
        /\ PendingRouteStart(w.route) \in Nat /\ PendingRouteStart(v.route) \in Nat
        /\ PendingRouteStart(u.route) \in Nat /\ w.adapter.release.queued \in Nat
    BY <1>1, NativeFacts
  <1>3. Goes(w, u)
    BY <1>1, <1>2 DEF Goes, NoRevival
  <1>4. ASSUME Good(w), Left(w, v), GivenUp(w, v) PROVE GivenUp(w, u)
    BY <1>2, <1>4 DEF Goes, NoRevival, GivenUp, Left, Good, QueueInv
  <1> QED
    BY <1>3, <1>4

\* Two handlers towards a Load are one.
LEMMA AdvancesTrans ==
    ASSUME NEW w \in Player, Good(w), NEW v, NEW u, Advances(w, v), Advances(v, u)
    PROVE  Advances(w, u)
  <1>1. Goes(w, v) /\ Goes(v, u) /\ v \in Player /\ u \in Player
    BY DEF Advances, Goes
  <1>2. Goes(w, u) /\ (Left(w, v) /\ GivenUp(w, v) => GivenUp(w, u))
    BY <1>1, GoesTrans
  <1>3. w.route.attempts <= v.route.attempts /\ w.route.attempts \in Nat /\ v.route.attempts \in Nat
        /\ u.engine.attempt \in Nat
    BY <1>1, NativeFacts DEF Goes
  <1>4. Opened(v, u) => Opened(w, u)
    BY <1>3 DEF Opened
  <1>5. Untouched(w, u) \/ (Vacant(w) /\ (NoHolder(u) \/ Opened(w, u)))
    BY <1>4 DEF Advances, Untouched, Vacant, NoHolder, Opened, Live
  <1>6. Live(v) => u.engine.serial = v.engine.serial /\ Live(u)
    BY DEF Advances, Untouched, Vacant, Live
  <1>7. Left(w, u) => GivenUp(w, u) \/ (Live(u) /\ u.engine.serial = w.adapter.release.queued)
    <2>1. CASE Left(w, v)
      BY <1>2, <1>6, <2>1 DEF Advances
    <2>2. CASE ~Left(w, v)
      BY <2>2 DEF Advances, Left, GivenUp
    <2> QED
      BY <2>1, <2>2
  <1> QED
    BY <1>2, <1>5, <1>7 DEF Advances

\* Two handlers away from a Load are one.
LEMMA HaltsTrans ==
    ASSUME NEW w \in Player, Good(w), NEW v, NEW u, Halts(w, v), Halts(v, u)
    PROVE  Halts(w, u)
  <1>1. Goes(w, v) /\ Goes(v, u)
    BY DEF Halts
  <1>2. Goes(w, u) /\ (Left(w, v) /\ GivenUp(w, v) => GivenUp(w, u))
    BY <1>1, GoesTrans
  <1>3. Untouched(w, u) \/ Stopped(w, u)
    BY DEF Halts, Untouched, Stopped, Live
  <1>4. Left(w, u) => GivenUp(w, u)
    <2>1. CASE Left(w, v)
      BY <1>2, <2>1 DEF Halts
    <2>2. CASE ~Left(w, v)
      BY <2>2 DEF Halts, Left, GivenUp
    <2> QED
      BY <2>1, <2>2
  <1> QED
    BY <1>2, <1>3, <1>4 DEF Halts

------------------------------------------------------------------------------
(* Opening, reaping and stopping the native object.                         *)

\* Doing nothing is allowed, and the route's numbers were issued.
LEMMA GoodIssued ==
    ASSUME NEW w \in Player, Good(w)
    PROVE  w.route \in Route /\ Issued(w.route) /\ Carries(w.route, w.route) /\ Beside(w, w)
  <1>1. w.route \in Route /\ Issued(w.route)
    BY PlayerFacts DEF Good, QueueInv
  <1>2. Carries(w.route, w.route)
    BY <1>1, CarriesSelf
  <1> QED
    BY <1>1, <1>2 DEF Beside, Untouched

\* A handler that only moves the route on.
LEMMA RouteBeside ==
    ASSUME NEW w \in Player, NEW c, Carries(w.route, c)
    PROVE  /\ Beside(w, [w EXCEPT !.route = c])
           /\ [w EXCEPT !.route = c].route = c
           /\ [w EXCEPT !.route = c].adapter = w.adapter
           /\ [w EXCEPT !.route = c].engine = w.engine
           /\ [w EXCEPT !.route = c].fg = w.fg
           /\ [w EXCEPT !.route = c].session = w.session
  <1> DEFINE v == [w EXCEPT !.route = c]
  <1>1. c \in Route
    BY DEF Carries, MovedOn
  <1>2. v \in Player /\ v.route = c /\ v.engine = w.engine /\ v.mail = w.mail /\ v.slot = w.slot
        /\ v.adapter = w.adapter /\ v.exiting = w.exiting /\ v.fg = w.fg /\ v.session = w.session
    BY <1>1 DEF Player
  <1> HIDE DEF v
  <1>3. Beside(w, v)
    BY <1>2 DEF Beside, Untouched
  <1> QED
    BY <1>2, <1>3 DEF v

\* Settling a preview's admission leaves route, Engine and lifecycle alone.
LEMMA AdmissionBeside ==
    ASSUME NEW w \in Player, Good(w), NEW launched \in BOOLEAN, NEW settle \in BOOLEAN
    PROVE  /\ Beside(w, SettlePreviewAdmission(w, launched, settle))
           /\ SettlePreviewAdmission(w, launched, settle).route = w.route
           /\ SettlePreviewAdmission(w, launched, settle).engine = w.engine
           /\ SettlePreviewAdmission(w, launched, settle).fg = w.fg
  <1> DEFINE phase == IF ~launched THEN "Idle"
                      ELSE IF w.preview \in {"Fetching", "Live"} THEN "Live" ELSE w.preview
             p == IF w.adapter.admission /\ settle THEN phase ELSE w.preview
             a == [w.adapter EXCEPT !.admission = FALSE]
             v == [w EXCEPT !.adapter = a, !.preview = p]
  <1>1. p \in Previews
    BY PlayerFacts DEF Previews
  <1>2. a \in Adapter /\ a.release = w.adapter.release
    BY PlayerFacts DEF Adapter
  <1>3. SettlePreviewAdmission(w, launched, settle) = v
    BY DEF SettlePreviewAdmission
  <1> HIDE DEF p, a
  <1>4. v \in Player /\ v.route = w.route /\ v.engine = w.engine /\ v.mail = w.mail
        /\ v.slot = w.slot /\ v.adapter = a /\ v.exiting = w.exiting /\ v.fg = w.fg
    BY <1>1, <1>2 DEF Player
  <1> HIDE DEF v
  <1>5. Beside(w, v)
    BY <1>2, <1>4, GoodIssued DEF Beside, Untouched
  <1> QED
    BY <1>3, <1>4, <1>5

\* Aborting a start leaves the object alone, and the start no longer pending.
LEMMA AbortStartBeside ==
    ASSUME NEW w \in Player, Good(w), NEW q \in Nat, NEW result
    PROVE  /\ Beside(w, AbortStart(w, q, result))
           /\ q # 0 => PendingRouteStart(AbortStart(w, q, result).route) # q
           /\ AbortStart(w, q, result).adapter = w.adapter
           /\ AbortStart(w, q, result).fg = w.fg
  <1>1. Carries(w.route, AbortRouteStart(w.route, q, result))
        /\ (q # 0 => PendingRouteStart(AbortRouteStart(w.route, q, result)) # q)
    BY GoodIssued, AbortCarries
  <1> QED
    BY <1>1, RouteBeside DEF AbortStart

\* So does the abort of a start that a newer one supersedes.
LEMMA SupersededBeside ==
    ASSUME NEW w \in Player, Good(w), NEW q \in Nat
    PROVE  /\ Beside(w, RunAbortSuperseded(w, q))
           /\ q # 0 => PendingRouteStart(RunAbortSuperseded(w, q).route) # q
           /\ RunAbortSuperseded(w, q).fg = w.fg
  <1> DEFINE v == SettlePreviewAdmission(w, FALSE, FALSE)
             a == [v.adapter EXCEPT !.watch = NoWatch]
             u == [v EXCEPT !.adapter = a]
  <1>1. Beside(w, v) /\ v \in Player /\ Good(v) /\ v.fg = w.fg
    BY AdmissionBeside, BesideGood DEF Beside
  <1> HIDE DEF v
  <1>2. a \in Adapter /\ a.release = v.adapter.release
    BY <1>1, PlayerFacts DEF Adapter, NoWatch, Watch
  <1> HIDE DEF a
  <1>3. u \in Player /\ u.route = v.route /\ u.engine = v.engine /\ u.mail = v.mail
        /\ u.slot = v.slot /\ u.adapter = a /\ u.exiting = v.exiting /\ u.fg = v.fg
    BY <1>1, <1>2 DEF Player
  <1> HIDE DEF u
  <1>4. Beside(v, u)
    BY <1>1, <1>2, <1>3, GoodIssued DEF Beside, Untouched
  <1>5. Good(u)
    BY <1>1, <1>4, BesideGood
  <1>6. Beside(u, AbortStart(u, q, "StartFailed")) /\ AbortStart(u, q, "StartFailed").fg = u.fg
        /\ (q # 0 => PendingRouteStart(AbortStart(u, q, "StartFailed").route) # q)
    BY <1>3, <1>5, AbortStartBeside
  <1>7. RunAbortSuperseded(w, q) = AbortStart(u, q, "StartFailed")
    BY DEF RunAbortSuperseded, QueuedStartDropped, u, v, a
  <1>8. Beside(w, u)
    BY <1>1, <1>4, BesideTrans
  <1>9. Beside(w, AbortStart(u, q, "StartFailed"))
    BY <1>6, <1>8, BesideTrans
  <1> QED
    BY <1>1, <1>3, <1>6, <1>7, <1>9

\* Reaping lets go of a given up Load once its thread is back, and changes nothing
\* else.
LEMMA ReapAdvances ==
    ASSUME NEW w \in Player, Good(w)
    PROVE  /\ Advances(w, Reap(w)) /\ Reap(w) \in Player /\ Good(Reap(w))
           /\ Reap(w).route = w.route /\ Reap(w).adapter = w.adapter
           /\ Reap(w).engine = w.engine /\ Reap(w).fg = w.fg
           /\ Reap(w).slot.unload = w.slot.unload /\ Reap(w).session = w.session
  <1> DEFINE s == [w.slot EXCEPT !.abandoned = 0, !.back = FALSE]
             v == [w EXCEPT !.slot = s]
  <1>1. CASE w.slot.abandoned # 0 /\ w.slot.back
    <2>1. Reap(w) = v
      BY <1>1 DEF Reap
    <2>2. s \in Object /\ s.unload = w.slot.unload /\ s.returned = w.slot.returned
          /\ s.abandoned = 0 /\ ~s.back
      BY PlayerFacts DEF Object
    <2> HIDE DEF s
    <2>3. v \in Player /\ v.route = w.route /\ v.engine = w.engine /\ v.mail = w.mail
          /\ v.slot = s /\ v.adapter = w.adapter /\ v.exiting = w.exiting /\ v.fg = w.fg
          /\ v.session = w.session
      BY <2>2 DEF Player
    <2> HIDE DEF v
    <2>4. Good(v)
      BY <2>2, <2>3, NativeFacts DEF Good, ObjectInv, PostInv, QueueInv
    <2>5. Goes(w, v) /\ ~Left(w, v)
      BY <2>3, <2>4, NativeFacts DEF Goes, NoRevival, Left
    <2>6. Vacant(w) /\ NoHolder(v)
      BY <1>1, <2>2, <2>3 DEF Good, ObjectInv, Vacant, NoHolder, Live
    <2> QED
      BY <2>1, <2>2, <2>3, <2>4, <2>5, <2>6 DEF Advances
  <1>2. CASE ~(w.slot.abandoned # 0 /\ w.slot.back)
    <2>1. Reap(w) = w
      BY <1>2 DEF Reap
    <2> QED
      BY <2>1, GoodIssued, BesideGoes
  <1> QED
    BY <1>1, <1>2

\* Either way the types and the invariant are kept.
LEMMA GoodTypes ==
    ASSUME NEW w, NEW v, Advances(w, v) \/ Halts(w, v)
    PROVE  v \in Player /\ Good(v)
  BY DEF Advances, Halts, Goes

\* A new Engine carries the serial and the attempt it was made for, its Load out.
LEMMA NewEngineFacts ==
    ASSUME NEW q \in Nat, NEW a \in Nat, NEW g \in BOOLEAN
    PROVE  /\ NewEngine(q, a, g) \in Engine /\ NewEngine(q, a, g).serial = q
           /\ NewEngine(q, a, g).attempt = a /\ NewEngine(q, a, g).call = "out"
           /\ ~NewEngine(q, a, g).late /\ ~NewEngine(q, a, g).failed
  BY DEF NewEngine, NoEngine, Engine, Calls

\* An open that is granted: the object was free, and the Load has a new number.
LEMMA OpenAdvances ==
    ASSUME NEW u \in Player, Good(u), NEW q \in Nat, MayClaim(u.route, q), NoHolder(u),
           u.adapter.release.kind = "Idle", NEW g \in BOOLEAN
    PROVE  LET c == ClaimRouteStartAttempt(u.route, q)
               v == [u EXCEPT !.route = c, !.engine = NewEngine(q, c.attempt, g)]
           IN  /\ Advances(u, v) /\ v.adapter = u.adapter /\ v.fg = u.fg
               /\ Live(v) /\ v.engine.serial = q /\ v.engine.attempt = c.attempt
               /\ v.route.phase = "Starting" /\ v.route.attempt = c.attempt
               /\ c.attempt \in Nat
  <1> DEFINE c == ClaimRouteStartAttempt(u.route, q)
             n == NewEngine(q, c.attempt, g)
             v == [u EXCEPT !.route = c, !.engine = n]
  <1>1. /\ c \in Route /\ Issued(c) /\ c.last = u.route.last /\ c.serials = u.route.serials
        /\ PendingRouteStart(c) = PendingRouteStart(u.route)
        /\ c.attempts = u.route.attempts + 1 /\ c.attempt = u.route.attempts + 1
        /\ c.phase = "Starting"
    BY GoodIssued, ClaimMovesOn
  <1>2. u.route.attempts \in Nat /\ c.attempt \in Nat /\ u.route.serials \in Nat
    BY <1>1, NativeFacts
  <1> HIDE DEF c
  <1>3. n \in Engine /\ n.serial = q /\ n.attempt = c.attempt /\ n.call = "out"
    BY <1>2, NewEngineFacts
  <1> HIDE DEF n
  <1>4. v \in Player /\ v.route = c /\ v.engine = n /\ v.mail = u.mail
        /\ v.slot = u.slot /\ v.adapter = u.adapter /\ v.exiting = u.exiting /\ v.fg = u.fg
    BY <1>1, <1>3 DEF Player
  <1> HIDE DEF v
  <1>5. Live(v) /\ Opened(u, v)
    BY <1>1, <1>2, <1>3, <1>4 DEF Live, Opened, NoHolder
  <1>6. ObjectInv(v)
    BY <1>1, <1>2, <1>3, <1>4, NativeFacts DEF ObjectInv, Good, NoHolder
  <1>7. PostInv(v)
    <2>1. \A m \in u.mail : m.attempt \in Nat
      BY PlayerFacts DEF Post
    <2> QED
      BY <1>1, <1>2, <1>3, <1>4, <2>1 DEF PostInv, Good
  <1>8. QueueInv(v)
    BY <1>1, <1>4 DEF QueueInv, Good
  <1>9. Goes(u, v)
    BY <1>1, <1>2, <1>4, <1>6, <1>7, <1>8 DEF Goes, Good, NoRevival
  <1>10. Vacant(u) /\ ~Left(u, v)
    BY <1>4 DEF Vacant, NoHolder, Left
  <1>11. Advances(u, v)
    BY <1>4, <1>5, <1>9, <1>10 DEF Advances
  <1>12. /\ Advances(u, v) /\ v.adapter = u.adapter /\ v.fg = u.fg
         /\ Live(v) /\ v.engine.serial = q /\ v.engine.attempt = c.attempt
         /\ v.route.phase = "Starting" /\ v.route.attempt = c.attempt /\ c.attempt \in Nat
    BY <1>1, <1>2, <1>3, <1>4, <1>5, <1>11
  <1> QED
    BY <1>12 DEF v, n, c

\* What a start that the release machine let through comes to.
StartOutcome(w, q, r) ==
    /\ Advances(w, r.w) /\ r.w.adapter = w.adapter /\ r.w.fg = w.fg
    /\ r.out \in {"Failed", "Launched"} /\ r.attempt \in Nat
    /\ Live(w) => r.out = "Failed"
    /\ r.out = "Failed" => (Live(r.w) <=> Live(w)) /\ (q # 0 => PendingRouteStart(r.w.route) # q)
    /\ r.out = "Launched" =>
          /\ Live(r.w) /\ r.w.engine.serial = q /\ r.w.engine.attempt = r.attempt
          /\ r.w.route.phase = "Starting" /\ r.w.route.attempt = r.attempt

\* The fields of a start's answer.
LEMMA StartedFacts ==
    ASSUME NEW w, NEW out, NEW attempt
    PROVE  Started(w, out, attempt).w = w /\ Started(w, out, attempt).out = out
           /\ Started(w, out, attempt).attempt = attempt
  BY DEF Started

\* The open of a prepared start: refused with the object untouched, or an Engine of a
\* new attempt.
LEMMA StartPreparedOutcome ==
    ASSUME NEW w \in Player, Good(w), NEW q \in Nat, NEW e \in Chance,
           w.adapter.release.kind = "Idle"
    PROVE  StartOutcome(w, q, StartPrepared(w, q, e))
  <1> DEFINE v == Reap(w)
             p == PrepareRouteStart(v.route, q)
             u == [v EXCEPT !.route = p]
             c == ClaimRouteStartAttempt(u.route, q)
             r == StartPrepared(w, q, e)
  <1>1. Advances(w, v) /\ v \in Player /\ Good(v) /\ v.adapter = w.adapter /\ v.fg = w.fg
        /\ v.engine = w.engine /\ v.slot.unload = w.slot.unload
    BY ReapAdvances
  <1>2. Carries(v.route, p)
    BY <1>1, GoodIssued, PrepareCarries
  <1> HIDE DEF v, p
  <1>3. Beside(v, u) /\ u.adapter = v.adapter /\ u.fg = v.fg /\ u.engine = v.engine
    BY <1>1, <1>2, RouteBeside
  <1>4. u \in Player /\ Good(u) /\ Advances(v, u) /\ u.slot = v.slot
    BY <1>1, <1>3, BesideGood, BesideGoes DEF Beside, Untouched
  <1>5. Advances(w, u)
    BY <1>1, <1>4, AdvancesTrans
  <1> HIDE DEF u
  <1>6. ASSUME NEW x \in Player, Good(x), Advances(w, x), x.adapter = w.adapter, x.fg = w.fg,
               x.engine = w.engine, NEW result, r = Started(AbortStart(x, q, result), "Failed", 0)
        PROVE  StartOutcome(w, q, r)
    <2> DEFINE y == AbortStart(x, q, result)
    <2>1. Beside(x, y) /\ y.adapter = x.adapter /\ y.fg = x.fg
          /\ (q # 0 => PendingRouteStart(y.route) # q)
      BY <1>6, AbortStartBeside
    <2> HIDE DEF y
    <2>2. Advances(w, y)
      BY <1>6, <2>1, BesideGoes, AdvancesTrans
    <2>3. Live(y) <=> Live(w)
      BY <1>6, <2>1 DEF Beside, Untouched, Live
    <2>4. r.w = y /\ r.out = "Failed" /\ r.attempt = 0
      BY <1>6, StartedFacts DEF y
    <2> HIDE DEF r
    <2> QED
      BY <1>6, <2>1, <2>2, <2>3, <2>4 DEF StartOutcome
  <1>7. CASE ~w.session.url
    <2>1. r = Started(AbortStart(w, q, "NoRoute"), "Failed", 0)
      BY <1>7 DEF StartPrepared
    <2>2. Advances(w, w)
      BY GoodIssued, BesideGoes
    <2> QED
      BY <1>6, <2>1, <2>2
  <1>8. CASE w.session.url /\ (v.slot.abandoned # 0 \/ ~MayPrepare(v.route, q))
    <2>1. r = Started(AbortStart(v, q, "StartFailed"), "Failed", 0)
      BY <1>8 DEF StartPrepared, v
    <2> QED
      BY <1>1, <1>6, <2>1
  <1>9. CASE w.session.url /\ v.slot.abandoned = 0 /\ MayPrepare(v.route, q)
             /\ (Live(v) \/ ~e.opens \/ ~MayClaim(u.route, q))
    <2>1. r = Started(AbortStart(u, q, "StartFailed"), "Failed", 0)
      BY <1>9 DEF StartPrepared, v, u, p
    <2> QED
      BY <1>1, <1>3, <1>4, <1>5, <1>6, <2>1
  <1>10. CASE w.session.url /\ v.slot.abandoned = 0 /\ MayPrepare(v.route, q)
             /\ ~(Live(v) \/ ~e.opens \/ ~MayClaim(u.route, q))
    <2> DEFINE g == w.session.paused
               y == [u EXCEPT !.route = c, !.engine = NewEngine(q, c.attempt, g)]
    <2>0. g \in BOOLEAN
      BY PlayerFacts DEF Session
    <2>1. r = Started(y, "Launched", c.attempt)
      BY <1>10 DEF StartPrepared, v, u, p
    <2>2. NoHolder(u) /\ u.adapter.release.kind = "Idle" /\ MayClaim(u.route, q)
      BY <1>1, <1>3, <1>4, <1>10 DEF NoHolder, Live, Good, ObjectInv
    <2>3. /\ Advances(u, y) /\ y.adapter = u.adapter /\ y.fg = u.fg
          /\ Live(y) /\ y.engine.serial = q /\ y.engine.attempt = c.attempt
          /\ y.route.phase = "Starting" /\ y.route.attempt = c.attempt /\ c.attempt \in Nat
      BY <1>4, <2>0, <2>2, OpenAdvances
    <2>4. ~Live(w)
      BY <1>1, <1>10 DEF Live
    <2> HIDE DEF y, c
    <2>5. Advances(w, y)
      BY <1>4, <1>5, <2>3, AdvancesTrans
    <2>7. y.adapter = w.adapter /\ y.fg = w.fg
      BY <1>1, <1>3, <2>3
    <2>8. StartOutcome(w, q, Started(y, "Launched", c.attempt))
      BY <2>3, <2>4, <2>5, <2>7, StartedFacts DEF StartOutcome
    <2> QED
      BY <2>1, <2>8
  <1> QED
    BY <1>7, <1>8, <1>9, <1>10

\* Only the Engine that ends may have posted on the way.
PostedBy(w, m) == \A x \in m : x \in w.mail \/ x.attempt = w.engine.attempt

\* The Unload has run, the Load is parked, or a worker runs the Unload.
LetGo(w, s, a) ==
    /\ a.release.queued = 0
    /\ \/ s = w.slot /\ a.release = w.adapter.release
       \/ /\ s.abandoned = w.engine.attempt /\ s.unload = w.slot.unload
          /\ s.returned = w.slot.returned /\ a.release = w.adapter.release
       \/ /\ s.abandoned = w.slot.abandoned /\ s.unload = w.engine.attempt /\ ~s.returned
          /\ s.back = w.slot.back
          /\ a.release.kind = "Releasing" /\ a.release.epoch = w.engine.attempt

\* The end of an Engine, however its object is let go of.
Without(w, v) ==
    /\ v \in Player /\ v.engine = NoEngine /\ PostedBy(w, v.mail) /\ LetGo(w, v.slot, v.adapter)
    /\ v.route = w.route /\ v.fg = w.fg /\ v.session = w.session /\ v.exiting = w.exiting

\* An Engine that is handed over or dropped leaves the object stopped.
LEMMA EngineGone ==
    ASSUME NEW w \in Player, Good(w), Live(w), NEW v, Without(w, v)
    PROVE  Halts(w, v) /\ ~Live(v)
  <1>1. NoEngine \in Engine /\ NoEngine.attempt = 0 /\ NoEngine.call = "none"
    BY DEF NoEngine, Engine, Calls
  <1>2. v \in Player /\ v.route = w.route /\ v.engine = NoEngine /\ v.exiting = w.exiting
        /\ LetGo(w, v.slot, v.adapter) /\ PostedBy(w, v.mail)
    BY DEF Without
  <1>3. w.adapter.release.kind = "Idle" /\ w.slot.unload = 0 /\ w.slot.abandoned = 0
        /\ w.adapter.release.queued = 0 /\ ~w.slot.returned /\ ~w.slot.back
        /\ w.engine.attempt # 0 /\ w.engine.attempt <= w.route.attempts
    BY DEF Good, ObjectInv, Live
  <1>4. ObjectInv(v)
    BY <1>1, <1>2, <1>3, NativeFacts DEF ObjectInv, LetGo
  <1>5. PostInv(v)
    BY <1>1, <1>2, <1>3 DEF PostInv, Good, PostedBy
  <1>6. QueueInv(v)
    BY <1>2, NativeFacts DEF QueueInv, Good, LetGo
  <1>7. Goes(w, v)
    BY <1>2, <1>4, <1>5, <1>6, NativeFacts DEF Goes, Good, NoRevival
  <1>8. Stopped(w, v) /\ ~Left(w, v) /\ ~Live(v)
    BY <1>1, <1>2, <1>3 DEF Stopped, Left, Live, LetGo
  <1> QED
    BY <1>7, <1>8 DEF Halts

\* The native stop ends the Engine: freed, on its worker, or given up; a reload leaves
\* the release machine alone.
LEMMA StopNativeHalts ==
    ASSUME NEW w \in Player, Good(w), Live(w), NEW reload \in BOOLEAN, NEW e \in Chance
    PROVE  LET v == StopNative(w, reload, e)
           IN  /\ Halts(w, v) /\ ~Live(v) /\ v.route = w.route /\ v.fg = w.fg
               /\ v.session = w.session
               /\ reload => v.adapter.release = w.adapter.release
  <1> DEFINE n == w.engine
             parked == ~Finished(n) /\ n.late
             answer == [attempt |-> n.attempt, ok |-> e.joined]
             off == ~reload /\ ~parked /\ e.off
             m == IF n.call = "out" /\ ~parked THEN w.mail \cup {answer} ELSE w.mail
             v == [w EXCEPT !.engine = NoEngine, !.mail = m]
             x == StopNative(w, reload, e)
  <1>1. n \in Engine /\ w.slot \in Object /\ w.adapter \in Adapter /\ w.mail \in SUBSET Post
        /\ w.adapter.release \in Release /\ n.attempt \in Nat /\ n.call \in Calls
    BY PlayerFacts, NativeFacts
  <1>2. w.adapter.release.kind = "Idle" /\ w.adapter.release.queued = 0
    BY DEF Good, ObjectInv, Live
  <1>3. answer \in Post /\ answer.attempt = n.attempt
    BY <1>1 DEF Post, Chance, Chances, Resumes
  <1>4. m \in SUBSET Post /\ PostedBy(w, m)
    BY <1>1, <1>3 DEF PostedBy
  <1> HIDE DEF answer, m
  <1> DEFINE Goal == Without(w, x) /\ (reload => x.adapter.release = w.adapter.release)
  <1>0. NoEngine \in Engine
    BY DEF NoEngine, Engine, Calls
  <1>5. ASSUME parked PROVE Goal
    <2> DEFINE s == [w.slot EXCEPT !.abandoned = n.attempt, !.back = n.call # "out"]
    <2>1. x = [v EXCEPT !.slot.abandoned = n.attempt, !.slot.back = n.call # "out"]
      BY <1>5 DEF StopNative, m, answer
    <2>2. x = [w EXCEPT !.engine = NoEngine, !.mail = m, !.slot = s, !.adapter = w.adapter]
      BY <2>1 DEF Player
    <2>3. s \in Object /\ s.abandoned = n.attempt /\ s.unload = w.slot.unload
          /\ s.returned = w.slot.returned
      BY <1>1 DEF Object
    <2>4. LetGo(w, s, w.adapter)
      BY <1>2, <2>3 DEF LetGo
    <2> HIDE DEF s, x, m
    <2>5. x \in Player /\ x.engine = NoEngine /\ x.mail = m /\ x.slot = s /\ x.adapter = w.adapter
          /\ x.route = w.route /\ x.fg = w.fg /\ x.session = w.session /\ x.exiting = w.exiting
      BY <1>0, <1>1, <1>4, <2>2, <2>3 DEF Player
    <2> QED
      BY <1>4, <2>4, <2>5 DEF Without
  <1>6. ASSUME ~parked, off PROVE Goal
    <2> DEFINE s == [w.slot EXCEPT !.unload = n.attempt, !.returned = FALSE, !.late = FALSE]
               a == [w.adapter EXCEPT !.release = UnloadHandedOff(w.adapter.release, n.attempt)]
    <2>1. x = [v EXCEPT !.slot.unload = n.attempt, !.slot.returned = FALSE, !.slot.late = FALSE,
                        !.adapter.release = UnloadHandedOff(@, n.attempt)]
      BY <1>6 DEF StopNative, m, answer
    <2>2. x = [w EXCEPT !.engine = NoEngine, !.mail = m, !.slot = s, !.adapter = a]
      BY <2>1 DEF Player
    <2>3. s \in Object /\ s.abandoned = w.slot.abandoned /\ s.unload = n.attempt
          /\ ~s.returned /\ s.back = w.slot.back
      BY <1>1 DEF Object
    <2>4. UnloadHandedOff(w.adapter.release, n.attempt) = Releasing(n.attempt, 0)
      BY <1>2 DEF UnloadHandedOff, IsBusy
    <2>5. a \in Adapter /\ a.release.kind = "Releasing" /\ a.release.epoch = n.attempt
          /\ a.release.queued = 0
      BY <1>1, <2>4 DEF Adapter, Release, Releasing
    <2>6. LetGo(w, s, a)
      BY <2>3, <2>5 DEF LetGo
    <2> HIDE DEF s, a, x, m
    <2>7. x \in Player /\ x.engine = NoEngine /\ x.mail = m /\ x.slot = s /\ x.adapter = a
          /\ x.route = w.route /\ x.fg = w.fg /\ x.session = w.session /\ x.exiting = w.exiting
      BY <1>0, <1>1, <1>4, <2>2, <2>3, <2>5 DEF Player
    <2> QED
      BY <1>4, <1>6, <2>6, <2>7 DEF Without
  <1>7. ASSUME ~parked, ~off PROVE Goal
    <2>1. x = v
      BY <1>7 DEF StopNative, m, answer
    <2>2. x = [w EXCEPT !.engine = NoEngine, !.mail = m, !.slot = w.slot, !.adapter = w.adapter]
      BY <2>1 DEF Player
    <2>3. LetGo(w, w.slot, w.adapter)
      BY <1>2 DEF LetGo
    <2> HIDE DEF x, m
    <2>4. x \in Player /\ x.engine = NoEngine /\ x.mail = m /\ x.slot = w.slot
          /\ x.adapter = w.adapter
          /\ x.route = w.route /\ x.fg = w.fg /\ x.session = w.session /\ x.exiting = w.exiting
      BY <1>0, <1>1, <1>4, <2>2 DEF Player
    <2> QED
      BY <1>4, <2>3, <2>4 DEF Without
  <1>8. Goal
    BY <1>5, <1>6, <1>7
  <1> HIDE DEF x
  <1>9. Halts(w, x) /\ ~Live(x) /\ x.route = w.route /\ x.fg = w.fg /\ x.session = w.session
        /\ (reload => x.adapter.release = w.adapter.release)
    BY <1>8, EngineGone DEF Without
  <1> QED
    BY <1>9 DEF x

\* The release machine moves, the object does not.
Requeued(w, v) ==
    /\ v \in Player /\ v.route = w.route /\ v.engine = w.engine /\ v.mail = w.mail
    /\ v.slot = w.slot /\ v.exiting = w.exiting /\ v.fg = w.fg /\ v.session = w.session
    /\ v.adapter.release.kind = "Idle" <=> w.adapter.release.kind = "Idle"
    /\ v.adapter.release.epoch = w.adapter.release.epoch
    /\ v.adapter.release.queued <= w.route.serials
    /\ v.adapter.release.kind = "Idle" => v.adapter.release.queued = 0

\* Changing only what is queued, to an issued start, keeps the invariant.
LEMMA RequeuedGoes ==
    ASSUME NEW w \in Player, Good(w), NEW v, Requeued(w, v)
    PROVE  Goes(w, v) /\ Untouched(w, v)
  <1>1. ObjectInv(v) /\ PostInv(v) /\ QueueInv(v)
    BY DEF Requeued, Good, ObjectInv, PostInv, QueueInv
  <1> QED
    BY <1>1, NativeFacts DEF Requeued, Goes, Good, Untouched, NoRevival

\* Replacing the release machine's state leaves the other fields.
LEMMA SetRelease ==
    ASSUME NEW w \in Player, NEW r \in Release
    PROVE  LET v == [w EXCEPT !.adapter.release = r]
           IN  /\ v \in Player /\ v.route = w.route /\ v.engine = w.engine /\ v.mail = w.mail
               /\ v.slot = w.slot /\ v.exiting = w.exiting /\ v.fg = w.fg
               /\ v.session = w.session /\ v.adapter.release = r
  <1> DEFINE a == [w.adapter EXCEPT !.release = r]
             v == [w EXCEPT !.adapter = a]
  <1>1. a \in Adapter /\ a.release = r
    BY PlayerFacts DEF Adapter
  <1>2. [w EXCEPT !.adapter.release = r] = v
    OBVIOUS
  <1> HIDE DEF a
  <1>3. v \in Player /\ v.route = w.route /\ v.engine = w.engine /\ v.mail = w.mail
        /\ v.slot = w.slot /\ v.exiting = w.exiting /\ v.fg = w.fg
        /\ v.session = w.session /\ v.adapter = a
    BY <1>1 DEF Player
  <1> HIDE DEF v
  <1> QED
    BY <1>1, <1>2, <1>3

\* Cancelling the queued start empties the queue, and the start is given up.
LEMMA CancelQueuedHalts ==
    ASSUME NEW w \in Player, Good(w)
    PROVE  LET v == CancelQueuedStart(w)
           IN  /\ Halts(w, v) /\ Untouched(w, v) /\ v.fg = w.fg
               /\ v.adapter.release.queued = 0
               /\ w.adapter.release.queued = 0 => v = w
  <1> DEFINE r == w.adapter.release
             x == CancelQueued(r)
             v == [w EXCEPT !.adapter.release = x.to]
  <1>1. r \in Release /\ r.queued \in Nat /\ r.epoch \in Nat /\ w.route.serials \in Nat
    BY NativeFacts
  <1>2. CASE r.queued = 0
    <2>1. x.to = r /\ x.effect = "None"
      BY <1>2 DEF CancelQueued, HasQueued, Silent, Fx
    <2>2. v = w
      BY <2>1 DEF Player, Adapter
    <2>3. CancelQueuedStart(w) = w
      BY <2>1, <2>2 DEF CancelQueuedStart
    <2> QED
      BY <1>2, <2>3, GoodIssued, BesideGoes DEF Untouched
  <1>3. CASE r.queued # 0
    <2>1. x.to = Releasing(r.epoch, 0) /\ x.effect = "AbortSuperseded" /\ x.q = r.queued
      BY <1>3 DEF CancelQueued, HasQueued, Fx
    <2>2. x.to \in Release /\ x.to.kind = "Releasing" /\ x.to.epoch = r.epoch /\ x.to.queued = 0
      BY <1>1, <2>1 DEF Releasing, Release
    <2>3. r.kind # "Idle"
      BY <1>3 DEF Good, ObjectInv
    <2>4. CancelQueuedStart(w) = RunAbortSuperseded(v, r.queued)
      BY <2>1 DEF CancelQueuedStart
    <2> HIDE DEF x
    <2>5. v \in Player /\ v.adapter.release = x.to /\ Requeued(w, v)
      BY <1>1, <2>2, <2>3, SetRelease DEF Requeued
    <2> HIDE DEF v
    <2>6. Goes(w, v) /\ Untouched(w, v) /\ Good(v) /\ v.fg = w.fg
      BY <2>5, RequeuedGoes DEF Goes, Requeued
    <2> DEFINE u == RunAbortSuperseded(v, r.queued)
    <2>7. Beside(v, u) /\ PendingRouteStart(u.route) # r.queued /\ u.fg = v.fg
      BY <1>1, <1>3, <2>5, <2>6, SupersededBeside
    <2> HIDE DEF u
    <2>8. Goes(v, u)
      BY <2>5, <2>6, <2>7, BesideGoes DEF Advances
    <2>9. Goes(w, u) /\ GivenUp(w, u)
      BY <2>6, <2>7, <2>8, GoesTrans DEF GivenUp
    <2>10. Untouched(w, u) /\ u.adapter.release.queued = 0
      BY <2>2, <2>5, <2>6, <2>7 DEF Untouched, Beside
    <2>11. Halts(w, u)
      BY <2>9, <2>10 DEF Halts
    <2> QED
      BY <1>3, <2>4, <2>6, <2>7, <2>10, <2>11 DEF u
  <1> QED
    BY <1>2, <1>3

\* The end of a session leaves route, lifecycle and object alone.
LEMMA ForgetBeside ==
    ASSUME NEW w \in Player, Good(w), NEW reload \in BOOLEAN
    PROVE  /\ Beside(w, Ended(w, reload)) /\ Ended(w, reload).route = w.route
           /\ Ended(w, reload).fg = w.fg /\ Ended(w, reload).adapter = w.adapter
  <1> DEFINE p == [w.session EXCEPT !.url = FALSE, !.paused = FALSE]
             v == [w EXCEPT !.session = p, !.wish = "Playing"]
  <1>1. p \in Session /\ "Playing" \in Clocks
    BY PlayerFacts DEF Session, Clocks
  <1>2. ForgetPlayback(w) = v
    BY DEF ForgetPlayback
  <1> HIDE DEF p
  <1>3. v \in Player /\ v.route = w.route /\ v.engine = w.engine /\ v.mail = w.mail
        /\ v.slot = w.slot /\ v.exiting = w.exiting /\ v.fg = w.fg /\ v.adapter = w.adapter
    BY <1>1 DEF Player
  <1> HIDE DEF v
  <1>4. Beside(w, v)
    BY <1>3, GoodIssued DEF Beside, Untouched
  <1> QED
    BY <1>2, <1>3, <1>4, GoodIssued DEF Ended

\* stop_engine halts: at most the installed Engine is stopped.
LEMMA StopEngineHalts ==
    ASSUME NEW w \in Player, Good(w), NEW reload \in BOOLEAN, NEW e \in Chance
    PROVE  LET v == StopEngine(w, reload, e)
           IN  /\ Halts(w, v) /\ v.fg = w.fg
               /\ reload => v.adapter.release = w.adapter.release
  <1> DEFINE c == EngineTeardown(w.route, reload)
             x == [w EXCEPT !.route = c]
             v == StopEngine(w, reload, e)
  <1>1. Carries(w.route, c)
    BY GoodIssued, TeardownCarries
  <1> HIDE DEF c
  <1>2. Beside(w, x) /\ x.adapter = w.adapter /\ x.engine = w.engine /\ x.fg = w.fg
    BY <1>1, RouteBeside
  <1>3. x \in Player /\ Good(x) /\ Halts(w, x) /\ (Live(x) <=> Live(w))
    BY <1>2, BesideGood, BesideGoes DEF Beside, Live
  <1> HIDE DEF x
  <1>4. ASSUME NEW y \in Player, Good(y), Halts(w, y), y.fg = w.fg,
               reload => y.adapter.release = w.adapter.release, v = Ended(y, reload)
        PROVE  Halts(w, v) /\ v.fg = w.fg /\ (reload => v.adapter.release = w.adapter.release)
    <2>1. Beside(y, Ended(y, reload)) /\ Ended(y, reload).fg = y.fg
          /\ Ended(y, reload).adapter = y.adapter
      BY <1>4, ForgetBeside
    <2>2. Halts(w, Ended(y, reload))
      BY <1>4, <2>1, BesideGoes, HaltsTrans
    <2> QED
      BY <1>4, <2>1, <2>2
  <1>5. CASE v = w
    BY <1>5, GoodIssued, BesideGoes
  <1>6. CASE v = Ended(x, reload)
    BY <1>2, <1>3, <1>4, <1>6
  <1>7. CASE Live(w) /\ v = Ended(StopNative(x, reload, e), reload)
    <2> DEFINE y == StopNative(x, reload, e)
    <2>1. Halts(x, y) /\ y.fg = x.fg /\ (reload => y.adapter.release = x.adapter.release)
      BY <1>3, <1>7, StopNativeHalts
    <2> HIDE DEF y
    <2>2. Halts(w, y) /\ y \in Player /\ Good(y)
      BY <1>3, <2>1, HaltsTrans, GoodTypes
    <2>3. v = Ended(y, reload)
      BY <1>7 DEF y
    <2> QED
      BY <1>2, <1>4, <2>1, <2>2, <2>3
  <1>8. v = w \/ v = Ended(x, reload) \/ (Live(w) /\ v = Ended(StopNative(x, reload, e), reload))
    BY DEF StopEngine, x, c
  <1> QED
    BY <1>5, <1>6, <1>7, <1>8

\* The teardown stops at most the installed Engine; an app switch's never
\* hands an Unload to a worker.
LEMMA TeardownHalts ==
    ASSUME NEW w \in Player, Good(w), NEW reload \in BOOLEAN, NEW e \in Chance
    PROVE  LET v == Teardown(w, reload, e)
           IN  /\ Halts(w, v) /\ v \in Player /\ Good(v) /\ v.fg = w.fg
               /\ reload /\ w.adapter.release.kind = "Idle" => v.adapter.release.kind = "Idle"
  <1> DEFINE x == CancelQueuedStart(w)
             v == Teardown(w, reload, e)
  <1>1. Halts(w, x) /\ x.fg = w.fg /\ (w.adapter.release.queued = 0 => x = w)
    BY CancelQueuedHalts
  <1>0. w.adapter.release.kind = "Idle" => w.adapter.release.queued = 0
    BY DEF Good, ObjectInv
  <1> HIDE DEF x
  <1>2. x \in Player /\ Good(x)
    BY <1>1, GoodTypes
  <1>3. v = StopEngine(x, reload, e)
    BY DEF Teardown, x
  <1>4. Halts(x, v) /\ v.fg = x.fg /\ (reload => v.adapter.release = x.adapter.release)
    BY <1>2, <1>3, StopEngineHalts
  <1> HIDE DEF v
  <1>5. Halts(w, v) /\ v \in Player /\ Good(v)
    BY <1>1, <1>2, <1>4, HaltsTrans, GoodTypes
  <1>6. Halts(w, v) /\ v \in Player /\ Good(v) /\ v.fg = w.fg
        /\ (reload /\ w.adapter.release.kind = "Idle" => v.adapter.release.kind = "Idle")
    BY <1>0, <1>1, <1>4, <1>5
  <1> QED
    BY <1>6 DEF v

------------------------------------------------------------------------------
(* The runner of the release machine.                                       *)

\* Telling the watch how a queued start ran leaves the object alone.
LEMMA QueuedRanBeside ==
    ASSUME NEW w \in Player, Good(w), NEW launched \in BOOLEAN, NEW attempt \in Nat
    PROVE  LET v == QueuedRan(w, launched, attempt)
           IN  Beside(w, v) /\ v.route = w.route /\ v.engine = w.engine /\ v.fg = w.fg
  <1> DEFINE x == SettlePreviewAdmission(w, launched, TRUE)
             a == QueuedStartRan(x.adapter, attempt)
             v == [x EXCEPT !.adapter = a]
  <1>1. Beside(w, x) /\ x.route = w.route /\ x.engine = w.engine /\ x.fg = w.fg /\ x \in Player
    BY AdmissionBeside DEF Beside
  <1> HIDE DEF x
  <1>2. a \in Adapter /\ a.release = x.adapter.release
    <2> DEFINE k == [kind |-> IF attempt = 0 THEN "Failed" ELSE "Launched", attempt |-> attempt]
    <2>1. k \in Watch
      BY DEF Watch
    <2>2. a = x.adapter \/ a = [x.adapter EXCEPT !.watch = k]
      BY DEF QueuedStartRan
    <2> HIDE DEF k, a
    <2> QED
      BY <1>1, <2>1, <2>2, PlayerFacts DEF Adapter
  <1> HIDE DEF a
  <1>3. v \in Player /\ v.route = x.route /\ v.engine = x.engine /\ v.mail = x.mail
        /\ v.slot = x.slot /\ v.exiting = x.exiting /\ v.fg = x.fg /\ v.adapter = a
    BY <1>1, <1>2 DEF Player
  <1>4. QueuedRan(w, launched, attempt) = v
    BY DEF QueuedRan, x, a
  <1> HIDE DEF v
  <1>5. Beside(w, v)
    BY <1>1, <1>2, <1>3 DEF Beside, Untouched
  <1> QED
    BY <1>1, <1>3, <1>4, <1>5

\* So does recording its answer.
LEMMA QueuedStartedBeside ==
    ASSUME NEW r, r.w \in Player, Good(r.w), r.attempt \in Nat
    PROVE  LET v == QueuedStarted(r)
           IN  Beside(r.w, v) /\ v.route = r.w.route /\ v.fg = r.w.fg
  <1> DEFINE b == r.out = "Launched"
             x == QueuedRan(r.w, b, r.attempt)
             t == b /\ r.w.session.as_preview
             n == [x.engine EXCEPT !.waited = t]
             v == [x EXCEPT !.engine = n]
  <1>1. Beside(r.w, x) /\ x.route = r.w.route /\ x.fg = r.w.fg /\ x \in Player
    BY QueuedRanBeside DEF Beside
  <1>2. QueuedStarted(r) = v
    BY DEF QueuedStarted
  <1>3. t \in BOOLEAN
    BY PlayerFacts DEF Session
  <1> HIDE DEF x, t
  <1>4. n \in Engine /\ n.attempt = x.engine.attempt /\ n.serial = x.engine.serial
        /\ n.call = x.engine.call
    BY <1>1, <1>3, PlayerFacts DEF Engine
  <1> HIDE DEF n
  <1>5. v \in Player /\ v.route = x.route /\ v.engine = n /\ v.mail = x.mail
        /\ v.slot = x.slot /\ v.exiting = x.exiting /\ v.fg = x.fg /\ v.adapter = x.adapter
    BY <1>1, <1>4 DEF Player
  <1> HIDE DEF v
  <1>6. Beside(r.w, v)
    BY <1>1, <1>4, <1>5 DEF Beside, Untouched
  <1> QED
    BY <1>1, <1>2, <1>5, <1>6

\* What the release machine's effects come to: the lifecycle is left alone, and
\* a Load that was opened owns the route.
Driven(w, v) ==
    /\ Advances(w, v) /\ v.fg = w.fg
    /\ ~Live(w) /\ Live(v) => v.route.phase = "Starting" /\ v.adapter.release.kind = "Idle"

\* The machine was idle: there is nothing to drive.
LEMMA DriveIdle ==
    ASSUME NEW w \in Player, Good(w), NEW may_start \in BOOLEAN, NEW e \in Chance,
           w.adapter.release.kind = "Idle"
    PROVE  DriveRelease(w, may_start, e) = w
  <1> DEFINE r == w.adapter.release
  <1>1. ~w.slot.returned
    BY DEF Good, ObjectInv
  <1>2. Silent(r).to = r /\ Silent(r).effect = "None" /\ ~Silent(r).tail /\ Silent(r).q = 0
    BY DEF Silent, Fx
  <1>3. Tick(r, w.slot.late) = Silent(r)
    BY DEF Tick
  <1>4. [w EXCEPT !.slot = w.slot, !.adapter.release = r] = w
    BY DEF Player, Adapter
  <1> QED
    BY <1>1, <1>2, <1>3, <1>4 DEF DriveRelease, RunReleaseEffects

\* The worker has returned: the tail runs, then the start that waited.
LEMMA DriveReturned ==
    ASSUME NEW w \in Player, Good(w), NEW may_start \in BOOLEAN, NEW e \in Chance,
           w.adapter.release.kind # "Idle", w.slot.returned
    PROVE  /\ Driven(w, DriveRelease(w, may_start, e))
           /\ may_start \/ ~Live(DriveRelease(w, may_start, e))
  <1> DEFINE r == w.adapter.release
             q == r.queued
             free == [w.slot EXCEPT !.unload = 0, !.returned = FALSE, !.late = FALSE]
             x == [w EXCEPT !.slot = free, !.adapter.release = Idle]
             v == DriveRelease(w, may_start, e)
  <1>1. r \in Release /\ q \in Nat /\ w.slot \in Object /\ w.route.serials \in Nat
    BY NativeFacts, PlayerFacts
  <1>2. w.slot.unload # 0 /\ r.epoch = w.slot.unload /\ w.slot.abandoned = 0 /\ ~Live(w)
        /\ ~w.slot.back
    BY DEF Good, ObjectInv, Live
  <1>3. UnloadReturned(r, w.slot.unload) = Fx(Idle, TRUE, About("Start", q), q)
    BY <1>2 DEF UnloadReturned, IsBusy
  <1>4. Tick(Idle, w.slot.late) = Fx(Idle, FALSE, "None", 0)
    BY DEF Tick, Silent, Idle
  <1>5. /\ q = 0 => v = x
        /\ q # 0 => v = IF may_start THEN QueuedStarted(StartPrepared(x, q, e))
                       ELSE AbortStart(SettlePreviewAdmission(x, FALSE, FALSE), q, "StartFailed")
    <2> DEFINE X == UnloadReturned(r, w.slot.unload)
               Y == Tick(X.to, w.slot.late)
               Z == IF X.effect = "None" THEN Y ELSE X
               S == IF X.tail THEN free ELSE w.slot
    <2>1. X.to = Idle /\ X.tail = TRUE /\ X.effect = About("Start", q) /\ X.q = q
      BY <1>3 DEF Fx
    <2>2. Y.to = Idle /\ Y.effect = "None" /\ Y.q = 0
      BY <1>4, <2>1 DEF Fx
    <2>3. S = free
      BY <2>1
    <2>4. v = RunReleaseEffects([w EXCEPT !.slot = S, !.adapter.release = Y.to],
                                Z.effect, Z.q, may_start, e)
      BY DEF DriveRelease
    <2> HIDE DEF X, Y, S, free, v
    <2>5. v = RunReleaseEffects(x, Z.effect, Z.q, may_start, e)
      BY <2>2, <2>3, <2>4
    <2>6. q = 0 => Z.effect = "None" /\ Z.q = 0
      BY <2>1, <2>2 DEF About
    <2>7. q # 0 => Z.effect = "Start" /\ Z.q = q
      BY <2>1, <2>2 DEF About
    <2> HIDE DEF Z, x
    <2> QED
      BY <2>5, <2>6, <2>7 DEF RunReleaseEffects
  <1>6. free \in Object /\ free.unload = 0 /\ ~free.returned /\ free.abandoned = 0 /\ ~free.back
    BY <1>1, <1>2 DEF Object
  <1>7. Idle \in Release /\ Idle.kind = "Idle" /\ Idle.queued = 0
    BY DEF Idle, Release
  <1> HIDE DEF free, v
  <1>8. x \in Player /\ x.route = w.route /\ x.engine = w.engine /\ x.mail = w.mail
        /\ x.slot = free /\ x.exiting = w.exiting /\ x.fg = w.fg /\ x.adapter.release = Idle
    <2> DEFINE a == [w.adapter EXCEPT !.release = Idle]
    <2>1. a \in Adapter /\ a.release = Idle
      BY <1>7, PlayerFacts DEF Adapter
    <2>2. x = [w EXCEPT !.slot = free, !.adapter = a]
      OBVIOUS
    <2> HIDE DEF a, x
    <2> QED
      BY <1>6, <2>1, <2>2 DEF Player
  <1> HIDE DEF x
  <1>9. Good(x)
    BY <1>6, <1>7, <1>8, NativeFacts DEF Good, ObjectInv, PostInv, QueueInv
  <1>10. Goes(w, x) /\ Vacant(w) /\ NoHolder(x)
    BY <1>2, <1>6, <1>8, <1>9, NativeFacts DEF Goes, Vacant, NoHolder, Live, NoRevival
  <1>11. Left(w, x) <=> q # 0
    BY <1>7, <1>8 DEF Left
  <1>12. ASSUME NEW u, Advances(x, u), u.fg = x.fg, v = u,
                q # 0 => PendingRouteStart(u.route) # q \/ (Live(u) /\ u.engine.serial = q),
                Live(u) => u.route.phase = "Starting" /\ u.adapter.release.kind = "Idle"
         PROVE  Driven(w, v)
    <2>1. Goes(w, u)
      BY <1>10, <1>12, GoesTrans DEF Advances
    <2>2. NoHolder(u) \/ Opened(w, u)
      BY <1>8, <1>10, <1>12 DEF Advances, Untouched, NoHolder, Opened, Live
    <2>3. u.mail = w.mail
      BY <1>8, <1>12 DEF Advances
    <2>4. Left(w, u) => GivenUp(w, u) \/ (Live(u) /\ u.engine.serial = q)
      BY <1>12 DEF Left, GivenUp
    <2>5. Advances(w, u)
      BY <1>10, <2>1, <2>2, <2>3, <2>4 DEF Advances
    <2> QED
      BY <1>8, <1>12, <2>5 DEF Driven
  <1>13. ASSUME q = 0 PROVE Driven(w, v) /\ ~Live(v)
    <2>1. Advances(x, x) /\ ~Live(x)
      BY <1>8, <1>9, <1>10, GoodIssued, BesideGoes DEF NoHolder
    <2> QED
      BY <1>5, <1>12, <1>13, <2>1
  <1>14. ASSUME q # 0, may_start PROVE Driven(w, v)
    <2> DEFINE p == StartPrepared(x, q, e)
               u == QueuedStarted(p)
    <2>1. StartOutcome(x, q, p)
      BY <1>1, <1>7, <1>8, <1>9, StartPreparedOutcome
    <2> HIDE DEF p
    <2>2. Advances(x, p.w) /\ p.w.adapter = x.adapter /\ p.w.fg = x.fg /\ p.attempt \in Nat
          /\ p.w \in Player /\ Good(p.w)
      BY <2>1, GoodTypes DEF StartOutcome
    <2>3. Beside(p.w, u) /\ u.route = p.w.route /\ u.fg = p.w.fg
      BY <2>2, QueuedStartedBeside
    <2> HIDE DEF u
    <2>4. Advances(x, u)
      BY <1>8, <1>9, <2>2, <2>3, BesideGoes, AdvancesTrans
    <2>5. u.engine.serial = p.w.engine.serial /\ (Live(u) <=> Live(p.w))
          /\ u.adapter.release.kind = "Idle"
      BY <1>7, <1>8, <2>2, <2>3 DEF Beside, Untouched, Live
    <2>6. ~Live(x)
      BY <1>10 DEF NoHolder
    <2>7. PendingRouteStart(u.route) # q \/ (Live(u) /\ u.engine.serial = q)
      BY <1>14, <2>1, <2>3, <2>5 DEF StartOutcome
    <2>8. Live(u) => u.route.phase = "Starting"
      BY <2>1, <2>3, <2>5, <2>6 DEF StartOutcome
    <2>9. v = u
      BY <1>5, <1>14 DEF u, p
    <2> QED
      BY <1>12, <2>2, <2>3, <2>4, <2>5, <2>7, <2>8, <2>9
  <1>15. ASSUME q # 0, ~may_start PROVE Driven(w, v) /\ ~Live(v)
    <2> DEFINE p == SettlePreviewAdmission(x, FALSE, FALSE)
               u == AbortStart(p, q, "StartFailed")
    <2>1. Beside(x, p) /\ p.fg = x.fg
      BY <1>8, <1>9, AdmissionBeside
    <2>2. p \in Player /\ Good(p)
      BY <1>8, <1>9, <2>1, BesideGood DEF Beside
    <2> HIDE DEF p
    <2>3. Beside(p, u) /\ PendingRouteStart(u.route) # q /\ u.fg = p.fg
      BY <1>1, <1>15, <2>2, AbortStartBeside
    <2> HIDE DEF u
    <2>4. Beside(x, u)
      BY <1>8, <2>1, <2>3, BesideTrans
    <2>5. Advances(x, u) /\ ~Live(u)
      BY <1>8, <1>9, <1>10, <2>4, BesideGoes DEF Beside, Untouched, Live, NoHolder
    <2>6. v = u
      BY <1>5, <1>15 DEF u, p
    <2> QED
      BY <1>12, <2>1, <2>3, <2>5, <2>6
  <1> QED
    BY <1>13, <1>14, <1>15 DEF v

\* The worker is still inside the firmware: at the deadline the start that
\* waited is refused.
LEMMA DriveWaiting ==
    ASSUME NEW w \in Player, Good(w), NEW may_start \in BOOLEAN, NEW e \in Chance,
           w.adapter.release.kind # "Idle", ~w.slot.returned
    PROVE  Driven(w, DriveRelease(w, may_start, e)) /\ ~Live(DriveRelease(w, may_start, e))
  <1> DEFINE r == w.adapter.release
             q == r.queued
             X == Silent(r)
             Y == Tick(X.to, w.slot.late)
             Z == IF X.effect = "None" THEN Y ELSE X
             x == [w EXCEPT !.slot = w.slot, !.adapter.release = Y.to]
             v == DriveRelease(w, may_start, e)
  <1>1. r \in Release /\ q \in Nat /\ r.epoch \in Nat /\ w.slot \in Object
        /\ w.route.serials \in Nat
    BY NativeFacts, PlayerFacts
  <1>2. X.to = r /\ X.effect = "None" /\ X.tail = FALSE /\ X.q = 0
    BY DEF Silent, Fx
  <1>3. v = RunReleaseEffects(x, Z.effect, Z.q, may_start, e)
    <2> DEFINE S == IF X.tail THEN [w.slot EXCEPT !.unload = 0, !.returned = FALSE, !.late = FALSE]
                    ELSE w.slot
    <2>1. S = w.slot
      BY <1>2
    <2>2. v = RunReleaseEffects([w EXCEPT !.slot = S, !.adapter.release = Y.to],
                                Z.effect, Z.q, may_start, e)
      BY DEF DriveRelease
    <2> HIDE DEF X, Y, S, v
    <2> QED
      BY <2>1, <2>2
  <1>4. Z = Y
    BY <1>2
  <1>0. ~Live(w)
    BY DEF Good, ObjectInv, Live
  <1>5. ASSUME ~(r.kind = "Releasing" /\ w.slot.late) PROVE Driven(w, v) /\ ~Live(v)
    <2>1. Y = Silent(r)
      BY <1>2, <1>5 DEF Tick
    <2>2. Y.to = r /\ Y.effect = "None"
      BY <2>1 DEF Silent, Fx
    <2> HIDE DEF X, Y, Z, v
    <2>3. x = w
      BY <2>2 DEF Player, Adapter
    <2> HIDE DEF x
    <2>4. v = w
      BY <1>3, <1>4, <2>2, <2>3 DEF RunReleaseEffects
    <2>5. Advances(w, w)
      BY GoodIssued, BesideGoes
    <2> QED
      BY <1>0, <2>4, <2>5 DEF Driven
  <1>6. ASSUME r.kind = "Releasing", w.slot.late PROVE Driven(w, v) /\ ~Live(v)
    <2>1. Y = Fx(Overdue(r.epoch), FALSE, About("RefuseStart", q), q)
      BY <1>2, <1>6 DEF Tick
    <2>2. Y.to = Overdue(r.epoch) /\ Y.effect = About("RefuseStart", q) /\ Y.q = q
      BY <2>1 DEF Fx
    <2>3. Y.to \in Release /\ Y.to.kind = "Overdue" /\ Y.to.epoch = r.epoch /\ Y.to.queued = 0
      BY <1>1, <2>2 DEF Overdue, Release
    <2> HIDE DEF X, Y, Z, v
    <2>4. x \in Player /\ x.route = w.route /\ x.engine = w.engine /\ x.mail = w.mail
          /\ x.slot = w.slot /\ x.exiting = w.exiting /\ x.fg = w.fg /\ x.session = w.session
          /\ x.adapter.release = Y.to
      <3> DEFINE a == [w.adapter EXCEPT !.release = Y.to]
      <3>1. a \in Adapter /\ a.release = Y.to
        BY <2>3, PlayerFacts DEF Adapter
      <3>2. x = [w EXCEPT !.slot = w.slot, !.adapter = a]
        OBVIOUS
      <3> HIDE DEF a, x
      <3> QED
        BY <1>1, <3>1, <3>2 DEF Player
    <2> HIDE DEF x
    <2>5. Requeued(w, x)
      BY <1>1, <2>3, <2>4 DEF Requeued
    <2>6. Goes(w, x) /\ Untouched(w, x) /\ Good(x)
      BY <2>5, RequeuedGoes DEF Goes
    <2>7. ASSUME NEW u, Beside(x, u), u.fg = x.fg, v = u, q # 0 => PendingRouteStart(u.route) # q
          PROVE  Driven(w, v) /\ ~Live(v)
      <3>1. Goes(x, u)
        BY <2>4, <2>6, <2>7, BesideGoes DEF Advances
      <3>2. Goes(w, u) /\ Untouched(w, u)
        BY <2>6, <2>7, <3>1, GoesTrans DEF Beside, Untouched
      <3>3. Left(w, u) => GivenUp(w, u)
        BY <2>7 DEF Left, GivenUp
      <3>4. Advances(w, u)
        BY <3>2, <3>3 DEF Advances, Untouched
      <3> QED
        BY <1>0, <2>4, <2>7, <3>2, <3>4 DEF Driven, Untouched, Live
    <2>8. ASSUME q = 0 PROVE Driven(w, v) /\ ~Live(v)
      <3>1. v = x
        BY <1>3, <1>4, <2>2, <2>8 DEF RunReleaseEffects, About
      <3>2. Beside(x, x)
        BY <2>4, <2>6, GoodIssued
      <3> QED
        BY <2>7, <2>8, <3>1, <3>2
    <2>9. ASSUME q # 0 PROVE Driven(w, v) /\ ~Live(v)
      <3> DEFINE y == AbortStart(x, q, "StartFailed")
                 u == QueuedRan(y, FALSE, 0)
      <3>1. v = u
        BY <1>3, <1>4, <2>2, <2>9 DEF RunReleaseEffects, About, RefuseStartForRelease
      <3>2. Beside(x, y) /\ y.fg = x.fg /\ PendingRouteStart(y.route) # q
        BY <1>1, <2>4, <2>6, <2>9, AbortStartBeside
      <3> HIDE DEF y
      <3>3. y \in Player /\ Good(y)
        BY <2>4, <2>6, <3>2, BesideGood DEF Beside
      <3>4. Beside(y, u) /\ u.route = y.route /\ u.fg = y.fg
        BY <3>3, QueuedRanBeside
      <3> HIDE DEF u
      <3>5. Beside(x, u)
        BY <2>4, <3>2, <3>4, BesideTrans
      <3> QED
        BY <2>7, <3>1, <3>2, <3>4, <3>5
    <2> QED
      BY <2>8, <2>9
  <1> QED
    BY <1>5, <1>6 DEF v

\* Polling the release machine launches the queued start or gives it up, and only where
\* it may start one.
LEMMA DriveReleaseDriven ==
    ASSUME NEW w \in Player, Good(w), NEW may_start \in BOOLEAN, NEW e \in Chance
    PROVE  LET v == DriveRelease(w, may_start, e)
           IN  /\ Driven(w, v) /\ v \in Player /\ Good(v)
               /\ may_start \/ Live(w) \/ ~Live(v)
  <1> DEFINE v == DriveRelease(w, may_start, e)
  <1>1. CASE w.adapter.release.kind = "Idle"
    <2>1. v = w
      BY <1>1, DriveIdle
    <2> QED
      BY <2>1, GoodIssued, BesideGoes DEF Driven
  <1>2. CASE w.adapter.release.kind # "Idle"
    <2>1. Driven(w, v) /\ (may_start \/ ~Live(v))
      BY <1>2, DriveReturned, DriveWaiting
    <2>2. Advances(w, v)
      BY <2>1 DEF Driven
    <2> QED
      BY <2>1, <2>2, GoodTypes
  <1> QED
    BY <1>1, <1>2

Outs == {"Failed", "Launched", "Deferred", "AlreadyRunning"}

\* What a start comes to that may have to wait for the object: when it is
\* answered Launched its Load owns the route, and a Load that was opened on the
\* way for another start fails it.
Tracked(w, r) ==
    /\ Advances(w, r.w) /\ r.w.fg = w.fg /\ r.out \in Outs /\ r.attempt \in Nat
    /\ r.out = "Launched" => Live(r.w) /\ r.w.route.phase = "Starting"
    /\ ~Live(w) /\ Live(r.w) => r.out \in {"Launched", "Failed"}

\* A start asked for is launched, queued or failed, and never over a live Engine.
LEMMA RequestStartTracked ==
    ASSUME NEW w \in Player, Good(w), NEW q \in Nat, q <= w.route.serials, NEW e \in Chance
    PROVE  /\ Tracked(w, RequestStart(w, q, e))
           /\ w.adapter.release.kind = "Idle" /\ Live(w) => RequestStart(w, q, e).out = "Failed"
  <1> DEFINE r == w.adapter.release
             x == StartRequested(r, q)
             v == [w EXCEPT !.adapter.release = x.to]
             z == RequestStart(w, q, e)
  <1>1. r \in Release /\ r.queued \in Nat /\ r.epoch \in Nat /\ w.route.serials \in Nat
        /\ r.kind \in {"Idle", "Releasing", "Overdue"}
    BY NativeFacts DEF Release
  <1>0. Advances(w, w)
    BY GoodIssued, BesideGoes
  <1>2. ASSUME r.kind = "Idle" PROVE Tracked(w, z) /\ (Live(w) => z.out = "Failed")
    <2>1. x.to = r /\ x.effect = "Start"
      BY <1>2 DEF StartRequested, Fx
    <2> HIDE DEF x
    <2>2. v = w
      BY <2>1 DEF Player, Adapter
    <2> HIDE DEF v
    <2>3. z = StartPrepared(w, q, e)
      BY <2>1, <2>2 DEF RequestStart, x, v
    <2> HIDE DEF z
    <2>4. StartOutcome(w, q, z)
      BY <1>2, <2>3, StartPreparedOutcome
    <2> QED
      BY <2>4 DEF StartOutcome, Tracked, Outs
  <1>3. ASSUME r.kind = "Overdue" PROVE Tracked(w, z)
    <2>1. x.to = r /\ x.effect = "RefuseStart"
      BY <1>3 DEF StartRequested, Fx
    <2> HIDE DEF x
    <2>2. v = w
      BY <2>1 DEF Player, Adapter
    <2> HIDE DEF v
    <2> DEFINE y == AbortStart(w, q, "StartFailed")
    <2>3. z = Started(y, "Failed", 0)
      BY <2>1, <2>2 DEF RequestStart, RefuseStartForRelease, x, v
    <2>4. Beside(w, y) /\ y.fg = w.fg
      BY AbortStartBeside
    <2> HIDE DEF y, z
    <2>5. z.w = y /\ z.out = "Failed" /\ z.attempt = 0
      BY <2>3, StartedFacts
    <2> QED
      BY <2>4, <2>5, BesideGoes DEF Tracked, Outs
  <1>4. ASSUME r.kind = "Releasing" PROVE Tracked(w, z)
    <2>1. x.to = Releasing(r.epoch, q) /\ x.q = r.queued
          /\ x.effect = IF r.queued \in {0, q} THEN "None" ELSE "AbortSuperseded"
      BY <1>4 DEF StartRequested, Fx
    <2>2. x.to \in Release /\ x.to.kind = "Releasing" /\ x.to.epoch = r.epoch /\ x.to.queued = q
      BY <1>1, <2>1 DEF Releasing, Release
    <2>3. v \in Player /\ v.adapter.release = x.to /\ Requeued(w, v) /\ v.fg = w.fg
      <3> HIDE DEF x
      <3> QED
        BY <1>1, <1>4, <2>2, SetRelease DEF Requeued
    <2>4. r.queued \in {0, q} => z = Started(v, "Deferred", 0)
      BY <2>1 DEF RequestStart
    <2>5. r.queued \notin {0, q} => z = Started(RunAbortSuperseded(v, r.queued), "Deferred", 0)
      BY <2>1 DEF RequestStart
    <2> HIDE DEF x, v, z
    <2>6. Goes(w, v) /\ Untouched(w, v) /\ Good(v)
      BY <2>3, RequeuedGoes DEF Goes
    <2>7. ASSUME NEW y, z = Started(y, "Deferred", 0), Goes(w, y), Untouched(w, y), y.fg = w.fg,
                 Left(w, y) => GivenUp(w, y)
          PROVE  Tracked(w, z)
      <3>1. z.w = y /\ z.out = "Deferred" /\ z.attempt = 0
        BY <2>7, StartedFacts
      <3>2. Advances(w, y) /\ (Live(y) <=> Live(w))
        BY <2>7 DEF Advances, Untouched, Live
      <3> QED
        BY <2>7, <3>1, <3>2 DEF Tracked, Outs
    <2>8. ASSUME r.queued \in {0, q} PROVE Tracked(w, z)
      <3>1. ~Left(w, v)
        BY <2>2, <2>3, <2>8 DEF Left
      <3> QED
        BY <2>3, <2>4, <2>6, <2>7, <2>8, <3>1
    <2>9. ASSUME r.queued \notin {0, q} PROVE Tracked(w, z)
      <3> DEFINE y == RunAbortSuperseded(v, r.queued)
      <3>1. Beside(v, y) /\ PendingRouteStart(y.route) # r.queued /\ y.fg = v.fg
        BY <1>1, <2>3, <2>6, <2>9, SupersededBeside
      <3>2. z = Started(y, "Deferred", 0)
        BY <2>5, <2>9
      <3> HIDE DEF y
      <3>3. Goes(v, y)
        BY <2>3, <2>6, <3>1, BesideGoes DEF Advances
      <3>4. Goes(w, y) /\ Untouched(w, y) /\ GivenUp(w, y)
        BY <2>6, <3>1, <3>3, GoesTrans DEF Beside, Untouched, GivenUp
      <3> QED
        BY <2>3, <2>7, <3>1, <3>2, <3>4
    <2> QED
      BY <2>8, <2>9
  <1> QED
    BY <1>1, <1>2, <1>3, <1>4 DEF z

\* The same through the poll that precedes the request.
LEMMA StartForTracked ==
    ASSUME NEW w \in Player, Good(w), ~Live(w), NEW q \in Nat, q <= w.route.serials,
           NEW e \in Chance
    PROVE  Tracked(w, StartFor(w, q, e))
  <1> DEFINE x == PollRelease(w, e)
  <1>1. CASE ~IsBusy(w.adapter.release)
    <2>1. StartFor(w, q, e) = RequestStart(w, q, e)
      BY <1>1 DEF StartFor
    <2> QED
      BY <2>1, RequestStartTracked
  <1>2. CASE IsBusy(w.adapter.release)
    <2> DEFINE z == RequestStart(x, q, e)
    <2>1. StartFor(w, q, e) = z
      BY <1>2 DEF StartFor
    <2>2. Driven(w, x) /\ x \in Player /\ Good(x)
      BY DriveReleaseDriven DEF PollRelease
    <2> HIDE DEF x
    <2>3. Advances(w, x) /\ x.fg = w.fg /\ w.route.serials <= x.route.serials
      BY <2>2 DEF Driven, Advances, Goes
    <2>4. q <= x.route.serials
      BY <2>2, <2>3, NativeFacts
    <2>5. Tracked(x, z) /\ (x.adapter.release.kind = "Idle" /\ Live(x) => z.out = "Failed")
      BY <2>2, <2>4, RequestStartTracked
    <2> HIDE DEF z
    <2>6. Advances(w, z.w)
      BY <2>3, <2>5, AdvancesTrans DEF Tracked
    <2>7. Live(z.w) => z.out \in {"Launched", "Failed"}
      BY <2>2, <2>5 DEF Tracked, Driven
    <2> QED
      BY <2>1, <2>3, <2>5, <2>6, <2>7 DEF Tracked
  <1> QED
    BY <1>1, <1>2

\* The same for the route's own pending start.
LEMMA StartTrackedTracked ==
    ASSUME NEW w \in Player, Good(w), NEW e \in Chance
    PROVE  LET z == StartTracked(w, e) IN Tracked(w, z) /\ z.w \in Player /\ Good(z.w)
  <1> DEFINE c == w.route
             n == w.engine
             relation == ClassifyLiveEngineStart(c, n.attempt)
             b == BeginRouteStart(c)
             z == StartTracked(w, e)
  <1>0. Advances(w, w) /\ n.attempt \in Nat
    BY GoodIssued, BesideGoes, NativeFacts
  <1>1. ASSUME Live(w), relation = "CurrentAttempt" PROVE Tracked(w, z)
    <2>1. z = Started(w, "Launched", n.attempt)
      BY <1>1 DEF StartTracked
    <2>2. c.phase = "Starting"
      BY <1>1 DEF ClassifyLiveEngineStart
    <2> HIDE DEF z
    <2> QED
      BY <1>0, <1>1, <2>1, <2>2, StartedFacts DEF Tracked, Outs
  <1>2. ASSUME Live(w), relation = "NoPendingRoute" PROVE Tracked(w, z)
    <2>1. z = Started(w, "AlreadyRunning", 0)
      BY <1>2 DEF StartTracked
    <2> HIDE DEF z
    <2> QED
      BY <1>0, <1>2, <2>1, StartedFacts DEF Tracked, Outs
  <1>3. ASSUME Live(w), relation = "Conflict" PROVE Tracked(w, z)
    <2> DEFINE y == AbortStart(w, PendingRouteStart(c), "StartFailed")
    <2>1. z = Started(y, "Failed", 0)
      BY <1>3 DEF StartTracked
    <2>2. Beside(w, y) /\ y.fg = w.fg
      BY NativeFacts, AbortStartBeside
    <2> HIDE DEF z, y
    <2>3. z.w = y /\ z.out = "Failed" /\ z.attempt = 0
      BY <2>1, StartedFacts
    <2> QED
      BY <1>3, <2>2, <2>3, BesideGoes DEF Tracked, Outs
  <1>4. ASSUME ~Live(w), ~MayBegin(c) PROVE Tracked(w, z)
    <2>1. z = Started(w, "Failed", 0)
      BY <1>4 DEF StartTracked
    <2> HIDE DEF z
    <2> QED
      BY <1>0, <1>4, <2>1, StartedFacts DEF Tracked, Outs
  <1>5. ASSUME ~Live(w), MayBegin(c) PROVE Tracked(w, z)
    <2> DEFINE x == [w EXCEPT !.route = b]
    <2>1. z = StartFor(x, b.serial, e)
      BY <1>5 DEF StartTracked
    <2>2. Carries(c, b) /\ b.serial \in Nat
      BY <1>5, GoodIssued, BeginCarries
    <2> HIDE DEF b, z
    <2>3. Beside(w, x) /\ x.fg = w.fg /\ x.route = b
      BY <2>2, RouteBeside
    <2>4. b.serial <= b.serials
      BY <2>2 DEF Carries, MovedOn, Issued
    <2> HIDE DEF x
    <2>5. x \in Player /\ Good(x) /\ ~Live(x)
      BY <1>5, <2>3, BesideGood DEF Beside, Untouched, Live
    <2>6. Tracked(x, z)
      BY <2>1, <2>2, <2>3, <2>4, <2>5, StartForTracked
    <2>7. Advances(w, z.w)
      BY <2>3, <2>6, BesideGoes, AdvancesTrans DEF Tracked
    <2> QED
      BY <2>3, <2>5, <2>6, <2>7 DEF Tracked
  <1>6. relation \in {"CurrentAttempt", "NoPendingRoute", "Conflict"}
    BY DEF ClassifyLiveEngineStart
  <1>7. Tracked(w, z)
    BY <1>1, <1>2, <1>3, <1>4, <1>5, <1>6
  <1> HIDE DEF z
  <1>8. z.w \in Player /\ Good(z.w)
    BY <1>7, GoodTypes DEF Tracked
  <1> QED
    BY <1>7, <1>8 DEF z

------------------------------------------------------------------------------
(* Handlers that leave the native object alone.                             *)

\* Neither the object nor the route is touched.
Aside(w, v) ==
    /\ v \in Player /\ v.route = w.route /\ Untouched(w, v)
    /\ v.adapter.release = w.adapter.release /\ v.exiting = w.exiting

\* A handler that only touches bookkeeping is beside the object.
LEMMA AsideBeside ==
    ASSUME NEW w \in Player, Good(w), NEW v, Aside(w, v)
    PROVE  Beside(w, v) /\ Good(v)
  <1>1. Beside(w, v)
    BY GoodIssued DEF Aside, Beside
  <1> QED
    BY <1>1, BesideGood

\* Replacing the lifecycle's state leaves the other fields.
LEMMA SetFg ==
    ASSUME NEW w \in Player, NEW f \in Machine
    PROVE  LET v == [w EXCEPT !.fg = f]
           IN  /\ Aside(w, v) /\ v.fg = f /\ v.session = w.session /\ v.adapter = w.adapter
               /\ v.engine = w.engine /\ v.screen = w.screen /\ v.route = w.route
  <1> DEFINE v == [w EXCEPT !.fg = f]
  <1>1. v \in Player /\ v.fg = f /\ v.session = w.session /\ v.adapter = w.adapter
        /\ v.engine = w.engine /\ v.screen = w.screen /\ v.route = w.route /\ v.mail = w.mail
        /\ v.slot = w.slot /\ v.exiting = w.exiting
    BY DEF Player
  <1> HIDE DEF v
  <1>2. Aside(w, v)
    BY <1>1 DEF Aside, Untouched
  <1> QED
    BY <1>1, <1>2 DEF v

\* Replacing the session leaves the other fields.
LEMMA SetSession ==
    ASSUME NEW w \in Player, NEW s \in Session
    PROVE  LET v == [w EXCEPT !.session = s]
           IN  /\ Aside(w, v) /\ v.fg = w.fg /\ v.session = s /\ v.adapter = w.adapter
               /\ v.engine = w.engine /\ v.screen = w.screen /\ v.route = w.route
  <1> DEFINE v == [w EXCEPT !.session = s]
  <1>1. v \in Player /\ v.fg = w.fg /\ v.session = s /\ v.adapter = w.adapter
        /\ v.engine = w.engine /\ v.screen = w.screen /\ v.route = w.route /\ v.mail = w.mail
        /\ v.slot = w.slot /\ v.exiting = w.exiting
    BY DEF Player
  <1> HIDE DEF v
  <1>2. Aside(w, v)
    BY <1>1 DEF Aside, Untouched
  <1> QED
    BY <1>1, <1>2 DEF v

\* The viewer's wish is history.
LEMMA SetWish ==
    ASSUME NEW w \in Player, NEW c \in Clocks
    PROVE  LET v == [w EXCEPT !.wish = c] IN Aside(w, v) /\ v.fg = w.fg
  <1> DEFINE v == [w EXCEPT !.wish = c]
  <1>1. v \in Player /\ v.route = w.route /\ v.engine = w.engine /\ v.mail = w.mail
        /\ v.slot = w.slot /\ v.exiting = w.exiting /\ v.fg = w.fg /\ v.adapter = w.adapter
    BY DEF Player
  <1> HIDE DEF v
  <1>2. Aside(w, v)
    BY <1>1 DEF Aside, Untouched
  <1> QED
    BY <1>1, <1>2 DEF v

\* Whether the restore follows the Engine is bookkeeping.
LEMMA SetFollows ==
    ASSUME NEW w \in Player, NEW b \in BOOLEAN
    PROVE  LET v == [w EXCEPT !.engine.follows = b]
           IN  Aside(w, v) /\ v.fg = w.fg /\ v.adapter = w.adapter /\ v.session = w.session
  <1> DEFINE n == [w.engine EXCEPT !.follows = b]
             v == [w EXCEPT !.engine = n]
  <1>1. n \in Engine /\ n.attempt = w.engine.attempt /\ n.serial = w.engine.serial
        /\ n.call = w.engine.call
    BY PlayerFacts DEF Engine
  <1>2. [w EXCEPT !.engine.follows = b] = v
    OBVIOUS
  <1> HIDE DEF n
  <1>3. v \in Player /\ v.route = w.route /\ v.engine = n /\ v.mail = w.mail /\ v.slot = w.slot
        /\ v.exiting = w.exiting /\ v.fg = w.fg /\ v.adapter = w.adapter /\ v.session = w.session
    BY <1>1 DEF Player
  <1> HIDE DEF v
  <1>4. Aside(w, v)
    BY <1>1, <1>3 DEF Aside, Untouched
  <1> QED
    BY <1>2, <1>3, <1>4

\* The watch on a queued start is bookkeeping.
LEMMA SetWatch ==
    ASSUME NEW w \in Player, NEW t \in Watch
    PROVE  LET v == [w EXCEPT !.adapter.watch = t]
           IN  Aside(w, v) /\ v.fg = w.fg /\ v.engine = w.engine /\ v.session = w.session
  <1> DEFINE a == [w.adapter EXCEPT !.watch = t]
             v == [w EXCEPT !.adapter = a]
  <1>1. a \in Adapter /\ a.release = w.adapter.release
    BY PlayerFacts DEF Adapter
  <1>2. [w EXCEPT !.adapter.watch = t] = v
    OBVIOUS
  <1> HIDE DEF a
  <1>3. v \in Player /\ v.route = w.route /\ v.engine = w.engine /\ v.mail = w.mail
        /\ v.slot = w.slot /\ v.exiting = w.exiting /\ v.fg = w.fg /\ v.adapter = a
        /\ v.session = w.session
    BY <1>1 DEF Player
  <1> HIDE DEF v
  <1>4. Aside(w, v)
    BY <1>1, <1>3 DEF Aside, Untouched
  <1> QED
    BY <1>2, <1>3, <1>4

\* The page on top is bookkeeping.
LEMMA SetPage ==
    ASSUME NEW w \in Player, NEW p \in {"Browse", "Player"}
    PROVE  LET v == [w EXCEPT !.screen.page = p] IN Aside(w, v) /\ v.fg = w.fg
  <1> DEFINE s == [w.screen EXCEPT !.page = p]
             v == [w EXCEPT !.screen = s]
  <1>1. s \in Screen
    BY PlayerFacts DEF Screen
  <1>2. [w EXCEPT !.screen.page = p] = v
    OBVIOUS
  <1> HIDE DEF s
  <1>3. v \in Player /\ v.route = w.route /\ v.engine = w.engine /\ v.mail = w.mail
        /\ v.slot = w.slot /\ v.exiting = w.exiting /\ v.fg = w.fg /\ v.adapter = w.adapter
    BY <1>1 DEF Player
  <1> HIDE DEF v
  <1>4. Aside(w, v)
    BY <1>3 DEF Aside, Untouched
  <1> QED
    BY <1>2, <1>3, <1>4

\* Two bookkeeping steps in a row are one.
LEMMA AsideTrans ==
    ASSUME NEW w, NEW v, NEW u, Aside(w, v), Aside(v, u)
    PROVE  Aside(w, u)
  BY DEF Aside, Untouched

------------------------------------------------------------------------------
(* The foreground lifecycle: a claim is answered within its handler.        *)

\* The fields of a lifecycle state.
LEMMA FgFacts ==
    ASSUME NEW k \in Kinds \cup Claims, NEW c \in Clocks, NEW s \in Clocks, NEW a \in Nat
    PROVE  /\ Fg(k, c, s, a) \in Machine /\ Fg(k, c, s, a).kind = k
           /\ k \in Kinds => Fg(k, c, s, a) \in Lifecycle
  BY DEF Fg, Machine, Lifecycle

\* The types of the lifecycle's fields; it is between two steps when it is in no claim.
LEMMA MachineFacts ==
    ASSUME NEW f \in Machine
    PROVE  /\ f.kind \in Kinds \cup Claims /\ f.clock \in Clocks /\ f.saved \in Clocks
           /\ f.attempt \in Nat
           /\ f.kind \in Kinds <=> f \in Lifecycle
  BY DEF Machine, Lifecycle

\* The lifecycle's states and claims are different.
LEMMA KindFacts ==
    /\ "Idle" \in Kinds /\ "Suspended" \in Kinds /\ "Prepared" \in Kinds
    /\ "PreparePending" \in Kinds /\ "RecoveryPending" \in Kinds /\ "LoadPending" \in Kinds
    /\ "ClockPending" \in Kinds
    /\ "ClaimPrepare" \in Claims /\ "ClaimLoad" \in Claims /\ "ClaimClock" \in Claims
    /\ "ClaimPrepare" \notin Kinds /\ "ClaimLoad" \notin Kinds /\ "ClaimClock" \notin Kinds
    /\ "Playing" \in Clocks /\ "Paused" \in Clocks
  BY DEF Kinds, Claims, Clocks

\* A lifecycle without a claim is a lifecycle.
LEMMA LifecycleMachine == Lifecycle \subseteq Machine
  BY DEF Lifecycle, Machine

\* The idle and the suspended lifecycle have their types.
LEMMA UnowedFacts ==
    /\ Unowed \in Lifecycle /\ Unowed.kind = "Idle"
    /\ \A c \in Clocks : SuspendedAt(c) \in Lifecycle /\ SuspendedAt(c).kind = "Suspended"
  BY KindFacts, FgFacts DEF Unowed, SuspendedAt

\* Answering a Load's claim leaves no claim, and waits only for a Load that was
\* launched.
LEMMA LoadAnsweredFacts ==
    ASSUME NEW f \in Machine, f \in Lifecycle \/ f.kind = "ClaimLoad", NEW out \in Outs,
           NEW a \in Nat
    PROVE  LET g == LoadAnswered(f, out, a).f
           IN  /\ g \in Lifecycle
               /\ g.kind = "LoadPending" => out = "Launched" \/ f.kind = "LoadPending"
  <1>1. CASE f.kind \notin {"ClaimLoad", "RecoveryPending"}
    <2>1. LoadAnswered(f, out, a).f = f
      BY <1>1 DEF LoadAnswered, Unhandled, Step
    <2> QED
      BY <1>1, <2>1
  <1>2. CASE f.kind \in {"ClaimLoad", "RecoveryPending"}
    <2>1. out = "Launched" => LoadAnswered(f, out, a).f = Fg("LoadPending", f.clock, f.clock, a)
      BY <1>2 DEF LoadAnswered, Step
    <2>2. out = "Deferred" => LoadAnswered(f, out, a).f = Fg("RecoveryPending", f.clock, f.clock, 0)
      BY <1>2 DEF LoadAnswered, Quiet, Step
    <2>3. out = "Failed" => LoadAnswered(f, out, a).f = Fg("Prepared", f.clock, f.clock, 0)
      BY <1>2 DEF LoadAnswered, Quiet, Step
    <2>4. out = "AlreadyRunning" => LoadAnswered(f, out, a).f = Unowed
      BY <1>2 DEF LoadAnswered, Quiet, Step
    <2>5. f.clock \in Clocks
      BY MachineFacts
    <2>6. Fg("LoadPending", f.clock, f.clock, a) \in Lifecycle
      BY <2>5, FgFacts, KindFacts
    <2>7. Fg("RecoveryPending", f.clock, f.clock, 0) \in Lifecycle
          /\ Fg("RecoveryPending", f.clock, f.clock, 0).kind = "RecoveryPending"
      BY <2>5, FgFacts, KindFacts
    <2>8. Fg("Prepared", f.clock, f.clock, 0) \in Lifecycle
          /\ Fg("Prepared", f.clock, f.clock, 0).kind = "Prepared"
      BY <2>5, FgFacts, KindFacts
    <2> QED
      BY <2>1, <2>2, <2>3, <2>4, <2>6, <2>7, <2>8, UnowedFacts DEF Outs
  <1> QED
    BY <1>1, <1>2

\* Answering a prepare claims the Load exactly when it was prepared.
LEMMA PrepareAnsweredFacts ==
    ASSUME NEW f \in Machine, f.kind \in {"ClaimPrepare", "PreparePending"},
           NEW answer \in {"Pending", "Refused", "Prepared"}
    PROVE  LET s == PrepareAnswered(f, answer)
           IN  /\ s.f \in Machine
               /\ s.effect = "Load" => s.f.kind = "ClaimLoad" /\ answer = "Prepared"
               /\ s.effect # "Load" => s.f \in Lifecycle /\ s.f.kind # "LoadPending"
  <1>1. answer = "Pending" =>
          PrepareAnswered(f, answer) = Quiet(Fg("PreparePending", f.clock, f.saved, 0))
    BY DEF PrepareAnswered
  <1>2. answer = "Refused" => PrepareAnswered(f, answer) = Quiet(SuspendedAt(f.saved))
    BY DEF PrepareAnswered
  <1>3. answer = "Prepared" =>
          PrepareAnswered(f, answer) = Step(Fg("ClaimLoad", f.clock, f.clock, 0), "Load", 0, TRUE)
    BY DEF PrepareAnswered
  <1>4. f.clock \in Clocks /\ f.saved \in Clocks
    BY MachineFacts
  <1> DEFINE s == PrepareAnswered(f, answer)
  <1>6. Fg("PreparePending", f.clock, f.saved, 0) \in Lifecycle
        /\ Fg("PreparePending", f.clock, f.saved, 0).kind = "PreparePending"
    BY <1>4, FgFacts, KindFacts
  <1>7. Fg("ClaimLoad", f.clock, f.clock, 0) \in Machine
        /\ Fg("ClaimLoad", f.clock, f.clock, 0).kind = "ClaimLoad"
    BY <1>4, FgFacts, KindFacts
  <1>8. Quiet(Fg("PreparePending", f.clock, f.saved, 0)).f = Fg("PreparePending", f.clock, f.saved, 0)
        /\ Quiet(Fg("PreparePending", f.clock, f.saved, 0)).effect = "None"
    BY DEF Quiet, Step
  <1>9. Quiet(SuspendedAt(f.saved)).f = SuspendedAt(f.saved)
        /\ Quiet(SuspendedAt(f.saved)).effect = "None"
    BY DEF Quiet, Step
  <1>10. Step(Fg("ClaimLoad", f.clock, f.clock, 0), "Load", 0, TRUE).f
           = Fg("ClaimLoad", f.clock, f.clock, 0)
         /\ Step(Fg("ClaimLoad", f.clock, f.clock, 0), "Load", 0, TRUE).effect = "Load"
    BY DEF Step
  <1>11. CASE answer = "Pending"
    BY <1>1, <1>6, <1>8, <1>11, LifecycleMachine
  <1>12. CASE answer = "Refused"
    BY <1>2, <1>4, <1>9, <1>12, UnowedFacts, LifecycleMachine
  <1>13. CASE answer = "Prepared"
    BY <1>3, <1>7, <1>10, <1>13
  <1> QED
    BY <1>11, <1>12, <1>13

\* An input leaves a claim exactly when it asks for the effect that answers it.
LEMMA InputFacts ==
    ASSUME NEW f \in Lifecycle, NEW key
    PROVE  LET s == Input(f, key)
           IN  /\ s.f \in Machine
               /\ s.effect = "Prepare" => s.f.kind = "ClaimPrepare"
               /\ s.effect = "Load" => s.f.kind = "ClaimLoad"
               /\ s.effect = "PlayClock" => s.f.kind = "ClaimClock"
               /\ s.effect \notin {"Prepare", "Load", "PlayClock"} => s.f \in Lifecycle
               /\ f.kind # "LoadPending" => s.f.kind # "LoadPending"
  <1> DEFINE clock == IF key \in {"PlayKey", "PlayKeyOffPlayer"} THEN "Playing" ELSE f.clock
             s == Input(f, key)
  <1>1. clock \in Clocks /\ f.clock \in Clocks /\ f \in Machine
    BY KindFacts, MachineFacts, LifecycleMachine
  <1> HIDE DEF clock
  <1>2. \/ s = Unhandled(f) \/ s = Unhandled(Unowed) \/ s = Quiet(f)
        \/ s = Step(Fg("ClaimPrepare", clock, f.clock, 0), "Prepare", 0, TRUE)
        \/ s = Step(Fg("ClaimLoad", clock, clock, 0), "Load", 0, TRUE)
        \/ s = Step(Fg("ClaimClock", "Playing", "Playing", 0), "PlayClock", 0, TRUE)
    <2>1. CASE f.kind = "Idle"
      BY <2>1 DEF Input
    <2>2. CASE f.kind # "Idle" /\ key = "DidForegroundSuperseded"
      BY <2>2 DEF Input
    <2>3. CASE f.kind # "Idle" /\ key # "DidForegroundSuperseded"
      BY <2>3 DEF Input, clock
    <2> QED
      BY <2>1, <2>2, <2>3
  <1>3. CASE s = Unhandled(f) \/ s = Unhandled(Unowed) \/ s = Quiet(f)
    <2>1. s.f \in {f, Unowed} /\ s.effect = "None"
      BY <1>3 DEF Unhandled, Quiet, Step
    <2> QED
      BY <1>1, <2>1, UnowedFacts, LifecycleMachine
  <1>4. CASE s = Step(Fg("ClaimPrepare", clock, f.clock, 0), "Prepare", 0, TRUE)
    <2>1. s.f = Fg("ClaimPrepare", clock, f.clock, 0) /\ s.effect = "Prepare"
      BY <1>4 DEF Step
    <2> QED
      BY <1>1, <2>1, FgFacts, KindFacts
  <1>5. CASE s = Step(Fg("ClaimLoad", clock, clock, 0), "Load", 0, TRUE)
    <2>1. s.f = Fg("ClaimLoad", clock, clock, 0) /\ s.effect = "Load"
      BY <1>5 DEF Step
    <2> QED
      BY <1>1, <2>1, FgFacts, KindFacts
  <1>6. CASE s = Step(Fg("ClaimClock", "Playing", "Playing", 0), "PlayClock", 0, TRUE)
    <2>1. s.f = Fg("ClaimClock", "Playing", "Playing", 0) /\ s.effect = "PlayClock"
      BY <1>6 DEF Step
    <2> QED
      BY <1>1, <2>1, FgFacts, KindFacts
  <1> QED
    BY <1>2, <1>3, <1>4, <1>5, <1>6

\* Answering the clock's claim leaves no claim.
LEMMA ClockAnsweredFacts ==
    ASSUME NEW f \in Machine, f.kind = "ClaimClock", NEW b \in BOOLEAN
    PROVE  ClockAnswered(f, b) \in Lifecycle /\ ClockAnswered(f, b).kind # "LoadPending"
  BY UnowedFacts, FgFacts, KindFacts DEF ClockAnswered

\* Superseding, parking and a stale flight leave no claim.
LEMMA EndingFacts ==
    ASSUME NEW f \in Lifecycle, NEW b \in BOOLEAN
    PROVE  /\ Supersede(f, b) \in Lifecycle /\ Park(f, b) \in Lifecycle
           /\ ParkFlight(f) \in Lifecycle /\ FlightStale(f) \in Lifecycle
           /\ ParkFlight(f).clock \in Clocks
           /\ FlightStale(f).kind = "LoadPending" => f.kind = "LoadPending"
  <1>1. f \in Machine /\ f.clock \in Clocks /\ f.saved \in Clocks
    BY MachineFacts, LifecycleMachine
  <1>2. Supersede(f, b) \in Lifecycle
    BY UnowedFacts DEF Supersede
  <1>3. ClockForSuspend(f, b) \in Clocks
    BY <1>1, KindFacts DEF ClockForSuspend
  <1>4. Park(f, b) \in Lifecycle
    BY <1>3, UnowedFacts DEF Park
  <1>5. ParkFlight(f) \in Lifecycle
    BY <1>1, UnowedFacts DEF ParkFlight
  <1>6. FlightStale(f) \in Lifecycle /\ (FlightStale(f).kind = "LoadPending" => f.kind = "LoadPending")
    BY UnowedFacts DEF FlightStale
  <1>7. ParkFlight(f).clock \in Clocks
    BY <1>5, MachineFacts, LifecycleMachine
  <1> QED
    BY <1>2, <1>4, <1>5, <1>6, <1>7

------------------------------------------------------------------------------
(* The lifecycle's actuator.                                                *)

\* A resume's flight may take up the serial of a failed start again.
Flies(w, v) ==
    /\ v \in Player /\ MovedOn(w.route, v.route) /\ Untouched(w, v)
    /\ v.adapter.release = w.adapter.release /\ v.exiting = w.exiting

\* A flight of the route keeps the invariant.
LEMMA FliesGood ==
    ASSUME NEW w \in Player, Good(w), NEW v, Flies(w, v)
    PROVE  Good(v)
  <1>1. v.route.attempts = w.route.attempts /\ w.route.serials <= v.route.serials /\ Issued(v.route)
        /\ v \in Player
    BY DEF Flies, MovedOn
  <1>2. v.engine.attempt = w.engine.attempt /\ v.engine.call = w.engine.call
        /\ v.mail = w.mail /\ v.slot = w.slot /\ v.adapter.release = w.adapter.release
    BY DEF Flies, Untouched
  <1>3. ObjectInv(v)
    BY <1>1, <1>2 DEF ObjectInv, Good
  <1>4. PostInv(v)
    BY <1>1, <1>2 DEF PostInv, Good
  <1>5. QueueInv(v)
    BY <1>1, <1>2, NativeFacts DEF QueueInv, Good
  <1> QED
    BY <1>3, <1>4, <1>5 DEF Good

\* Flights and bookkeeping in a row are one flight.
LEMMA FliesTrans ==
    ASSUME NEW w \in Player, NEW v, NEW u, Flies(w, v) \/ Beside(w, v), Flies(v, u) \/ Beside(v, u)
    PROVE  Flies(w, u)
  <1>1. Flies(w, v) /\ Flies(v, u)
    BY DEF Flies, Beside, Carries
  <1>2. w.route.serials \in Nat /\ v.route.serials \in Nat /\ u.route.serials \in Nat
    BY <1>1, NativeFacts DEF Flies
  <1> QED
    BY <1>1, <1>2 DEF Flies, MovedOn, Untouched

\* A driver's answer: the claim was answered, and when the lifecycle follows a
\* Load that was opened here, that Load owns the route.
Answers(w, d) ==
    /\ Advances(w, d.w) /\ d.w.fg \in Lifecycle
    /\ d.w.fg.kind = "LoadPending" /\ ~Live(w) /\ Live(d.w) => d.w.route.phase = "Starting"

\* The field of a drive's answer.
LEMMA DroveFacts ==
    ASSUME NEW w, NEW handled, NEW launched
    PROVE  Drove(w, handled, launched).w = w
  BY DEF Drove

\* What precedes a Load's claim is bookkeeping.
LEMMA BeforeLoadAside ==
    ASSUME NEW w \in Player, Good(w)
    PROVE  Aside(w, BeforeLoad(w)) /\ BeforeLoad(w).fg = w.fg
  <1> DEFINE s == [w.session EXCEPT !.paused = w.fg.clock = "Paused"]
             v == [w EXCEPT !.session = s]
  <1>1. s \in Session
    BY PlayerFacts DEF Session
  <1>2. [w EXCEPT !.session.paused = w.fg.clock = "Paused"] = v
    OBVIOUS
  <1> HIDE DEF s
  <1>3. Aside(w, v) /\ v.fg = w.fg
    BY <1>1, SetSession
  <1>4. Aside(w, w)
    BY DEF Aside, Untouched
  <1> QED
    BY <1>2, <1>3, <1>4 DEF BeforeLoad

\* Running a Load's effect answers its claim.
LEMMA RunLoadAnswers ==
    ASSUME NEW w \in Player, Good(w), w.fg.kind = "ClaimLoad", NEW e \in Chance
    PROVE  Answers(w, RunLoad(w, e))
  <1> DEFINE b == BeforeLoad(w)
             r == StartTracked(b, e)
             t == [kind |-> "Watching", attempt |-> 0]
             v == CASE r.out = "Deferred" -> [r.w EXCEPT !.adapter.watch = t]
                    [] r.out = "Launched" -> [r.w EXCEPT !.engine.follows = TRUE]
                    [] OTHER -> r.w
             g == LoadAnswered(w.fg, r.out, r.attempt).f
             u == [v EXCEPT !.fg = g]
  <1>1. Beside(w, b) /\ b \in Player /\ Good(b) /\ b.fg = w.fg
    BY BeforeLoadAside, AsideBeside DEF Beside
  <1> HIDE DEF b
  <1>2. Tracked(b, r) /\ r.w \in Player /\ Good(r.w)
    BY <1>1, StartTrackedTracked
  <1> HIDE DEF r
  <1>3. t \in Watch
    BY DEF Watch
  <1> HIDE DEF t
  <1>4. Aside(r.w, v) /\ v.fg = r.w.fg
    <2>1. Aside(r.w, r.w)
      BY <1>2 DEF Aside, Untouched
    <2>2. Aside(r.w, [r.w EXCEPT !.adapter.watch = t])
          /\ [r.w EXCEPT !.adapter.watch = t].fg = r.w.fg
      BY <1>2, <1>3, SetWatch
    <2>3. Aside(r.w, [r.w EXCEPT !.engine.follows = TRUE])
          /\ [r.w EXCEPT !.engine.follows = TRUE].fg = r.w.fg
      BY <1>2, SetFollows
    <2>4. v = r.w \/ v = [r.w EXCEPT !.adapter.watch = t] \/ v = [r.w EXCEPT !.engine.follows = TRUE]
      OBVIOUS
    <2> HIDE DEF v
    <2> QED
      BY <2>1, <2>2, <2>3, <2>4
  <1>5. g \in Lifecycle /\ (g.kind = "LoadPending" => r.out = "Launched")
    BY <1>2, PlayerFacts, LoadAnsweredFacts DEF Tracked
  <1>6. RunLoad(w, e) = Drove(u, TRUE, r.out = "Launched")
    BY <1>1 DEF RunLoad, LoadStarted, r, b, t
  <1> HIDE DEF v, g
  <1>7. v \in Player
    BY <1>4 DEF Aside
  <1>8. Aside(v, u) /\ u.fg = g
    BY <1>5, <1>7, SetFg, LifecycleMachine
  <1> HIDE DEF u
  <1>9. Aside(r.w, u)
    BY <1>4, <1>8, AsideTrans
  <1>10. Beside(r.w, u)
    BY <1>2, <1>9, AsideBeside
  <1>11. Advances(b, u)
    BY <1>1, <1>2, <1>10, BesideGoes, AdvancesTrans DEF Tracked
  <1>12. Advances(w, u)
    BY <1>1, <1>11, BesideGoes, AdvancesTrans
  <1>13. u.fg.kind = "LoadPending" => u.route.phase = "Starting"
    BY <1>2, <1>5, <1>8, <1>9 DEF Tracked, Aside
  <1>14. Answers(w, Drove(u, TRUE, r.out = "Launched"))
    <2>1. Drove(u, TRUE, r.out = "Launched").w = u
      BY DEF Drove
    <2> QED
      BY <1>5, <1>8, <1>12, <1>13, <2>1 DEF Answers
  <1> QED
    BY <1>6, <1>14

\* Beginning a resume sends the route into flight when it is pending, and else leaves
\* the object alone.
LEMMA BeginResumeFlies ==
    ASSUME NEW w \in Player, Good(w), NEW e \in Chance
    PROVE  LET b == BeginResume(w, e)
           IN  /\ b.answer \in {"Pending", "Refused", "Prepared"} /\ b.w.fg = w.fg
               /\ b.w \in Player /\ Good(b.w)
               /\ b.answer = "Pending" => Flies(w, b.w)
               /\ b.answer # "Pending" => Beside(w, b.w)
               /\ b.w.session.preview = w.session.preview
  <1> DEFINE c == w.route
             up == BeginResumeFlight(c)
             down == LandResumeFlight(up, FALSE)
             flies == e.resume \in {"fly", "stuck"} /\ w.session.url /\ MayFly(c)
             b == BeginResume(w, e)
             s == [w.session EXCEPT !.answered = FALSE]
             x == [w EXCEPT !.route = up, !.session = s]
             y == [w EXCEPT !.route = down]
  <1>0. c \in Route /\ Issued(c) /\ Beside(w, w)
    BY GoodIssued
  <1>1. CASE flies /\ e.resume = "fly"
    <2>1. b = [w |-> [w EXCEPT !.route = up, !.session.answered = FALSE], answer |-> "Pending"]
      BY <1>1 DEF BeginResume
    <2>2. MovedOn(c, up)
      BY <1>0, <1>1, FlightMovesOn
    <2>3. s \in Session /\ s.preview = w.session.preview
      BY PlayerFacts DEF Session
    <2>4. [w EXCEPT !.route = up, !.session.answered = FALSE] = x
      OBVIOUS
    <2> HIDE DEF up, s
    <2>5. x \in Player /\ x.route = up /\ x.session = s /\ x.fg = w.fg /\ x.engine = w.engine
          /\ x.mail = w.mail /\ x.slot = w.slot /\ x.adapter = w.adapter /\ x.exiting = w.exiting
      BY <2>2, <2>3 DEF Player, MovedOn
    <2> HIDE DEF x
    <2>6. Flies(w, x)
      BY <2>2, <2>5 DEF Flies, Untouched
    <2>7. Good(x)
      BY <2>6, FliesGood
    <2>8. b.w = x /\ b.answer = "Pending"
      BY <2>1, <2>4
    <2> QED
      BY <2>3, <2>5, <2>6, <2>7, <2>8
  <1>2. CASE flies /\ e.resume = "stuck"
    <2>1. b = [w |-> y, answer |-> "Refused"]
      BY <1>2 DEF BeginResume
    <2>2. Carries(c, down)
      BY <1>0, <1>2, FlightStuck
    <2> HIDE DEF down
    <2>3. Beside(w, y) /\ y.fg = w.fg /\ y.session = w.session
      BY <2>2, RouteBeside
    <2>4. b.w = y /\ b.answer = "Refused"
      BY <2>1
    <2> HIDE DEF y
    <2>5. y \in Player /\ Good(y)
      BY <2>3, BesideGood DEF Beside
    <2> QED
      BY <2>3, <2>4, <2>5
  <1>3. CASE ~flies
    <2>1. b.w = w /\ b.answer \in {"Refused", "Prepared"}
      BY <1>3 DEF BeginResume
    <2> QED
      BY <1>0, <2>1
  <1>4. flies => e.resume \in {"fly", "stuck"}
    OBVIOUS
  <1> QED
    BY <1>1, <1>2, <1>3, <1>4

\* An answer other than a start leaves the object alone.
LEMMA PrepareAnswers ==
    ASSUME NEW w \in Player, Good(w), w.fg.kind \in {"ClaimPrepare", "PreparePending"},
           NEW answer \in {"Pending", "Refused", "Prepared"}, NEW e \in Chance
    PROVE  LET d == RunPrepareAnswered(w, answer, e)
           IN  Answers(w, d) /\ (answer # "Prepared" => Beside(w, d.w))
  <1> DEFINE s == PrepareAnswered(w.fg, answer)
             c == IF answer = "Refused" THEN w.fg.saved ELSE w.wish
             v == [w EXCEPT !.fg = s.f, !.wish = c]
             d == RunPrepareAnswered(w, answer, e)
  <1>1. w.fg \in Machine /\ w.wish \in Clocks /\ w.fg.saved \in Clocks
    BY PlayerFacts, MachineFacts
  <1>2. /\ s.f \in Machine
        /\ s.effect = "Load" => s.f.kind = "ClaimLoad" /\ answer = "Prepared"
        /\ s.effect # "Load" => s.f \in Lifecycle /\ s.f.kind # "LoadPending"
    BY <1>1, PrepareAnsweredFacts
  <1>3. c \in Clocks
    BY <1>1
  <1>4. d = IF s.effect = "Load" THEN RunLoad(v, e) ELSE Drove(v, TRUE, FALSE)
    BY DEF RunPrepareAnswered
  <1> HIDE DEF s, c
  <1>5. Aside(w, v) /\ v.fg = s.f
    <2>1. v \in Player /\ v.fg = s.f /\ v.adapter = w.adapter /\ v.engine = w.engine
          /\ v.route = w.route /\ v.mail = w.mail /\ v.slot = w.slot /\ v.exiting = w.exiting
      BY <1>2, <1>3 DEF Player
    <2> HIDE DEF v
    <2> QED
      BY <2>1 DEF Aside, Untouched
  <1> HIDE DEF v, d
  <1>6. Beside(w, v) /\ Good(v) /\ v \in Player
    BY <1>5, AsideBeside DEF Aside
  <1>7. Advances(w, v) /\ (Live(v) <=> Live(w))
    BY <1>6, BesideGoes DEF Beside, Untouched, Live
  <1>8. ASSUME s.effect = "Load" PROVE Answers(w, d) /\ (answer # "Prepared" => Beside(w, d.w))
    <2>1. Answers(v, d)
      BY <1>2, <1>4, <1>5, <1>6, <1>8, RunLoadAnswers
    <2>2. Advances(w, d.w)
      BY <1>7, <2>1, AdvancesTrans DEF Answers
    <2> QED
      BY <1>2, <1>7, <1>8, <2>1, <2>2 DEF Answers
  <1>9. ASSUME s.effect # "Load" PROVE Answers(w, d) /\ (answer # "Prepared" => Beside(w, d.w))
    <2>1. d.w = v
      BY <1>4, <1>9, DroveFacts
    <2> QED
      BY <1>2, <1>5, <1>6, <1>7, <1>9, <2>1 DEF Answers
  <1> QED
    BY <1>8, <1>9 DEF d

\* Running the clock's effect is bookkeeping and answers its claim.
LEMMA RunClockAside ==
    ASSUME NEW w \in Player, w.fg.kind = "ClaimClock", NEW e \in Chance
    PROVE  /\ Aside(w, RunClock(w, e)) /\ RunClock(w, e).fg \in Lifecycle
           /\ RunClock(w, e).fg.kind # "LoadPending"
  <1> DEFINE accepted == ~w.session.paused \/ e.accepts
             s == [w.session EXCEPT !.paused = w.session.paused /\ ~accepted]
             g == ClockAnswered(w.fg, accepted)
             v == [w EXCEPT !.session = s, !.fg = g]
  <1>1. w.session \in Session /\ w.fg \in Machine
    BY PlayerFacts
  <1>2. accepted \in BOOLEAN
    OBVIOUS
  <1>3. RunClock(w, e) = v
    BY DEF RunClock
  <1> HIDE DEF accepted
  <1>4. s \in Session
    BY <1>1, <1>2 DEF Session
  <1>5. g \in Lifecycle /\ g.kind # "LoadPending"
    BY <1>1, <1>2, ClockAnsweredFacts
  <1> HIDE DEF s, g
  <1>6. v \in Player /\ v.fg = g /\ v.adapter = w.adapter /\ v.engine = w.engine
        /\ v.route = w.route /\ v.mail = w.mail /\ v.slot = w.slot /\ v.exiting = w.exiting
    BY <1>4, <1>5, LifecycleMachine DEF Player
  <1> HIDE DEF v
  <1>7. Aside(w, v)
    BY <1>6 DEF Aside, Untouched
  <1> QED
    BY <1>3, <1>5, <1>6, <1>7

\* A Load's drive is a handled one, whatever the start answered.
LEMMA RunLoadHandled ==
    ASSUME NEW w, NEW e
    PROVE  RunLoad(w, e).handled = TRUE
  <1>1. ASSUME NEW f, NEW r PROVE LoadStarted(f, r).handled = TRUE
    BY DEF LoadStarted, Drove
  <1> QED
    BY <1>1 DEF RunLoad

\* So is the drive of a preparation's answer.
LEMMA RunPrepareAnsweredHandled ==
    ASSUME NEW w, NEW answer, NEW e
    PROVE  RunPrepareAnswered(w, answer, e).handled = TRUE
  <1>1. ASSUME NEW v PROVE Drove(v, TRUE, FALSE).handled = TRUE
    BY DEF Drove
  <1>2. ASSUME NEW v PROVE RunLoad(v, e).handled = TRUE
    BY RunLoadHandled
  <1> QED
    BY <1>1, <1>2 DEF RunPrepareAnswered

\* An input to the lifecycle, with the effects it asks for, moves towards a Load or
\* flies.
LEMMA DriveForegroundMoves ==
    ASSUME NEW w \in Player, Good(w), w.fg \in Lifecycle, NEW key, NEW e \in Chance
    PROVE  LET d == DriveForeground(w, key, e)
           IN  /\ Advances(w, d.w) \/ Flies(w, d.w)
               /\ d.w.fg \in Lifecycle
               /\ d.handled \/ Aside(w, d.w)
  <1> DEFINE s == Input(w.fg, key)
             v == [w EXCEPT !.fg = s.f]
             b == BeginResume(v, e)
             d == DriveForeground(w, key, e)
  <1>1. /\ s.f \in Machine
        /\ s.effect = "Prepare" => s.f.kind = "ClaimPrepare"
        /\ s.effect = "Load" => s.f.kind = "ClaimLoad"
        /\ s.effect = "PlayClock" => s.f.kind = "ClaimClock"
        /\ s.effect \notin {"Prepare", "Load", "PlayClock"} => s.f \in Lifecycle
    BY InputFacts
  <1>2. /\ s.effect = "Prepare" => d = RunPrepareAnswered(b.w, b.answer, e)
        /\ s.effect = "Load" => d = RunLoad(v, e)
        /\ s.effect = "PlayClock" => d = Drove(RunClock(v, e), TRUE, FALSE)
        /\ s.effect \notin {"Prepare", "Load", "PlayClock"} => d = Drove(v, s.handled, FALSE)
    BY DEF DriveForeground
  <1> HIDE DEF s
  <1>3. Aside(w, v) /\ v.fg = s.f
    BY <1>1, SetFg
  <1> HIDE DEF v
  <1>4. Beside(w, v) /\ Good(v) /\ v \in Player /\ Advances(w, v)
    BY <1>3, AsideBeside, BesideGoes DEF Aside
  <1> DEFINE Goal == /\ Advances(w, d.w) \/ Flies(w, d.w)
                     /\ d.w.fg \in Lifecycle
                     /\ d.handled \/ Aside(w, d.w)
  <1>5. ASSUME s.effect = "Prepare" PROVE Goal
    <2>1. /\ b.answer \in {"Pending", "Refused", "Prepared"} /\ b.w.fg = v.fg
          /\ b.w \in Player /\ Good(b.w)
          /\ b.answer = "Pending" => Flies(v, b.w)
          /\ b.answer # "Pending" => Beside(v, b.w)
      BY <1>4, BeginResumeFlies
    <2>2. d = RunPrepareAnswered(b.w, b.answer, e)
      BY <1>2, <1>5
    <2> HIDE DEF b
    <2>3. Answers(b.w, d) /\ (b.answer # "Prepared" => Beside(b.w, d.w))
      BY <1>1, <1>3, <1>5, <2>1, <2>2, PrepareAnswers
    <2>4. d.handled
      <3>1. d.handled = TRUE
        BY <2>2, RunPrepareAnsweredHandled
      <3> QED
        BY <3>1
    <2> HIDE DEF d
    <2>5. CASE b.answer = "Pending"
      <3>1. Flies(w, d.w)
        <4>1. Flies(w, b.w)
          BY <1>4, <2>1, <2>5, FliesTrans
        <4> QED
          BY <2>1, <2>3, <2>5, <4>1, FliesTrans
      <3> QED
        BY <2>3, <2>4, <3>1 DEF Answers
    <2>6. CASE b.answer # "Pending"
      <3>1. Beside(w, b.w)
        BY <1>4, <2>1, <2>6, BesideTrans
      <3>2. Advances(w, d.w)
        BY <2>1, <2>3, <3>1, BesideGoes, AdvancesTrans DEF Answers
      <3> QED
        BY <2>3, <2>4, <3>2 DEF Answers
    <2> QED
      BY <2>5, <2>6
  <1>6. ASSUME s.effect = "Load" PROVE Goal
    <2>1. d = RunLoad(v, e)
      BY <1>2, <1>6
    <2>2. Answers(v, d)
      BY <1>1, <1>3, <1>4, <1>6, <2>1, RunLoadAnswers
    <2>3. d.handled
      <3>1. d.handled = TRUE
        BY <2>1, RunLoadHandled
      <3> QED
        BY <3>1
    <2> HIDE DEF d
    <2>4. Advances(w, d.w)
      BY <1>4, <2>2, AdvancesTrans DEF Answers
    <2> QED
      BY <2>2, <2>3, <2>4 DEF Answers
  <1>7. ASSUME s.effect = "PlayClock" PROVE Goal
    <2> DEFINE x == RunClock(v, e)
    <2>1. d.w = x
      BY <1>2, <1>7, DroveFacts, ZenonT(30)
    <2>2. Aside(v, x) /\ x.fg \in Lifecycle
      BY <1>1, <1>3, <1>4, <1>7, RunClockAside
    <2> HIDE DEF x, d
    <2>3. Aside(w, x)
      BY <1>3, <2>2, AsideTrans
    <2>4. Advances(w, x)
      BY <2>3, AsideBeside, BesideGoes
    <2> QED
      BY <2>1, <2>2, <2>3, <2>4
  <1>8. ASSUME s.effect \notin {"Prepare", "Load", "PlayClock"} PROVE Goal
    <2>1. d.w = v
      BY <1>2, <1>8 DEF Drove
    <2> HIDE DEF d
    <2> QED
      BY <1>1, <1>3, <1>4, <1>8, <2>1
  <1>9. Goal
    BY <1>5, <1>6, <1>7, <1>8
  <1> QED
    BY <1>9

\* Mounting the player page is bookkeeping.
LEMMA MountedAside ==
    ASSUME NEW d, d.w \in Player
    PROVE  Aside(d.w, Mounted(d)) /\ Mounted(d).fg = d.w.fg
  <1>1. Aside(d.w, d.w)
    BY DEF Aside, Untouched
  <1> QED
    BY <1>1, SetPage DEF Mounted

\* Polling a rebuild answers the prepare.
LEMMA PollPrepareAnswers ==
    ASSUME NEW w \in Player, Good(w), w.fg \in Lifecycle, w.fg.kind = "PreparePending",
           NEW e \in Chance
    PROVE  Answers(w, PollPrepare(w, e))
  <1> DEFINE c == LandResumeFlight(w.route, e.good)
             s == [w.session EXCEPT !.answered = FALSE]
             x == [w EXCEPT !.route = c, !.session = s]
             y == [w EXCEPT !.fg = FlightStale(w.fg)]
             answer == IF e.good THEN "Prepared" ELSE "Refused"
             d == PollPrepare(w, e)
  <1>0. Advances(w, w) /\ e.good \in BOOLEAN
    BY GoodIssued, BesideGoes DEF Chance, Chances, Resumes
  <1>1. ASSUME ~ResumeFlightOutstanding(w.route) PROVE Answers(w, d)
    <2>1. d.w = y
      BY <1>1 DEF PollPrepare, Drove
    <2>2. FlightStale(w.fg) \in Lifecycle /\ FlightStale(w.fg) \in Machine
          /\ FlightStale(w.fg).kind # "LoadPending"
      BY EndingFacts, LifecycleMachine
    <2>3. Aside(w, y) /\ y.fg = FlightStale(w.fg)
      BY <2>2, SetFg
    <2> HIDE DEF y, d
    <2>4. Advances(w, y)
      BY <2>3, AsideBeside, BesideGoes
    <2> QED
      BY <2>1, <2>2, <2>3, <2>4 DEF Answers
  <1>2. ASSUME ResumeFlightOutstanding(w.route), w.session.answered PROVE Answers(w, d)
    <2>1. d = RunPrepareAnswered([w EXCEPT !.route = c, !.session.answered = FALSE], answer, e)
      BY <1>2 DEF PollPrepare
    <2>2. [w EXCEPT !.route = c, !.session.answered = FALSE] = x
      OBVIOUS
    <2>3. s \in Session
      BY PlayerFacts DEF Session
    <2>4. Carries(w.route, c)
      BY <1>0, <1>2, GoodIssued, FlightLands
    <2> HIDE DEF c, s
    <2>5. x \in Player /\ x.fg = w.fg /\ x.adapter = w.adapter /\ x.engine = w.engine
          /\ x.route = c /\ x.mail = w.mail /\ x.slot = w.slot /\ x.exiting = w.exiting
      BY <2>3, <2>4 DEF Player, Carries, MovedOn
    <2>6. answer \in {"Pending", "Refused", "Prepared"}
      OBVIOUS
    <2> HIDE DEF answer
    <2>7. d = RunPrepareAnswered(x, answer, e)
      BY <2>1, <2>2
    <2> HIDE DEF x
    <2>8. Beside(w, x)
      BY <2>4, <2>5 DEF Beside, Untouched
    <2>9. Good(x) /\ Advances(w, x) /\ (Live(x) <=> Live(w))
      BY <2>5, <2>8, BesideGood, BesideGoes DEF Live
    <2>10. Answers(x, d)
      BY <2>5, <2>6, <2>7, <2>9, PrepareAnswers
    <2> HIDE DEF d
    <2>11. Advances(w, d.w)
      BY <2>9, <2>10, AdvancesTrans DEF Answers
    <2> QED
      BY <2>9, <2>10, <2>11 DEF Answers
  <1>3. ASSUME ResumeFlightOutstanding(w.route), ~w.session.answered PROVE Answers(w, d)
    <2>1. d.w = w
      BY <1>3 DEF PollPrepare, Drove
    <2> HIDE DEF d
    <2> QED
      BY <1>0, <2>1 DEF Answers
  <1> QED
    BY <1>1, <1>2, <1>3

\* Polling the recovery is bookkeeping.
LEMMA PollRecoveryAside ==
    ASSUME NEW w \in Player, Good(w), w.fg \in Lifecycle
    PROVE  LET d == PollRecovery(w) IN Aside(w, d.w) /\ d.w.fg \in Lifecycle
  <1> DEFINE t == w.adapter.watch
             v == [w EXCEPT !.adapter.watch = NoWatch]
             b == v.engine.follows \/ v.engine.attempt = t.attempt
             f1 == LoadAnswered(v.fg, "Launched", t.attempt).f
             f2 == LoadAnswered(v.fg, "Failed", 0).f
             f3 == FlightStale(v.fg)
             d == PollRecovery(w)
  <1>1. NoWatch \in Watch
    BY DEF NoWatch, Watch
  <1>2. Aside(w, v) /\ v.fg = w.fg /\ v.engine = w.engine
    BY <1>1, SetWatch
  <1>3. t.attempt \in Nat /\ t \in Watch
    BY NativeFacts DEF Watch
  <1>4. \/ d.w = w
        \/ d.w = [v EXCEPT !.fg = f1, !.engine.follows = b]
        \/ d.w = [v EXCEPT !.fg = f2]
        \/ d.w = [v EXCEPT !.fg = f3]
    BY DEF PollRecovery, Drove
  <1> HIDE DEF v, t
  <1>5. v \in Player /\ v.fg \in Lifecycle /\ v.fg \in Machine
    BY <1>2, LifecycleMachine DEF Aside
  <1>6. f1 \in Lifecycle /\ f2 \in Lifecycle /\ f3 \in Lifecycle
    <2>1. "Launched" \in Outs /\ "Failed" \in Outs
      BY DEF Outs
    <2>2. f1 \in Lifecycle
      BY <1>3, <1>5, <2>1, LoadAnsweredFacts
    <2>3. f2 \in Lifecycle
      BY <1>5, <2>1, LoadAnsweredFacts
    <2> QED
      BY <1>5, <2>2, <2>3, EndingFacts
  <1>7. b \in BOOLEAN
    BY <1>5, PlayerFacts DEF Engine
  <1> HIDE DEF f1, f2, f3, b
  <1>8. f1 \in Machine /\ f2 \in Machine /\ f3 \in Machine
    BY <1>6, LifecycleMachine
  <1>9. Aside(v, [v EXCEPT !.fg = f2]) /\ [v EXCEPT !.fg = f2].fg = f2
    BY <1>5, <1>8, SetFg
  <1>10. Aside(v, [v EXCEPT !.fg = f3]) /\ [v EXCEPT !.fg = f3].fg = f3
    BY <1>5, <1>8, SetFg
  <1>11. Aside(v, [v EXCEPT !.fg = f1, !.engine.follows = b])
         /\ [v EXCEPT !.fg = f1, !.engine.follows = b].fg = f1
    <2> DEFINE x == [v EXCEPT !.fg = f1]
               y == [x EXCEPT !.engine.follows = b]
    <2>1. Aside(v, x) /\ x.fg = f1
      BY <1>5, <1>8, SetFg
    <2>2. [v EXCEPT !.fg = f1, !.engine.follows = b] = y
      BY <1>5 DEF Player
    <2> HIDE DEF x
    <2>3. Aside(x, y) /\ y.fg = x.fg
      BY <1>7, <2>1, SetFollows DEF Aside
    <2> HIDE DEF y
    <2>4. Aside(v, y)
      BY <2>1, <2>3, AsideTrans
    <2> QED
      BY <2>1, <2>2, <2>3, <2>4
  <1>12. Aside(w, w)
    BY DEF Aside, Untouched
  <1>13. d.w = w \/ (Aside(v, d.w) /\ d.w.fg \in {f1, f2, f3})
    <2>1. CASE d.w = w
      BY <2>1
    <2>2. CASE d.w = [v EXCEPT !.fg = f1, !.engine.follows = b]
      BY <1>11, <2>2
    <2>3. CASE d.w = [v EXCEPT !.fg = f2]
      BY <1>9, <2>3
    <2>4. CASE d.w = [v EXCEPT !.fg = f3]
      BY <1>10, <2>4
    <2> QED
      BY <1>4, <2>1, <2>2, <2>3, <2>4
  <1>14. d.w = w \/ (Aside(w, d.w) /\ d.w.fg \in Lifecycle)
    BY <1>2, <1>6, <1>13, AsideTrans
  <1> QED
    BY <1>12, <1>14

\* Polling the flight of a restore answers what it waits for.
LEMMA PollFlightAnswers ==
    ASSUME NEW w \in Player, Good(w), w.fg \in Lifecycle, NEW e \in Chance
    PROVE  Answers(w, PollFlight(w, e))
  <1> DEFINE x == PollRelease(w, e)
  <1>1. CASE w.fg.kind = "PreparePending"
    BY <1>1, PollPrepareAnswers DEF PollFlight
  <1>2. ASSUME NEW y, y \in Player, Good(y), Driven(w, y)
        PROVE  Answers(w, PollRecovery(y))
    <2> DEFINE d == PollRecovery(y)
    <2>1. Aside(y, d.w) /\ d.w.fg \in Lifecycle
      BY <1>2, PollRecoveryAside DEF Driven
    <2> HIDE DEF d
    <2>2. Beside(y, d.w)
      BY <1>2, <2>1, AsideBeside
    <2>3. Advances(w, d.w)
      BY <1>2, <2>2, BesideGoes, AdvancesTrans DEF Driven
    <2>4. ~Live(w) /\ Live(d.w) => d.w.route.phase = "Starting"
      BY <1>2, <2>1 DEF Driven, Aside, Untouched, Live
    <2>5. Answers(w, d)
      BY <2>1, <2>3, <2>4 DEF Answers
    <2> QED
      BY <2>5 DEF d
  <1>3. Driven(w, x) /\ x \in Player /\ Good(x)
    BY DriveReleaseDriven DEF PollRelease
  <1>4. Driven(w, w)
    BY GoodIssued, BesideGoes DEF Driven
  <1>5. CASE w.fg.kind # "PreparePending" /\ w.adapter.watch = NoWatch
    BY <1>2, <1>4, <1>5 DEF PollFlight
  <1>6. CASE w.fg.kind # "PreparePending" /\ w.adapter.watch # NoWatch
    BY <1>2, <1>3, <1>6 DEF PollFlight
  <1> QED
    BY <1>1, <1>5, <1>6

\* What the route says of an attempt; failed only of a failed route.
LEMMA StatusFacts ==
    ASSUME NEW c \in Route, NEW a \in Nat
    PROVE  LET t == RouteStartStatus(c, a)
           IN  /\ t.what \in {"Pending", "Started", "Failed", "Superseded", "Stale"}
               /\ t.follow \in Nat
               /\ t.what = "Failed" => c.phase = "Failed"
  <1> DEFINE current == IF c.phase = "Starting" THEN c.attempt
                        ELSE IF Completed(c) THEN c.last.attempt ELSE 0
             t == RouteStartStatus(c, a)
  <1>1. current \in Nat
    BY DEF Route
  <1>2. \/ t = Status("Pending", 0)
        \/ t = Status("Started", 0)
        \/ t = Status("Failed", 0) /\ c.phase = "Failed"
        \/ t = Status("Superseded", current)
        \/ t = Status("Stale", 0)
    BY DEF RouteStartStatus
  <1> HIDE DEF current
  <1> QED
    BY <1>1, <1>2 DEF Status

\* The lifecycle's answer to it: a claim of the clock or none.
LEMMA LoadStatusFacts ==
    ASSUME NEW f \in Lifecycle, NEW t, t.follow \in Nat,
           t.what \in {"Pending", "Started", "Failed", "Superseded", "Stale"}
    PROVE  LET s == LoadStatus(f, t)
           IN  /\ s.f \in Machine
               /\ s.effect = "PlayClock" => s.f.kind = "ClaimClock"
               /\ s.effect # "PlayClock" => s.f \in Lifecycle
               /\ s.about # 0 => t.what = "Failed"
  <1> DEFINE s == LoadStatus(f, t)
             g2 == Fg("LoadPending", f.clock, f.saved, t.follow)
             g3 == Fg("Prepared", f.clock, f.clock, 0)
             g5 == Fg("ClaimClock", "Playing", "Playing", 0)
  <1>0. f \in Machine /\ f.clock \in Clocks /\ f.saved \in Clocks /\ f.attempt \in Nat
    BY LifecycleMachine, MachineFacts
  <1>1. g2 \in Lifecycle /\ g3 \in Lifecycle
    BY <1>0, FgFacts, KindFacts
  <1>2. g5 \in Machine /\ g5.kind = "ClaimClock"
    BY FgFacts, KindFacts
  <1>3. \/ s = Unhandled(f) \/ s = Quiet(f) \/ s = Quiet(g2)
        \/ s = Step(g3, "AfterLoad", f.attempt, TRUE) /\ t.what = "Failed"
        \/ s = Step(Unowed, "AfterLoad", 0, TRUE)
        \/ s = Quiet(Unowed)
        \/ s = Step(g5, "PlayClock", 0, TRUE)
    BY DEF LoadStatus
  <1> HIDE DEF g2, g3, g5
  <1>4. \/ s.f \in {f, g2, Unowed} /\ s.effect \in {"None", "AfterLoad"} /\ s.about = 0
        \/ s.f = g3 /\ s.effect = "AfterLoad" /\ t.what = "Failed"
        \/ s.f = g5 /\ s.effect = "PlayClock" /\ s.about = 0
    BY <1>3 DEF Unhandled, Quiet, Step
  <1>5. Unowed \in Lifecycle
    BY UnowedFacts
  <1> QED
    BY <1>1, <1>2, <1>4, <1>5, LifecycleMachine

\* A Load that failed is let go of; the one that owns the route is not.
LEMMA PollLoadHalts ==
    ASSUME NEW w \in Player, Good(w), w.fg \in Lifecycle, NEW e \in Chance
    PROVE  LET v == PollLoad(w, e)
           IN  /\ v.fg \in Lifecycle
               /\ \/ Beside(w, v)
                  \/ /\ Live(w) /\ Follows(w.fg) /\ w.route.phase # "Starting"
                     /\ Halts(w, v) /\ v.adapter.release.kind = "Idle"
  <1> DEFINE t == RouteStartStatus(w.route, w.fg.attempt)
             s == LoadStatus(w.fg, t)
             b == w.engine.follows \/ (t.what = "Superseded" /\ w.engine.attempt = t.follow)
             x == [w EXCEPT !.fg = s.f]
             y == [x EXCEPT !.engine.follows = b]
             z == [y EXCEPT !.wish = w.fg.clock]
             v == PollLoad(w, e)
  <1>1. w.fg \in Machine /\ w.fg.attempt \in Nat /\ w.route \in Route /\ w.engine \in Engine
    BY LifecycleMachine, MachineFacts, PlayerFacts
  <1>2. /\ t.what \in {"Pending", "Started", "Failed", "Superseded", "Stale"}
        /\ t.follow \in Nat
        /\ t.what = "Failed" => w.route.phase = "Failed"
    BY <1>1, StatusFacts
  <1>3. /\ s.f \in Machine
        /\ s.effect = "PlayClock" => s.f.kind = "ClaimClock"
        /\ s.effect # "PlayClock" => s.f \in Lifecycle
        /\ s.about # 0 => t.what = "Failed"
    <2> HIDE DEF t
    <2> QED
      BY <1>2, LoadStatusFacts
  <1>4. b \in BOOLEAN
    BY <1>1 DEF Engine
  <1>5. [w EXCEPT !.fg = s.f, !.engine.follows = b] = y
    BY DEF Player
  <1>6. \/ v = w
        \/ Follows(w.fg) /\ s.effect = "AfterLoad" /\ s.about # 0
             /\ [w EXCEPT !.fg = s.f, !.engine.follows = b].engine.attempt = s.about
             /\ v = Teardown([[w EXCEPT !.fg = s.f, !.engine.follows = b]
                                EXCEPT !.wish = w.fg.clock], TRUE, e)
        \/ s.effect = "PlayClock" /\ v = RunClock([w EXCEPT !.fg = s.f, !.engine.follows = b], e)
        \/ s.effect # "PlayClock" /\ v = [w EXCEPT !.fg = s.f, !.engine.follows = b]
    BY DEF PollLoad
  <1> HIDE DEF s, b, t
  <1>7. \/ v = w
        \/ Follows(w.fg) /\ s.effect = "AfterLoad" /\ s.about # 0
             /\ y.engine.attempt = s.about /\ v = Teardown(z, TRUE, e)
        \/ s.effect = "PlayClock" /\ v = RunClock(y, e)
        \/ s.effect # "PlayClock" /\ v = y
    BY <1>5, <1>6
  <1>8. Aside(w, x) /\ x.fg = s.f
    BY <1>3, SetFg
  <1> HIDE DEF x
  <1>9. Aside(x, y) /\ y.fg = x.fg
    BY <1>4, <1>8, SetFollows DEF Aside
  <1> HIDE DEF y
  <1>10. Aside(w, y) /\ y.fg = s.f /\ y \in Player
    BY <1>8, <1>9, AsideTrans DEF Aside
  <1>11. Beside(w, y) /\ Good(y)
    BY <1>10, AsideBeside
  <1>12. CASE v = w
    BY <1>12, GoodIssued
  <1>13. CASE s.effect # "PlayClock" /\ v = y
    BY <1>3, <1>10, <1>11, <1>13
  <1>14. CASE s.effect = "PlayClock" /\ v = RunClock(y, e)
    <2>1. Aside(y, v) /\ v.fg \in Lifecycle
      BY <1>3, <1>10, <1>14, RunClockAside
    <2>2. Aside(w, v)
      BY <1>10, <2>1, AsideTrans
    <2> QED
      BY <2>1, <2>2, AsideBeside
  <1>15. CASE Follows(w.fg) /\ s.effect = "AfterLoad" /\ s.about # 0
              /\ y.engine.attempt = s.about /\ v = Teardown(z, TRUE, e)
    <2>0. Aside(y, z) /\ z.fg = y.fg
      BY <1>1, <1>10, MachineFacts, SetWish
    <2> HIDE DEF z
    <2>6. Aside(w, z) /\ z.fg = s.f /\ z \in Player /\ Beside(w, z) /\ Good(z)
      BY <1>10, <2>0, AsideTrans, AsideBeside DEF Aside
    <2>1. Live(w) /\ Live(z)
      BY <1>10, <1>15, <2>6 DEF Aside, Untouched, Live
    <2>2. z.adapter.release.kind = "Idle"
      BY <2>1, <2>6 DEF Good, ObjectInv, Live
    <2>3. Halts(z, v) /\ v.fg = z.fg /\ v.adapter.release.kind = "Idle"
      <3> DEFINE u == Teardown(z, TRUE, e)
      <3>1. Halts(z, u) /\ u.fg = z.fg /\ u.adapter.release.kind = "Idle"
        BY <2>2, <2>6, TeardownHalts
      <3> QED
        BY <1>15, <3>1
    <2>4. Halts(w, v)
      BY <2>3, <2>6, BesideGoes, HaltsTrans
    <2>5. w.route.phase # "Starting"
      BY <1>2, <1>3, <1>15
    <2> QED
      BY <1>3, <1>15, <2>1, <2>3, <2>4, <2>5, <2>6
  <1> QED
    BY <1>7, <1>12, <1>13, <1>14, <1>15

\* The settling of a frame, in the order the loop polls.
Settled(w, e) == PollRelease(Reap(SettleLoad(SettleFlight(w, e), e)), e)

\* The settle step of a frame moves one way.
LEMMA SettledMoves ==
    ASSUME NEW w \in Player, Good(w), w.fg \in Lifecycle, NEW e \in Chance
    PROVE  LET v == Settled(w, e)
           IN  (Advances(w, v) \/ Halts(w, v)) /\ v.fg \in Lifecycle
  <1> DEFINE a == SettleFlight(w, e)
             b == SettleLoad(a, e)
             c == Reap(b)
             v == PollRelease(c, e)
  <1>1. /\ Advances(w, a) /\ a.fg \in Lifecycle /\ a \in Player /\ Good(a)
        /\ a.fg.kind = "LoadPending" /\ ~Live(w) /\ Live(a) => a.route.phase = "Starting"
    <2>1. CASE a = w
      BY <2>1, GoodIssued, BesideGoes
    <2>2. CASE a = Mounted(PollFlight(w, e))
      <3> DEFINE d == PollFlight(w, e)
      <3>1. Answers(w, d)
        BY PollFlightAnswers
      <3>2. d.w \in Player /\ Good(d.w)
        BY <3>1, GoodTypes DEF Answers
      <3>3. Aside(d.w, a) /\ a.fg = d.w.fg
        BY <2>2, <3>2, MountedAside
      <3> HIDE DEF d, a
      <3>4. Beside(d.w, a) /\ Good(a) /\ a \in Player
        BY <3>2, <3>3, AsideBeside DEF Aside
      <3>5. Advances(w, a)
        BY <3>1, <3>2, <3>4, BesideGoes, AdvancesTrans DEF Answers
      <3> QED
        BY <3>1, <3>3, <3>4, <3>5 DEF Answers, Aside, Untouched, Live
    <2> QED
      BY <2>1, <2>2 DEF SettleFlight
  <1> HIDE DEF a
  <1>2. /\ b.fg \in Lifecycle
        /\ \/ Beside(a, b)
           \/ /\ Live(a) /\ Follows(a.fg) /\ a.route.phase # "Starting"
              /\ Halts(a, b) /\ b.adapter.release.kind = "Idle"
    <2>1. CASE b = a
      BY <1>1, <2>1, GoodIssued
    <2>2. CASE b = PollLoad(a, e)
      BY <1>1, <2>2, PollLoadHalts
    <2> QED
      BY <2>1, <2>2 DEF SettleLoad
  <1> HIDE DEF b
  <1>3. b \in Player /\ Good(b)
    BY <1>1, <1>2, BesideGoes, GoodTypes
  <1>4. /\ Advances(b, c) /\ c \in Player /\ Good(c) /\ c.fg = b.fg /\ c.adapter = b.adapter
        /\ c.engine = b.engine
    BY <1>3, ReapAdvances
  <1>5. Driven(c, v)
    BY <1>4, DriveReleaseDriven DEF PollRelease
  <1>6. Settled(w, e) = v /\ (c.adapter.release.kind = "Idle" => v = c)
    BY <1>4, DriveIdle DEF Settled, a, b, PollRelease
  <1> HIDE DEF c, v
  <1>7. Advances(b, v) /\ v.fg \in Lifecycle
    BY <1>2, <1>3, <1>4, <1>5, AdvancesTrans DEF Driven
  <1>8. CASE Beside(a, b)
    <2>1. Advances(w, b)
      BY <1>1, <1>8, BesideGoes, AdvancesTrans
    <2>2. Advances(w, v)
      BY <1>7, <2>1, AdvancesTrans
    <2> QED
      BY <1>6, <1>7, <2>2
  <1>9. CASE Live(a) /\ Follows(a.fg) /\ a.route.phase # "Starting"
             /\ Halts(a, b) /\ b.adapter.release.kind = "Idle"
    <2>1. Live(w)
      BY <1>1, <1>9 DEF Follows
    <2>2. Untouched(w, a)
      BY <1>1, <2>1 DEF Advances, Vacant
    <2>3. w.adapter.release.queued = 0 /\ ~Left(w, a)
      BY <2>1 DEF Good, ObjectInv, Live, Left
    <2>4. Halts(w, a)
      BY <1>1, <2>2, <2>3 DEF Halts, Advances
    <2>5. Halts(w, b)
      BY <1>1, <1>9, <2>4, HaltsTrans
    <2>6. v = c
      BY <1>4, <1>6, <1>9
    <2>7. Goes(w, c) /\ ~Left(w, c)
      BY <1>4, <2>3, <2>5, GoesTrans DEF Halts, Advances, Left
    <2>8. Untouched(w, c) \/ Stopped(w, c)
      BY <1>4, <2>1, <2>5 DEF Halts, Advances, Untouched, Stopped, Vacant, NoHolder, Opened, Live
    <2>9. Halts(w, c)
      BY <2>7, <2>8 DEF Halts
    <2> QED
      BY <1>6, <1>7, <2>6, <2>9
  <1> QED
    BY <1>2, <1>8, <1>9

------------------------------------------------------------------------------
(* Handlers that at most stop the installed Engine.                         *)

\* The lifecycle is left alone.
Ends(w, v) == Halts(w, v) /\ v.fg = w.fg

\* Two ends of a playback in a row are one.
LEMMA EndsTrans ==
    ASSUME NEW w \in Player, Good(w), NEW v, NEW u, Ends(w, v), Ends(v, u)
    PROVE  Ends(w, u)
  BY HaltsTrans DEF Ends

\* An end keeps types, invariant and lifecycle, and halts.
LEMMA EndsTypes ==
    ASSUME NEW w, NEW v, Ends(w, v)
    PROVE  v \in Player /\ Good(v) /\ v.fg = w.fg /\ Halts(w, v)
  BY GoodTypes DEF Ends

\* Bookkeeping is an end of nothing.
LEMMA AsideEnds ==
    ASSUME NEW w \in Player, Good(w), NEW v, Aside(w, v) \/ Beside(w, v), v.fg = w.fg
    PROVE  Ends(w, v)
  BY AsideBeside, BesideGoes DEF Ends

\* A teardown ends the playback.
LEMMA TeardownEnds ==
    ASSUME NEW w \in Player, Good(w), NEW reload \in BOOLEAN, NEW e \in Chance
    PROVE  Ends(w, Teardown(w, reload, e))
  BY TeardownHalts DEF Ends

\* So is doing nothing.
LEMMA SelfEnds == ASSUME NEW w \in Player, Good(w) PROVE Ends(w, w)
  BY GoodIssued, AsideEnds

\* The preview's phase is bookkeeping.
LEMMA SetPreview ==
    ASSUME NEW w \in Player, NEW p \in Previews
    PROVE  LET v == [w EXCEPT !.preview = p] IN Aside(w, v) /\ v.fg = w.fg
  <1> DEFINE v == [w EXCEPT !.preview = p]
  <1>1. v \in Player /\ v.route = w.route /\ v.engine = w.engine /\ v.mail = w.mail
        /\ v.slot = w.slot /\ v.exiting = w.exiting /\ v.fg = w.fg /\ v.adapter = w.adapter
    BY DEF Player
  <1> HIDE DEF v
  <1>2. Aside(w, v)
    BY <1>1 DEF Aside, Untouched
  <1> QED
    BY <1>1, <1>2 DEF v

\* The preview is forgotten.
LEMMA ForgetPreview ==
    ASSUME NEW w \in Player
    PROVE  LET v == [w EXCEPT !.preview = "Idle", !.session.preview = FALSE]
           IN  Aside(w, v) /\ v.fg = w.fg
  <1> DEFINE s == [w.session EXCEPT !.preview = FALSE]
             v == [w EXCEPT !.preview = "Idle", !.session = s]
  <1>1. s \in Session /\ "Idle" \in Previews
    BY PlayerFacts DEF Session, Previews
  <1>2. [w EXCEPT !.preview = "Idle", !.session.preview = FALSE] = v
    OBVIOUS
  <1> HIDE DEF s
  <1>3. v \in Player /\ v.route = w.route /\ v.engine = w.engine /\ v.mail = w.mail
        /\ v.slot = w.slot /\ v.exiting = w.exiting /\ v.fg = w.fg /\ v.adapter = w.adapter
    BY <1>1 DEF Player
  <1> HIDE DEF v
  <1>4. Aside(w, v)
    BY <1>3 DEF Aside, Untouched
  <1> QED
    BY <1>2, <1>3, <1>4

\* Retiring a preview ends its playback.
LEMMA RetireEnds ==
    ASSUME NEW w \in Player, Good(w), NEW e \in Chance
    PROVE  Ends(w, Retire(w, e))
  <1>1. ASSUME NEW x \in Player, Good(x) PROVE Ends(x, Retired(x))
    <2>1. Aside(x, Retired(x)) /\ Retired(x).fg = x.fg
      BY SetPreview, ForgetPreview DEF Retired, Previews
    <2> QED
      BY <1>1, <2>1, AsideEnds
  <1>2. Ends(w, Teardown(w, FALSE, e))
    BY TeardownEnds
  <1> DEFINE x == IF Live(w) THEN Teardown(w, FALSE, e) ELSE w
  <1>3. Ends(w, x)
    BY <1>2, SelfEnds
  <1>4. Retire(w, e) = Retired(x)
    BY DEF Retire
  <1> HIDE DEF x
  <1>5. x \in Player /\ Good(x)
    BY <1>3, EndsTypes
  <1> QED
    BY <1>1, <1>3, <1>4, <1>5, EndsTrans

\* Halting a preview ends its playback.
LEMMA HaltEnds ==
    ASSUME NEW w \in Player, Good(w), NEW e \in Chance
    PROVE  Ends(w, Halt(w, e))
  <1>1. Aside(w, [w EXCEPT !.preview = "Idle"]) /\ [w EXCEPT !.preview = "Idle"].fg = w.fg
    BY SetPreview DEF Previews
  <1>2. Ends(w, [w EXCEPT !.preview = "Idle"])
    BY <1>1, AsideEnds
  <1> QED
    BY <1>2, RetireEnds DEF Halt

\* What follows the pump at most ends a playback.
LEMMA AfterPumpEnds ==
    ASSUME NEW w \in Player, Good(w), NEW ended \in BOOLEAN, NEW e \in Chance
    PROVE  Ends(w, AfterPump(w, ended, e))
  <1> DEFINE x == [w EXCEPT !.preview = "Idle", !.session.preview = FALSE]
  <1>1. Aside(w, x) /\ x.fg = w.fg
    BY ForgetPreview
  <1>2. AfterPump(w, ended, e) = w \/ AfterPump(w, ended, e) = x
        \/ AfterPump(w, ended, e) = Retire(w, e)
    BY DEF AfterPump
  <1> HIDE DEF x
  <1>3. Ends(w, x) /\ Ends(w, w) /\ Ends(w, Retire(w, e))
    BY <1>1, AsideEnds, SelfEnds, RetireEnds
  <1> QED
    BY <1>2, <1>3

\* Requests and their ends move the route on.
LEMMA RequestFilmEnds ==
    ASSUME NEW w \in Player, Good(w)
    PROVE  Ends(w, RequestFilm(w))
  <1> DEFINE c == BeginPlaybackRequest(w.route)
             s == [w.session EXCEPT !.pend = "film", !.as_preview = FALSE, !.paused = FALSE,
                                    !.answered = FALSE]
             p == [w.screen EXCEPT !.page = "Player"]
             v == [w EXCEPT !.route = c, !.session = s, !.screen = p, !.wish = "Playing"]
  <1>1. CASE ~MayRequest(w.route)
    BY <1>1, SelfEnds DEF RequestFilm
  <1>2. CASE MayRequest(w.route)
    <2>1. RequestFilm(w) = [w EXCEPT !.route = c, !.session.pend = "film",
                   !.session.as_preview = FALSE, !.session.paused = FALSE,
                   !.session.answered = FALSE, !.screen.page = "Player", !.wish = "Playing"]
      BY <1>2 DEF RequestFilm
    <2>2. RequestFilm(w) = v
      BY <2>1
    <2>3. s \in Session /\ p \in Screen /\ "Playing" \in Clocks
      BY PlayerFacts DEF Session, Screen, Clocks
    <2>4. Carries(w.route, c)
      BY <1>2, GoodIssued, RequestCarries
    <2> HIDE DEF c, s, p
    <2>5. v \in Player /\ v.route = c /\ v.engine = w.engine /\ v.mail = w.mail
          /\ v.slot = w.slot /\ v.exiting = w.exiting /\ v.fg = w.fg /\ v.adapter = w.adapter
      BY <2>3, <2>4 DEF Player, Carries, MovedOn
    <2> HIDE DEF v
    <2>6. Beside(w, v)
      BY <2>4, <2>5 DEF Beside, Untouched
    <2>7. Ends(w, v)
      BY <2>5, <2>6, AsideEnds
    <2> QED
      BY <2>2, <2>7
  <1> QED
    BY <1>1, <1>2

\* The film held behind a trailer is bookkeeping.
LEMMA SetHeld ==
    ASSUME NEW w \in Player, NEW b \in BOOLEAN
    PROVE  LET v == [w EXCEPT !.held = b] IN Aside(w, v) /\ v.fg = w.fg
  <1> DEFINE v == [w EXCEPT !.held = b]
  <1>1. v \in Player /\ v.route = w.route /\ v.engine = w.engine /\ v.mail = w.mail
        /\ v.slot = w.slot /\ v.exiting = w.exiting /\ v.fg = w.fg /\ v.adapter = w.adapter
    BY DEF Player
  <1> HIDE DEF v
  <1>2. Aside(w, v)
    BY <1>1 DEF Aside, Untouched
  <1> QED
    BY <1>1, <1>2 DEF v

\* Playing a film, or holding it, at most ends the one before.
LEMMA PlayHeldOrNowEnds ==
    ASSUME NEW w \in Player, Good(w), NEW e \in Chance
    PROVE  Ends(w, PlayHeldOrNow(w, e))
  <1> DEFINE x == Halt(w, e)
             orphan == Live(x) /\ ~x.session.preview /\ x.screen.page # "Player"
             y == IF orphan THEN Teardown(x, FALSE, e) ELSE x
             z == [y EXCEPT !.held = FALSE]
             h == [x EXCEPT !.held = TRUE]
  <1>1. Ends(w, x)
    BY HaltEnds
  <1>2. PlayHeldOrNow(w, e) = IF x.preview # "Idle" THEN h ELSE RequestFilm(z)
    BY DEF PlayHeldOrNow, PlayHalted
  <1> HIDE DEF x
  <1>3. x \in Player /\ Good(x)
    BY <1>1, EndsTypes
  <1>4. Ends(x, h)
    <2>1. Aside(x, h) /\ h.fg = x.fg
      BY <1>3, SetHeld
    <2> HIDE DEF h
    <2> QED
      BY <1>3, <2>1, AsideEnds
  <1>5. Ends(x, Teardown(x, FALSE, e)) /\ Ends(x, x)
    BY <1>3, TeardownEnds, SelfEnds
  <1>6. Ends(x, y)
    BY <1>5
  <1> HIDE DEF y
  <1>7. y \in Player /\ Good(y)
    BY <1>6, EndsTypes
  <1>8. Aside(y, z) /\ z.fg = y.fg
    BY <1>7, SetHeld
  <1> HIDE DEF z, h
  <1>9. Ends(y, z) /\ z \in Player /\ Good(z)
    BY <1>7, <1>8, AsideEnds, EndsTypes
  <1>10. Ends(z, RequestFilm(z))
    BY <1>9, RequestFilmEnds
  <1>11. Ends(x, z)
    BY <1>3, <1>6, <1>9, EndsTrans
  <1>12. Ends(x, RequestFilm(z))
    BY <1>3, <1>10, <1>11, EndsTrans
  <1>13. Ends(x, PlayHeldOrNow(w, e))
    BY <1>2, <1>4, <1>12
  <1> QED
    BY <1>1, <1>13, EndsTrans

\* The content requests of a frame at most end a playback.
LEMMA ContentRequestsEnds ==
    ASSUME NEW w \in Player, Good(w), NEW e \in Chance
    PROVE  Ends(w, ContentRequests(w, e))
  <1> DEFINE x == HaltOffPage(w, e)
  <1>1. Ends(w, x)
    BY HaltEnds, SelfEnds DEF HaltOffPage
  <1> HIDE DEF x
  <1>2. x \in Player /\ Good(x)
    BY <1>1, EndsTypes
  <1>3. Ends(x, DrainHeld(x, e))
    BY <1>2, PlayHeldOrNowEnds, SelfEnds DEF DrainHeld
  <1>4. Ends(w, DrainHeld(x, e))
    BY <1>1, <1>3, EndsTrans
  <1> QED
    BY <1>4 DEF ContentRequests, x

\* Requesting a trailer touches no object.
LEMMA RequestPreviewEnds ==
    ASSUME NEW w \in Player, Good(w)
    PROVE  Ends(w, RequestPreview(w))
  <1> DEFINE c == BeginPlaybackRequest(w.route)
             s == [w.session EXCEPT !.pend = "preview", !.answered = FALSE]
             v == [w EXCEPT !.route = c, !.session = s, !.preview = "Fetching"]
  <1>1. CASE ~MayRequest(w.route)
    BY <1>1, SelfEnds DEF RequestPreview
  <1>2. CASE MayRequest(w.route)
    <2>1. RequestPreview(w) = [w EXCEPT !.route = c, !.session.pend = "preview",
                                        !.session.answered = FALSE, !.preview = "Fetching"]
      BY <1>2 DEF RequestPreview
    <2>2. RequestPreview(w) = v
      BY <2>1
    <2>3. s \in Session /\ "Fetching" \in Previews
      BY PlayerFacts DEF Session, Previews
    <2>4. Carries(w.route, c)
      BY <1>2, GoodIssued, RequestCarries
    <2> HIDE DEF c, s
    <2>5. v \in Player /\ v.route = c /\ v.engine = w.engine /\ v.mail = w.mail
          /\ v.slot = w.slot /\ v.exiting = w.exiting /\ v.fg = w.fg /\ v.adapter = w.adapter
      BY <2>3, <2>4 DEF Player, Carries, MovedOn
    <2> HIDE DEF v
    <2>6. Beside(w, v)
      BY <2>4, <2>5 DEF Beside, Untouched
    <2>7. Ends(w, v)
      BY <2>5, <2>6, AsideEnds
    <2> QED
      BY <2>2, <2>7
  <1> QED
    BY <1>1, <1>2

\* Cancelling a play touches no object.
LEMMA CancelPlayEnds ==
    ASSUME NEW w \in Player, Good(w)
    PROVE  Ends(w, CancelPlay(w))
  <1> DEFINE c == CancelPlaybackRequest(w.route)
             s == [w.session EXCEPT !.pend = "none", !.answered = FALSE]
             v == [w EXCEPT !.route = c, !.session = s]
  <1>1. CancelPlay(w) = v
    BY DEF CancelPlay
  <1>2. s \in Session
    BY PlayerFacts DEF Session
  <1>3. Carries(w.route, c)
    BY GoodIssued, CancelCarries
  <1> HIDE DEF c, s
  <1>4. v \in Player /\ v.route = c /\ v.engine = w.engine /\ v.mail = w.mail
        /\ v.slot = w.slot /\ v.exiting = w.exiting /\ v.fg = w.fg /\ v.adapter = w.adapter
    BY <1>2, <1>3 DEF Player, Carries, MovedOn
  <1> HIDE DEF v
  <1>5. Beside(w, v)
    BY <1>3, <1>4 DEF Beside, Untouched
  <1>6. Ends(w, v)
    BY <1>4, <1>5, AsideEnds
  <1> QED
    BY <1>1, <1>6

\* Replacing the lifecycle's state keeps the invariant.
LEMMA SetFgEnds ==
    ASSUME NEW w \in Player, Good(w), NEW f \in Lifecycle
    PROVE  LET v == [w EXCEPT !.fg = f]
           IN  v \in Player /\ Good(v) /\ Beside(w, v) /\ v.fg = f /\ Halts(w, v)
  <1> DEFINE v == [w EXCEPT !.fg = f]
  <1>1. Aside(w, v) /\ v.fg = f
    BY LifecycleMachine, SetFg
  <1> HIDE DEF v
  <1>2. v \in Player /\ Good(v) /\ Beside(w, v) /\ v.fg = f /\ Halts(w, v)
    BY <1>1, AsideBeside, BesideGoes DEF Aside
  <1> QED
    BY <1>2 DEF v

\* A park saves the clock and lets the Engine go.
LEMMA ParkPlaybackHalts ==
    ASSUME NEW w \in Player, Good(w), w.fg \in Lifecycle, NEW e \in Chance
    PROVE  Halts(w, ParkPlayback(w, e)) /\ ParkPlayback(w, e).fg \in Lifecycle
  <1> DEFINE f == Park(w.fg, ViewerPaused(w))
             kept == IF Follows(w.fg) THEN w.fg.clock ELSE w.wish
             x == [w EXCEPT !.fg = f, !.wish = kept]
             y == Teardown(x, TRUE, e)
             z == CancelPlay(y)
  <1>1. f \in Lifecycle /\ f \in Machine /\ kept \in Clocks
    <2>1. ViewerPaused(w) \in BOOLEAN
      BY PlayerFacts DEF Session, Engine, ViewerPaused
    <2>2. f \in Lifecycle
      BY <2>1, EndingFacts
    <2> QED
      BY <2>2, LifecycleMachine, MachineFacts, PlayerFacts
  <1>2. ParkPlayback(w, e) = z
    BY DEF ParkPlayback
  <1> HIDE DEF f, kept
  <1>8. x \in Player /\ x.route = w.route /\ x.engine = w.engine /\ x.mail = w.mail
        /\ x.slot = w.slot /\ x.exiting = w.exiting /\ x.fg = f /\ x.adapter = w.adapter
    BY <1>1 DEF Player
  <1> HIDE DEF x
  <1>9. Aside(w, x)
    BY <1>8 DEF Aside, Untouched
  <1>3. x \in Player /\ Good(x) /\ x.fg = f /\ Halts(w, x)
    BY <1>8, <1>9, AsideBeside, BesideGoes
  <1>4. Ends(x, y) /\ y \in Player /\ Good(y)
    BY <1>3, TeardownEnds, EndsTypes
  <1> HIDE DEF y
  <1>5. Ends(y, z)
    BY <1>4, CancelPlayEnds
  <1> HIDE DEF z
  <1>6. Ends(x, z)
    BY <1>3, <1>4, <1>5, EndsTrans
  <1>7. Halts(w, z) /\ z.fg = f
    BY <1>3, <1>6, EndsTypes, HaltsTrans
  <1> QED
    BY <1>1, <1>2, <1>7

\* Parking a start that waits halts.
LEMMA ParkPendingHalts ==
    ASSUME NEW w \in Player, Good(w), w.fg \in Lifecycle, NEW e \in Chance
    PROVE  Halts(w, ParkPending(w, e)) /\ ParkPending(w, e).fg \in Lifecycle
  <1> DEFINE f == ParkFlight(w.fg)
             x == [w EXCEPT !.fg = f, !.wish = f.clock]
             y == Teardown(x, TRUE, e)
  <1>1. f \in Lifecycle /\ f.clock \in Clocks /\ f \in Machine
    BY EndingFacts, LifecycleMachine
  <1>2. ParkPending(w, e) = y \/ ParkPending(w, e) = w
    BY DEF ParkPending
  <1> HIDE DEF f
  <1>3. x \in Player /\ x.route = w.route /\ x.engine = w.engine /\ x.mail = w.mail
        /\ x.slot = w.slot /\ x.exiting = w.exiting /\ x.fg = f /\ x.adapter = w.adapter
    BY <1>1 DEF Player
  <1> HIDE DEF x
  <1>4. Aside(w, x)
    BY <1>3 DEF Aside, Untouched
  <1>5. Halts(w, x) /\ Good(x)
    BY <1>4, AsideBeside, BesideGoes
  <1>6. Ends(x, y)
    BY <1>3, <1>5, TeardownEnds
  <1> HIDE DEF y
  <1>7. Halts(w, y) /\ y.fg = f
    BY <1>3, <1>5, <1>6, EndsTypes, HaltsTrans
  <1>8. Halts(w, w)
    BY GoodIssued, BesideGoes
  <1> QED
    BY <1>1, <1>2, <1>7, <1>8

\* Parking a playback halts.
LEMMA ParkIfPlayingHalts ==
    ASSUME NEW w \in Player, Good(w), w.fg \in Lifecycle, NEW e \in Chance
    PROVE  Halts(w, ParkIfPlaying(w, e)) /\ ParkIfPlaying(w, e).fg \in Lifecycle
  BY GoodIssued, BesideGoes, ParkPlaybackHalts DEF ParkIfPlaying

------------------------------------------------------------------------------
(* The landing of a plan.                                                   *)

Moves(w, v) == Advances(w, v) \/ Halts(w, v) \/ Flies(w, v)

\* A handler that moves keeps types and invariant.
LEMMA MovesTypes ==
    ASSUME NEW w \in Player, Good(w), NEW v, Moves(w, v)
    PROVE  v \in Player /\ Good(v)
  BY GoodTypes, FliesGood DEF Moves, Flies

\* A move after bookkeeping is a move.
LEMMA BesideMoves ==
    ASSUME NEW w \in Player, Good(w), NEW v, NEW u, Beside(w, v), Moves(v, u)
    PROVE  Moves(w, u)
  <1>1. v \in Player /\ Good(v) /\ Advances(w, v) /\ Halts(w, v)
    BY BesideGoes, GoodTypes
  <1>2. CASE Advances(v, u)
    BY <1>1, <1>2, AdvancesTrans DEF Moves
  <1>3. CASE Halts(v, u)
    BY <1>1, <1>3, HaltsTrans DEF Moves
  <1>4. CASE Flies(v, u)
    BY <1>1, <1>4, FliesTrans DEF Moves
  <1> QED
    BY <1>2, <1>3, <1>4 DEF Moves

\* Bookkeeping after a move is a move.
LEMMA MovesBeside ==
    ASSUME NEW w \in Player, Good(w), NEW v, NEW u, Moves(w, v), Beside(v, u)
    PROVE  Moves(w, u)
  <1>1. v \in Player /\ Good(v)
    BY MovesTypes
  <1>2. Advances(v, u) /\ Halts(v, u)
    BY <1>1, BesideGoes
  <1>3. CASE Advances(w, v)
    BY <1>2, <1>3, AdvancesTrans DEF Moves
  <1>4. CASE Halts(w, v)
    BY <1>2, <1>4, HaltsTrans DEF Moves
  <1>5. CASE Flies(w, v)
    BY <1>5, FliesTrans DEF Moves
  <1> QED
    BY <1>3, <1>4, <1>5 DEF Moves

\* Opening a preview's admission is bookkeeping.
LEMMA SetAdmission ==
    ASSUME NEW w \in Player
    PROVE  LET v == [w EXCEPT !.adapter.admission = TRUE] IN Aside(w, v) /\ v.fg = w.fg
  <1> DEFINE a == [w.adapter EXCEPT !.admission = TRUE]
             v == [w EXCEPT !.adapter = a]
  <1>1. a \in Adapter /\ a.release = w.adapter.release
    BY PlayerFacts DEF Adapter
  <1>2. [w EXCEPT !.adapter.admission = TRUE] = v
    OBVIOUS
  <1> HIDE DEF a
  <1>3. v \in Player /\ v.route = w.route /\ v.engine = w.engine /\ v.mail = w.mail
        /\ v.slot = w.slot /\ v.exiting = w.exiting /\ v.fg = w.fg /\ v.adapter = a
    BY <1>1 DEF Player
  <1> HIDE DEF v
  <1>4. Aside(w, v)
    BY <1>1, <1>3 DEF Aside, Untouched
  <1> QED
    BY <1>2, <1>3, <1>4

\* Recording a landed start is bookkeeping.
LEMMA LandedStartAside ==
    ASSUME NEW r, r.w \in Player
    PROVE  Aside(r.w, LandedStart(r)) /\ LandedStart(r).fg = r.w.fg
  <1> DEFINE mounts == Accepted(r) /\ ~r.w.session.preview
             v == IF mounts THEN [r.w EXCEPT !.screen.page = "Player"] ELSE r.w
             p == IF ~Accepted(r) THEN "Idle"
                  ELSE IF v.preview = "Fetching" THEN "Live" ELSE v.preview
  <1>0. Aside(r.w, r.w)
    BY DEF Aside, Untouched
  <1>1. Aside(r.w, v) /\ v.fg = r.w.fg
    BY <1>0, SetPage
  <1>2. \/ LandedStart(r) = v
        \/ LandedStart(r) = [v EXCEPT !.adapter.admission = TRUE]
        \/ LandedStart(r) = [v EXCEPT !.preview = p]
    BY DEF LandedStart
  <1> HIDE DEF v
  <1>3. v \in Player
    BY <1>1 DEF Aside
  <1>4. p \in Previews
    BY <1>3, PlayerFacts DEF Previews
  <1> HIDE DEF p
  <1>5. Aside(v, [v EXCEPT !.adapter.admission = TRUE])
        /\ [v EXCEPT !.adapter.admission = TRUE].fg = v.fg
    BY <1>3, SetAdmission
  <1>6. Aside(v, [v EXCEPT !.preview = p]) /\ [v EXCEPT !.preview = p].fg = v.fg
    BY <1>3, <1>4, SetPreview
  <1>7. CASE LandedStart(r) = v
    BY <1>1, <1>7
  <1>8. CASE LandedStart(r) = [v EXCEPT !.adapter.admission = TRUE]
    <2>1. Aside(v, LandedStart(r)) /\ LandedStart(r).fg = v.fg
      BY <1>5, <1>8
    <2> QED
      BY <1>1, <2>1, AsideTrans
  <1>9. CASE LandedStart(r) = [v EXCEPT !.preview = p]
    <2>1. Aside(v, LandedStart(r)) /\ LandedStart(r).fg = v.fg
      BY <1>6, <1>9
    <2> QED
      BY <1>1, <2>1, AsideTrans
  <1> QED
    BY <1>2, <1>7, <1>8, <1>9

\* Rejecting a pending route leaves the object alone.
LEMMA RejectPendingBeside ==
    ASSUME NEW w \in Player, Good(w)
    PROVE  Beside(w, RejectPending(w)) /\ RejectPending(w).fg = w.fg
  <1>1. PendingRouteStart(w.route) \in Nat
    BY NativeFacts
  <1>2. Carries(w.route, RejectRouteStartPreparation(w.route, PendingRouteStart(w.route)))
    BY <1>1, GoodIssued, RejectCarries
  <1> QED
    BY <1>2, RouteBeside DEF RejectPending

\* The start of a landed play moves towards a Load, or halts.
LEMMA FinishLandedPlayMoves ==
    ASSUME NEW w \in Player, Good(w), NEW prepared, NEW e \in Chance
    PROVE  LET v == FinishLandedPlay(w, prepared, e) IN Moves(w, v) /\ v.fg = w.fg
  <1>1. CASE prepared
    <2> DEFINE r == StartTracked(w, e)
               v == LandedStart(r)
    <2>1. Tracked(w, r) /\ r.w \in Player /\ Good(r.w)
      BY StartTrackedTracked
    <2> HIDE DEF r
    <2>2. Aside(r.w, v) /\ v.fg = r.w.fg
      BY <2>1, LandedStartAside
    <2> HIDE DEF v
    <2>3. Advances(w, v) /\ v.fg = w.fg
      BY <2>1, <2>2, AsideBeside, BesideGoes, AdvancesTrans DEF Tracked
    <2>4. FinishLandedPlay(w, prepared, e) = v
      BY <1>1 DEF FinishLandedPlay, v, r
    <2> QED
      BY <2>3, <2>4 DEF Moves
  <1>2. CASE ~prepared
    <2>1. FinishLandedPlay(w, prepared, e) = RejectPending(w)
      BY <1>2 DEF FinishLandedPlay
    <2> QED
      BY <2>1, RejectPendingBeside, BesideGoes DEF Moves
  <1> QED
    BY <1>1, <1>2

\* Landing a plan leaves the object alone.
LEMMA LandPlanBeside ==
    ASSUME NEW w \in Player, Good(w), NEW playable \in BOOLEAN
    PROVE  LET v == LandPlan(w, playable) IN Beside(w, v) /\ v.fg = w.fg
  <1> DEFINE trailer == w.session.pend = "preview"
             c == PreparePlaybackLanding(w.route, playable)
             s == [w.session EXCEPT !.pend = "none", !.url = playable, !.preview = trailer,
                                    !.as_preview = trailer, !.answered = FALSE]
             v == [w EXCEPT !.route = c, !.session = s]
  <1>1. LandPlan(w, playable) = v
    BY DEF LandPlan
  <1>2. trailer \in BOOLEAN
    OBVIOUS
  <1> HIDE DEF trailer
  <1>3. s \in Session
    BY <1>2, PlayerFacts DEF Session
  <1>4. Carries(w.route, c)
    BY GoodIssued, LandingCarries
  <1> HIDE DEF c, s
  <1>5. v \in Player /\ v.route = c /\ v.engine = w.engine /\ v.mail = w.mail
        /\ v.slot = w.slot /\ v.exiting = w.exiting /\ v.fg = w.fg /\ v.adapter = w.adapter
    BY <1>3, <1>4 DEF Player, Carries, MovedOn
  <1> HIDE DEF v
  <1>6. Beside(w, v)
    BY <1>4, <1>5 DEF Beside, Untouched
  <1> QED
    BY <1>1, <1>5, <1>6

\* Landing a play moves.
LEMMA LandPlayMoves ==
    ASSUME NEW w \in Player, Good(w), NEW e \in Chance
    PROVE  LET u == LandPlay(w, e) IN Moves(w, u) /\ u.fg = w.fg
  <1> DEFINE v == LandPlan(w, e.good)
             b == BeginResume(v, e)
             x == RejectPending(v)
             y == Teardown(x, FALSE, e)
             z == [y EXCEPT !.session.preview = FALSE]
             prepared == b.answer = "Prepared"
             u == LandPlay(w, e)
  <1>1. Beside(w, v) /\ v.fg = w.fg
    BY LandPlanBeside DEF Chance, Chances, Resumes
  <1>2. \/ u = v \/ u = z \/ u = FinishLandedPlay(v, TRUE, e)
        \/ b.answer = "Pending" /\ u = b.w
        \/ b.answer # "Pending" /\ u = FinishLandedPlay(b.w, prepared, e)
    BY DEF LandPlay
  <1> HIDE DEF v
  <1>3. v \in Player /\ Good(v)
    BY <1>1, BesideGood DEF Beside
  <1> DEFINE Goal(g) == Moves(v, g) /\ g.fg = v.fg
  <1>4. Goal(v)
    BY <1>3, GoodIssued, BesideGoes DEF Moves
  <1>5. Goal(z)
    <2>1. Beside(v, x) /\ x.fg = v.fg /\ x \in Player /\ Good(x)
      BY <1>3, RejectPendingBeside, BesideGood DEF Beside
    <2> HIDE DEF x
    <2>2. Ends(x, y) /\ y \in Player /\ Good(y)
      BY <2>1, TeardownEnds, EndsTypes
    <2> HIDE DEF y
    <2> DEFINE s == [y.session EXCEPT !.preview = FALSE]
    <2>3. s \in Session
      BY <2>2, PlayerFacts DEF Session
    <2>4. z = [y EXCEPT !.session = s]
      OBVIOUS
    <2> HIDE DEF s
    <2>5. Aside(y, [y EXCEPT !.session = s]) /\ [y EXCEPT !.session = s].fg = y.fg
      BY <2>2, <2>3, SetSession
    <2>6. Aside(y, z) /\ z.fg = y.fg
      BY <2>4, <2>5
    <2> HIDE DEF z
    <2>7. Ends(v, x) /\ Ends(y, z)
      BY <1>3, <2>1, <2>2, <2>6, AsideEnds
    <2>8. Ends(v, y)
      BY <1>3, <2>2, <2>7, EndsTrans
    <2>9. Ends(v, z)
      BY <1>3, <2>7, <2>8, EndsTrans
    <2> QED
      BY <2>9 DEF Ends, Moves
  <1>6. Goal(FinishLandedPlay(v, TRUE, e))
    BY <1>3, FinishLandedPlayMoves
  <1>7. /\ b.w.fg = v.fg /\ b.w \in Player /\ Good(b.w)
        /\ b.answer = "Pending" => Flies(v, b.w)
        /\ b.answer # "Pending" => Beside(v, b.w)
    BY <1>3, BeginResumeFlies
  <1> HIDE DEF b
  <1>8. b.answer = "Pending" => Goal(b.w)
    BY <1>7 DEF Moves
  <1>9. b.answer # "Pending" => Goal(FinishLandedPlay(b.w, prepared, e))
    <2> HIDE DEF prepared
    <2>1. Moves(b.w, FinishLandedPlay(b.w, prepared, e))
          /\ FinishLandedPlay(b.w, prepared, e).fg = b.w.fg
      BY <1>7, FinishLandedPlayMoves
    <2> QED
      BY <1>3, <1>7, <2>1, BesideMoves
  <1> HIDE DEF u
  <1>10. Goal(u)
    <2> HIDE DEF Goal, z, prepared
    <2> QED
      BY <1>2, <1>4, <1>5, <1>6, <1>8, <1>9
  <1>11. Moves(w, u) /\ u.fg = w.fg
    BY <1>1, <1>10, BesideMoves
  <1> QED
    BY <1>11 DEF u

\* The landing step of a frame moves.
LEMMA LandingMoves ==
    ASSUME NEW w \in Player, Good(w), w.fg \in Lifecycle, NEW e \in Chance
    PROVE  LET u == Landing(w, e) IN Moves(w, u) /\ u.fg \in Lifecycle
  <1> DEFINE s == IF w.screen.front /\ w.session.pend # "none"
                    THEN [w EXCEPT !.fg = Supersede(w.fg, FALSE)] ELSE w
             c == LandResumeFlight(s.route, e.good)
             p == [s.session EXCEPT !.answered = FALSE]
             x == [s EXCEPT !.route = c, !.session = p]
             u == Landing(w, e)
  <1>1. Beside(w, s) /\ s.fg \in Lifecycle
    <2>1. Supersede(w.fg, FALSE) \in Lifecycle
      BY EndingFacts
    <2> DEFINE f == Supersede(w.fg, FALSE)
    <2>2. Beside(w, [w EXCEPT !.fg = f]) /\ [w EXCEPT !.fg = f].fg = f
      <3> HIDE DEF f
      <3>1. f \in Lifecycle
        BY <2>1 DEF f
      <3> QED
        BY <3>1, SetFgEnds
    <2> QED
      BY <2>1, <2>2, GoodIssued
  <1>2. \/ u = s
        \/ ResumeFlightOutstanding(s.route)
             /\ u = FinishLandedPlay([s EXCEPT !.route = c, !.session.answered = FALSE], e.good, e)
        \/ u = LandPlay(s, e)
    BY DEF Landing
  <1> HIDE DEF s
  <1>3. s \in Player /\ Good(s)
    BY <1>1, BesideGood DEF Beside
  <1>4. CASE u = s
    BY <1>1, <1>4, BesideGoes DEF Moves
  <1>5. CASE u = LandPlay(s, e)
    <2>1. Moves(s, u) /\ u.fg = s.fg
      BY <1>3, <1>5, LandPlayMoves
    <2> QED
      BY <1>1, <2>1, BesideMoves
  <1>6. CASE ResumeFlightOutstanding(s.route)
             /\ u = FinishLandedPlay([s EXCEPT !.route = c, !.session.answered = FALSE], e.good, e)
    <2>1. [s EXCEPT !.route = c, !.session.answered = FALSE] = x
      OBVIOUS
    <2>2. p \in Session
      BY <1>3, PlayerFacts DEF Session
    <2>3. Carries(s.route, c)
      BY <1>3, <1>6, GoodIssued, FlightLands DEF Chance, Chances, Resumes
    <2> HIDE DEF c, p
    <2>4. x \in Player /\ x.route = c /\ x.engine = s.engine /\ x.mail = s.mail
          /\ x.slot = s.slot /\ x.exiting = s.exiting /\ x.fg = s.fg /\ x.adapter = s.adapter
      BY <1>3, <2>2, <2>3 DEF Player, Carries, MovedOn
    <2>5. u = FinishLandedPlay(x, e.good, e)
      BY <1>6, <2>1
    <2> HIDE DEF x
    <2>6. Beside(s, x)
      BY <2>3, <2>4 DEF Beside, Untouched
    <2>7. Good(x)
      BY <1>3, <2>6, BesideGood
    <2>8. Moves(x, u) /\ u.fg = x.fg
      BY <2>4, <2>5, <2>7, FinishLandedPlayMoves
    <2>9. Moves(s, u)
      BY <1>3, <2>6, <2>8, BesideMoves
    <2> QED
      BY <1>1, <2>4, <2>8, <2>9, BesideMoves
  <1> QED
    BY <1>2, <1>4, <1>5, <1>6

------------------------------------------------------------------------------
(* The pump: the one place where a Load's result is taken.                  *)

\* The inbox has been read: the route took the installed Engine's own result
\* or none.
Drained(w, v) ==
    /\ v \in Player /\ Good(v) /\ v.exiting = w.exiting /\ v.fg = w.fg
    /\ v.engine = w.engine /\ v.slot = w.slot /\ v.adapter = w.adapter
    /\ v.route.last # w.route.last =>
          /\ v.route.last.attempt = w.engine.attempt
          /\ v.route.last.ok = (w.engine.call = "ok")

\* Draining the inbox takes the result of the installed Engine's Load, and no other.
LEMMA DrainDrained ==
    ASSUME NEW w \in Player, Good(w), Live(w)
    PROVE  Drained(w, DrainLoadOutcomes(w))
  <1> DEFINE n == w.engine
             own == {m \in w.mail : m.attempt = n.attempt}
             answer == CHOOSE m \in own : TRUE
             c == IF own = {} THEN w.route
                  ELSE SettleRouteStart(w.route, n.serial, n.attempt, answer.ok)
             v == [w EXCEPT !.mail = {}, !.route = c]
  <1>1. DrainLoadOutcomes(w) = v
    BY DEF DrainLoadOutcomes
  <1>2. own # {} => answer \in own
    OBVIOUS
  <1>3. w.mail \in SUBSET Post /\ n.serial \in Nat /\ n.attempt \in Nat /\ n.attempt # 0
    BY PlayerFacts, NativeFacts DEF Live
  <1>4. own # {} => answer.ok \in BOOLEAN /\ answer.ok = (n.call = "ok")
    BY <1>2, <1>3 DEF Post, Good, PostInv
  <1> HIDE DEF answer, own
  <1>5. w.route \in Route /\ Issued(w.route)
    BY GoodIssued
  <1>6. /\ c \in Route /\ Issued(c) /\ c.serials = w.route.serials /\ c.attempts = w.route.attempts
        /\ c.last # w.route.last =>
             c.last = [serial |-> n.serial, attempt |-> n.attempt, ok |-> answer.ok]
               /\ own # {}
    BY <1>3, <1>4, <1>5, SettleMovesOn
  <1>7. c.last # w.route.last => c.last.attempt = n.attempt /\ c.last.ok = (n.call = "ok")
    BY <1>4, <1>6
  <1> HIDE DEF c
  <1>8. v \in Player /\ v.route = c /\ v.engine = w.engine /\ v.mail = {}
        /\ v.slot = w.slot /\ v.exiting = w.exiting /\ v.fg = w.fg /\ v.adapter = w.adapter
    BY <1>6 DEF Player
  <1> HIDE DEF v
  <1>9. ObjectInv(v) /\ PostInv(v) /\ QueueInv(v)
    BY <1>6, <1>8 DEF Good, ObjectInv, PostInv, QueueInv
  <1>10. Drained(w, v)
    BY <1>7, <1>8, <1>9 DEF Drained, Good
  <1> QED
    BY <1>1, <1>10

Pumped(w, u) == Ends(w, u) \/ \E v : Drained(w, v) /\ Ends(v, u)

\* A failed Engine is let go of, and with it the clock that was pressed.
LEMMA LetGoDeadEnds ==
    ASSUME NEW w \in Player, Good(w), NEW e \in Chance
    PROVE  Ends(w, LetGoDead(w, e))
  <1> DEFINE c == ClockOf(w.session.paused)
             x == [w EXCEPT !.wish = c]
             v == LetGoDead(w, e)
  <1>1. c \in Clocks
    BY DEF ClockOf, Clocks
  <1>2. v = Teardown(x, TRUE, e)
    BY DEF LetGoDead
  <1> HIDE DEF c
  <1>3. Aside(w, x) /\ x.fg = w.fg
    BY <1>1, SetWish
  <1> HIDE DEF x
  <1>4. x \in Player /\ Good(x) /\ Beside(w, x) /\ Ends(w, x)
    BY <1>3, AsideBeside, AsideEnds DEF Aside
  <1>5. Ends(x, v)
    BY <1>2, <1>4, TeardownEnds
  <1> QED
    BY <1>4, <1>5, EndsTrans

\* The pump of a frame drains, times out or fails the Engine.
LEMMA PumpPumped ==
    ASSUME NEW w \in Player, Good(w), Live(w), NEW e \in Chance
    PROVE  Pumped(w, Pump(w, e))
  <1> DEFINE v == DrainLoadOutcomes(w)
             c == FailCurrentEngine(v.route)
             u == Pump(w, e)
  <1>1. Drained(w, v)
    BY DrainDrained
  <1>2. u = LetGoDead(w, e) \/ u = v \/ u = Retire(v, e) \/ u = [v EXCEPT !.route = c]
    BY DEF Pump
  <1> HIDE DEF v
  <1>3. v \in Player /\ Good(v)
    BY <1>1 DEF Drained
  <1>4. Ends(w, LetGoDead(w, e))
    BY LetGoDeadEnds
  <1>5. Ends(v, v) /\ Ends(v, Retire(v, e))
    BY <1>3, SelfEnds, RetireEnds
  <1>6. Ends(v, [v EXCEPT !.route = c])
    <2>1. Carries(v.route, c)
      BY <1>3, GoodIssued, FailCarries
    <2> HIDE DEF c
    <2>2. Beside(v, [v EXCEPT !.route = c]) /\ [v EXCEPT !.route = c].fg = v.fg
      BY <1>3, <2>1, RouteBeside
    <2> QED
      BY <1>3, <2>2, AsideEnds
  <1>7. Ends(w, u) \/ Ends(v, u)
    <2> HIDE DEF u
    <2>1. CASE u = LetGoDead(w, e)
      BY <1>4, <2>1
    <2>2. CASE u = v \/ u = Retire(v, e)
      BY <1>5, <2>2
    <2>3. CASE u = [v EXCEPT !.route = c]
      BY <1>6, <2>3
    <2> QED
      BY <1>2, <2>1, <2>2, <2>3
  <1> HIDE DEF u
  <1>8. Pumped(w, u)
    BY <1>1, <1>7 DEF Pumped
  <1> QED
    BY <1>8 DEF u

==============================================================================
