------------------------------- MODULE ViewSync -------------------------------
(***************************************************************************)
(* The reads that race the view-state writes: the page reads of the        *)
(* stores, stamped by the ledger and patched when they land, and the       *)
(* read-back worker (data/src/stores/viewreconcile.rs) that asks a server  *)
(* what it says about the items just written or just played.               *)
(*                                                                         *)
(* Extends ViewState: its steps are taken with the reads unchanged, except *)
(* the reset, which drops both.                                            *)
(***************************************************************************)
EXTENDS ViewState

CONSTANTS
    MaxReads,     \* bound: page reads requested
    MaxStops,     \* bound: playbacks that stopped
    MaxUnread,    \* bound: read-backs a server does not answer
    MaxHints      \* bound: re-reads a notification or an uncovered page asks for

ASSUME ViewSyncAssumption ==
    /\ {MaxReads, MaxStops, MaxUnread, MaxHints} \subseteq Nat
    /\ IsFiniteSet(Items) /\ IsFiniteSet(Servers)
    /\ \A i \in Items : SeasonOf[i] # NoItem => ServerOf[SeasonOf[i]] = ServerOf[i]

VARIABLES
    rc,       \* ViewReconcileStore
    readers,  \* the read workers that are running
    rmail,    \* the landings in the store's current adapter
    page,     \* the one page read in flight, of whichever store
    play,     \* the playback in progress, until its stop has been landed
    used      \* what has been spent of the bounds above

syncVars == <<rc, readers, rmail, page, play, used>>

vars == <<vsVars, syncVars>>

------------------------------------------------------------------------------
(* A page read: Search, Browse, Hubs, Person, Collection and Detail alike   *)
(* stamp the request and patch the landing.                                 *)

NoPage == [state |-> "none"]

PageRequest ==
    /\ page = NoPage
    /\ switch = "seated"
    /\ used.reads < MaxReads
    /\ used' = [used EXCEPT !.reads = @ + 1]
    /\ page' = [state |-> "out", stamp |-> Stamp(vs.ledger), from |-> token]
    /\ UNCHANGED <<vsVars, rc, readers, rmail, play>>

\* The user a server's client speaks for now.
Bearer(i) == token[ServerOf[i]].user

\* The server answers from what it holds at that moment.
PageAnswer ==
    /\ page.state = "out"
    /\ page' = [state |-> "answered", stamp |-> page.stamp, from |-> page.from,
                rows |-> [i \in Items |-> ServerSays(Bearer(i), i)],
                deck |-> {i \in Items : i \in truth[Bearer(i)].deck}]
    /\ UNCHANGED <<vsVars, rc, readers, rmail, play, used>>

\* ViewLedger::patch on the rows, and the deck's own walk of `since`.
PatchRows(p) == [i \in Items |-> Patch(vs.ledger, p.stamp, i, p.rows[i])]

PatchDeck(p) == {i \in p.deck : ~\E e \in Since(vs.ledger, p.stamp) :
                                   e.edit.kind = "LeftDeck" /\ e.at.item = i}

\* The answer of a client re-tokened since the request is dropped
\* (commit_reachability_if_current).
Current(i) == page.from[ServerOf[i]].key = token[ServerOf[i]].key

PageLand ==
    /\ page.state = "answered"
    /\ screen' = [i \in Items |-> IF Current(i) THEN PatchRows(page)[i] ELSE screen[i]]
    /\ deck' = {i \in Items : i \in IF Current(i) THEN PatchDeck(page) ELSE deck}
    /\ page' = NoPage
    /\ UNCHANGED <<vs, adapter, mail, workers, token, profile, switch, truth, log,
                   seats, refused, failed, rc, readers, rmail, play, used>>

------------------------------------------------------------------------------
(* The read-back queue.  One read in flight per server; an item asked for   *)
(* while its read is out is dirty and read once more when that lands.       *)

EmptyReconcile ==
    [pending |-> {}, pending_parents |-> {}, flights |-> {}, dirty |-> {},
     candidates |-> {}, landed |-> {}, quiet |-> {}, retry_cd |-> 0, next_id |-> 1]

IsOut(r, i) == \E f \in r.flights : i \in f.keys

Enqueue(r, keys) ==
    [r EXCEPT !.quiet   = @ \ keys,
              !.dirty   = @ \cup {i \in keys : IsOut(r, i)},
              !.pending = @ \cup {i \in keys : ~IsOut(r, i)}]

\* Quiet: nobody else had asked, so its landing owes no Detail page.
EnqueueReread(r, keys) ==
    LET fresh == {i \in keys : ~IsOut(r, i)
                     /\ i \notin r.pending \cup r.pending_parents \cup r.dirty}
        e     == Enqueue(r, keys)
    IN  [e EXCEPT !.quiet = @ \cup fresh]

\* A candidate remembers the newest stop: only a read sent after it decides.
EnqueueStop(r, i, was_watched) ==
    LET c == IF was_watched THEN r.candidates
             ELSE {k \in r.candidates : k.item # i} \cup {[item |-> i, born |-> r.next_id]}
    IN  Enqueue([r EXCEPT !.candidates = c], {i})

OwePage(r, keys) == [r EXCEPT !.landed = @ \cup keys]

\* Fault: presses made since the read was sent are ignored.
NeverOvertaken(f, i) == FALSE

\* A read describes the server from before every press made since it was sent.
Overtaken(f, i) == Replayed(vs.ledger, f.stamp, i, "Watched") # {}

\* What one answered read brings: the rows no newer press covers.
Rows(f, m) == {i \in f.keys \cap DOMAIN m.rows : ~Overtaken(f, i)}

\* Fault: the season is read again, the show is not.
SeasonOnly(i) == {SeasonOf[i]} \ {NoItem}

Parents(i) == {ShowOf[i], SeasonOf[i]} \ {NoItem}

\* The answer of flight f lands in r.  (A parent named by a quiet leaf and by
\* another one takes the mark of whichever the server listed first; quiet here.)
LandRead(r, f, m) ==
    LET rows    == Rows(f, m)
        hush    == r.quiet \cap f.keys
        ups(i)  == Parents(i) \ (f.keys \cup r.pending \cup r.pending_parents)
        leaves  == rows \ f.parents
        again   == r.dirty \cap f.keys
    IN  [r EXCEPT
          !.flights    = @ \ {f},
          !.quiet      = (@ \ hush) \cup UNION {ups(i) : i \in leaves \cap hush},
          !.pending_parents = @ \cup UNION {ups(i) : i \in leaves},
          !.candidates = {k \in @ : k.born > f.id \/ k.item \notin f.keys},
          !.landed     = @ \cup (rows \ hush),
          !.dirty      = @ \ again,
          !.pending    = @ \cup again]

\* The candidates this read settles as watched.
WatchedEnds(r, f, m) ==
    {i \in Rows(f, m) : m.rows[i] /\ \E k \in r.candidates : k.item = i /\ k.born <= f.id}

\* Fault: the flight of a read that was never started stays in the list.
RequeueKeepsFlight(r, f) ==
    [r EXCEPT !.pending  = @ \cup f.keys,
              !.dirty    = @ \ f.keys,
              !.retry_cd = RetryFrames]

\* A read that was never started: its items wait, a parent nobody asked for
\* again stays a parent.
RequeueUnstarted(r, f) ==
    LET again   == r.dirty \cap f.keys
        pending == r.pending \cup (f.keys \ f.parents)
        rest    == f.parents \ (pending \cup r.pending_parents)
    IN  [r EXCEPT !.flights         = @ \ {f},
                  !.dirty           = @ \ again,
                  !.pending         = pending \cup (rest \cap again),
                  !.pending_parents = @ \cup (rest \ again),
                  !.retry_cd        = RetryFrames]

------------------------------------------------------------------------------
(* kick: one batch per server that has something pending and nothing out.   *)

KickServers(r) ==
    {s \in Servers : /\ \E i \in r.pending \cup r.pending_parents : ServerOf[i] = s
                     /\ \A f \in r.flights : f.server # s}

\* The stamp is taken here, when the batch leaves, not when an item was queued.
Batch(r, s) ==
    LET of(S) == {i \in S : ServerOf[i] = s}
    IN  [id |-> r.next_id, server |-> s, stamp |-> Stamp(vs.ledger),
         keys    |-> of(r.pending) \cup of(r.pending_parents),
         parents |-> of(r.pending_parents) \ of(r.pending)]

\* A slot with no client drops its items.
SendBatch(s, r) ==
    LET f == Batch(r, s)
        q == [r EXCEPT !.pending = @ \ f.keys, !.pending_parents = @ \ f.keys]
    IN  IF token[s].key = 0 THEN q
        ELSE [q EXCEPT !.flights = @ \cup {f}, !.next_id = @ + 1]

\* Fault: a frame too many is waited, and the wait is spent below zero.
KickReadsBelowZero(r, may_send) ==
    IF ~may_send THEN r
    ELSE IF r.retry_cd >= 0 THEN [r EXCEPT !.retry_cd = @ - 1]
    ELSE FoldSet(SendBatch, r, KickServers(r))

KickReads(r, may_send) ==
    IF ~may_send THEN r
    ELSE IF r.retry_cd > 0 THEN [r EXCEPT !.retry_cd = @ - 1]
    ELSE FoldSet(SendBatch, r, KickServers(r))

\* The runner starts each read the step sent, or refuses it in the same call.
StartReads(before, after) ==
    LET new == {f \in after.flights : f.id >= before.next_id}
    IN  \E no \in SUBSET new :
          /\ used.unstarted + Cardinality(no) <= MaxRefusals
          /\ used' = [used EXCEPT !.unstarted = @ + Cardinality(no)]
          /\ readers' = readers \cup {[id |-> f.id, port |-> adapter, keys |-> f.keys] :
                                         f \in new \ no}
          /\ rmail' = {[id |-> f.id, outcome |-> "NotStarted", rows |-> <<>>] : f \in no}

------------------------------------------------------------------------------
(* Stores::reconcile_pump, once a frame after the write pump.               *)

\* A landing that names no flight is ignored.
Answering == {m \in rmail : \E f \in rc.flights : f.id = m.id}

FlightOf(m) == CHOOSE f \in rc.flights : f.id = m.id

Landing(m, r) ==
    IF m.outcome = "NotStarted" THEN RequeueUnstarted(r, FlightOf(m))
    ELSE LandRead(r, FlightOf(m), m)

\* The rows one answer publishes, each with what its server said.
Facts(m) ==
    IF m.outcome # "Read" THEN {}
    ELSE {[item |-> i, on |-> m.rows[i]] : i \in Rows(FlightOf(m), m)}

Published == UNION {Facts(m) : m \in Answering}

PublishFacts(rows) ==
    [i \in DOMAIN rows |->
        IF \E p \in Published : p.item = i
        THEN (CHOOSE p \in Published : p.item = i).on ELSE rows[i]]

\* take_reread hands the owed items over only when no write is queued or out.
TakeReread(v) == IF Busy(v) THEN {} ELSE v.want_reread

\* Fault: a read is sent while a write is queued or out.
MaySendUnderWrites == ~vs.hold_refresh

\* No read is sent while a write is queued or out, nor under the player.
MaySend == ~Busy(vs) /\ ~vs.hold_refresh

\* A stream the read-back saw ended is made watched on the other copies.
Fan(i, v) == FanOutOriginWatched(v, i)

\* Hand over what is owed, land, send, fan out the streams that ended.
ReconcilePump ==
    LET owed == Enqueue(rc, TakeReread(vs))
        v    == [vs EXCEPT !.want_reread = @ \ TakeReread(vs)]
        ends == UNION {WatchedEnds(owed, FlightOf(m), m) :
                          m \in {n \in Answering : n.outcome = "Read"}}
    IN  /\ rc' = KickReads(FoldSet(Landing, owed, Answering), MaySend)
        /\ screen' = PublishFacts(screen)
        /\ vs' = FoldSet(Fan, v, ends)
        /\ StartReads(rc, rc')
        /\ StartJobs(vs, vs', mail)
        /\ UNCHANGED <<adapter, token, profile, switch, deck, truth, log, seats, failed,
                       page, play>>

\* finish_reconcile_job: the rows as the server holds them now, or no answer.
ReadAnswer(k, answered) ==
    /\ readers' = readers \ {k}
    /\ answered \/ used.unread < MaxUnread
    /\ used' = IF answered THEN used ELSE [used EXCEPT !.unread = @ + 1]
    /\ rmail' = IF k.port # adapter THEN rmail
                ELSE rmail \cup {[id |-> k.id, outcome |-> "Read",
                        rows |-> IF answered THEN [i \in k.keys |-> ServerSays(Bearer(i), i)]
                                 ELSE <<>>]}
    /\ UNCHANGED <<vs, adapter, mail, workers, token, profile, switch, screen, deck, truth,
                   log, seats, refused, failed, rc, page, play>>

------------------------------------------------------------------------------
(* What else owes a read: a notification or an uncovered page (quiet), the  *)
(* visible Detail page, and a playback that stopped.                        *)

Hint(i, quiet) ==
    /\ used.hints < MaxHints
    /\ switch = "seated"
    /\ used' = [used EXCEPT !.hints = @ + 1]
    /\ rc' = IF quiet THEN EnqueueReread(rc, {i}) ELSE Enqueue(rc, {i})
    /\ UNCHANGED <<vsVars, readers, rmail, page, play>>

NotPlaying == [state |-> "none"]

PlayStart(i) ==
    /\ play = NotPlaying
    /\ switch = "seated"
    /\ used.stops < MaxStops
    /\ used' = [used EXCEPT !.stops = @ + 1]
    /\ play' = [state |-> "playing", item |-> i, was_watched |-> truth[SeatedUser].watched[i],
                ok |-> FALSE]
    /\ UNCHANGED <<vsVars, rc, readers, rmail, page>>

\* The `stopped` POST reaches the server or is lost; at the end of the stream
\* the server marks the item watched by itself.
PlayStop(ok, ended) ==
    /\ play.state = "playing"
    /\ ended => ok
    /\ truth' = IF ended THEN Applied(SeatedUser, play.item, "Watched") ELSE truth
    /\ play' = [play EXCEPT !.state = "stopped", !.ok = ok]
    /\ UNCHANGED <<vs, adapter, mail, workers, token, profile, switch, screen, deck, log,
                   seats, refused, failed, rc, readers, rmail, page, used>>

\* Stores::stops_landed; the resume point it patches is not modelled.
StopLanded ==
    /\ play.state = "stopped"
    /\ rc' = IF play.ok THEN EnqueueStop(rc, play.item, play.was_watched)
             ELSE OwePage(rc, {play.item})
    /\ play' = NotPlaying
    /\ UNCHANGED <<vsVars, readers, rmail, page, used>>

\* The application takes the rows whose Detail pages it re-reads.
TakeLanded ==
    /\ rc.landed # {}
    /\ rc' = [rc EXCEPT !.landed = {}]
    /\ UNCHANGED <<vsVars, readers, rmail, page, play, used>>

\* ViewReconcileStore::reset, in the same command as ViewState's; the pending
\* stop is retired and the stores' reads are superseded.
ResetReads ==
    /\ rc' = [EmptyReconcile EXCEPT !.next_id = rc.next_id]
    /\ rmail' = {}
    /\ page' = NoPage
    /\ play' = NotPlaying
    /\ UNCHANGED <<readers, used>>

------------------------------------------------------------------------------
Init ==
    /\ vsInit
    /\ rc = EmptyReconcile
    /\ readers = {}
    /\ rmail = {}
    /\ page = NoPage
    /\ play = NotPlaying
    /\ used = [reads |-> 0, stops |-> 0, hints |-> 0, unstarted |-> 0, unread |-> 0]

\* The steps of ViewState that leave the reads alone.
WriteStep ==
    \/ \E i \in Pressable, w \in Writes : Press(i, w)
    \/ ViewStatePump
    \/ \E on \in Routes : HoldNetwork(on)
    \/ \E u \in Users : SwapTokens(u)
    \/ PublishProfile
    \/ \E s \in Servers : RefreshToken(s)
    \/ \E k \in workers : WorkerStep(k)

SyncNext ==
    \/ WriteStep /\ UNCHANGED syncVars
    \/ Reset /\ ResetReads
    \/ PageRequest \/ PageAnswer \/ PageLand
    \/ ReconcilePump
    \/ \E k \in readers, answered \in BOOLEAN : ReadAnswer(k, answered)
    \/ \E i \in Items, quiet \in BOOLEAN : Hint(i, quiet)
    \/ \E i \in Leaves : PlayStart(i)
    \/ \E ok, ended \in BOOLEAN : PlayStop(ok, ended)
    \/ StopLanded
    \/ TakeLanded

\* Frames come, started workers answer, pages that were asked for land, a
\* playback stops and a profile switch that began is finished.
SyncFairness ==
    /\ WF_vars(ViewStatePump /\ UNCHANGED syncVars)
    /\ WF_vars(ReconcilePump)
    /\ WF_vars((\E k \in workers : WorkerStep(k)) /\ UNCHANGED syncVars)
    /\ WF_vars(\E k \in readers, answered \in BOOLEAN : ReadAnswer(k, answered))
    /\ WF_vars(PageAnswer \/ PageLand)
    /\ WF_vars((\E ok, ended \in BOOLEAN : PlayStop(ok, ended)) \/ StopLanded)
    /\ WF_vars((PublishProfile /\ UNCHANGED syncVars) \/ (Reset /\ ResetReads))

SyncSpec == Init /\ [][SyncNext]_vars /\ SyncFairness

------------------------------------------------------------------------------
(* Properties of the races.                                                 *)

Flight == [id : Nat \ {0}, server : Servers, stamp : Nat, keys : SUBSET Items,
           parents : SUBSET Items]

Reconcile ==
    [pending : SUBSET Items, pending_parents : SUBSET Items, flights : SUBSET Flight,
     dirty : SUBSET Items, candidates : SUBSET [item : Items, born : Nat \ {0}],
     landed : SUBSET Items, quiet : SUBSET Items, retry_cd : 0..RetryFrames,
     next_id : Nat \ {0}]

\* The state of the reads is what the code's types allow.
SyncTypeOK ==
    /\ rc \in Reconcile
    /\ readers \subseteq [id : Nat \ {0}, port : Nat, keys : SUBSET Items]
    /\ \A m \in rmail : m.outcome \in {"NotStarted", "Read"} /\ DOMAIN m.rows \subseteq Items
    /\ page.state \in {"none", "out", "answered"}
    /\ play.state \in {"none", "playing", "stopped"}
    /\ used \in [{"reads", "stops", "hints", "unstarted", "unread"} -> Nat]

\* "One read in flight per item, plus a dirty flag": a server has one read out,
\* that read is either running or answered and never both, an item that is out
\* waits as dirty and not as pending, and a dirty mark never outlives the read
\* whose landing spends it, through refused launches, lost answers and resets.
ReadsTracked ==
    /\ \A f, g \in rc.flights : f.server = g.server => f = g
    /\ \A f \in rc.flights :
          (\E k \in readers : k.port = adapter /\ k.id = f.id) # (\E m \in rmail : m.id = f.id)
    /\ rc.dirty \subseteq UNION {f.keys : f \in rc.flights}
    /\ \A f \in rc.flights : f.keys \cap (rc.pending \cup rc.pending_parents) = {}

\* Nothing is queued, out, running, owed or in flight anywhere.
Quiet ==
    /\ Settled /\ vs.want_reread = {}
    /\ rc.pending \cup rc.pending_parents \cup rc.dirty = {}
    /\ rc.flights = {} /\ readers = {} /\ rmail = {}
    /\ page = NoPage /\ play = NotPlaying

\* The read-back settles what the press only assumed: when everything is quiet
\* every film or episode row a store holds draws what its server says, whatever
\* reads and writes overtook one another on the way.  (A page read slower than a
\* write whose answer is lost, or than the end of a playback, is not told of it:
\* neither is in the ledger when the page lands.)
ScreenAgrees == Quiet => \A i \in Leaves : screen[i] = ServerSays(SeatedUser, i)

\* ... and so does the row of its season and of its show, which no press edits:
\* the leaf's answer names its parents, and they are read in one more batch.
ParentsAgree ==
    Quiet => \A i \in Items \ Leaves : screen[i] = ServerSays(SeatedUser, i)

\* The presses not yet answered, and the rows they cover.
Unanswered(i) ==
    \E r \in Outstanding : /\ Propagates(r.w) /\ ~r.origin_done
                           /\ Covers([item |-> r.item, scope |-> r.scope], i)

\* "A result older than a press is dropped": landing a read-back never moves a
\* row that a press still waiting for its server's answer covers.
ReadBackKeepsPress ==
    [][ReconcilePump => \A i \in DOMAIN screen : Unanswered(i) => screen'[i] = screen[i]]_vars

\* "a watched/unwatched pair could then settle differently per server, which is
\* the one thing this whole feature exists to stop": with every server answering,
\* the copies of a title agree once everything is quiet.
CopiesAgree ==
    Quiet /\ failed = 0 => \A i \in Leaves : \A c \in Copies(i) :
        truth[SeatedUser].watched[i] = truth[SeatedUser].watched[c]

\* Every race ends: once the player has been left for good, no read and no
\* write keeps another one waiting for ever, and no owed read-back is forgotten.
BecomesQuiet ==
    <>[](~vs.hold_refresh) =>
        <>[](/\ Settled /\ vs.want_reread = {} /\ rc.flights = {}
             /\ rc.pending \cup rc.pending_parents \cup rc.dirty = {})
==============================================================================
