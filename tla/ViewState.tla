------------------------------ MODULE ViewState -------------------------------
(***************************************************************************)
(* The view-state writes (data/src/viewstate.rs): Mark as Watched, Mark as *)
(* Unwatched and Remove from Continue Watching, pressed on the main        *)
(* thread, queued, sent one at a time to a worker, answered through a      *)
(* one-slot mailbox, and repeated by the worker on the other copies of the *)
(* title.                                                                  *)
(*                                                                         *)
(* Actors: the main thread (Press, ViewStatePump, the reset of a profile   *)
(* switch), the workers (one per job the runner started; a job outlives    *)
(* the reset that forgot it) and the servers, whose answers may be a       *)
(* refusal, or a success the client never hears of.                        *)
(***************************************************************************)
EXTENDS ViewLedger, Sequences, FiniteSetsExt

CONSTANTS
    Servers, ServerOf,  \* the registered slots, and each item's own
    Title,              \* the portable guid: items with one title are copies
    ScopeOf,            \* Scope::of_row of the row a press acts on
    Users,              \* household members a credential may speak for
    Pressable,          \* the rows a press acts on in this instance
    Writes,             \* the Write variants in play
    MaxPress,           \* bound: request ids minted
    MaxRefusals,        \* bound: launches the runner refuses
    MaxFailures,        \* bound: writes a server refuses or answers in vain
    MaxSwitches,        \* bound: profile switches and token refreshes
    Routes,             \* is the player the page on top? the answers in play
    RetryFrames         \* RETRY_FRAMES, shortened

AllWrites == {"Watched", "Unwatched", "RemoveFromDeck"}

ASSUME ViewStateAssumption ==
    /\ Servers # {}
    /\ ServerOf \in [Items -> Servers]
    /\ ScopeOf \in [Items -> Scopes]
    /\ DOMAIN Title = Items
    /\ Pressable \subseteq Items
    /\ Writes \subseteq AllWrites
    /\ Routes \subseteq BOOLEAN
    /\ {MaxPress, MaxRefusals, MaxFailures, MaxSwitches} \subseteq Nat
    /\ RetryFrames \in Nat \ {0}
    /\ \A i \in Items : ShowOf[i] # NoItem => ServerOf[ShowOf[i]] = ServerOf[i]

VARIABLES
    vs,        \* ViewStateState: ledger, queue, sent, retry_cd, want_*, next_id
    adapter,   \* which ViewStateAdapter the owner holds (rotated by a reset)
    mail,      \* the one-slot mailbox of that adapter
    workers,   \* the write workers that are running
    token,     \* the registry: per server the credential's number and its user
    profile,   \* Bridge::profile_scope, the published seat's generation
    switch,    \* how far a profile switch has got
    screen,    \* the rows the stores hold: the watched flag each one draws
    deck,      \* the rows on the Continue Watching shelf as drawn
    truth,     \* what the servers hold, per user: watched leaves and deck
    log,       \* history: every write a server applied, in order
    seats,     \* history: the user each profile generation seated
    refused,   \* launches refused so far (bounded by MaxRefusals)
    failed     \* server failures so far (bounded by MaxFailures)

vsVars == <<vs, adapter, mail, workers, token, profile, switch, screen, deck,
            truth, log, seats, refused, failed>>

------------------------------------------------------------------------------
(* Writes, requests, completions.                                           *)

Family(w) == IF w = "RemoveFromDeck" THEN 1 ELSE 0

Propagates(w) == w \in {"Watched", "Unwatched"}

EditOf(w) == IF w = "RemoveFromDeck" THEN LeftDeck ELSE Watched(w = "Watched")

Req == [id : Nat, seq : Nat, item : Items, key : Nat, profile : Nat,
        w : AllWrites, scope : Scopes, origin_done : BOOLEAN]

\* `sent: None`; ids are minted from 1, so no request carries this one.
NoReq == [id |-> 0]

\* `mail: None`.
NoMail == [id |-> 0]

NotStarted(id) == [id |-> id, outcome |-> "NotStarted", ok |-> FALSE, also |-> <<>>]

Written(id, ok, also) == [id |-> id, outcome |-> "Written", ok |-> ok, also |-> also]

\* A row's own items: a container's watched state is its leaves'.
IsLeaf(i) == \A r \in Items : ShowOf[r] # i /\ SeasonOf[r] # i

Leaves == {i \in Items : IsLeaf(i)}

LeavesOf(i) == {r \in Leaves : i \in {r, ShowOf[r], SeasonOf[r]}}

\* The row the server describes (parse_item: viewedLeafCount >= leafCount).
ServerSays(u, i) == \A r \in LeavesOf(i) : truth[u].watched[r]

Copies(i) == {c \in Items \ {i} : Title[c] = Title[i]}

Busy(v) == v.queue # <<>> \/ v.sent # NoReq

SeatedUser == seats[profile]

------------------------------------------------------------------------------
(* publish_view: edit the rows the stores hold, synchronously.              *)

PublishRows(rows, ats, edit) ==
    IF edit.kind # "Watched" THEN rows
    ELSE [r \in DOMAIN rows |->
             IF \E at \in ats : Covers(at, r) THEN edit.on ELSE rows[r]]

\* Only a deck removal touches a deck's membership.
PublishDeck(d, ats, edit) ==
    IF edit.kind = "LeftDeck" THEN {r \in d : ~\E at \in ats : at.item = r} ELSE d

Publish(ats, edit) ==
    /\ screen' = PublishRows(screen, ats, edit)
    /\ deck' = PublishDeck(deck, ats, edit)

------------------------------------------------------------------------------
(* The queue.                                                               *)

\* Fault: the profile is compared, the credential is not.
AdmitAnyKey(r) == r.profile = profile /\ token[ServerOf[r.item]].key # 0

\* admit: pressed under this profile, through the client the slot still holds.
Admit(r) ==
    /\ r.profile = profile
    /\ token[ServerOf[r.item]].key # 0
    /\ r.key = token[ServerOf[r.item]].key

\* The elements of q at the positions K, in their order.
Kept(q, K) ==
    LET n   == Cardinality(K)
        pos == CHOOSE f \in [1..n -> K] : \A i, j \in 1..n : i < j => f[i] < f[j]
    IN  [i \in 1..n |-> q[pos[i]]]

\* A queued write of the same item and toggle is superseded; the one that is
\* out is not.
Coalesce(queue, item, w) ==
    Kept(queue, {k \in DOMAIN queue :
                     ~(queue[k].item = item /\ Family(queue[k].w) = Family(w))})

\* Fault: the next write is sent although one is out.
KickWhileOut(v) ==
    IF v.retry_cd > 0 \/ v.queue = <<>> THEN v
    ELSE [v EXCEPT !.queue = Tail(@), !.sent = Head(v.queue)]

\* kick: nothing out and no retry wait; the inadmissible heads are dropped and
\* their ledger entries retired.
Kick(v) ==
    IF v.sent # NoReq \/ v.retry_cd > 0 THEN v
    ELSE LET may  == {k \in DOMAIN v.queue : Admit(v.queue[k])}
             n    == IF may = {} THEN Len(v.queue) + 1 ELSE Min(may)
         IN  [v EXCEPT !.ledger = Retire(@, {v.queue[k].seq : k \in 1..(n - 1)}),
                       !.queue  = SubSeq(@, n + 1, Len(@)),
                       !.sent   = IF may = {} THEN NoReq ELSE v.queue[n]]

\* Fault: the entry of a launch that will be retried is retired.
RestartRetires(v) ==
    IF Admit(v.sent)
    THEN [v EXCEPT !.queue = <<v.sent>> \o @, !.sent = NoReq, !.retry_cd = RetryFrames,
                   !.ledger = Retire(@, {v.sent.seq})]
    ELSE [v EXCEPT !.ledger = Retire(@, {v.sent.seq}), !.sent = NoReq]

\* restart_refused: judged again, then back to the HEAD behind the retry wait.
RestartRefused(v) ==
    IF Admit(v.sent)
    THEN [v EXCEPT !.queue = <<v.sent>> \o @, !.sent = NoReq, !.retry_cd = RetryFrames]
    ELSE [v EXCEPT !.ledger = Retire(@, {v.sent.seq}), !.sent = NoReq]

\* A copy keeps a show's scope but never a season's (the parent key is the
\* origin server's).
CopyScope(scope) == IF scope \in {"Show", "Leaf"} THEN scope ELSE "Unknown"

CopyAts(r, also) == {[item |-> also[k], scope |-> CopyScope(r.scope)] : k \in DOMAIN also}

\* Record once per copy, in the order the worker reported them.
RecordCopies(t, r, also) ==
    LET at(k) == [item |-> also[k], scope |-> CopyScope(r.scope)]
        edit  == EditOf(r.w)
    IN  [seq     |-> t.seq + Len(also),
         entries |-> {e \in t.entries : ~\E k \in DOMAIN also : SameKind(e, at(k), edit)}
                        \cup {[seq |-> t.seq + k, at |-> at(k), edit |-> edit] :
                                  k \in DOMAIN also}]

\* Fault: only a write the server took is read back.
LandRereadsTaken(v, m) ==
    LET r    == v.sent
        told == IF m.ok THEN Landed(v.ledger, r.seq) ELSE Retire(v.ledger, {r.seq})
    IN  [v EXCEPT !.ledger      = RecordCopies(told, r, m.also),
                  !.sent        = NoReq,
                  !.want_hubs   = TRUE,
                  !.want_reread = IF m.ok /\ Propagates(r.w) THEN @ \cup {r.item} ELSE @]

\* The answer of the write that is out: the ledger learns the outcome, the
\* copies the fan-out reached are recorded, and the read-back is owed.
LandWritten(v, m) ==
    LET r      == v.sent
        told   == IF m.ok THEN Landed(v.ledger, r.seq) ELSE Retire(v.ledger, {r.seq})
        origin == IF r.origin_done THEN {} ELSE {r.item}
        also   == {m.also[k] : k \in DOMAIN m.also}
    IN  [v EXCEPT !.ledger      = RecordCopies(told, r, m.also),
                  !.sent        = NoReq,
                  !.want_hubs   = @ \/ ~(r.origin_done /\ m.also = <<>>),
                  !.want_reread = IF Propagates(r.w) THEN @ \cup origin \cup also ELSE @]

------------------------------------------------------------------------------
(* The runner: every job the step emitted is started, or refused, in the    *)
(* same call (Bridge::start_store_jobs_of, StoreRunner::start_view_write).  *)

Emitted(before, after) == after.sent # NoReq /\ after.sent.id # before.sent.id

NewWorker(r) ==
    [id |-> r.id, port |-> adapter, item |-> r.item, w |-> r.w,
     pc |-> IF r.origin_done THEN "fan_out" ELSE "origin",
     ok |-> r.origin_done, keys |-> [s \in Servers |-> token[s].key],
     todo |-> IF Propagates(r.w) /\ Cardinality(Servers) > 1 THEN Copies(r.item) ELSE {},
     also |-> <<>>]

\* `posted` is the mailbox as the step leaves it.
StartJobs(before, after, posted) ==
    \/ /\ ~Emitted(before, after)
       /\ mail' = posted
       /\ UNCHANGED <<workers, refused>>
    \/ /\ Emitted(before, after)
       /\ workers' = workers \cup {NewWorker(after.sent)}
       /\ mail' = posted
       /\ UNCHANGED refused
    \/ /\ Emitted(before, after)
       /\ refused < MaxRefusals
       /\ refused' = refused + 1
       /\ mail' = NotStarted(after.sent.id)
       /\ UNCHANGED workers

------------------------------------------------------------------------------
(* Main-thread steps.                                                       *)

\* request: optimistic edit, ledger, coalesce, queue, kick.  A slot with no
\* client drops the press before anything changes.
Request(v, i, w) ==
    LET at  == [item |-> i, scope |-> ScopeOf[i]]
        r   == [id |-> v.next_id, seq |-> RecordedSeq(v.ledger), item |-> i,
                key |-> token[ServerOf[i]].key, profile |-> profile, w |-> w,
                scope |-> ScopeOf[i], origin_done |-> FALSE]
    IN  Kick([v EXCEPT !.ledger  = Record(@, at, EditOf(w)),
                       !.queue   = Append(Coalesce(@, i, w), r),
                       !.next_id = @ + 1])

Press(i, w) ==
    /\ vs.next_id <= MaxPress
    /\ switch = "seated"
    /\ i \in DOMAIN screen
    /\ token[ServerOf[i]].key # 0
    /\ vs' = Request(vs, i, w)
    /\ Publish({[item |-> i, scope |-> ScopeOf[i]]}, EditOf(w))
    /\ StartJobs(vs, vs', mail)
    /\ UNCHANGED <<adapter, token, profile, switch, truth, log, seats, failed>>

\* fan_out_origin_watched: the read-back found the stream's end.  Nothing when
\* there is one server, or when the item already has a write queued or out.
FanOutOriginWatched(v, i) ==
    IF \/ token[ServerOf[i]].key = 0
       \/ Cardinality(Servers) < 2
       \/ v.sent # NoReq /\ v.sent.item = i
       \/ \E k \in DOMAIN v.queue : v.queue[k].item = i
    THEN v
    ELSE Kick([v EXCEPT !.queue = Append(@,
                  [id |-> v.next_id, seq |-> 0, item |-> i,
                   key |-> token[ServerOf[i]].key, profile |-> profile,
                   w |-> "Watched", scope |-> "Leaf", origin_done |-> TRUE]),
                        !.next_id = @ + 1])

\* Here the stream's end comes at any time while a profile is seated; in ViewSync
\* the read-back brings it, also between the frames of a profile switch.
EndOfStream(i) ==
    /\ vs.next_id <= MaxPress
    /\ i \in Leaves
    /\ switch = "seated"
    /\ truth[SeatedUser].watched[i]
    /\ vs' = FanOutOriginWatched(vs, i)
    /\ vs' # vs
    /\ StartJobs(vs, vs', mail)
    /\ UNCHANGED <<adapter, token, profile, switch, screen, deck, truth, log, seats, failed>>

\* The completion that answers the write in flight; any other is dropped.
Answers == mail # NoMail /\ vs.sent # NoReq /\ mail.id = vs.sent.id

\* Fault: the wait is spent below zero.
RetryTickBelowZero(v) == [v EXCEPT !.retry_cd = @ - 1]

\* retry_tick spends a frame of the refused-launch wait.
RetryTick(v) == [v EXCEPT !.retry_cd = IF @ > 0 THEN @ - 1 ELSE 0]

RetryDue(v) == v.retry_cd <= 1

Land(v) ==
    IF ~Answers THEN v
    ELSE IF mail.outcome = "NotStarted" THEN RestartRefused(v)
    ELSE LandWritten(v, mail)

\* Fault: the refetch is tried on the landing's own frame only.
RefetchOnLanding(v) == v.want_hubs /\ Answers /\ ~Busy(v) /\ ~v.hold_refresh

\* The terminal hub refetch: one per burst, never under the player.
RefetchDue(v) == v.want_hubs /\ ~Busy(v) /\ ~v.hold_refresh

\* pump_with_gate, once a frame.
Pumped == LET landed == Land(RetryTick(vs))
          IN  IF RetryDue(vs) THEN Kick(landed) ELSE landed

ViewStatePump ==
    /\ LET v == Pumped
       IN  /\ vs' = [v EXCEPT !.want_hubs = @ /\ ~RefetchDue(v)]
           /\ StartJobs(vs, v, NoMail)
    /\ IF Answers /\ mail.outcome = "Written"
       THEN Publish(CopyAts(vs.sent, mail.also), EditOf(vs.sent.w))
       ELSE UNCHANGED <<screen, deck>>
    /\ UNCHANGED <<adapter, token, profile, switch, truth, log, seats, failed>>

\* hold_network: the player is (or is no longer) the page on top.
HoldNetwork(on) ==
    /\ vs.hold_refresh # on
    /\ vs' = [vs EXCEPT !.hold_refresh = on]
    /\ UNCHANGED <<adapter, mail, workers, token, profile, switch, screen, deck,
                   truth, log, seats, refused, failed>>

------------------------------------------------------------------------------
(* A profile switch, in the three frames it takes: the registry's tokens    *)
(* are swapped in place, the new profile is published, the stores are reset.*)

\* Client::set_token gives each client a generation it never had.
Retokened(S, u) ==
    [s \in Servers |->
        IF s \in S THEN [key |-> token[s].key + 1, user |-> u] ELSE token[s]]

SwapTokens(u) ==
    /\ switch = "seated"
    /\ \A s \in Servers : token[s].key <= MaxSwitches
    /\ token' = Retokened(Servers, u)
    /\ switch' = "swapped"
    /\ UNCHANGED <<vs, adapter, mail, workers, profile, screen, deck, truth, log,
                   seats, refused, failed>>

PublishProfile ==
    /\ switch = "swapped"
    /\ profile' = profile + 1
    /\ seats' = Append(seats, token[CHOOSE s \in Servers : TRUE].user)
    /\ switch' = "published"
    /\ UNCHANGED <<vs, adapter, mail, workers, token, screen, deck, truth, log,
                   refused, failed>>

\* Fault: the write that is out survives the rotation of its mailbox.
ResetKeepsSent(v) ==
    [v EXCEPT !.ledger = ResetLedger(@), !.queue = <<>>, !.retry_cd = 0,
              !.want_hubs = FALSE, !.want_reread = {}]

\* ViewStateCmd::Reset: the adapter rotates, the request counter survives.
ResetViewState(v) ==
    [v EXCEPT !.ledger = ResetLedger(@), !.queue = <<>>, !.sent = NoReq,
              !.retry_cd = 0, !.want_hubs = FALSE, !.want_reread = {}]

\* activate_server_owned: the rows go, and the new identity's are read.
Reset ==
    /\ switch = "published"
    /\ vs' = ResetViewState(vs)
    /\ adapter' = adapter + 1
    /\ mail' = NoMail
    /\ screen' = [i \in Items |-> ServerSays(SeatedUser, i)]
    /\ deck' = truth[SeatedUser].deck
    /\ switch' = "seated"
    /\ UNCHANGED <<workers, token, profile, truth, log, seats, refused, failed>>

\* A token refresh of one slot under the same identity.
RefreshToken(s) ==
    /\ switch = "seated"
    /\ \A t \in Servers : token[t].key <= MaxSwitches
    /\ token' = Retokened({s}, token[s].user)
    /\ UNCHANGED <<vs, adapter, mail, workers, profile, switch, screen, deck, truth,
                   log, seats, refused, failed>>

------------------------------------------------------------------------------
(* finish_view_write_job, on its own thread.  A request carries the token   *)
(* the client holds when it is built.                                       *)

Applied(u, i, w) ==
    IF w = "RemoveFromDeck"
    THEN [truth EXCEPT ![u].deck = @ \ {i}]
    ELSE [truth EXCEPT ![u].watched =
             [r \in Leaves |-> IF r \in LeavesOf(i) THEN w = "Watched" ELSE @[r]]]

\* One request to i's server: taken, taken with the answer lost, or refused.
Perform(k, i, taken) ==
    LET u == token[ServerOf[i]].user
    IN  IF taken
        THEN /\ truth' = Applied(u, i, k.w)
             /\ log' = Append(log, [id |-> k.id, item |-> i, w |-> k.w, by |-> u,
                                    port |-> k.port, origin |-> i = k.item,
                                    moved |-> token[ServerOf[i]].key # k.keys[ServerOf[i]]])
        ELSE UNCHANGED <<truth, log>>

Becomes(k, next) ==
    /\ workers' = (workers \ {k}) \cup {next}
    /\ UNCHANGED <<vs, adapter, mail, token, profile, switch, screen, deck, seats, refused>>

Counted(ok) == IF ok THEN UNCHANGED failed
               ELSE failed < MaxFailures /\ failed' = failed + 1

WriteOrigin(k, taken, ok) ==
    /\ k.pc = "origin"
    /\ ok => taken
    /\ Perform(k, k.item, taken)
    /\ Counted(ok)
    /\ Becomes(k, [k EXCEPT !.pc = "fan_out", !.ok = ok])

\* A copy is asked for and written only through the snapshot's own client; a
\* source that does not answer, or whose key moved, is passed over.
FanOut(k, c, taken, ok) ==
    /\ k.pc = "fan_out"
    /\ c \in k.todo
    /\ ok => taken
    /\ IF token[ServerOf[c]].key = k.keys[ServerOf[c]]
       THEN Perform(k, c, taken) /\ Counted(ok)
       ELSE ~taken /\ UNCHANGED <<truth, log, failed>>
    /\ Becomes(k, [k EXCEPT !.todo = @ \ {c},
                            !.also = IF ok THEN Append(@, c) ELSE @])

\* The answer is posted to the adapter the job was emitted under; one that has
\* been rotated out is a mailbox nobody reads.
Post(k, ok, also) ==
    /\ workers' = workers \ {k}
    /\ mail' = IF k.port = adapter THEN Written(k.id, ok, also) ELSE mail
    /\ UNCHANGED <<vs, adapter, token, profile, switch, screen, deck, truth, log,
                   seats, refused>>

Finish(k) ==
    /\ k.pc = "fan_out"
    /\ k.todo = {}
    /\ Post(k, k.ok, k.also)
    /\ UNCHANGED failed

\* Fault: a panic is answered as a write that was not started.
PanicNotStarted(k) ==
    /\ failed < MaxFailures
    /\ failed' = failed + 1
    /\ workers' = workers \ {k}
    /\ mail' = IF k.port = adapter THEN NotStarted(k.id) ELSE mail
    /\ UNCHANGED <<vs, adapter, token, profile, switch, screen, deck, truth, log,
                   seats, refused>>

\* catch_unwind: a worker that panics answers a failed write.
Panic(k) ==
    /\ failed < MaxFailures
    /\ failed' = failed + 1
    /\ Post(k, FALSE, <<>>)

WorkerStep(k) ==
    \/ \E taken, ok \in BOOLEAN : WriteOrigin(k, taken, ok)
    \/ \E c \in k.todo, taken, ok \in BOOLEAN : FanOut(k, c, taken, ok)
    \/ Finish(k)
    \/ Panic(k)

------------------------------------------------------------------------------
vsInit ==
    /\ vs = [ledger |-> EmptyLedger, queue |-> <<>>, sent |-> NoReq, retry_cd |-> 0,
             want_hubs |-> FALSE, want_reread |-> {}, next_id |-> 1,
             hold_refresh |-> FALSE]
    /\ adapter = 1
    /\ mail = NoMail
    /\ workers = {}
    /\ \E u \in Users : /\ token = [s \in Servers |-> [key |-> 1, user |-> u]]
                        /\ seats = <<u>>
    /\ profile = 1
    /\ switch = "seated"
    /\ truth = [u \in Users |-> [watched |-> [i \in Leaves |-> FALSE], deck |-> Leaves]]
    /\ screen = [i \in Items |-> FALSE]
    /\ deck = Leaves
    /\ log = <<>>
    /\ refused = 0
    /\ failed = 0

SwitchStep ==
    \/ \E u \in Users : SwapTokens(u)
    \/ PublishProfile
    \/ Reset

Next ==
    \/ \E i \in Pressable, w \in Writes : Press(i, w)
    \/ \E i \in Items : EndOfStream(i)
    \/ ViewStatePump
    \/ \E on \in Routes : HoldNetwork(on)
    \/ SwitchStep
    \/ \E s \in Servers : RefreshToken(s)
    \/ \E k \in workers : WorkerStep(k)

Worker == [id : Nat, port : Nat, item : Items, w : AllWrites,
           pc : {"origin", "fan_out"}, ok : BOOLEAN, keys : [Servers -> Nat],
           todo : SUBSET Items, also : Seq(Items)]

ViewStateState ==
    [ledger : Ledger, queue : Seq(Req), sent : Req \cup {NoReq},
     retry_cd : 0..RetryFrames, want_hubs : BOOLEAN, want_reread : SUBSET Items,
     next_id : Nat \ {0}, hold_refresh : BOOLEAN]

Completion == [id : Nat, outcome : {"NotStarted", "Written"}, ok : BOOLEAN, also : Seq(Items)]

LogEntry == [id : Nat, item : Items, w : AllWrites, by : Users, port : Nat,
             origin : BOOLEAN, moved : BOOLEAN]

\* The state is what the code's types allow.
TypeOK ==
    /\ vs \in ViewStateState
    /\ adapter \in Nat
    /\ mail \in {NoMail} \cup Completion
    /\ workers \subseteq Worker
    /\ token \in [Servers -> [key : Nat, user : Users]]
    /\ profile \in Nat
    /\ switch \in {"seated", "swapped", "published"}
    /\ screen \in [Items -> BOOLEAN]
    /\ deck \subseteq Items
    /\ truth \in [Users -> [watched : [Leaves -> BOOLEAN], deck : SUBSET Items]]
    /\ log \in Seq(LogEntry)
    /\ seats \in Seq(Users)
    /\ refused \in Nat
    /\ failed \in Nat

------------------------------------------------------------------------------
(* Properties of the write path.                                            *)

\* "One write at a time, in order": what one owner's workers made a server do
\* reached the servers in the order the writes were pressed, the repeats on the
\* other copies included, through refused launches, panics and coalescing.
PressOrder ==
    \A m, n \in DOMAIN log :
        m < n /\ log[m].port = log[n].port => log[m].id <= log[n].id

\* No write is made twice on one item ("a second scrobble would add a second
\* viewCount"), although a refused launch is retried, a worker may panic after
\* its request left, and a reset forgets the worker that is still running.
PerformedOnce ==
    \A m, n \in DOMAIN log :
        log[m].id = log[n].id /\ log[m].item = log[n].item => m = n

\* The requests that are queued or out.
Outstanding ==
    {vs.queue[k] : k \in DOMAIN vs.queue} \cup ({vs.sent} \ {NoReq})

Newest(r) ==
    \A q \in Outstanding :
        q.item = r.item /\ Family(q.w) = Family(r.w) => q.id <= r.id

\* "Between the press and the landing the entry stands": the newest unanswered
\* press of an item is what the ledger would make again on that item.  (Where a
\* title has one copy: the landing of a write records the copies it reached over
\* a newer press made on one of them.)
EntryStands ==
    \A r \in Outstanding :
        Newest(r) /\ ~r.origin_done =>
            \E e \in vs.ledger.entries : e.at.item = r.item /\ e.edit = EditOf(r.w)

\* Nothing queued, out, running or waiting in the mailbox.
Settled == ~Busy(vs) /\ workers = {} /\ mail = NoMail /\ switch = "seated"

\* "on refusal it is the only thing that puts the tile back": once the writes
\* have settled, a leaf row that disagrees with its server is owed a read-back.
DisagreementIsOwed ==
    Settled => \A i \in Leaves :
        screen[i] # ServerSays(SeatedUser, i) => i \in vs.want_reread

\* "a write is a statement about one household member's viewing record and is
\* never sent as another's": a server applied a write for the user who pressed
\* it, unless it was the press's own write and its slot was re-tokened after the
\* runner's check and before the worker sent it.  A repeat on a copy never is.
\* An owner's adapter is rotated once per seat, so a port names its seat.  (Streams
\* end here while a profile is seated; one that is found ended between the frames
\* of a switch breaks this: ViewSync with ViewSyncSeats.cfg.)
SentAsPresser ==
    \A m \in DOMAIN log :
        log[m].by = seats[log[m].port] \/ (log[m].origin /\ log[m].moved)

\* What keeps the order, as an inductive invariant.  Identities grow along the
\* queue, and what is out is older than what waits.
Serial(v) ==
    /\ \A j \in DOMAIN v.queue : 0 < v.queue[j].id /\ v.queue[j].id < v.next_id
    /\ \A i, j \in DOMAIN v.queue : i < j => v.queue[i].id < v.queue[j].id
    /\ v.sent # NoReq =>
          /\ 0 < v.sent.id /\ v.sent.id < v.next_id
          /\ \A j \in DOMAIN v.queue : v.sent.id < v.queue[j].id

\* Everything v has not sent yet is newer than the write n.
Behind(n, v) == n < v.next_id /\ \A j \in DOMAIN v.queue : n < v.queue[j].id

\* An answer names the write that is out, whose worker is gone; a refusal names
\* one no server has seen.
MailInv ==
    mail # NoMail =>
        /\ vs.sent # NoReq /\ mail.id = vs.sent.id
        /\ \A k \in workers : k.port # adapter
        /\ mail.outcome = "NotStarted" => \A m \in DOMAIN log : log[m].id < mail.id

\* The current owner's worker is the write that is out; a forgotten owner's is
\* older than anything this owner will send.
WorkerInv(k, v) ==
    /\ 0 < k.id /\ Behind(k.id, v) /\ k.port <= adapter
    /\ k.port = adapter => v.sent # NoReq /\ v.sent.id = k.id
    /\ k.port # adapter /\ v.sent # NoReq => k.id < v.sent.id

\* What a worker has still to do, no server has been asked by it before.
TodoInv(k) ==
    /\ k.item \notin k.todo
    /\ \A m \in DOMAIN log :
          /\ log[m].id = k.id => k.pc = "fan_out" /\ log[m].item \notin k.todo
          /\ log[m].port = k.port => log[m].id <= k.id

\* What the servers were asked is no newer than what is out.
LogInv(v) ==
    \A m \in DOMAIN log :
        /\ 0 < log[m].id /\ Behind(log[m].id, v)
        /\ v.sent # NoReq => log[m].id <= v.sent.id

\* No two workers of one owner, nor two for one write, and all of the above: the
\* queue, the write that is out, its worker and its answer stay one sequence
\* through refused launches, coalescing, panics and resets.
OneWriteOut ==
    /\ Serial(vs)
    /\ MailInv
    /\ \A k \in workers : WorkerInv(k, vs) /\ TodoInv(k)
    /\ \A k, l \in workers : k.port = l.port \/ k.id = l.id => k = l
    /\ LogInv(vs)

\* The fairness of the frame loop and of the threads: every frame pumps, and a
\* started worker runs to its answer.
Fairness ==
    /\ WF_vsVars(ViewStatePump)
    /\ WF_vsVars(\E k \in workers : WorkerStep(k))
    /\ WF_vsVars(PublishProfile \/ Reset)

Spec == vsInit /\ [][Next]_vsVars /\ Fairness

\* Every burst drains: no refused launch, late answer, dropped completion or
\* reset leaves the queue waiting for an answer that cannot come.
Drains == Busy(vs) ~> ~Busy(vs)

\* The refresh every landed write owes is made once the burst is over and the
\* player is not on top.
RefreshFollows == [](vs.want_hubs => <>(~vs.want_hubs \/ vs.hold_refresh))
==============================================================================
