# A TLA+ development of plx-native

plx-native is a native Plex client for LG webOS televisions, written in Rust. Its
code lives under `src/rust-modules/`: one application crate (`src/`) over a set of
library crates (`data`, `plex`, `session`, `media`, `play-feed`, `machine`, `base`,
`storage`, `platform`, `net`, `ui`, `screens`, ...). Paths below are relative to
`src/rust-modules/` unless they start with `src/`.

The program is built "sans-io" (`src/docs/sans-io.md`, `src/docs/stores-as-machines.md`):
a component is a state machine stepped on the main thread once a frame; a step emits
jobs; a runner starts each job on a worker thread or refuses it in the same call; the
worker's answer lands in a mailbox that a later frame drains. What is hard about the
program is therefore what happens *between* a step and the landing of its job:
presses, resets, token refreshes, refused thread starts, panics, lost answers and
other reads come in between, in any order.

This development models three of those protocols: the **view-state writes** with the
reads that race them, the **persistence executor**, and the **start of playback** on the
television's one native object, through app switches, trailers and a firmware that may
never answer. The safety of all three is also proved, for every size of instance.

## 1. Inventory

| Component | State | Operations | Interacts with | What makes it correct |
|---|---|---|---|---|
| View ledger (`data/src/viewledger.rs`) | sequence number, one entry per (item, scope, kind) | record, landed, retire, reset, stamp, since, patch | written by the view-state owner, read by every store's landing | a press is made again on exactly the reads that could not have seen it |
| View-state writes (`data/src/viewstate.rs`) | queue, the write that is out, retry wait, owed read-backs, owed hub refresh | request, kick, pump, restart_refused, fan_out_origin_watched, reset; worker: origin write, fan-out to copies | ledger, stores' rows, runner, client registry, servers | one write at a time, in press order, once, for the member who pressed; the row ends as the server says |
| Read-back worker (`data/src/stores/viewreconcile.rs`) | pending items and parents, flights, dirty marks, stop candidates, quiet marks, retry wait | enqueue, enqueue_reread, enqueue_stop, kick, pump, requeue, reset | takes owed items from the writes, publishes facts to the rows, reports streams that ended | one read per server, none under a write or under the player, none of its answers overrides a newer press |
| Stores and their page reads (`data/src/stores/mod.rs`, `browse`, `pms`, `search`) | rows, shelves, generations | request (stamped), land (patched) | ledger, registry | a landed page shows no press undone |
| Store job runner (`src/app/adapters/stores.rs`) | worker threads | start or refuse a job | every store | each emitted job is started or answered "not started" |
| Client registry (`plex/src/plex/servers.rs`, `client.rs`, `client_keys.rs`) | per slot a credential and its generation | register, re-token, revoke | everyone who sends | a request goes out under the identity it was made under |
| Profile switch (`session/src/auth.rs`, `auth/owner.rs`, `src/app/boot.rs`) | the seated member, the switch's stage | swap tokens, publish the profile, reset the stores | registry, stores | nothing of the old member is sent or shown as the new one's |
| Persistence executor (`base/src/storage_worker.rs`) | the shared executor, its bounded queue, the retained backlog, tickets | submit, submit_retained, pump_retained, worker loop | session, preferences, telemetry | edits saved in order, none lost, one operation at a time |
| Native release queue (`media/src/player/release.rs`) | the Unload that runs, the start queued behind it, the deadline | handed off, start requested, returned, tick, cancel, exit | the runner in `route_start.rs`, the Feed | one native object; a queued start is launched or refused, once |
| Foreground lifecycle (`media/src/player/lifecycle.rs`, `foreground.rs`, `src/app/lifecycle.rs`) | what is owed to a parked playback, the clock to put back | park, input, prepare and load answers, load status, clock answer | route, release queue, Engine | a restore ends, and the viewer's pause survives it |
| Play route (`media/src/route/decision.rs`, `flight.rs`) | the phase, the serial and attempt that own the start, the last Load result | request, land, begin, prepare, claim, settle, abort, tear down, fly | servers, player | only the installed Load's own answer counts |
| Trailer previews (`media/src/player/preview.rs`, `src/app/content.rs`) | Idle, Fetching, Live or Abandoning; the film held behind one | request, settle, retire, halt, hold, drain | route, Engine, pages | no Engine without a page that can stop it |
| Native Load and stop (`play-feed/src/native_load.rs`, `native_executor.rs`, `feed_pump.rs`) | the Load's thread, its budget, the parked Load, the Unload's worker | open, reap, stop, time out | firmware | nothing is destroyed under a thread inside the firmware |
| Session persistence (`plex/src/plex/session/`) | revisions, pending save | edit, save, adopt | persistence executor | the newest revision reaches the disk |
| Login (`session/src/auth/owner.rs`) | sign-in, discovery, seat | many | servers, registry | - |
| Demuxing, codecs, adaptive bitrate, network, platform, telemetry, UI | - | - | - | numeric control, byte-level work, I/O or drawing |

`PROJECT.json` lists them all with what is modelled of each, and under `hazards` the
places where a test would hardly reach what can go wrong.

## 2. Plan

Done, in this order: the ledger and the writes (`ViewLedger`, `ViewState`), the
reads that race them (`ViewSync`), the executor (`StorageWorker`), the start of playback
(`NativeRelease`, `RouteStart`, `Foreground`, composed in `PlayStart`, with the abstract
`NativeSlot`), and the proofs of section 5.

Next, most important first:

1. `ScreenAgrees` with page reads, as a theorem (section 5 has it without them). The
   invariant has to relate the rows a page brings to the entries of the ledger that are
   newer than its stamp.
2. The failed-open ladder (`media/src/player/recovery.rs`) as one more component of
   `PlayStart`, which makes `ClockPending` reachable.
3. Session persistence over `StorageWorker`: revisions, the pending save and its
   stamp; an abstract executor ("a FIFO of edits") is the interface between the two.
4. That rows of a former profile never show after a switch.

## 3. Modules

`ViewLedger` is a module of operators on the table; `ViewState` EXTENDS it and has the
state of the write path; `ViewSync` EXTENDS `ViewState` and adds the reads.
`MCViewState` and `MCViewSync` hold the instances. `StorageWorker` stands alone; its
constants are numbers, so its configurations need no MC module.
`NativeRelease`, `RouteStart` and `Foreground` are modules of operators, one per event or
function of a machine of the code; `PlayStart` EXTENDS the three, has the state and the
frame loop, and instantiates `NativeSlot`, the abstract specification it implements. Its
only constant is a number, so it needs no MC module either.

The theorems are in modules of their own. `ViewStateProofs` is about the order of the
writes and whose they are; `ViewLedgerProofs` (the ledger under them) extends it, and
`ViewSyncProofs` (the reads) extends that. `StorageWorkerProofs` stands alone.
`PlayHandlerProofs` has the lemmas on the operators of the route and on the handlers,
`PlayStartProofs` the actions and the theorems about the native object;
`PlayCoherenceProofs` extends it with what the parts of the player owe each other and the
handlers that keep it, `PlayRestoreProofs` with the restores, the landings and the theorems
about page, clock and ownership.

Operators whose comment starts with "Fault:" are not part of the models: each is a
wrong version of the definition below it, and `PROJECT.json` pairs it with the
property that must notice it.

### ViewLedger and ViewState

| Model | Code |
|---|---|
| `vs` | `ViewStateState`: ledger, queue, sent, retry_cd, want_hubs, want_reread, next_id, hold_refresh |
| `adapter`, `mail` | the owner's current `ViewStateAdapter` and its one-slot mailbox |
| `workers` | the threads in `finish_view_write_job`; one may outlive the reset that forgot it |
| `token` | per slot the credential's generation (`Client::set_token` mints a new one) and its user |
| `profile`, `switch`, `seats` | the published seat, how far a switch has got, and whom each seat was |
| `screen`, `deck` | the rows the stores draw: one row per item stands for that item's row in every store |
| `truth`, `log` | the servers: the watched flag of each film or episode per user, and every write applied |

Actions: `Press` (`request`: slot check, ledger record, coalescing, queue, kick, and the
optimistic edit of the rows, in one main-thread call), `EndOfStream`
(`fan_out_origin_watched`), `ViewStatePump` (`pump_with_gate`: the retry tick, the
landing, the copies recorded and published, the kick, the hub refetch), `HoldNetwork`,
the three frames of a profile switch (`SwapTokens`, `PublishProfile`, `Reset`),
`RefreshToken`, and for a worker `WriteOrigin`, `FanOut`, `Finish` and `Panic`. A write
may be taken, taken with its answer lost, or refused. `StartJobs` is the runner: it is
part of the step that emitted the job, since the code takes and starts the jobs in the
same call.

What is abstracted:

- Resume offsets (`ViewFact::Offset`) are left out; no press and no ledger entry
  depends on them.
- A copy's key check and the building of its request are one step. The code states the
  remaining window itself (`client_keys.rs:87`): a swap between the check and the wire
  sends the request under the new credential. For the origin write the model does have
  the window between the runner's check and the worker's request, and `SentAsPresser`
  excuses exactly that case.
- The revocation that blanks the clients during a switch and the new tokens are one
  step, and no press is made while the profile picker is up.
- Slots are not removed in the instances (`token[s].key = 0` is in the guards, because
  it is in the code's, but no action makes it so).
- The hub refetch is the clearing of `want_hubs`; that reads then race is `ViewSync`'s
  subject.
- `EndOfStream` is free in `ViewState` (any film its server has as watched, while a
  profile is seated) and is driven by the read-back in `ViewSync`, where it can come in
  the middle of a switch.

### ViewSync

`rc` is `ViewReconcileStore`, `readers` and `rmail` its workers and its mailbox, `page`
the one page read in flight (of any store: all of them stamp the request and patch the
landing), `play` a playback until its stop has been landed.

`ReconcilePump` is `Stores::reconcile_pump`: owed items taken when no write is queued or
out, landings applied (requeue of an unstarted read; rows not covered by a newer press
published, parents queued, candidates settled, dirty items queued again), the next
batches sent, and the streams that ended fanned out. `ReadAnswer`, `Hint`, `PlayStart`,
`PlayStop`, `StopLanded`, `TakeLanded` and the page's three steps complete it; the
reset of `ViewState` drops everything of the reads in the same step.

Abstractions: one batch takes all pending items of a server (`BATCH_KEYS` is a limit on
the URL's length); a parent named by a quiet leaf and by another leaf takes the quiet
mark (the code takes the mark of the one listed first); an answer of a client that was
re-tokened since the request is dropped row by row.

### StorageWorker

`slot` is `SHARED`, `execs` every executor ever started (a dying one is still there
while its thread goes down), `backlog`, `backoff` and `pumping` are `RETAINED` with its
lock, `tickets` the two channels of each `TypedTicket`.

`Submit` is one step: it runs under the `SHARED` lock and `try_send` never blocks. The
pump of the backlog holds the `RETAINED` lock but hands over one job at a time, so it is
several steps (`PumpRetained` or `SubmitRetained`, then `HandOver`, `PutBack`,
`PumpEnds`) with the worker running in between. A panic is three steps, since the order
in which the channels close is the point: `Unwind` drops the job's closure, `Close`
drops the receiver with the commands queued in it, `Die` drops the current ticket's
sender. The build unwinds on panic. The worker never leaves its loop because all
senders are gone (`SHARED` is a static), so that exit is not an action.
`wait_blocking` and `drain_for_test` are for tests.

### PlayStart

| Model | Code |
|---|---|
| `route` | `PLAYER_CONTROL`: phase, serial, attempt, fallback, engine-less flight, last start result |
| `session` | of `PlaybackSession`: a URL is held, a resolve is pending (and for what), the two preview flags, the transport's pause; `answered` is the worker's landing slot |
| `preview`, `held` | the preview machine's phase; `HELD_FEATURE` |
| `engine` | the Feed's Engine with its Load: where the media thread is, the failure flags, whether the restore follows it, the attempt's goal (`viewer_paused`) and whether its startup plan is done |
| `mail` | Load results posted and not drained |
| `slot` | the object when no Engine has it: the Unload's worker, or a parked Load |
| `adapter` | of `PlayerAdapter`: the release machine, the watch on a queued start, the preview's admission |
| `fg`, `screen` | `ForegroundLifecycle`; the page on top and whether the window is in front |
| `turn`, `exiting` | how far the frame has come; the process |
| `wish` | history: the clock the viewer last asked for; where the code lets go of a press, the clock it falls back to |

A handler of the code runs on the frame thread without interruption, so it is an operator
from a record of the whole player to the next such record, and an action applies one
handler: `Background`, `DidForeground`, `ClaimParked`, `DecoderRevoked`, `StartupDone`,
`EngineFails`, `PlayFilm`, `PreviewStart`, `PreviewStop`, `Transport`, `ExitPlayer` and `Retry`
are what viewer, television and pages ask; `PumpStep`, `AfterPumpStep`, `SettleStep`, `RequestsStep`
and `LandingStep` are the frame, in the order of the loop (`turn`); `LoadReturns`,
`PublishLoadFailure`, `AbandonedReturns`, `UnloadReturns` and `WorkerAnswers` are other
threads and come at any point between two handlers; `LoadTimesOut` and `ReleaseDeadline`
are the two clocks; `Shutdown` and `ExitStep` leave.

What the outside decides inside one handler (does the open succeed, is the Unload handed
to a worker, does the television take the transport command, what does a joined Load
answer, what does a resume need) is a record chosen with `\E` from the set that names what
that handler can meet.

What is abstracted:

- Only the Feed backend: the URI states of the release machine and the URI probe are not
  there, and neither is the server ending a playback (`StopReason` for a terminal stop).
- The failed-open ladder: a refused open that no restore owns ends on the read-out. The
  ladder's replacement Engine is the one way to a restore whose clock waits
  (`ClockPending`), so that state of `Foreground` is not reached by the run.
- `Transport` is a film's Play or Pause on the player page, with or without a restore in
  progress: `apply_transport` in the frame's request step, after the settling and before
  the landing. While the attempt starts, its Load included, the press changes the goal
  (`intercept_control`); once the startup plan is done (`StartupDone`, the plan's
  `ReadyAwaitPlay`) it is a native command, which also moves the read-out. A command the
  television refuses changes nothing. A press that finds no Engine changes nothing, and the
  failure read-out has no transport. The tracks and the seek of the plan, a seek's resume
  and the presentation hold of a claim are left out, and so is the transport of a trailer.
- `key_play` (`playback.rs:1444`) has no action: every mounted page owns its keys
  (`run.rs:1361`), so no key reaches it. `Foreground.Input` has the machine's whole table
  all the same; a PLAY key in it is the one that claims a parked playback
  (`claim_press_after_decoder_release`, `retry_refused_foreground`).
- Positions, the identity of a park, metrics, reports and the server's transcode sessions.
- `run_release_effects` calls `start_bufferfeed_for` again for a queued start; the release
  machine is Idle by then, so the model goes straight to the open.
- A stop that joins a Load inside its budget is one step with either answer: that the
  frame waits for the firmware there is a hazard of time, which the model does not have.
- An Unload of a Load that the firmware refused may go to a worker like any other: the
  object is still there (`native_executor.rs:626`).

`NativeSlot` is what the rest of the player may rely on: the object is opened only when
nobody is inside the firmware, stopped, returned and freed, and never changes hands
without that. `SlotKept` maps `engine` and `slot` to it.

## 4. Runs

| Run | Instance | Distinct states | What it shows |
|---|---|---|---|
| `write_order` | one film on two servers, two users, 3 presses, 1 refused launch, 1 failure, 1 switch or refresh; symmetric | 1 433 826 | `PressOrder`, `PerformedOnce`, `OneWriteOut`, `SentAsPresser`, types |
| `ledger_entries` | two films on one server, all three writes, 3 presses, a refused launch and a failure | 72 343 | `EntryStands`, `DisagreementIsOwed` |
| `page_reads` | a show and its episode, 2 presses, 2 page reads, 1 refused launch | 88 424 | `ScreenAgrees`, `ReadBackKeepsPress` |
| `refused_and_stopped` | the same show, 2 presses, 1 refused write, 1 playback, 1 hint | 462 334 | `ScreenAgrees`, `ParentsAgree`, `ReadBackKeepsPress` |
| `reads_settle` | the same show, 1 press, 1 playback, an unanswered read, a refused launch, a switch, the player | 72 570 | `SyncTypeOK`, `ReadsTracked`, `BecomesQuiet`, `Drains`, `RefreshFollows` (liveness) |
| `storage_edits` | queue of one, 4 jobs, 2 panics, 1 refused start | 45 235 | `OneAtATime`, `EditsInOrder`, `EditsKept`, `RequestFailuresKnown`, `EditsBegin` (liveness), types |
| `play_start` | 4 presses of viewer and television in all, any number of returns from an app switch, every answer of the firmware, also none | 352 908 | `OneNativeObject`, `CleanExit`, `EngineOnRouteButStray`, `EngineOwned`, `WishHonoured`, `QueuedStartSettled`, `AnswerIsItsOwn`, `RefusedRestoreStays`, the refinement `SlotKept`; liveness: `QueuedStartEnds`, `RestoreEnds`, `StartEnds`, `HeldPlays`, `ExitEnds`; types |

Five further runs expect a violation; they are the findings of section 7.

**Bounds.** Three presses are the least with which one write is out, one waits and one
coalesces with the one that waits; two servers and one title give a fan-out that can
cross a press on the other copy; one refused launch and one failure each reach every
branch of the landing. The retry
wait is 1 or 2 frames where the code has 120: only "zero" and "not yet zero" are told
apart. The switch bound also counts token refreshes. For the executor, a queue of one is
full with a single command, so the backlog forms with three edits, and two panics give
a dead executor, its replacement and the replacement's death. For the player, four
presses are the least that leave a film (one to ask for it, one to leave), queue another
start behind its Unload and then disturb that start; frames, worker answers and the
returns from an app switch are not bounded. The serials and attempts are bounded by the
presses.

**Deadlock** is not checked in any run: when the bounds are spent and everything has
settled, the system is idle, as the real one is between two presses.

**Symmetry** is used in `write_order` only, which has no liveness property: the two
sides (item and server together) and the two users are interchangeable.

**Fairness** is weak fairness of what the program does by itself: the frame loop pumps
every frame whatever is on screen, a started worker runs to its answer (it has no wait
but for its own request, which times out, and a panic is caught and answered), a
profile switch that began is finished, a page that was asked for is answered and lands,
a playback stops, a back-off passes. Nothing makes the user press, a server take a
write, or the player be left: `RefreshFollows` and `BecomesQuiet` are therefore stated
for a player that is not on top. `EditsBegin` is of a finite number of submissions: an
unending stream of plain submissions could keep the queue full under the backlog, since
`submit` competes with the pump for the same queue. For the player: frames run while the
process runs and the exit polls until it has its answer (the loop and the 2 ms poll of
`exit_native`), the two clocks run, a media thread that has posted its result goes on to
raise its flag, and a worker's request to the server ends (it times out). Nothing is
assumed of the firmware: a Load or an Unload may never return, which is why `StartEnds`
needs the Load's budget, `QueuedStartEnds` and `ExitEnds` the release deadline. The
fairness conditions name the one variable each action is alone in changing in that way,
which says the same as weak fairness of the action and is cheaper to check.

**Where the properties stop.**

- `EntryStands` is checked where a title has one copy. With two it does not hold: the
  landing of an older write records the copies it reached over a newer press on such a
  copy, in the ledger and on the row (`viewstate.rs:1004`).
- `RequestFailuresKnown` is of plain submissions. A retained edit's ticket reports the
  failure while the worker's queue is still open (`storage_worker.rs:101`); nothing in the
  program reads such a ticket.
- `EngineOnRouteButStray` excepts one kind of Engine: a trailer's that was launched from
  the release queue (`Stray`). The finding `preview_orphan` shows what becomes of it.
- `WishHonoured` is of the presses the code has not let go of. It lets go of one at five
  points, and there the history variable `wish` follows the code: a refused preparation of
  a resume that PLAY claimed, and the second park of a restore that waits on a flight (both
  go back to the clock of the first park); the park of a restore's Load, and its refusal
  (both go back to the clock of its claim: what was pressed while the Load was out is
  lost); an Engine that fails with a picture up (back to the read-out's). The park of a
  restore's Load contradicts the code's own comment and is the finding `pause_in_restore`;
  nothing in the repository speaks of the others.
- `HeldPlays` is of a trailer whose Load has returned, and `StartEnds` leaves out an
  abandoned one: that its poll has no budget is a gap the code names (`preview.rs:739`).
- `RestoreEnds` and `StartEnds` are of a window that stays in front: playback does not run
  behind another application.
- `DisagreementIsOwed` and `ScreenAgrees` are checked without token refreshes (finding
  `dropped_press`).
- `ScreenAgrees` holds with page reads when every write is answered, and with lost
  answers and playbacks when no page read overlaps them. A page read that was answered
  before such a write or before the end of a playback, and that lands after the
  read-back, puts the old row back: a write that is reported as failed is retired from
  the ledger, and a read-back's facts are never recorded in it, so nothing is made again
  on the page. For the same reason a page read that overlaps two presses on two copies of
  one title may leave a row wrong. The two instances are kept apart for that reason.
- A page read requested after a press, answered before the write reaches the server and
  landed before the write's answer puts the old row back until the read-back: the ledger
  patches the reads requested before the press (`viewledger.rs:135`). The comment at
  `viewledger.rs:31` speaks of the reads requested before the write landed.
  `ReadBackKeepsPress` is therefore of the read-backs.
- `SentAsPresser` is of streams that end while a profile is seated. A read-back landing
  between the two frames of a switch breaks it (finding `ended_for_another`).
- `PressOrder` is of the writes of one owner (between two resets): a worker that outlives
  a reset may still be writing while the new owner's first write goes out.

## 5. Proofs

TLAPS checks these theorems for every library, every set of servers and users, every
capacity and every value of the bounds (the assumptions are `LibraryShape`,
`ViewStateAssumption`, `ViewSyncAssumption`, `StorageAssumption` and
`PlayStartAssumption`, each evaluated by the runs). Further hypotheses, where a theorem
has any, are in its statement.

**`ViewStateProofs`**

- `TypeCorrect`: `Spec => []TypeOK`. The inductive form `TypeInv` adds that `profile` is
  the number of seats so far and not zero, without which the seat of a reset is not known
  to be a user.
- `OneOut`: `Spec => []OneWriteOut`, `WritesInOrder`: `Spec => []PressOrder`,
  `NoWriteTwice`: `Spec => []PerformedOnce`. The invariant is their conjunction
  (`Ordered`), and `OneWriteOut` is the strengthening that makes it inductive: identities
  grow along the queue and what is out is older than what waits (`Serial`); an answer in
  the mailbox names the write that is out, whose worker is gone, and a refusal names one
  no server has seen (`MailInv`: the reason a retry does not write twice); the current
  owner's only worker is the write that is out, and a forgotten owner's is older than
  anything still to be sent (`WorkerInv`: the reason a reset does not break the order);
  what a worker has still to do it has not asked for yet (`TodoInv`); the log is no newer
  than what is out (`LogInv`). The main lemma on the queue is that a step of the owner
  moves forward (`KickForward`, `PressForward`, `StreamEndForward`, `RestartSerial`);
  `JobStep` then covers the runner's three outcomes once for all actions that emit, and
  `AskedOnce` a request of a worker.

- `WritesAsPresser`: `Spec => []SentAsPresser`. `SeatInv` follows the credential
  numbers: a seat and its owner turn together, and but between swap and publication the
  slots speak for the seat in force (`Rotation`, `Seating`); every request that waits or
  is out carries a number its slot has held, and during a switch one it no longer holds
  (`AllStamped`), so nothing is admitted while a switch is under way; a worker whose
  snapshot still agrees with the slot speaks for the seat it was started under
  (`Speaks`); and the log says so of what was applied (`Signed`).

**`ViewLedgerProofs`**

- `PressesBacked`: a press that is queued or out has a ledger entry of its place and kind
  that is not older than it, whatever copies a title has. The invariant is `Standing`:
  numbers are unique and issued, the presses carry them in the order of their
  identities, a stream's end has none, and each press is `Backed`.
- `PressedEntryStands`: `[]EntryStands` where no title has a second copy. `Exact` adds that
  the last press of an item and toggle has the very entry it recorded; with copies it is
  false, as section 4 says.
- `DisagreementOwed`: `[]DisagreementIsOwed` where no title has a second copy, the presses
  are of films and episodes, and no credential moves. `SendInv` adds to `Standing` that
  the first profile's credentials stand (`Steady`), that whatever waits can be sent
  (`Sendable`), that the worker writes what the request that is out says and no copy
  (`Charged`, `Alone`), and that an entry with a press's number is the press's own
  (`Placed`). `OwedInv` is `SendInv` with the fact wanted: a row which disagrees has a
  press to come or is owed (`Owing`). Each hypothesis is a limit of the
  code: a moved credential drops a press and owes nothing (finding `dropped_press`), a
  copy whose answer was lost is not owed, and a press on a show owes the show's row only.
  What a step may do to the debts is a lemma of its own (`StepDebts`: a step forgets no
  debt, and whatever it changes on the server or renumbers in the ledger is in debt
  after it); the reads' proof starts from it.

**`ViewSyncProofs`**

- `SyncTypeCorrect` and `ReadsStayTracked`: `[]SyncTypeOK` and `[]ReadsTracked`.
  `WritesUnderReads`: the writes stay one at a time, in order and once although read-backs
  add streams that ended to the queue. `PressOutlivesReads`: `ReadBackKeepsPress`.
- `SyncInv` is `TypeInv`, `Ordered` and `Standing` of the writes with four parts of the
  reads: `Tracks` (one flight per server, dirty marks are of flights), `Typed`,
  `Carried` (a flight has one reader or one answer) and `Earlier` (a flight's stamp is
  below every press that is queued or out, because no read is sent under a write). With
  `Backed` it follows that a landing finds the press in the ledger and leaves its row
  alone. One frame lands every answer, sends to every free server and fans out every
  ended stream; each is a fold over a finite set, and the module starts with the two
  facts it needs about such folds, by a least counterexample in place of an induction
  over an operator.
- `RowsAgree` and `ParentRowsAgree`: `[]ScreenAgrees` and `[]ParentsAgree`, for any number of
  presses, servers, refused launches, refused or lost writes, panics, playbacks and hints.
  They assume what `DisagreementOwed` does, that every read which was started is answered
  (`MaxUnread = 0`), and that no page is read (`MaxReads = 0`). Both are limits of the code: a
  read-back without an answer is not asked for again, and a page slower than a write
  whose answer was lost is not told of it. The parents' theorem also asks that every
  season and show has an episode: an empty one has no record on its server to agree with.
  The instance
  of `refused_and_stopped` satisfies all of them.
- The invariant, `RowsInv`, is `SyncInv` and `SendInv` with three parts. `Row`, for every row
  that has leaves: as long as a read of the row, or of a leaf of it, has still to leave (a
  press is queued or out, a read-back is owed or queued or its flight is dirty, a playback
  has stopped and not landed), nothing is claimed; from then on every read that is out for the row brings what the
  server says (`Fresh`), and one is out or the row already draws it. `Matched`: a reader
  reads what its flight lists. `Upper`: only seasons and shows are read as parents. In a step of the frame what waits is kept or leaves in a new flight, and
  a leaf that lands queues its parents, so a parent that drew an older count is waiting
  again before its own read can settle it (`FrameQueue`, `FrameRows`); a write that changes
  the server puts the row in debt by `StepDebts` (`AnswerRows`). TLC checked the invariant
  on the instance of `refused_and_stopped` before it was proved.

**`StorageWorkerProofs`**

- `StorageTypeCorrect`, `OneOperation`, `EditsSavedInOrder`, `EditsNotLost`: `[]TypeOK`,
  `[]OneAtATime`, `[]EditsInOrder`, `[]EditsKept`. The inductive invariant is `TypeOK` with
  `SlotInv` (only the callers' executor is open, and a closed one holds no command: the
  reason one operation runs at a time although executors are replaced), `JobInv` (what is
  being worked on was begun and has a ticket, so a panic fails a known ticket),
  `OrderInv` (begun, queued and waiting edits are one ascending sequence, and numbers
  given are below the next one) and `EditsKept`.
- `FailuresKnown`: `[]RequestFailuresKnown`. `TicketInv` follows each ticket's two channels
  to where its job is: a job is in one place only (`Unlike`, `Apart`), one that waits has a
  ticket nobody touched (`Untouched`), and the executor that works on a request has its
  second sender until its queue has closed (`Told`).

**`PlayStartProofs`**, over `PlayHandlerProofs`

- `PlayTypeCorrect`, `SingleObject`, `ExitsClean`: `[]TypeOK`, `[]OneNativeObject`,
  `[]CleanExit`. `OwnAnswer` and `QueueSettled`: `AnswerIsItsOwn` and `QueuedStartSettled`.
  `SlotImplemented`: `SlotKept`, that is, the player implements `NativeSlot` (its initial
  states and steps; `NativeSlot` asks for no fairness).
- `Inv` is types, a clean exit that left nothing, and `Good`, of three parts. `ObjectInv`:
  an Engine, an Unload and a parked Load exclude each other, and the release machine is
  busy exactly while an Unload is on its worker, for that Unload's attempt; without the
  second half an open could meet a machine that has forgotten the Unload. `PostInv`: what
  the inbox holds of the installed Load is what it answered, and nothing in it is of a
  Load still to come. `QueueInv`: the serials that wait were issued.
- A handler is an operator, so there is a lemma for each: it leaves the object alone, stops
  it, opens one where there was none, or ends the playback (`Advances`, `Halts`, `Flies`,
  `Ends`). Each action is then one of the steps of `Steps`: `Exchanges` is the abstract
  slot's step, `Takes` says whose result the route took, `Settles` what became of the
  queue. The three action properties and the refinement are read off it.

**`PlayRestoreProofs`**, over `PlayCoherenceProofs`

- `EngineIsOwned`, `EngineIsOnRoute`, `WishIsHonoured`: `[]EngineOwned`,
  `[]EngineOnRouteButStray`, `[]WishHonoured`; `RefusedStays`: `RefusedRestoreStays`.
- None of them is inductive, and none can be made so alone: whether a start may be
  launched depends on the page, the page on the request, the request on the clock, the
  clock on the restore. The invariant `Coherence` (theorem `Coherently`) is `Inv` with
  `Core`, which holds to the last step of the exit, and, while the process runs,
  `Coherent` and `Front`. `Core` is the three properties in the form a step keeps:
  `Owned`, `OnRoute`, `IdleHeard`.
- `Coherent(w, t)` has one group per pair of parts that could come apart. `Numbered`: what
  is pending or failed has a serial, and an overdue release has dropped its start.
  `Loaded`: a raised failure flag is a refused Load's, and the result of a returned Load
  is in the inbox as long as the route waits for it; it is what makes the order "result
  first, flag second" of `native_load.rs` enough. `Asked`: while a request is out the clock
  plays and a film's page is up. `Waits`: a start in the queue is for the player page or
  for a restore. `Shown`: a trailer's Engine has a preview that shows it. `Parked`: a park
  holds no Engine and no queue, and its clock is the viewer's wish unless another playback
  was asked for. `Restores`: a restore that follows a Load follows the installed one, whose
  startup is not done and whose read-out has the clock of the claim. `Paged`: the player
  page has no trailer and no request beside an Engine, and a film is held only off it.
  Several hold only at some points of the frame, so the groups take
  `turn`; a restore whose Engine a trailer's stop has taken, for one, is there only until
  the frame settles.
- Each handler has a lemma that says what it leaves of the player field by field
  (`Torn`, `Starts`, `Polled`, `ParkedBy`, `Reloaded`, `Followed`, `Landed`, ...) and one
  that such a change keeps the player `Whole`; each action is then a step of a player that
  runs (`Runs`) or leaves (`Leaves`). TLC checked `Coherence` on the instance of
  `play_start` before it was proved.
- Two consequences of the invariant say something of the code that no run asks: a restore
  that follows a Load is never told it was superseded (`LoadStatusIs`), and, as long as the
  failed-open ladder is left out, the lifecycle never rests in `ClockPending`.

**Checked by TLC only.** Everything under fairness (`Drains`, `RefreshFollows`,
`BecomesQuiet`, `EditsBegin`, and the five of `PlayStart`), which the installed prover
cannot do; and `ScreenAgrees` with page reads (`page_reads`), which is in the plan.
No module has a RECURSIVE operator.

## 6. Not modelled

The parts with `not_modelled` in `PROJECT.json`: session persistence is in the plan;
the adaptive controller, demuxing, codecs, networking, platform calls, telemetry and the
user interface are numeric control, byte-level work, I/O or drawing, with no protocol
that these methods would show more about than their tests do. They are most of the
repository's lines. Of the parts that are partly modelled: paging, sorting and windows of
the stores, discovery and removal of servers, the login machine around a switch; of the
player the URI backend, the failed-open ladder, the Original trial, seeking and the
adaptive phases of the route.

## 7. Where the code and its comments disagree

Each is a run that expects a violation, with the comment quoted in `PROJECT.json`.

- `ended_for_another` (`SentAsPresser`). A write is said never to be sent as another
  member's. The end of a stream is fanned out under the credential its slot holds at that
  moment, not the one it was read under. A read-back answered before a switch swaps the
  tokens and landed before the new profile is published therefore makes a write with the
  next member's credential and the old profile; the runner's check compares credentials
  and lets it out, and the other copy is marked watched in the next member's record.
- `dropped_press` (`DisagreementIsOwed`). A queued press dropped on a token refresh is
  said to be restored by the read-back; none is owed, and the row stays wrong.
- `copies_disagree` (`CopiesAgree`). The end-of-stream fan-out looks for a newer press on
  the same copy only; one on another copy of the title is overwritten there, and the two
  servers settle differently.
- `pause_in_restore` (`ParkSavesWish`). A park inside a restore's Load is said to preserve the
  viewer's intent. A Play or Pause pressed during that Load is accepted as the attempt's
  goal, but the park saves the clock of the claim: a Pause during the Load, followed by a
  second app switch, comes back playing.
- `preview_orphan` (`EngineOnRoute`). A live Engine with neither the player page nor a
  preview is said to be impossible but for previews. A trailer's start that is deferred
  behind an Unload is read, one frame later, as a landing that started nothing; the preview
  is cleared, the start stays queued, and its Engine launches with no page to stop it. Only
  another Play removes it.
