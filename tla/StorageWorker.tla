---------------------------- MODULE StorageWorker -----------------------------
(***************************************************************************)
(* The bounded persistence executor (base/src/storage_worker.rs): one      *)
(* worker thread behind a bounded command queue, shared by every domain    *)
(* that saves to disk, and the backlog in front of it that keeps a user's  *)
(* edits while the queue is full or the thread cannot be started.          *)
(*                                                                         *)
(* Actors: the callers (Submit, SubmitRetained; each is serialised by a    *)
(* lock), the frame's pump of the backlog, the worker thread, and a worker *)
(* that panicked and is still closing its channels.  A pump holds the      *)
(* backlog's lock and hands over one job at a time, so the worker runs     *)
(* between two of its steps.                                               *)
(***************************************************************************)
EXTENDS Integers, Sequences

CONSTANTS
    Capacity,     \* CAPACITY, the queued commands
    MaxJobs,      \* bound: jobs submitted
    MaxPanics,    \* bound: operations that panic
    MaxRefused    \* bound: thread starts the system refuses

ASSUME StorageAssumption ==
    /\ Capacity \in Nat \ {0}
    /\ {MaxJobs, MaxPanics, MaxRefused} \subseteq Nat

VARIABLES
    slot,      \* SHARED: the executor callers submit to, 0 for None
    execs,     \* every executor started, the ones that died too
    backlog,   \* RETAINED.jobs
    backoff,   \* RETAINED.retry_at has not passed yet
    pumping,   \* RETAINED is locked by a caller inside pump_retained_locked
    tickets,   \* what the two channels of each ticket hold
    next_id,   \* jobs are numbered in the order they were submitted
    started,   \* history: the jobs in the order the worker began them
    refused    \* history: thread starts refused so far

swVars == <<slot, execs, backlog, backoff, pumping, tickets, next_id, started, refused>>

------------------------------------------------------------------------------
(* Jobs, executors and tickets.                                             *)

\* An edit came through submit_retained, a request through submit.
Job == [id : Nat, edit : BOOLEAN]

NoJob == [id |-> 0, edit |-> FALSE]

Phases == {"idle", "running", "unwinding", "closed", "dead"}

Executor == {x \in [queue : Seq(Job), job : Job, phase : Phases] : Len(x.queue) <= Capacity}

NewExecutor == [queue |-> <<>>, job |-> NoJob, phase |-> "idle"]

\* The executor with one more command, and in another phase of its job.
Queued(x, j) == [queue |-> Append(x.queue, j), job |-> x.job, phase |-> x.phase]

InPhase(x, phase) == [queue |-> x.queue, job |-> x.job, phase |-> phase]

\* Once the worker has dropped its receiver, try_send says Disconnected.
Open(x) == x.phase \in {"idle", "running", "unwinding"}

\* TypedTicket: `result` is sent or disconnected by the operation, `worker` is
\* sent or disconnected by whoever holds its other end.
Ticket == [edit : BOOLEAN, result : {"none", "open", "sent", "closed"},
           worker : {"none", "open", "closed"}]

Settled(t, result, worker) == [edit |-> t.edit, result |-> result, worker |-> worker]

NewTicket(edit) == [edit |-> edit, result |-> "open", worker |-> "open"]

\* A submission that was refused has none.
NoTicket == [edit |-> FALSE, result |-> "none", worker |-> "none"]

\* TypedTicket::try_recv
TryRecv(t) ==
    IF t.result = "sent" THEN "Ok"
    ELSE IF t.result = "closed" /\ t.worker = "closed" THEN "Disconnected"
    ELSE "Empty"

------------------------------------------------------------------------------
(* submit_shared, under the SHARED lock: start a worker if there is none,   *)
(* then one try_send.                                                       *)

\* Fault: one command too many.
FullLate(x) == Len(x.queue) > Capacity

Full(x) == Len(x.queue) >= Capacity

Started == IF slot = 0 THEN Append(execs, NewExecutor) ELSE execs

Target == IF slot = 0 THEN Len(execs) + 1 ELSE slot

Accept(j) ==
    /\ Open(Started[Target]) /\ ~Full(Started[Target])
    /\ execs' = [Started EXCEPT ![Target] = Queued(@, j)]
    /\ slot' = Target
    /\ UNCHANGED refused

\* Fault: a full worker is given up for a new one.
FullForgets ==
    /\ slot # 0 /\ Open(execs[slot]) /\ Full(execs[slot])
    /\ slot' = 0
    /\ UNCHANGED <<execs, refused>>

AnswersFull ==
    /\ slot # 0 /\ Open(execs[slot]) /\ Full(execs[slot])
    /\ UNCHANGED <<slot, execs, refused>>

\* Fault: the stopped worker keeps its place.
StoppedKept ==
    /\ slot # 0 /\ ~Open(execs[slot])
    /\ UNCHANGED <<slot, execs, refused>>

\* The dead worker's place is given up; the next submission starts another.
AnswersStopped ==
    /\ slot # 0 /\ ~Open(execs[slot])
    /\ slot' = 0
    /\ UNCHANGED <<execs, refused>>

AnswersStartFailed ==
    /\ slot = 0 /\ refused < MaxRefused
    /\ refused' = refused + 1
    /\ UNCHANGED <<slot, execs>>

\* A refused request is the caller's to deal with.
Submit ==
    /\ next_id <= MaxJobs
    /\ next_id' = next_id + 1
    /\ \/ /\ Accept([id |-> next_id, edit |-> FALSE])
          /\ tickets' = Append(tickets, NewTicket(FALSE))
       \/ /\ AnswersFull \/ AnswersStopped \/ AnswersStartFailed
          /\ tickets' = Append(tickets, NoTicket)
    /\ UNCHANGED <<backlog, backoff, pumping, started>>

------------------------------------------------------------------------------
(* The backlog, under the RETAINED lock.                                    *)

\* submit_retained: behind the edits that wait, then pump; a back-off that has
\* not passed ends the pump at once.
SubmitRetained ==
    /\ ~pumping
    /\ next_id <= MaxJobs
    /\ next_id' = next_id + 1
    /\ backlog' = Append(backlog, [id |-> next_id, edit |-> TRUE])
    /\ tickets' = Append(tickets, NewTicket(TRUE))
    /\ pumping' = ~backoff
    /\ UNCHANGED <<slot, execs, backoff, started, refused>>

\* pump_retained, once a frame.
PumpRetained ==
    /\ ~pumping /\ ~backoff /\ backlog # <<>>
    /\ pumping' = TRUE
    /\ UNCHANGED <<slot, execs, backlog, backoff, tickets, next_id, started, refused>>

\* The oldest edit is handed over and the loop goes on.
HandOver ==
    /\ pumping /\ backlog # <<>>
    /\ Accept(Head(backlog))
    /\ backlog' = Tail(backlog)
    /\ UNCHANGED <<backoff, pumping, tickets, next_id, started>>

\* Fault: an edit that was not taken goes behind the others.
RequeueLast ==
    /\ pumping /\ backlog # <<>>
    /\ AnswersFull \/ AnswersStopped \/ AnswersStartFailed
    /\ backoff' = (slot' # slot \/ refused' # refused)
    /\ pumping' = FALSE
    /\ backlog' = Append(Tail(backlog), Head(backlog))
    /\ UNCHANGED <<tickets, next_id, started>>

\* Fault: only a full queue keeps the edit.
PutBackFullOnly ==
    /\ pumping /\ backlog # <<>>
    /\ \/ AnswersFull /\ UNCHANGED <<backoff, backlog>>
       \/ (AnswersStopped \/ AnswersStartFailed) /\ backoff' = TRUE /\ backlog' = Tail(backlog)
    /\ pumping' = FALSE
    /\ UNCHANGED <<tickets, next_id, started>>

\* The executor did not take it: it goes back to the front and the pump ends,
\* with a second's back-off unless the queue was only full.
PutBack ==
    /\ pumping /\ backlog # <<>>
    /\ \/ AnswersFull /\ UNCHANGED backoff
       \/ (AnswersStopped \/ AnswersStartFailed) /\ backoff' = TRUE
    /\ pumping' = FALSE
    /\ UNCHANGED <<backlog, tickets, next_id, started>>

PumpEnds ==
    /\ pumping /\ backlog = <<>>
    /\ pumping' = FALSE
    /\ UNCHANGED <<slot, execs, backlog, backoff, tickets, next_id, started, refused>>

\* retry_at passes.
BackoffPasses ==
    /\ backoff
    /\ backoff' = FALSE
    /\ UNCHANGED <<slot, execs, backlog, pumping, tickets, next_id, started, refused>>

------------------------------------------------------------------------------
(* The worker thread of executor x.                                         *)

Becomes(x, next) ==
    /\ execs' = [execs EXCEPT ![x] = next]
    /\ UNCHANGED <<slot, backlog, backoff, pumping, next_id, refused>>

Take(x) ==
    /\ execs[x].phase = "idle" /\ execs[x].queue # <<>>
    /\ started' = Append(started, Head(execs[x].queue))
    /\ Becomes(x, [queue |-> Tail(execs[x].queue), job |-> Head(execs[x].queue),
                   phase |-> "running"])
    /\ UNCHANGED tickets

Complete(x) ==
    /\ execs[x].phase = "running"
    /\ tickets' = [tickets EXCEPT ![execs[x].job.id] = Settled(@, "sent", @.worker)]
    /\ Becomes(x, [queue |-> execs[x].queue, job |-> NoJob, phase |-> "idle"])
    /\ UNCHANGED started

\* The operation panics: the unwinding drops what the job's closure holds, the
\* result's sender, and for an edit the other sender (`done`) with it.
Unwind(x) ==
    /\ execs[x].phase = "running"
    /\ Len(execs) <= MaxPanics
    /\ tickets' = [tickets EXCEPT ![execs[x].job.id] =
                      Settled(@, "closed", IF execs[x].job.edit THEN "closed" ELSE @.worker)]
    /\ Becomes(x, InPhase(execs[x], "unwinding"))
    /\ UNCHANGED started

QueuedIn(x) == {execs[x].queue[k].id : k \in DOMAIN execs[x].queue}

\* Fault: the current ticket's sender goes before the receiver.
CloseReplyFirst(x) ==
    /\ execs[x].phase = "unwinding"
    /\ tickets' = [tickets EXCEPT ![execs[x].job.id] = Settled(@, @.result, "closed")]
    /\ Becomes(x, execs[x])
    /\ UNCHANGED started

\* drop(receiver): the commands that were queued go with it, and their tickets'
\* senders with them.
Close(x) ==
    /\ execs[x].phase = "unwinding"
    /\ tickets' = [n \in DOMAIN tickets |->
                     IF n \in QueuedIn(x) THEN Settled(tickets[n], "closed", "closed")
                     ELSE tickets[n]]
    /\ Becomes(x, [queue |-> <<>>, job |-> execs[x].job, phase |-> "closed"])
    /\ UNCHANGED started

\* drop(reply), and the thread is gone.
Die(x) ==
    /\ execs[x].phase = "closed"
    /\ tickets' = [tickets EXCEPT ![execs[x].job.id] = Settled(@, @.result, "closed")]
    /\ Becomes(x, [queue |-> execs[x].queue, job |-> NoJob, phase |-> "dead"])
    /\ UNCHANGED started

WorkerStep(x) == Take(x) \/ Complete(x) \/ Unwind(x) \/ Close(x) \/ Die(x)

PumpStep == HandOver \/ PutBack \/ PumpEnds

Init ==
    /\ slot = 0 /\ execs = <<>>
    /\ backlog = <<>> /\ backoff = FALSE /\ pumping = FALSE
    /\ tickets = <<>> /\ next_id = 1
    /\ started = <<>> /\ refused = 0

Next ==
    \/ Submit \/ SubmitRetained
    \/ PumpRetained \/ PumpStep \/ BackoffPasses
    \/ \E x \in DOMAIN execs : WorkerStep(x)

\* Frames pump, a caller inside the pump goes on, time passes, and a thread
\* that has something to do does it.
Fairness ==
    /\ WF_swVars(PumpRetained) /\ WF_swVars(PumpStep) /\ WF_swVars(BackoffPasses)
    /\ WF_swVars(\E x \in DOMAIN execs : WorkerStep(x))

Spec == Init /\ [][Next]_swVars /\ Fairness

------------------------------------------------------------------------------
\* The state is what the code's types allow.
TypeOK ==
    /\ slot \in 0..Len(execs)
    /\ execs \in Seq(Executor)
    /\ backlog \in Seq(Job)
    /\ backoff \in BOOLEAN /\ pumping \in BOOLEAN
    /\ tickets \in Seq(Ticket)
    /\ next_id \in Nat \ {0}
    /\ started \in Seq(Job)
    /\ refused \in Nat

\* One operation at a time: a second worker never runs beside one that is still
\* inside an operation, its unwinding included, although a dead worker is
\* replaced while its thread is still going down.
OneAtATime ==
    \A x, y \in DOMAIN execs :
        /\ execs[x].phase \in {"running", "unwinding"}
        /\ execs[y].phase \in {"running", "unwinding"}
        => x = y

\* "User edits retain their pending intent": edits are saved in the order they
\* were made and none is saved twice, whatever made the backlog wait.
EditsInOrder ==
    \A m, n \in DOMAIN started :
        m < n /\ started[m].edit /\ started[n].edit => started[m].id < started[n].id

Holds(q, n) == \E k \in DOMAIN q : q[k].id = n

Begun(n) == Holds(started, n)

\* The operation of job n panicked, or the worker died before it came to n.
Failed(n) == tickets[n].result = "closed"

\* An edit that has not begun waits in the backlog or in the queue of a worker
\* that can still take it, unless the worker that held it died.
EditsKept ==
    \A n \in DOMAIN tickets :
        tickets[n].edit /\ ~Begun(n) /\ ~Failed(n) =>
            \/ Holds(backlog, n)
            \/ slot # 0 /\ Open(execs[slot]) /\ Holds(execs[slot].queue, n)

\* A full queue never blocks an edit for good, nor does a refused start: each
\* edit begins, or the worker that held it died.
EditsBegin ==
    \A n \in 1..MaxJobs :
        (n \in DOMAIN tickets /\ tickets[n].edit) ~>
            (n \in DOMAIN tickets /\ (Begun(n) \/ Failed(n)))

\* "Keep the failure private until a following submit is guaranteed to observe
\* Stopped": whoever reads a failed request knows that no submission can land
\* behind the worker that failed it.
FailureIsPublic(n) ==
    TryRecv(tickets[n]) = "Disconnected" =>
        \A x \in DOMAIN execs : Open(execs[x]) => execs[x].job.id # n

RequestFailuresKnown == \A n \in DOMAIN tickets : ~tickets[n].edit => FailureIsPublic(n)

==============================================================================
