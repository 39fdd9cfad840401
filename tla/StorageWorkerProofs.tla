-------------------------- MODULE StorageWorkerProofs -------------------------
(***************************************************************************)
(* Proofs about StorageWorker, for every capacity and any number of jobs,  *)
(* panics and refused starts.                                              *)
(***************************************************************************)
EXTENDS StorageWorker, TLAPS

------------------------------------------------------------------------------
(* The inductive invariant.                                                 *)

\* Every executor but the callers' has closed its receiver, and a closed one
\* holds no command.
SlotInv ==
    \A x \in DOMAIN execs :
        /\ x # slot => ~Open(execs[x])
        /\ ~Open(execs[x]) => execs[x].queue = <<>>

\* What an executor is busy with was begun and has a ticket.
JobInv ==
    \A x \in DOMAIN execs : execs[x].phase \in {"running", "unwinding", "closed"} =>
        /\ Begun(execs[x].job.id)
        /\ execs[x].job.id \in DOMAIN tickets

\* In q the edits stand in the order they were made.
Ascending(q) ==
    \A m, n \in DOMAIN q : m < n /\ q[m].edit /\ q[n].edit => q[m].id < q[n].id

\* Every edit of p was made before every edit of q.
Precedes(p, q) ==
    \A m \in DOMAIN p, n \in DOMAIN q : p[m].edit /\ q[n].edit => p[m].id < q[n].id

\* Every job of q was given its number before the number next.
Numbered(q, next) == \A m \in DOMAIN q : 0 < q[m].id /\ q[m].id < next

\* The edits begun, queued and waiting are one sequence in the order made.
OrderInv ==
    /\ Len(tickets) = next_id - 1
    /\ Ascending(started) /\ Ascending(backlog) /\ Precedes(started, backlog)
    /\ Numbered(started, next_id) /\ Numbered(backlog, next_id)
    /\ \A m \in DOMAIN backlog : backlog[m].edit
    /\ \A x \in DOMAIN execs :
          /\ Ascending(execs[x].queue) /\ Numbered(execs[x].queue, next_id)
          /\ Precedes(started, execs[x].queue) /\ Precedes(execs[x].queue, backlog)

IInv == TypeOK /\ SlotInv /\ JobInv /\ OrderInv /\ EditsKept

------------------------------------------------------------------------------
(* Sequences.                                                               *)

\* Append keeps what was there and puts the new element last.
LEMMA AppendFacts ==
    ASSUME NEW S, NEW q \in Seq(S), NEW e \in S
    PROVE  /\ Append(q, e) \in Seq(S)
           /\ Len(Append(q, e)) = Len(q) + 1
           /\ DOMAIN Append(q, e) = 1..(Len(q) + 1)
           /\ \A i \in 1..Len(q) : Append(q, e)[i] = q[i]
           /\ Append(q, e)[Len(q) + 1] = e
  OBVIOUS

\* Tail keeps the others, one place nearer the front.
LEMMA TailFacts ==
    ASSUME NEW S, NEW q \in Seq(S), q # <<>>
    PROVE  /\ Head(q) \in S /\ Head(q) = q[1] /\ Len(q) \in Nat \ {0}
           /\ Tail(q) \in Seq(S)
           /\ DOMAIN q = 1..Len(q)
           /\ Len(Tail(q)) = Len(q) - 1
           /\ DOMAIN Tail(q) = 1..(Len(q) - 1)
           /\ \A i \in 1..(Len(q) - 1) : Tail(q)[i] = q[i + 1]
  OBVIOUS

\* An edit newer than a queue goes behind it.
LEMMA AppendAscends ==
    ASSUME NEW q \in Seq(Job), NEW j \in Job, Ascending(q), Precedes(q, <<j>>)
    PROVE  Ascending(Append(q, j))
  <1> DEFINE r == Append(q, j)
  <1>1. \A m, n \in DOMAIN r : m < n /\ r[m].edit /\ r[n].edit => r[m].id < r[n].id
    <2> SUFFICES ASSUME NEW m \in DOMAIN r, NEW n \in DOMAIN r,
                        m < n, r[m].edit, r[n].edit
                 PROVE  r[m].id < r[n].id
      OBVIOUS
    <2>1. DOMAIN q = 1..Len(q) /\ Len(q) \in Nat
      OBVIOUS
    <2>2. m \in DOMAIN q /\ r[m] = q[m]
      BY <2>1, AppendFacts
    <2>3. CASE n \in DOMAIN q
      <3>1. r[n] = q[n]
        BY <2>1, <2>3, AppendFacts
      <3> QED
        BY <2>2, <2>3, <3>1 DEF Ascending
    <2>4. CASE n \notin DOMAIN q
      <3>1. r[n] = j
        BY <2>1, <2>4, AppendFacts
      <3>2. 1 \in DOMAIN <<j>> /\ <<j>>[1] = j
        OBVIOUS
      <3> QED
        BY <2>2, <3>1, <3>2 DEF Precedes
    <2> QED
      BY <2>3, <2>4
  <1> QED
    BY <1>1 DEF Ascending

\* What precedes a queue and the newcomer precedes both together.
LEMMA AppendPreceded ==
    ASSUME NEW p \in Seq(Job), NEW q \in Seq(Job), NEW j \in Job,
           Precedes(p, q), Precedes(p, <<j>>)
    PROVE  Precedes(p, Append(q, j))
  <1> DEFINE r == Append(q, j)
  <1> SUFFICES ASSUME NEW m \in DOMAIN p, NEW n \in DOMAIN r, p[m].edit, r[n].edit
               PROVE  p[m].id < r[n].id
    BY DEF Precedes
  <1>1. DOMAIN q = 1..Len(q) /\ Len(q) \in Nat
    OBVIOUS
  <1>2. CASE n \in DOMAIN q
    <2>1. r[n] = q[n]
      BY <1>1, <1>2, AppendFacts
    <2> QED
      BY <1>2, <2>1 DEF Precedes
  <1>3. CASE n \notin DOMAIN q
    <2>1. r[n] = j
      BY <1>1, <1>3, AppendFacts
    <2>2. 1 \in DOMAIN <<j>> /\ <<j>>[1] = j
      OBVIOUS
    <2> QED
      BY <2>1, <2>2 DEF Precedes
  <1> QED
    BY <1>2, <1>3

\* A queue and the newcomer both precede what each of them precedes.
LEMMA AppendPrecedes ==
    ASSUME NEW p \in Seq(Job), NEW q \in Seq(Job), NEW j \in Job,
           Precedes(q, p), Precedes(<<j>>, p)
    PROVE  Precedes(Append(q, j), p)
  <1> DEFINE r == Append(q, j)
  <1> SUFFICES ASSUME NEW m \in DOMAIN r, NEW n \in DOMAIN p, r[m].edit, p[n].edit
               PROVE  r[m].id < p[n].id
    BY DEF Precedes
  <1>1. DOMAIN q = 1..Len(q) /\ Len(q) \in Nat
    OBVIOUS
  <1>2. CASE m \in DOMAIN q
    <2>1. r[m] = q[m]
      BY <1>1, <1>2, AppendFacts
    <2> QED
      BY <1>2, <2>1 DEF Precedes
  <1>3. CASE m \notin DOMAIN q
    <2>1. r[m] = j
      BY <1>1, <1>3, AppendFacts
    <2>2. 1 \in DOMAIN <<j>> /\ <<j>>[1] = j
      OBVIOUS
    <2> QED
      BY <2>1, <2>2 DEF Precedes
  <1> QED
    BY <1>2, <1>3

\* The head of an ordered queue precedes its tail, which is as ordered and as
\* late as the queue was.
LEMMA TailOrder ==
    ASSUME NEW q \in Seq(Job), q # <<>>, Ascending(q)
    PROVE  /\ Ascending(Tail(q))
           /\ Precedes(<<Head(q)>>, Tail(q))
           /\ \A p : Precedes(p, q) => Precedes(p, Tail(q)) /\ Precedes(p, <<Head(q)>>)
           /\ \A p : Precedes(q, p) => Precedes(Tail(q), p) /\ Precedes(<<Head(q)>>, p)
  <1>0. Len(q) \in Nat \ {0}
    BY TailFacts
  <1>1. 1 \in DOMAIN q /\ Head(q) = q[1]
    BY <1>0, TailFacts
  <1>2. \A i \in DOMAIN Tail(q) : i \in Nat /\ 1 < i + 1 /\ i + 1 \in DOMAIN q /\ Tail(q)[i] = q[i + 1]
    BY <1>0, TailFacts
  <1>3. DOMAIN <<Head(q)>> = {1} /\ <<Head(q)>>[1] = q[1]
    BY <1>1
  <1>4. Ascending(Tail(q))
    <2> SUFFICES ASSUME NEW m \in DOMAIN Tail(q), NEW n \in DOMAIN Tail(q),
                        m < n, Tail(q)[m].edit, Tail(q)[n].edit
                 PROVE  Tail(q)[m].id < Tail(q)[n].id
      BY DEF Ascending
    <2>1. m + 1 < n + 1
      BY <1>2
    <2> QED
      BY <1>2, <2>1 DEF Ascending
  <1>5. Precedes(<<Head(q)>>, Tail(q))
    BY <1>1, <1>2, <1>3 DEF Ascending, Precedes
  <1>6. ASSUME NEW p, Precedes(p, q) PROVE Precedes(p, Tail(q)) /\ Precedes(p, <<Head(q)>>)
    BY <1>1, <1>2, <1>3, <1>6 DEF Precedes
  <1>7. ASSUME NEW p, Precedes(q, p) PROVE Precedes(Tail(q), p) /\ Precedes(<<Head(q)>>, p)
    BY <1>1, <1>2, <1>3, <1>7 DEF Precedes
  <1> QED
    BY <1>4, <1>5, <1>6, <1>7

------------------------------------------------------------------------------
(* One submission.                                                          *)

\* The queue a submission finds: that of the callers' executor, or a new one's.
Found == IF slot = 0 THEN <<>> ELSE execs[slot].queue

\* A taken submission appends to that queue and touches nothing else.
LEMMA AcceptShape ==
    ASSUME TypeOK, SlotInv, NEW j \in Job, Accept(j)
    PROVE  /\ execs' \in Seq(Executor)
           /\ slot' \in DOMAIN execs' /\ slot' \in 1..Len(execs')
           /\ Open(execs'[slot'])
           /\ Found \in Seq(Job)
           /\ execs'[slot'].queue = Append(Found, j)
           /\ \A x \in DOMAIN execs' : x # slot' => x \in DOMAIN execs /\ execs'[x] = execs[x]
           /\ \A x \in DOMAIN execs : x \in DOMAIN execs' /\ execs'[x].phase = execs[x].phase
                                         /\ execs'[x].job = execs[x].job
           /\ slot' \in DOMAIN execs => slot' = slot
           /\ slot' \notin DOMAIN execs => slot = 0 /\ execs'[slot'].phase = "idle"
  <1> USE StorageAssumption DEF TypeOK
  <1>1. CASE slot = 0
    <2>1. NewExecutor \in Executor /\ NoJob \in Job
      BY DEF NewExecutor, Executor, Job, NoJob, Phases
    <2>2. Started = Append(execs, NewExecutor) /\ Target = Len(execs) + 1
      BY <1>1 DEF Started, Target
    <2>3. /\ Started \in Seq(Executor) /\ DOMAIN Started = 1..(Len(execs) + 1)
          /\ Len(Started) = Len(execs) + 1
          /\ \A i \in 1..Len(execs) : Started[i] = execs[i]
          /\ Started[Target] = NewExecutor
      BY <2>1, <2>2
    <2>4. execs' = [Started EXCEPT ![Target] = Queued(@, j)] /\ slot' = Target
      BY DEF Accept
    <2>5. Len(execs) \in Nat /\ DOMAIN execs = 1..Len(execs)
      OBVIOUS
    <2>6. Queued(NewExecutor, j) = [queue |-> Append(<<>>, j), job |-> NoJob, phase |-> "idle"]
      BY DEF NewExecutor, Queued
    <2>7. [queue |-> Append(<<>>, j), job |-> NoJob, phase |-> "idle"] \in Executor
      <3>1. Append(<<>>, j) \in Seq(Job) /\ Len(Append(<<>>, j)) = 1
        OBVIOUS
      <3>2. 1 <= Capacity
        BY StorageAssumption
      <3> QED
        BY <2>1, <3>1, <3>2 DEF Executor, Phases
    <2>8. execs'[slot'] = [queue |-> Append(<<>>, j), job |-> NoJob, phase |-> "idle"]
      BY <2>2, <2>3, <2>4, <2>5, <2>6
    <2>9. \A x \in DOMAIN Started : x # slot' => execs'[x] = Started[x]
      BY <2>4
    <2>10. execs' \in Seq(Executor) /\ DOMAIN execs' = DOMAIN Started /\ Len(execs') = Len(Started)
      BY <2>2, <2>3, <2>4, <2>5, <2>6, <2>7
    <2>11. Found = <<>> /\ Found \in Seq(Job)
      BY <1>1 DEF Found
    <2>12. Open(execs'[slot'])
      BY <2>8 DEF Open
    <2> QED
      BY <1>1, <2>2, <2>3, <2>4, <2>5, <2>8, <2>9, <2>10, <2>11, <2>12
  <1>2. CASE slot # 0
    <2>1. Started = execs /\ Target = slot /\ Found = execs[slot].queue
      BY <1>2 DEF Started, Target, Found
    <2>2. slot \in DOMAIN execs /\ DOMAIN execs = 1..Len(execs) /\ Len(execs) \in Nat
      BY <1>2
    <2>3. execs[slot] \in Executor
      BY <2>2
    <2>4. /\ execs[slot].queue \in Seq(Job) /\ execs[slot].job \in Job
          /\ execs[slot].phase \in Phases
          /\ execs[slot] = [queue |-> execs[slot].queue, job |-> execs[slot].job,
                            phase |-> execs[slot].phase]
      BY <2>3 DEF Executor
    <2>5. Open(execs[slot]) /\ Len(execs[slot].queue) < Capacity
      BY <2>1, <2>4 DEF Accept, Full
    <2>6. execs' = [execs EXCEPT ![slot] = Queued(@, j)] /\ slot' = slot
      BY <2>1 DEF Accept
    <2>7. execs'[slot] = [queue |-> Append(execs[slot].queue, j), job |-> execs[slot].job,
                          phase |-> execs[slot].phase]
      BY <2>2, <2>4, <2>6 DEF Queued
    <2>8. execs'[slot] \in Executor
      <3>1. /\ Append(execs[slot].queue, j) \in Seq(Job)
            /\ Len(Append(execs[slot].queue, j)) <= Capacity
        BY <2>4, <2>5
      <3> QED
        BY <2>4, <2>7, <3>1 DEF Executor
    <2>9. /\ DOMAIN execs' = DOMAIN execs
          /\ \A x \in DOMAIN execs : x # slot => execs'[x] = execs[x]
      BY <2>6
    <2>10. execs' \in Seq(Executor) /\ Len(execs') = Len(execs)
      BY <2>2, <2>6, <2>8, <2>9
    <2>11. Open(execs'[slot'])
      BY <2>5, <2>6, <2>7 DEF Open
    <2> QED
      BY <2>1, <2>2, <2>4, <2>6, <2>7, <2>9, <2>10, <2>11
  <1> QED
    BY <1>1, <1>2

\* A submission that is not taken leaves the executors alone, and gives up the
\* callers' only once it is closed.
LEMMA RefusedShape ==
    ASSUME TypeOK, AnswersFull \/ AnswersStopped \/ AnswersStartFailed
    PROVE  /\ execs' = execs /\ slot' \in 0..Len(execs) /\ refused' \in Nat
           /\ slot' # slot => slot' = 0 /\ ~Open(execs[slot]) /\ slot \in DOMAIN execs
  BY DEF TypeOK, AnswersFull, AnswersStopped, AnswersStartFailed

------------------------------------------------------------------------------
(* Type correctness.                                                        *)

\* A taken or refused submission keeps the types.
LEMMA SubmitType == ASSUME TypeOK, SlotInv, Submit PROVE TypeOK'
  <1>1. next_id' \in Nat \ {0} /\ backlog' = backlog /\ backoff' = backoff
        /\ pumping' = pumping /\ started' = started
    BY DEF TypeOK, Submit
  <1>2. tickets' \in Seq(Ticket)
    <2>1. NewTicket(FALSE) \in Ticket /\ NoTicket \in Ticket
      BY DEF NewTicket, NoTicket, Ticket
    <2>2. tickets' = Append(tickets, NewTicket(FALSE)) \/ tickets' = Append(tickets, NoTicket)
      BY DEF Submit
    <2>3. tickets \in Seq(Ticket)
      BY DEF TypeOK
    <2>4. Append(tickets, NewTicket(FALSE)) \in Seq(Ticket)
      BY <2>1, <2>3, AppendFacts
    <2>5. Append(tickets, NoTicket) \in Seq(Ticket)
      BY <2>1, <2>3, AppendFacts
    <2> QED
      BY <2>2, <2>4, <2>5
  <1>3. CASE Accept([id |-> next_id, edit |-> FALSE])
    <2>1. [id |-> next_id, edit |-> FALSE] \in Job
      BY DEF TypeOK, Job
    <2>2. execs' \in Seq(Executor) /\ slot' \in 1..Len(execs')
      BY <1>3, <2>1, AcceptShape
    <2>3. refused' = refused
      BY <1>3 DEF Accept
    <2> QED
      BY <1>1, <1>2, <2>2, <2>3 DEF TypeOK
  <1>4. CASE AnswersFull \/ AnswersStopped \/ AnswersStartFailed
    <2>1. execs' = execs /\ slot' \in 0..Len(execs) /\ refused' \in Nat
      BY <1>4, RefusedShape
    <2> QED
      BY <1>1, <1>2, <2>1 DEF TypeOK
  <1> QED
    BY <1>3, <1>4 DEF Submit

\* The backlog's steps keep the types.
LEMMA BacklogType ==
    ASSUME TypeOK, SlotInv, SubmitRetained \/ PumpRetained \/ PumpStep \/ BackoffPasses
    PROVE  TypeOK'
  <1>1. CASE SubmitRetained
    <2>1. [id |-> next_id, edit |-> TRUE] \in Job /\ NewTicket(TRUE) \in Ticket
      BY DEF TypeOK, Job, NewTicket, Ticket
    <2>2. backlog \in Seq(Job) /\ tickets \in Seq(Ticket)
      BY DEF TypeOK
    <2>3. /\ backlog' = Append(backlog, [id |-> next_id, edit |-> TRUE])
          /\ tickets' = Append(tickets, NewTicket(TRUE))
      BY <1>1 DEF SubmitRetained
    <2>4. backlog' \in Seq(Job) /\ tickets' \in Seq(Ticket)
      BY <2>1, <2>2, <2>3, AppendFacts
    <2>5. pumping' \in BOOLEAN
      BY <1>1 DEF SubmitRetained, TypeOK
    <2>6. next_id' \in Nat \ {0}
      BY <1>1 DEF SubmitRetained, TypeOK
    <2>7. UNCHANGED <<slot, execs, backoff, started, refused>>
      BY <1>1 DEF SubmitRetained
    <2> QED
      BY <2>4, <2>5, <2>6, <2>7 DEF TypeOK
  <1>2. CASE PumpRetained \/ PumpEnds \/ BackoffPasses
    BY <1>2 DEF TypeOK, PumpRetained, PumpEnds, BackoffPasses
  <1>3. CASE HandOver
    <2>1. backlog \in Seq(Job) /\ backlog # <<>>
      BY <1>3 DEF TypeOK, HandOver
    <2>2. Head(backlog) \in Job /\ Tail(backlog) \in Seq(Job)
      BY <2>1
    <2>3. execs' \in Seq(Executor) /\ slot' \in 1..Len(execs')
      BY <1>3, <2>2, AcceptShape DEF HandOver
    <2>4. refused' = refused
      BY <1>3 DEF Accept, HandOver
    <2> QED
      BY <1>3, <2>2, <2>3, <2>4 DEF TypeOK, HandOver
  <1>4. CASE PutBack
    <2>1. execs' = execs /\ slot' \in 0..Len(execs) /\ refused' \in Nat
      BY <1>4, RefusedShape DEF PutBack
    <2> QED
      BY <1>4, <2>1 DEF TypeOK, PutBack
  <1> QED
    BY <1>1, <1>2, <1>3, <1>4 DEF PumpStep

\* What a worker's step makes of the executors and of the tickets.
LEMMA WorkerShape ==
    ASSUME TypeOK, JobInv, NEW x \in DOMAIN execs, WorkerStep(x)
    PROVE  /\ execs' \in Seq(Executor) /\ DOMAIN execs' = DOMAIN execs
           /\ Len(execs') = Len(execs)
           /\ \A y \in DOMAIN execs : y # x => execs'[y] = execs[y]
           /\ tickets' \in Seq(Ticket) /\ DOMAIN tickets' = DOMAIN tickets
           /\ Len(tickets') = Len(tickets)
           /\ \A n \in DOMAIN tickets : tickets'[n].edit = tickets[n].edit
           /\ UNCHANGED <<slot, backlog, backoff, pumping, next_id, refused>>
  <1>1. /\ execs[x] \in Executor /\ execs[x].queue \in Seq(Job) /\ execs[x].job \in Job
        /\ execs[x].phase \in Phases /\ Len(execs[x].queue) <= Capacity
    BY DEF TypeOK, Executor
  <1>2. NoJob \in Job
    BY DEF NoJob, Job
  <1>3. ASSUME NEW next \in Executor, Becomes(x, next)
        PROVE  /\ execs' \in Seq(Executor) /\ DOMAIN execs' = DOMAIN execs
               /\ Len(execs') = Len(execs)
               /\ \A y \in DOMAIN execs : y # x => execs'[y] = execs[y]
               /\ UNCHANGED <<slot, backlog, backoff, pumping, next_id, refused>>
    BY <1>3 DEF TypeOK, Becomes
  <1>4. ASSUME NEW n \in DOMAIN tickets, NEW r \in {"sent", "closed"},
               NEW w \in {"none", "open", "closed"},
               tickets' = [tickets EXCEPT ![n] = Settled(@, r, w)]
        PROVE  /\ tickets' \in Seq(Ticket) /\ DOMAIN tickets' = DOMAIN tickets
               /\ Len(tickets') = Len(tickets)
               /\ \A m \in DOMAIN tickets : tickets'[m].edit = tickets[m].edit
    <2>1. tickets[n] \in Ticket
      BY DEF TypeOK
    <2>2. Settled(tickets[n], r, w) \in Ticket /\ Settled(tickets[n], r, w).edit = tickets[n].edit
      BY <2>1 DEF Settled, Ticket
    <2> QED
      BY <1>4, <2>2 DEF TypeOK
  <1>5. ASSUME NEW n \in DOMAIN tickets
        PROVE  tickets[n].worker \in {"none", "open", "closed"}
               /\ tickets[n].result \in {"none", "open", "sent", "closed"}
    <2>1. tickets[n] \in Ticket
      BY DEF TypeOK
    <2> QED
      BY <2>1 DEF Ticket
  <1>6. CASE Take(x)
    <2>1. execs[x].queue # <<>>
      BY <1>6 DEF Take
    <2>2. Head(execs[x].queue) \in Job /\ Tail(execs[x].queue) \in Seq(Job)
          /\ Len(Tail(execs[x].queue)) <= Capacity
      BY <1>1, <2>1, TailFacts, StorageAssumption
    <2>3. [queue |-> Tail(execs[x].queue), job |-> Head(execs[x].queue), phase |-> "running"]
             \in Executor
      BY <2>2 DEF Executor, Phases
    <2> QED
      BY <1>3, <1>6, <2>3 DEF Take, TypeOK
  <1>7. CASE Complete(x)
    <2>1. execs[x].job.id \in DOMAIN tickets
      BY <1>7 DEF Complete, JobInv
    <2>2. [queue |-> execs[x].queue, job |-> NoJob, phase |-> "idle"] \in Executor
      BY <1>1, <1>2 DEF Executor, Phases
    <2> QED
      BY <1>3, <1>4, <1>5, <1>7, <2>1, <2>2 DEF Complete
  <1>8. CASE Unwind(x)
    <2>1. execs[x].job.id \in DOMAIN tickets
      BY <1>8 DEF Unwind, JobInv
    <2>2. InPhase(execs[x], "unwinding") \in Executor
      BY <1>1 DEF Executor, Phases, InPhase
    <2> QED
      BY <1>3, <1>4, <1>5, <1>8, <2>1, <2>2 DEF Unwind
  <1>9. CASE Close(x)
    <2>1. [queue |-> <<>>, job |-> execs[x].job, phase |-> "closed"] \in Executor
      <3>1. <<>> \in Seq(Job) /\ Len(<<>>) = 0 /\ 0 <= Capacity
        BY StorageAssumption
      <3> QED
        BY <1>1, <3>1 DEF Executor, Phases
    <2>2. \A n \in DOMAIN tickets :
             /\ tickets[n] \in Ticket
             /\ Settled(tickets[n], "closed", "closed") \in Ticket
             /\ Settled(tickets[n], "closed", "closed").edit = tickets[n].edit
      <3> SUFFICES ASSUME NEW n \in DOMAIN tickets
                   PROVE  /\ tickets[n] \in Ticket
                          /\ Settled(tickets[n], "closed", "closed") \in Ticket
                          /\ Settled(tickets[n], "closed", "closed").edit = tickets[n].edit
        OBVIOUS
      <3>1. tickets[n] \in Ticket
        BY DEF TypeOK
      <3> QED
        BY <3>1 DEF Settled, Ticket
    <2>3. DOMAIN tickets' = DOMAIN tickets
      BY <1>9 DEF Close
    <2>4. \A n \in DOMAIN tickets : tickets'[n] \in Ticket /\ tickets'[n].edit = tickets[n].edit
      BY <1>9, <2>2 DEF Close
    <2>5. tickets' \in Seq(Ticket) /\ Len(tickets') = Len(tickets)
      BY <1>9, <2>3, <2>4 DEF Close, TypeOK
    <2> QED
      BY <1>3, <1>9, <2>1, <2>3, <2>4, <2>5 DEF Close
  <1>10. CASE Die(x)
    <2>1. execs[x].job.id \in DOMAIN tickets
      BY <1>10 DEF Die, JobInv
    <2>2. [queue |-> execs[x].queue, job |-> NoJob, phase |-> "dead"] \in Executor
      BY <1>1, <1>2 DEF Executor, Phases
    <2>3. \A m \in DOMAIN tickets : tickets[m] \in Ticket
      BY DEF TypeOK
    <2>4. /\ Settled(tickets[execs[x].job.id], tickets[execs[x].job.id].result, "closed") \in Ticket
          /\ Settled(tickets[execs[x].job.id], tickets[execs[x].job.id].result, "closed").edit
               = tickets[execs[x].job.id].edit
      BY <2>1, <2>3 DEF Settled, Ticket
    <2>5. /\ tickets' \in Seq(Ticket) /\ DOMAIN tickets' = DOMAIN tickets
          /\ Len(tickets') = Len(tickets)
          /\ \A m \in DOMAIN tickets : tickets'[m].edit = tickets[m].edit
      BY <1>10, <2>1, <2>4 DEF Die, TypeOK
    <2> QED
      BY <1>3, <1>10, <2>2, <2>5 DEF Die
  <1> QED
    BY <1>6, <1>7, <1>8, <1>9, <1>10 DEF WorkerStep

\* A worker's step keeps the types.
LEMMA WorkerType ==
    ASSUME TypeOK, JobInv, NEW x \in DOMAIN execs, WorkerStep(x)
    PROVE  TypeOK'
  <1>1. started' \in Seq(Job)
    <2>1. CASE Take(x)
      <3>1. execs[x].queue \in Seq(Job) /\ execs[x].queue # <<>>
        BY <2>1 DEF Take, TypeOK, Executor
      <3>2. Head(execs[x].queue) \in Job
        BY <3>1
      <3> QED
        BY <2>1, <3>2 DEF Take, TypeOK
    <2>2. CASE Complete(x) \/ Unwind(x) \/ Close(x) \/ Die(x)
      BY <2>2 DEF Complete, Unwind, Close, Die, TypeOK
    <2> QED
      BY <2>1, <2>2 DEF WorkerStep
  <1>2. /\ execs' \in Seq(Executor) /\ Len(execs') = Len(execs)
        /\ tickets' \in Seq(Ticket)
        /\ UNCHANGED <<slot, backlog, backoff, pumping, next_id, refused>>
    BY WorkerShape
  <1> QED
    BY <1>1, <1>2 DEF TypeOK

------------------------------------------------------------------------------
(* The executors.                                                           *)

\* What a queue holds it holds with one more behind it.
LEMMA AppendHolds ==
    ASSUME NEW q \in Seq(Job), NEW j \in Job
    PROVE  /\ Holds(Append(q, j), j.id)
           /\ \A n : Holds(q, n) => Holds(Append(q, j), n)
  <1>1. /\ Len(q) \in Nat /\ DOMAIN q = 1..Len(q)
        /\ DOMAIN Append(q, j) = 1..(Len(q) + 1)
        /\ \A i \in 1..Len(q) : Append(q, j)[i] = q[i]
        /\ Append(q, j)[Len(q) + 1] = j
    BY AppendFacts
  <1>2. DOMAIN q \subseteq DOMAIN Append(q, j) /\ Len(q) + 1 \in DOMAIN Append(q, j)
    BY <1>1
  <1> QED
    BY <1>1, <1>2 DEF Holds

\* What has begun stays begun.
LEMMA BegunGrows ==
    ASSUME TypeOK, NEW n, Begun(n),
           started' = started \/ \E j \in Job : started' = Append(started, j)
    PROVE  Holds(started', n)
  <1>1. started \in Seq(Job)
    BY DEF TypeOK
  <1>2. Holds(started, n)
    BY DEF Begun
  <1>3. CASE started' = started
    BY <1>2, <1>3
  <1>4. CASE \E j \in Job : started' = Append(started, j)
    BY <1>1, <1>2, <1>4, AppendHolds
  <1> QED
    BY <1>3, <1>4

\* A submission leaves the callers' executor the only open one.
LEMMA AcceptSlot ==
    ASSUME TypeOK, TypeOK', SlotInv, JobInv, NEW j \in Job, Accept(j), started' = started,
           DOMAIN tickets \subseteq DOMAIN tickets'
    PROVE  SlotInv' /\ JobInv'
  <1>1. /\ Open(execs'[slot'])
        /\ \A x \in DOMAIN execs' : x # slot' => x \in DOMAIN execs /\ execs'[x] = execs[x]
        /\ \A x \in DOMAIN execs : execs'[x].phase = execs[x].phase /\ execs'[x].job = execs[x].job
        /\ slot' \in DOMAIN execs => slot' = slot
        /\ slot' \notin DOMAIN execs => slot = 0 /\ execs'[slot'].phase = "idle"
    BY AcceptShape
  <1>2. \A x \in DOMAIN execs : x # 0
    BY DEF TypeOK
  <1>3. SlotInv'
    <2> SUFFICES ASSUME NEW x \in DOMAIN execs'
                 PROVE  /\ x # slot' => ~Open(execs'[x])
                        /\ ~Open(execs'[x]) => execs'[x].queue = <<>>
      BY DEF SlotInv, Open
    <2>1. CASE x = slot'
      BY <1>1, <2>1
    <2>2. CASE x # slot'
      <3>1. x \in DOMAIN execs /\ execs'[x] = execs[x] /\ x # slot
        BY <1>1, <1>2, <2>2
      <3> QED
        BY <2>2, <3>1 DEF SlotInv
    <2> QED
      BY <2>1, <2>2
  <1>4. JobInv'
    <2> SUFFICES ASSUME NEW x \in DOMAIN execs',
                        execs'[x].phase \in {"running", "unwinding", "closed"}
                 PROVE  Holds(started', execs'[x].job.id) /\ execs'[x].job.id \in DOMAIN tickets'
      BY DEF JobInv, Begun
    <2>1. x \in DOMAIN execs /\ execs'[x].phase = execs[x].phase /\ execs'[x].job = execs[x].job
      BY <1>1
    <2>2. Begun(execs[x].job.id) /\ execs[x].job.id \in DOMAIN tickets
      BY <2>1 DEF JobInv
    <2> QED
      BY <2>1, <2>2 DEF Begun
  <1> QED
    BY <1>3, <1>4

\* So does one that is refused, and any step that leaves the executors alone.
LEMMA IdleSlot ==
    ASSUME TypeOK, TypeOK', SlotInv, JobInv, execs' = execs, started' = started,
           slot' # slot => slot' = 0 /\ ~Open(execs[slot]),
           DOMAIN tickets \subseteq DOMAIN tickets'
    PROVE  SlotInv' /\ JobInv'
  <1>1. \A x \in DOMAIN execs : x # slot' => ~Open(execs[x])
    BY DEF SlotInv
  <1>2. SlotInv'
    BY <1>1 DEF SlotInv, Open
  <1>3. JobInv'
    BY DEF JobInv, Begun
  <1> QED
    BY <1>2, <1>3

\* The executor a worker's step leaves behind it.
LEMMA WorkerPhase ==
    ASSUME TypeOK, SlotInv, JobInv, NEW x \in DOMAIN execs, WorkerStep(x)
    PROVE  /\ Open(execs'[x]) => Open(execs[x])
           /\ ~Open(execs'[x]) => execs'[x].queue = <<>>
           /\ execs'[x].phase \in {"unwinding", "closed"} =>
                 /\ execs'[x].job = execs[x].job
                 /\ execs[x].phase \in {"running", "unwinding"}
           /\ execs'[x].phase = "running" =>
                 Take(x) /\ execs'[x].job = Head(execs[x].queue)
           /\ Take(x) => execs'[x].queue = Tail(execs[x].queue)
           /\ ~Take(x) => started' = started /\ execs'[x].queue \in {execs[x].queue, <<>>}
  <1>0. \A next : Becomes(x, next) => execs'[x] = next
    BY DEF Becomes, TypeOK
  <1>1. CASE Take(x)
    <2>1. execs'[x] = [queue |-> Tail(execs[x].queue), job |-> Head(execs[x].queue),
                       phase |-> "running"]
      BY <1>0, <1>1 DEF Take
    <2> QED
      BY <1>1, <2>1 DEF Take, Open
  <1>2. CASE Complete(x)
    <2>1. execs'[x] = [queue |-> execs[x].queue, job |-> NoJob, phase |-> "idle"]
      BY <1>0, <1>2 DEF Complete
    <2> QED
      BY <1>2, <2>1 DEF Complete, Take, Open
  <1>3. CASE Unwind(x)
    <2>1. execs'[x] = [queue |-> execs[x].queue, job |-> execs[x].job, phase |-> "unwinding"]
      BY <1>0, <1>3 DEF Unwind, InPhase
    <2> QED
      BY <1>3, <2>1 DEF Unwind, Take, Open
  <1>4. CASE Close(x)
    <2>1. execs'[x] = [queue |-> <<>>, job |-> execs[x].job, phase |-> "closed"]
      BY <1>0, <1>4 DEF Close
    <2> QED
      BY <1>4, <2>1 DEF Close, Take, Open
  <1>5. CASE Die(x)
    <2>1. execs'[x] = [queue |-> execs[x].queue, job |-> NoJob, phase |-> "dead"]
      BY <1>0, <1>5 DEF Die
    <2>2. execs[x].queue = <<>>
      BY <1>5 DEF Die, SlotInv, Open
    <2> QED
      BY <1>5, <2>1, <2>2 DEF Die, Take, Open
  <1> QED
    BY <1>1, <1>2, <1>3, <1>4, <1>5 DEF WorkerStep

\* A worker's step begins at most one job, the head of its queue.
LEMMA WorkerStarts ==
    ASSUME TypeOK, SlotInv, JobInv, NEW x \in DOMAIN execs, WorkerStep(x)
    PROVE  /\ Take(x) => /\ execs[x].queue \in Seq(Job) /\ execs[x].queue # <<>>
                         /\ Head(execs[x].queue) \in Job
                         /\ started' = Append(started, Head(execs[x].queue))
           /\ started' = started \/ \E j \in Job : started' = Append(started, j)
  <1>1. CASE Take(x)
    <2>1. execs[x].queue \in Seq(Job) /\ execs[x].queue # <<>>
      BY <1>1 DEF Take, TypeOK, Executor
    <2>2. Head(execs[x].queue) \in Job
      BY <2>1, TailFacts
    <2> QED
      BY <1>1, <2>1, <2>2 DEF Take
  <1>2. CASE ~Take(x)
    BY <1>2, WorkerPhase
  <1> QED
    BY <1>1, <1>2

\* A worker's step leaves no executor but the callers' open, and what it makes
\* the executor busy with has begun.
LEMMA WorkerSlot ==
    ASSUME TypeOK, SlotInv, JobInv, OrderInv, NEW x \in DOMAIN execs, WorkerStep(x)
    PROVE  SlotInv' /\ JobInv'
  <1>1. /\ DOMAIN execs' = DOMAIN execs /\ slot' = slot
        /\ \A y \in DOMAIN execs : y # x => execs'[y] = execs[y]
        /\ DOMAIN tickets' = DOMAIN tickets
    BY WorkerShape
  <1>2. SlotInv'
    <2> SUFFICES ASSUME NEW y \in DOMAIN execs
                 PROVE  /\ y # slot => ~Open(execs'[y])
                        /\ ~Open(execs'[y]) => execs'[y].queue = <<>>
      BY <1>1 DEF SlotInv, Open
    <2>1. CASE y = x
      BY <2>1, WorkerPhase DEF SlotInv
    <2>2. CASE y # x
      BY <1>1, <2>2 DEF SlotInv
    <2> QED
      BY <2>1, <2>2
  <1>3. JobInv'
    <2> SUFFICES ASSUME NEW y \in DOMAIN execs,
                        execs'[y].phase \in {"running", "unwinding", "closed"}
                 PROVE  Holds(started', execs'[y].job.id) /\ execs'[y].job.id \in DOMAIN tickets
      BY <1>1 DEF JobInv, Begun
    <2>1. ASSUME execs'[y].job = execs[y].job,
                 execs[y].phase \in {"running", "unwinding", "closed"}
          PROVE  Holds(started', execs'[y].job.id) /\ execs'[y].job.id \in DOMAIN tickets
      BY <2>1, BegunGrows, WorkerStarts DEF JobInv
    <2>2. CASE y # x
      BY <1>1, <2>1, <2>2
    <2>3. CASE y = x /\ execs'[x].phase \in {"unwinding", "closed"}
      BY <2>1, <2>3, WorkerPhase
    <2>4. CASE y = x /\ execs'[x].phase = "running"
      <3>1. /\ execs[x].queue \in Seq(Job) /\ execs[x].queue # <<>>
            /\ Head(execs[x].queue) \in Job
            /\ started' = Append(started, Head(execs[x].queue))
            /\ execs'[x].job = Head(execs[x].queue)
        BY <2>4, WorkerPhase, WorkerStarts
      <3>2. Holds(started', Head(execs[x].queue).id)
        BY <3>1, AppendHolds DEF TypeOK
      <3>3. 1 \in DOMAIN execs[x].queue /\ Head(execs[x].queue) = execs[x].queue[1]
        BY <3>1, TailFacts
      <3>4. 0 < Head(execs[x].queue).id /\ Head(execs[x].queue).id < next_id
        BY <3>3 DEF OrderInv, Numbered
      <3>5. Head(execs[x].queue).id \in Nat
        BY <3>1 DEF Job
      <3>6. DOMAIN tickets = 1..(next_id - 1) /\ next_id \in Nat
        BY DEF OrderInv, TypeOK
      <3>7. Head(execs[x].queue).id \in DOMAIN tickets
        BY <3>4, <3>5, <3>6
      <3> QED
        BY <2>4, <3>1, <3>2, <3>7
    <2> QED
      BY <2>2, <2>3, <2>4
  <1> QED
    BY <1>2, <1>3

------------------------------------------------------------------------------
(* The order of the edits.                                                  *)

\* Later numbers leave the earlier ones given out.
LEMMA NumberedLater ==
    ASSUME NEW q \in Seq(Job), NEW m \in Nat, NEW n \in Nat, m <= n, Numbered(q, m)
    PROVE  Numbered(q, n)
  <1> SUFFICES ASSUME NEW k \in DOMAIN q PROVE 0 < q[k].id /\ q[k].id < n
    BY DEF Numbered
  <1>1. q[k] \in Job
    OBVIOUS
  <1>2. q[k].id \in Nat
    BY <1>1 DEF Job
  <1> QED
    BY <1>2 DEF Numbered

\* A numbered job joins numbered jobs, and their tail is numbered.
LEMMA NumberedQueue ==
    ASSUME NEW q \in Seq(Job), NEW n \in Nat, Numbered(q, n)
    PROVE  /\ \A j \in Job : 0 < j.id /\ j.id < n => Numbered(Append(q, j), n)
           /\ q # <<>> => Numbered(Tail(q), n) /\ 0 < Head(q).id /\ Head(q).id < n
  <1>1. ASSUME NEW j \in Job, 0 < j.id, j.id < n PROVE Numbered(Append(q, j), n)
    <2>1. \A i \in DOMAIN Append(q, j) : \/ i \in DOMAIN q /\ Append(q, j)[i] = q[i]
                                         \/ Append(q, j)[i] = j
      BY AppendFacts
    <2> QED
      BY <1>1, <2>1 DEF Numbered
  <1>2. ASSUME q # <<>> PROVE Numbered(Tail(q), n) /\ 0 < Head(q).id /\ Head(q).id < n
    <2>1. \A i \in DOMAIN Tail(q) : i + 1 \in DOMAIN q /\ Tail(q)[i] = q[i + 1]
      BY <1>2, TailFacts
    <2>2. 1 \in DOMAIN q /\ Head(q) = q[1]
      BY <1>2, TailFacts
    <2> QED
      BY <2>1, <2>2 DEF Numbered
  <1> QED
    BY <1>1, <1>2

\* Every queue is a sequence of jobs.
LEMMA QueueType == ASSUME TypeOK, NEW x \in DOMAIN execs PROVE execs[x].queue \in Seq(Job)
  <1>1. execs[x] \in Executor
    BY DEF TypeOK
  <1> QED
    BY <1>1 DEF Executor

\* What the invariant says of one queue.
InOrder(q, b, next) ==
    Ascending(q) /\ Numbered(q, next) /\ Precedes(started, q) /\ Precedes(q, b)

\* The queue a submission finds stands where the callers' queue stands.
LEMMA FoundOrder == ASSUME TypeOK, OrderInv PROVE InOrder(Found, backlog, next_id)
  <1>1. CASE slot = 0
    BY <1>1 DEF Found, InOrder, Ascending, Numbered, Precedes
  <1>2. CASE slot # 0
    <2>1. slot \in DOMAIN execs
      BY <1>2 DEF TypeOK
    <2> QED
      BY <1>2, <2>1 DEF Found, InOrder, OrderInv
  <1> QED
    BY <1>1, <1>2

\* An empty queue is in order.
LEMMA EmptyOrder == ASSUME NEW b, NEW n PROVE InOrder(<<>>, b, n)
  BY DEF InOrder, Ascending, Numbered, Precedes

\* A job that stands between what has begun and what waits joins the queues in
\* order.
LEMMA AcceptOrder ==
    ASSUME TypeOK, SlotInv, OrderInv, NEW j \in Job, NEW b \in Seq(Job), NEW n \in Nat,
           Accept(j), next_id <= n, 0 < j.id, j.id < n,
           Precedes(started, <<j>>), Precedes(Found, <<j>>), Precedes(<<j>>, b),
           Precedes(Found, b), \A x \in DOMAIN execs : Precedes(execs[x].queue, b)
    PROVE  \A x \in DOMAIN execs' : InOrder(execs'[x].queue, b, n)
  <1> SUFFICES ASSUME NEW x \in DOMAIN execs' PROVE InOrder(execs'[x].queue, b, n)
    OBVIOUS
  <1>0. /\ Found \in Seq(Job)
        /\ execs'[slot'].queue = Append(Found, j)
        /\ x # slot' => x \in DOMAIN execs /\ execs'[x] = execs[x]
    BY AcceptShape
  <1>1. next_id \in Nat /\ started \in Seq(Job)
    BY DEF TypeOK
  <1>2. CASE x # slot'
    <2>1. InOrder(execs[x].queue, backlog, next_id) /\ execs[x].queue \in Seq(Job)
      BY <1>0, <1>2, QueueType DEF OrderInv, InOrder
    <2>2. Numbered(execs[x].queue, n)
      BY <1>1, <2>1, NumberedLater DEF InOrder
    <2> QED
      BY <1>0, <1>2, <2>1, <2>2 DEF InOrder
  <1>3. CASE x = slot'
    <2>1. InOrder(Found, backlog, next_id)
      BY FoundOrder
    <2>2. Numbered(Found, n)
      BY <1>0, <1>1, <2>1, NumberedLater DEF InOrder
    <2>3. Numbered(Append(Found, j), n)
      BY <1>0, <2>2, NumberedQueue
    <2>4. Ascending(Append(Found, j))
      BY <1>0, <2>1, AppendAscends DEF InOrder
    <2>5. Precedes(started, Append(Found, j))
      BY <1>0, <1>1, <2>1, AppendPreceded DEF InOrder
    <2>6. Precedes(Append(Found, j), b)
      BY <1>0, AppendPrecedes
    <2> QED
      BY <1>0, <1>3, <2>3, <2>4, <2>5, <2>6 DEF InOrder
  <1> QED
    BY <1>2, <1>3

\* A request is no edit, so its place among the queues is free.
LEMMA SubmitOrder == ASSUME TypeOK, SlotInv, OrderInv, Submit PROVE OrderInv'
  <1>1. /\ next_id \in Nat \ {0} /\ next_id' = next_id + 1 /\ next_id' \in Nat
        /\ next_id <= next_id' /\ tickets \in Seq(Ticket)
        /\ backlog \in Seq(Job) /\ started \in Seq(Job)
        /\ backlog' = backlog /\ started' = started
    BY DEF TypeOK, Submit
  <1>2. Len(tickets') = next_id' - 1
    <2>1. NewTicket(FALSE) \in Ticket /\ NoTicket \in Ticket
      BY DEF NewTicket, NoTicket, Ticket
    <2>2. \E t \in Ticket : tickets' = Append(tickets, t)
      BY <2>1 DEF Submit
    <2> QED
      BY <1>1, <2>2, AppendFacts DEF OrderInv
  <1>3. Numbered(backlog, next_id') /\ Numbered(started, next_id')
    BY <1>1, NumberedLater DEF OrderInv
  <1>4. \A x \in DOMAIN execs' : InOrder(execs'[x].queue, backlog, next_id')
    <2>1. CASE Accept([id |-> next_id, edit |-> FALSE])
      <3> DEFINE j == [id |-> next_id, edit |-> FALSE]
      <3>1. j \in Job /\ j.id = next_id /\ ~j.edit /\ Accept(j)
        BY <1>1, <2>1 DEF Job
      <3>2. \A q : Precedes(q, <<j>>) /\ Precedes(<<j>>, q)
        BY <3>1 DEF Precedes
      <3>3. Precedes(Found, backlog) /\ \A x \in DOMAIN execs : Precedes(execs[x].queue, backlog)
        BY FoundOrder DEF InOrder, OrderInv
      <3>4. 0 < j.id /\ j.id < next_id'
        BY <1>1, <3>1
      <3> HIDE DEF j
      <3> QED
        BY <1>1, <3>1, <3>2, <3>3, <3>4, AcceptOrder
    <2>2. CASE AnswersFull \/ AnswersStopped \/ AnswersStartFailed
      <3> SUFFICES ASSUME NEW x \in DOMAIN execs
                   PROVE  InOrder(execs[x].queue, backlog, next_id')
        BY <2>2, RefusedShape
      <3>1. Numbered(execs[x].queue, next_id')
        BY <1>1, NumberedLater, QueueType DEF OrderInv
      <3> QED
        BY <3>1 DEF OrderInv, InOrder
    <2> QED
      BY <2>1, <2>2 DEF Submit
  <1> QED
    BY <1>1, <1>2, <1>3, <1>4 DEF OrderInv, InOrder

\* A new edit has the highest number, behind everything.
LEMMA RetainOrder == ASSUME TypeOK, OrderInv, SubmitRetained PROVE OrderInv'
  <1> DEFINE j == [id |-> next_id, edit |-> TRUE]
  <1>1. /\ next_id \in Nat \ {0} /\ next_id' = next_id + 1 /\ next_id' \in Nat
        /\ next_id <= next_id' /\ tickets \in Seq(Ticket)
        /\ backlog \in Seq(Job) /\ started \in Seq(Job)
        /\ backlog' = Append(backlog, j)
        /\ tickets' = Append(tickets, NewTicket(TRUE))
        /\ started' = started /\ execs' = execs
    BY DEF TypeOK, SubmitRetained
  <1>2. j \in Job /\ j.id = next_id /\ j.edit
    BY <1>1 DEF Job
  <1> HIDE DEF j
  <1>3. Len(tickets') = next_id' - 1
    <2>1. NewTicket(TRUE) \in Ticket
      BY DEF NewTicket, Ticket
    <2> QED
      BY <1>1, <2>1, AppendFacts DEF OrderInv
  <1>4. ASSUME NEW q, Numbered(q, next_id) PROVE Precedes(q, <<j>>)
    BY <1>2, <1>4 DEF Numbered, Precedes
  <1>5. Ascending(backlog')
    BY <1>1, <1>2, <1>4, AppendAscends DEF OrderInv
  <1>6. Precedes(started, backlog')
    BY <1>1, <1>2, <1>4, AppendPreceded DEF OrderInv
  <1>7. Numbered(backlog', next_id') /\ Numbered(started, next_id')
    <2>1. Numbered(backlog, next_id') /\ Numbered(started, next_id')
      BY <1>1, NumberedLater DEF OrderInv
    <2>2. 0 < j.id /\ j.id < next_id'
      BY <1>1, <1>2
    <2> QED
      BY <1>1, <1>2, <2>1, <2>2, NumberedQueue
  <1>8. \A m \in DOMAIN backlog' : backlog'[m].edit
    <2>1. \A i \in DOMAIN backlog' : \/ i \in DOMAIN backlog /\ backlog'[i] = backlog[i]
                                     \/ backlog'[i] = j
      BY <1>1, <1>2, AppendFacts
    <2> QED
      BY <1>2, <2>1 DEF OrderInv
  <1>9. \A x \in DOMAIN execs : InOrder(execs[x].queue, backlog', next_id')
    <2> SUFFICES ASSUME NEW x \in DOMAIN execs
                 PROVE  InOrder(execs[x].queue, backlog', next_id')
      OBVIOUS
    <2>1. InOrder(execs[x].queue, backlog, next_id) /\ execs[x].queue \in Seq(Job)
      BY QueueType DEF OrderInv, InOrder
    <2>2. Numbered(execs[x].queue, next_id')
      BY <1>1, <2>1, NumberedLater DEF InOrder
    <2>3. Precedes(execs[x].queue, backlog')
      BY <1>1, <1>2, <1>4, <2>1, AppendPreceded DEF InOrder
    <2> QED
      BY <2>1, <2>2, <2>3 DEF InOrder
  <1> QED
    BY <1>1, <1>3, <1>5, <1>6, <1>7, <1>8, <1>9 DEF OrderInv, InOrder

\* The oldest waiting edit goes behind the queued ones.
LEMMA HandOverOrder == ASSUME TypeOK, SlotInv, OrderInv, HandOver PROVE OrderInv'
  <1>1. /\ backlog \in Seq(Job) /\ backlog # <<>> /\ backlog' = Tail(backlog)
        /\ Accept(Head(backlog))
        /\ next_id' = next_id /\ next_id \in Nat
        /\ tickets' = tickets /\ started' = started
    BY DEF TypeOK, HandOver
  <1>2. Head(backlog) \in Job /\ Tail(backlog) \in Seq(Job)
    BY <1>1, TailFacts
  <1>3. /\ Ascending(Tail(backlog)) /\ Precedes(<<Head(backlog)>>, Tail(backlog))
        /\ \A q : Precedes(q, backlog) => Precedes(q, Tail(backlog)) /\ Precedes(q, <<Head(backlog)>>)
    BY <1>1, TailOrder DEF OrderInv
  <1>4. /\ Numbered(Tail(backlog), next_id)
        /\ 0 < Head(backlog).id /\ Head(backlog).id < next_id
    BY <1>1, NumberedQueue DEF OrderInv
  <1>5. /\ Precedes(Found, backlog) /\ Precedes(started, backlog)
        /\ \A x \in DOMAIN execs : Precedes(execs[x].queue, backlog)
    BY FoundOrder DEF InOrder, OrderInv
  <1>6. \A x \in DOMAIN execs' : InOrder(execs'[x].queue, Tail(backlog), next_id)
    <2>1. /\ Precedes(started, <<Head(backlog)>>) /\ Precedes(Found, <<Head(backlog)>>)
          /\ Precedes(Found, Tail(backlog))
          /\ \A x \in DOMAIN execs : Precedes(execs[x].queue, Tail(backlog))
      BY <1>3, <1>5
    <2>2. next_id <= next_id
      BY <1>1
    <2> QED
      BY <1>1, <1>2, <1>3, <1>4, <2>1, <2>2, AcceptOrder
  <1>7. \A m \in DOMAIN Tail(backlog) : Tail(backlog)[m].edit
    <2>1. \A i \in DOMAIN Tail(backlog) : i + 1 \in DOMAIN backlog /\ Tail(backlog)[i] = backlog[i + 1]
      BY <1>1, TailFacts
    <2> QED
      BY <2>1 DEF OrderInv
  <1> QED
    BY <1>1, <1>3, <1>4, <1>5, <1>6, <1>7 DEF OrderInv, InOrder

\* The oldest queued job goes behind the ones begun.
LEMMA WorkerOrder ==
    ASSUME TypeOK, SlotInv, JobInv, OrderInv, NEW x \in DOMAIN execs, WorkerStep(x)
    PROVE  OrderInv'
  <1>1. /\ DOMAIN execs' = DOMAIN execs
        /\ \A y \in DOMAIN execs : y # x => execs'[y] = execs[y]
        /\ Len(tickets') = Len(tickets)
        /\ backlog' = backlog /\ next_id' = next_id
    BY WorkerShape
  <1>2. started \in Seq(Job) /\ backlog \in Seq(Job) /\ next_id \in Nat
    BY DEF TypeOK
  <1>3. CASE ~Take(x)
    <2>1. started' = started /\ execs'[x].queue \in {execs[x].queue, <<>>}
      BY <1>3, WorkerPhase
    <2>2. \A y \in DOMAIN execs : InOrder(execs'[y].queue, backlog, next_id)
      BY <1>1, <2>1, EmptyOrder DEF OrderInv, InOrder
    <2> QED
      BY <1>1, <2>1, <2>2 DEF OrderInv, InOrder
  <1>4. CASE Take(x)
    <2> DEFINE q == execs[x].queue
    <2>1. /\ q \in Seq(Job) /\ q # <<>> /\ Head(q) \in Job
          /\ started' = Append(started, Head(q)) /\ execs'[x].queue = Tail(q)
      BY <1>4, WorkerPhase, WorkerStarts
    <2>2. InOrder(q, backlog, next_id)
      BY DEF OrderInv, InOrder
    <2> HIDE DEF q
    <2>3. /\ Ascending(Tail(q)) /\ Precedes(<<Head(q)>>, Tail(q))
          /\ Precedes(started, Tail(q)) /\ Precedes(started, <<Head(q)>>)
          /\ Precedes(Tail(q), backlog) /\ Precedes(<<Head(q)>>, backlog)
      BY <2>1, <2>2, TailOrder DEF InOrder
    <2>4. Numbered(Tail(q), next_id) /\ 0 < Head(q).id /\ Head(q).id < next_id
      BY <1>2, <2>1, <2>2, NumberedQueue DEF InOrder
    <2>5. Ascending(started') /\ Numbered(started', next_id)
      BY <1>2, <2>1, <2>3, <2>4, AppendAscends, NumberedQueue DEF OrderInv
    <2>6. Precedes(started', backlog)
      BY <1>2, <2>1, <2>3, AppendPrecedes DEF OrderInv
    <2>7. Tail(q) \in Seq(Job)
      BY <2>1, TailFacts
    <2>8. Precedes(started', Tail(q))
      BY <1>2, <2>1, <2>3, <2>7, AppendPrecedes
    <2>9. ASSUME NEW y \in DOMAIN execs, y # x
          PROVE  execs[y].queue = <<>>
      <3>1. ~Open(execs[y])
        <4>1. x = slot
          BY <1>4 DEF SlotInv, Take, Open
        <4> QED
          BY <2>9, <4>1 DEF SlotInv
      <3> QED
        BY <3>1 DEF SlotInv
    <2>10. \A y \in DOMAIN execs :
              /\ Ascending(execs'[y].queue) /\ Numbered(execs'[y].queue, next_id)
              /\ Precedes(started', execs'[y].queue) /\ Precedes(execs'[y].queue, backlog)
      <3>1. /\ Ascending(<<>>) /\ Numbered(<<>>, next_id)
            /\ Precedes(started', <<>>) /\ Precedes(<<>>, backlog)
        BY DEF Ascending, Numbered, Precedes
      <3> QED
        BY <1>1, <2>1, <2>3, <2>4, <2>8, <2>9, <3>1
    <2> QED
      BY <1>1, <2>5, <2>6, <2>10 DEF OrderInv
  <1> QED
    BY <1>3, <1>4

------------------------------------------------------------------------------
(* No edit is lost.                                                         *)

\* Taking the head of a queue leaves the others in it.
LEMMA TailHolds ==
    ASSUME NEW q \in Seq(Job), q # <<>>, NEW n, Holds(q, n)
    PROVE  n = Head(q).id \/ Holds(Tail(q), n)
  <1>1. PICK k \in DOMAIN q : q[k].id = n
    BY DEF Holds
  <1>2. CASE k = 1
    BY <1>1, <1>2, TailFacts
  <1>3. CASE k # 1
    <2>1. k - 1 \in DOMAIN Tail(q) /\ Tail(q)[k - 1] = q[k]
      BY <1>3, TailFacts
    <2> QED
      BY <1>1, <2>1 DEF Holds
  <1> QED
    BY <1>2, <1>3

\* Where edit n is kept: in the backlog or in the queue callers submit to.
Kept(n) ==
    \/ Holds(backlog, n)
    \/ slot # 0 /\ Open(execs[slot]) /\ Holds(execs[slot].queue, n)

\* The old tickets stand when one is appended.
LEMMA TicketAppended ==
    ASSUME TypeOK, NEW t \in Ticket, tickets' = Append(tickets, t)
    PROVE  /\ DOMAIN tickets' = DOMAIN tickets \cup {Len(tickets) + 1}
           /\ \A n \in DOMAIN tickets : tickets'[n] = tickets[n]
           /\ tickets'[Len(tickets) + 1] = t
  <1>1. tickets \in Seq(Ticket)
    BY DEF TypeOK
  <1> QED
    BY <1>1, AppendFacts

\* A submission that is taken keeps the queued edits and the one it brings.
LEMMA AcceptKeeps ==
    ASSUME TypeOK, SlotInv, NEW j \in Job, Accept(j)
    PROVE  /\ slot' # 0 /\ Open(execs'[slot']) /\ Holds(execs'[slot'].queue, j.id)
           /\ \A n : slot # 0 /\ Holds(execs[slot].queue, n) => Holds(execs'[slot'].queue, n)
  <1>1. /\ slot' \in 1..Len(execs') /\ Open(execs'[slot']) /\ Found \in Seq(Job)
        /\ execs'[slot'].queue = Append(Found, j) /\ execs' \in Seq(Executor)
    BY AcceptShape
  <1>2. slot # 0 => Found = execs[slot].queue
    BY DEF Found
  <1>3. slot' # 0
    BY <1>1
  <1> QED
    BY <1>1, <1>2, <1>3, AppendHolds

\* A submission that is refused keeps what is kept.
LEMMA RefusedKeeps ==
    ASSUME TypeOK, AnswersFull \/ AnswersStopped \/ AnswersStartFailed, backlog' = backlog,
           NEW n, Kept(n)
    PROVE  Kept(n)'
  BY RefusedShape DEF Kept, Holds, Open

\* A caller's request takes no edit away.
LEMMA SubmitKeeps == ASSUME TypeOK, SlotInv, EditsKept, Submit PROVE EditsKept'
  <1>1. backlog' = backlog /\ started' = started
    BY DEF Submit
  <1>2. \E t \in Ticket : tickets' = Append(tickets, t) /\ ~t.edit
    <2>1. /\ NewTicket(FALSE) \in Ticket /\ ~NewTicket(FALSE).edit
          /\ NoTicket \in Ticket /\ ~NoTicket.edit
      BY DEF NewTicket, NoTicket, Ticket
    <2> QED
      BY <2>1 DEF Submit
  <1>3. /\ \A n \in DOMAIN tickets : tickets'[n] = tickets[n]
        /\ \A n \in DOMAIN tickets' : tickets'[n].edit => n \in DOMAIN tickets
    BY <1>2, TicketAppended
  <1>4. ASSUME NEW n, Kept(n) PROVE Kept(n)'
    <2>1. CASE Accept([id |-> next_id, edit |-> FALSE])
      <3>1. [id |-> next_id, edit |-> FALSE] \in Job
        BY DEF TypeOK, Job
      <3> QED
        BY <1>1, <1>4, <2>1, <3>1, AcceptKeeps DEF Kept
    <2>2. CASE AnswersFull \/ AnswersStopped \/ AnswersStartFailed
      BY <1>1, <1>4, <2>2, RefusedKeeps
    <2> QED
      BY <2>1, <2>2 DEF Submit
  <1> QED
    BY <1>1, <1>3, <1>4 DEF EditsKept, Kept, Begun, Failed

\* Nor do the steps on the backlog.
LEMMA BacklogKeeps ==
    ASSUME TypeOK, SlotInv, OrderInv, EditsKept,
           SubmitRetained \/ PumpRetained \/ PumpStep \/ BackoffPasses
    PROVE  EditsKept'
  <1>1. CASE SubmitRetained
    <2>1. NewTicket(TRUE) \in Ticket /\ [id |-> next_id, edit |-> TRUE] \in Job
      BY DEF NewTicket, Ticket, Job, TypeOK
    <2>2. /\ tickets' = Append(tickets, NewTicket(TRUE))
          /\ backlog' = Append(backlog, [id |-> next_id, edit |-> TRUE])
          /\ UNCHANGED <<slot, execs, started>> /\ backlog \in Seq(Job)
      BY <1>1 DEF SubmitRetained, TypeOK
    <2>3. /\ DOMAIN tickets' = DOMAIN tickets \cup {Len(tickets) + 1}
          /\ \A n \in DOMAIN tickets : tickets'[n] = tickets[n]
      BY <2>1, <2>2, TicketAppended
    <2>4. /\ Holds(backlog', next_id)
          /\ \A n : Holds(backlog, n) => Holds(backlog', n)
      BY <2>1, <2>2, AppendHolds
    <2>5. Len(tickets) + 1 = next_id
      BY DEF OrderInv, TypeOK
    <2> QED
      BY <2>2, <2>3, <2>4, <2>5 DEF EditsKept, Begun, Failed, Open
  <1>2. CASE PumpRetained \/ PumpEnds \/ BackoffPasses
    BY <1>2 DEF EditsKept, Begun, Failed, Open, Holds, PumpRetained, PumpEnds, BackoffPasses
  <1>3. CASE HandOver
    <2>1. /\ backlog \in Seq(Job) /\ backlog # <<>> /\ Head(backlog) \in Job
          /\ backlog' = Tail(backlog) /\ Accept(Head(backlog))
          /\ tickets' = tickets /\ started' = started
      BY <1>3, TailFacts DEF TypeOK, HandOver
    <2>2. ASSUME NEW n, Kept(n) PROVE Kept(n)'
      BY <2>1, <2>2, AcceptKeeps, TailHolds DEF Kept
    <2> QED
      BY <2>1, <2>2 DEF EditsKept, Kept, Begun, Failed
  <1>4. CASE PutBack
    <2>1. backlog' = backlog /\ tickets' = tickets /\ started' = started
      BY <1>4 DEF PutBack
    <2>2. ASSUME NEW n, Kept(n) PROVE Kept(n)'
      BY <1>4, <2>1, <2>2, RefusedKeeps DEF PutBack
    <2> QED
      BY <2>1, <2>2 DEF EditsKept, Kept, Begun, Failed
  <1> QED
    BY <1>1, <1>2, <1>3, <1>4 DEF PumpStep

\* A worker begins what it takes and fails what it drops.
LEMMA WorkerKeeps ==
    ASSUME TypeOK, SlotInv, JobInv, EditsKept, NEW x \in DOMAIN execs, WorkerStep(x)
    PROVE  EditsKept'
  <1>1. /\ DOMAIN execs' = DOMAIN execs /\ slot' = slot /\ backlog' = backlog
        /\ \A y \in DOMAIN execs : y # x => execs'[y] = execs[y]
        /\ DOMAIN tickets' = DOMAIN tickets
        /\ \A n \in DOMAIN tickets : tickets'[n].edit = tickets[n].edit
    BY WorkerShape
  <1> SUFFICES ASSUME NEW n \in DOMAIN tickets, tickets[n].edit, ~Holds(started', n),
                      tickets'[n].result # "closed", ~Holds(backlog, n)
               PROVE  slot # 0 /\ Open(execs'[slot]) /\ Holds(execs'[slot].queue, n)
    BY <1>1 DEF EditsKept, Begun, Failed, Open
  <1>2. ~Begun(n)
    BY BegunGrows, WorkerStarts
  <1>3. CASE tickets[n].result = "closed"
    <2>1. tickets'[n].result = tickets[n].result
      <3>1. ASSUME execs[x].phase \in {"running", "unwinding", "closed"}
            PROVE  execs[x].job.id # n
        BY <1>2, <3>1 DEF JobInv
      <3>2. CASE Take(x)
        BY <3>2 DEF Take
      <3>3. CASE Complete(x) \/ Unwind(x) \/ Die(x)
        BY <3>1, <3>3 DEF Complete, Unwind, Die, TypeOK
      <3>4. CASE Close(x)
        BY <1>3, <3>4 DEF Close, Settled
      <3> QED
        BY <3>2, <3>3, <3>4 DEF WorkerStep
    <2> QED
      BY <1>3, <2>1
  <1>4. CASE tickets[n].result # "closed"
    <2>1. slot # 0 /\ Open(execs[slot]) /\ Holds(execs[slot].queue, n)
      BY <1>2, <1>4 DEF EditsKept, Failed
    <2>2. slot \in DOMAIN execs
      BY <2>1 DEF TypeOK
    <2>3. CASE x # slot
      BY <1>1, <2>1, <2>2, <2>3
    <2>4. CASE x = slot /\ Take(x)
      <3>1. /\ execs[x].queue \in Seq(Job) /\ execs[x].queue # <<>>
            /\ Head(execs[x].queue) \in Job
            /\ started' = Append(started, Head(execs[x].queue))
            /\ execs'[x].queue = Tail(execs[x].queue)
        BY <2>4, WorkerPhase, WorkerStarts
      <3>2. n # Head(execs[x].queue).id
        BY <3>1, AppendHolds DEF TypeOK
      <3>3. Holds(execs'[x].queue, n)
        BY <2>1, <2>4, <3>1, <3>2, TailHolds
      <3>4. Open(execs'[x])
        BY <2>4 DEF Take, Becomes, Open, TypeOK
      <3> QED
        BY <2>1, <2>4, <3>3, <3>4
    <2>5. CASE x = slot /\ (Complete(x) \/ Unwind(x))
      <3>1. execs'[x].queue = execs[x].queue /\ Open(execs'[x])
        BY <2>5 DEF Complete, Unwind, Becomes, Open, InPhase, TypeOK
      <3> QED
        BY <2>1, <2>5, <3>1
    <2>6. CASE x = slot /\ Close(x)
      <3>1. n \in QueuedIn(x)
        BY <2>1, <2>6 DEF QueuedIn, Holds
      <3>2. tickets'[n] = Settled(tickets[n], "closed", "closed")
        BY <2>6, <3>1 DEF Close
      <3> QED
        BY <3>2 DEF Settled
    <2>7. CASE x = slot /\ Die(x)
      BY <2>1, <2>7 DEF Die, Open
    <2> QED
      BY <2>3, <2>4, <2>5, <2>6, <2>7 DEF WorkerStep
  <1> QED
    BY <1>3, <1>4

------------------------------------------------------------------------------
(* The invariant is inductive.                                              *)

\* It holds of the empty executor.
LEMMA InitIInv == Init => IInv
  <1> SUFFICES ASSUME Init PROVE IInv
    OBVIOUS
  <1>1. /\ slot = 0 /\ execs = <<>> /\ backlog = <<>> /\ tickets = <<>>
        /\ started = <<>> /\ next_id = 1
    BY DEF Init
  <1>2. TypeOK
    <2>1. backoff \in BOOLEAN /\ pumping \in BOOLEAN
      BY Zenon DEF Init
    <2>2. refused \in Nat /\ next_id \in Nat \ {0}
      BY DEF Init
    <2>3. Len(<<>>) = 0 /\ \A S : <<>> \in Seq(S)
      OBVIOUS
    <2> QED
      BY <1>1, <2>1, <2>2, <2>3 DEF TypeOK
  <1>3. SlotInv /\ JobInv /\ EditsKept
    BY <1>1 DEF SlotInv, JobInv, EditsKept
  <1>4. OrderInv
    BY <1>1 DEF OrderInv, Ascending, Precedes, Numbered
  <1> QED
    BY <1>2, <1>3, <1>4 DEF IInv

\* Every step keeps it.
LEMMA NextIInv == IInv /\ [Next]_swVars => IInv'
  <1> SUFFICES ASSUME IInv, [Next]_swVars PROVE IInv'
    OBVIOUS
  <1>0. TypeOK /\ SlotInv /\ JobInv /\ OrderInv /\ EditsKept
    BY DEF IInv
  <1>1. CASE Submit
    <2>1. TypeOK'
      BY <1>0, <1>1, SubmitType
    <2>2. started' = started /\ DOMAIN tickets \subseteq DOMAIN tickets'
      <3>1. \E t \in Ticket : tickets' = Append(tickets, t)
        <4>1. NewTicket(FALSE) \in Ticket /\ NoTicket \in Ticket
          BY DEF NewTicket, NoTicket, Ticket
        <4> QED
          BY <1>1, <4>1 DEF Submit
      <3> QED
        BY <1>0, <1>1, <3>1, TicketAppended DEF Submit
    <2>3. CASE Accept([id |-> next_id, edit |-> FALSE])
      <3>1. [id |-> next_id, edit |-> FALSE] \in Job
        BY <1>0 DEF TypeOK, Job
      <3>2. SlotInv' /\ JobInv'
        BY <1>0, <2>1, <2>2, <2>3, <3>1, AcceptSlot
      <3> QED
        BY <1>0, <1>1, <2>1, <3>2, SubmitOrder, SubmitKeeps DEF IInv
    <2>4. CASE AnswersFull \/ AnswersStopped \/ AnswersStartFailed
      <3>1. SlotInv' /\ JobInv'
        BY <1>0, <2>1, <2>2, <2>4, RefusedShape, IdleSlot
      <3> QED
        BY <1>0, <1>1, <2>1, <3>1, SubmitOrder, SubmitKeeps DEF IInv
    <2> QED
      BY <1>1, <2>3, <2>4 DEF Submit
  <1>2. CASE SubmitRetained
    <2>1. TypeOK' /\ EditsKept'
      BY <1>0, <1>2, BacklogType, BacklogKeeps
    <2>2. DOMAIN tickets \subseteq DOMAIN tickets'
      <3>1. NewTicket(TRUE) \in Ticket
        BY DEF NewTicket, Ticket
      <3> QED
        BY <1>0, <1>2, <3>1, TicketAppended DEF SubmitRetained
    <2>3. execs' = execs /\ started' = started /\ slot' = slot
      BY <1>2 DEF SubmitRetained
    <2>4. SlotInv' /\ JobInv'
      BY <1>0, <2>1, <2>2, <2>3, IdleSlot
    <2> QED
      BY <1>0, <1>2, <2>1, <2>4, RetainOrder DEF IInv
  <1>3. CASE PumpRetained \/ PumpEnds \/ BackoffPasses
    <2>1. TypeOK' /\ EditsKept'
      BY <1>0, <1>3, BacklogType, BacklogKeeps DEF PumpStep
    <2>2. UNCHANGED <<slot, execs, backlog, tickets, next_id, started>>
      BY <1>3 DEF PumpRetained, PumpEnds, BackoffPasses
    <2>3. SlotInv' /\ JobInv'
      BY <1>0, <2>1, <2>2, IdleSlot
    <2>4. OrderInv'
      BY <1>0, <2>2 DEF OrderInv, Ascending, Precedes, Numbered
    <2> QED
      BY <2>1, <2>3, <2>4 DEF IInv
  <1>4. CASE HandOver
    <2>1. TypeOK' /\ EditsKept'
      BY <1>0, <1>4, BacklogType, BacklogKeeps DEF PumpStep
    <2>2. Head(backlog) \in Job
      BY <1>0, <1>4, TailFacts DEF TypeOK, HandOver
    <2>3. Accept(Head(backlog)) /\ started' = started /\ tickets' = tickets
      BY <1>4 DEF HandOver
    <2>4. SlotInv' /\ JobInv'
      BY <1>0, <2>1, <2>2, <2>3, AcceptSlot
    <2> QED
      BY <1>0, <1>4, <2>1, <2>4, HandOverOrder DEF IInv
  <1>5. CASE PutBack
    <2>1. TypeOK' /\ EditsKept'
      BY <1>0, <1>5, BacklogType, BacklogKeeps DEF PumpStep
    <2>2. /\ UNCHANGED <<backlog, tickets, next_id, started>>
          /\ AnswersFull \/ AnswersStopped \/ AnswersStartFailed
      BY <1>5 DEF PutBack
    <2>3. execs' = execs /\ (slot' # slot => slot' = 0 /\ ~Open(execs[slot]))
      BY <1>0, <2>2, RefusedShape
    <2>4. SlotInv' /\ JobInv'
      BY <1>0, <2>1, <2>2, <2>3, IdleSlot
    <2>5. OrderInv'
      BY <1>0, <2>2, <2>3 DEF OrderInv, Ascending, Precedes, Numbered
    <2> QED
      BY <2>1, <2>4, <2>5 DEF IInv
  <1>6. ASSUME NEW x \in DOMAIN execs, WorkerStep(x) PROVE IInv'
    BY <1>0, <1>6, WorkerType, WorkerSlot, WorkerOrder, WorkerKeeps DEF IInv
  <1>7. CASE UNCHANGED swVars
    BY <1>0, <1>7 DEF swVars, IInv, TypeOK, SlotInv, JobInv, OrderInv, EditsKept, Begun,
                      Failed, Holds, Open, Ascending, Precedes, Numbered
  <1> QED
    BY <1>1, <1>2, <1>3, <1>4, <1>5, <1>6, <1>7 DEF Next, PumpStep

\* The invariant holds of every behaviour.
LEMMA AlwaysIInv == Spec => []IInv
  <1> QED
    BY InitIInv, NextIInv, PTL DEF Spec

------------------------------------------------------------------------------
(* The theorems.                                                            *)

\* The state is well typed: in particular the command queue never exceeds its
\* capacity and SHARED always names an executor that was started.
THEOREM StorageTypeCorrect == Spec => []TypeOK
  <1>1. IInv => TypeOK
    BY DEF IInv
  <1> QED
    BY <1>1, AlwaysIInv, PTL

\* However workers die and are replaced, two of them are never inside an
\* operation at once: submit_shared gives up a worker only after its receiver
\* closed, which the worker does after the operation.
THEOREM OneOperation == Spec => []OneAtATime
  <1>1. IInv => OneAtATime
    <2> SUFFICES ASSUME IInv, NEW x \in DOMAIN execs,
                        execs[x].phase \in {"running", "unwinding"}
                 PROVE  x = slot
      BY DEF OneAtATime
    <2> QED
      BY DEF IInv, SlotInv, Open
  <1> QED
    BY <1>1, AlwaysIInv, PTL

\* submit_retained's edits are begun in the order they were made and none
\* twice, for any capacity and any run of full queues, panics and refusals.
THEOREM EditsSavedInOrder == Spec => []EditsInOrder
  <1>1. IInv => EditsInOrder
    BY DEF IInv, OrderInv, Ascending, EditsInOrder
  <1> QED
    BY <1>1, AlwaysIInv, PTL

\* No edit disappears: until it begins or its worker dies, pump_retained still
\* has it or an open worker's queue does.
THEOREM EditsNotLost == Spec => []EditsKept
  <1>1. IInv => EditsKept
    BY DEF IInv
  <1> QED
    BY <1>1, AlwaysIInv, PTL

------------------------------------------------------------------------------
(* The tickets: a request's failure is told after its worker is closed.     *)

\* Every job of q waits: not begun, its ticket as it was made.
Untouched(q, T, S) ==
    \A k \in DOMAIN q : /\ ~Holds(S, q[k].id)
                        /\ q[k].id \in DOMAIN T /\ T[q[k].id] = NewTicket(q[k].edit)

\* No job stands twice in q, nor in both p and q.
Unlike(q) == \A k, l \in DOMAIN q : q[k].id = q[l].id => k = l

Apart(p, q) == \A k \in DOMAIN p, l \in DOMAIN q : p[k].id # q[l].id

\* The executor has a job it has not let go of.
Engaged(e) == e.phase \in {"running", "unwinding", "closed"}

\* What the ticket of an executor's job says: an open executor has not let go of
\* a request's second sender, and one that panicked has closed the first.
Told(e, T) ==
    /\ ~Engaged(e) => e.job = NoJob
    /\ Engaged(e) => T[e.job.id].edit = e.job.edit
    /\ Engaged(e) /\ Open(e) /\ ~e.job.edit => T[e.job.id].worker = "open"
    /\ e.phase \in {"unwinding", "closed"} => T[e.job.id].result = "closed"

\* All of it, of the executors E, the backlog B, the tickets T and the jobs begun S.
Ticketed(E, B, T, S) ==
    /\ Untouched(B, T, S) /\ Unlike(B)
    /\ \A x \in DOMAIN E : /\ Untouched(E[x].queue, T, S) /\ Unlike(E[x].queue)
                           /\ Apart(E[x].queue, B) /\ Told(E[x], T)
    /\ \A x, y \in DOMAIN E :
          Engaged(E[x]) /\ Engaged(E[y]) /\ E[x].job.id = E[y].job.id => x = y

TicketInv == Ticketed(execs, backlog, tickets, started)

\* Where the elements of a longer queue stand.
LEMMA AppendPlaces ==
    ASSUME NEW S, NEW q \in Seq(S), NEW j \in S
    PROVE  \A i \in DOMAIN Append(q, j) : \/ i \in DOMAIN q /\ Append(q, j)[i] = q[i]
                                          \/ i = Len(q) + 1 /\ Append(q, j)[i] = j
  <1>1. DOMAIN q = 1..Len(q) /\ Len(q) \in Nat
    OBVIOUS
  <1>2. DOMAIN Append(q, j) = 1..(Len(q) + 1)
    BY AppendFacts
  <1>3. ASSUME NEW i \in 1..(Len(q) + 1) PROVE i \in 1..Len(q) \/ i = Len(q) + 1
    BY <1>1
  <1> QED
    BY <1>1, <1>2, <1>3, AppendFacts

\* A waiting job with a number of its own joins a queue.
LEMMA AppendWaits ==
    ASSUME NEW q \in Seq(Job), NEW j \in Job, NEW T, NEW S,
           Untouched(q, T, S), Unlike(q),
           ~Holds(S, j.id), j.id \in DOMAIN T, T[j.id] = NewTicket(j.edit),
           \A k \in DOMAIN q : q[k].id # j.id
    PROVE  Untouched(Append(q, j), T, S) /\ Unlike(Append(q, j))
  <1> DEFINE r == Append(q, j)
  <1>1. \A i \in DOMAIN r : \/ i \in DOMAIN q /\ r[i] = q[i]
                            \/ i = Len(q) + 1 /\ r[i] = j
    BY AppendPlaces
  <1> HIDE DEF r
  <1>2. Untouched(r, T, S)
    BY <1>1 DEF Untouched
  <1>3. Unlike(r)
    BY <1>1 DEF Unlike
  <1> QED
    BY <1>2, <1>3 DEF r

\* The head of a queue and what it leaves behind.
LEMMA TailWaits ==
    ASSUME NEW q \in Seq(Job), q # <<>>, NEW T, NEW S, Untouched(q, T, S), Unlike(q)
    PROVE  /\ Untouched(Tail(q), T, S) /\ Unlike(Tail(q))
           /\ \A k \in DOMAIN Tail(q) : \E l \in DOMAIN q : Tail(q)[k] = q[l]
           /\ \E l \in DOMAIN q : Head(q) = q[l]
           /\ \A k \in DOMAIN Tail(q) : Tail(q)[k].id # Head(q).id
           /\ ~Holds(S, Head(q).id) /\ Head(q).id \in DOMAIN T
           /\ T[Head(q).id] = NewTicket(Head(q).edit)
  <1>1. 1 \in DOMAIN q /\ Head(q) = q[1]
    BY TailFacts
  <1>2. \A i \in DOMAIN Tail(q) : i \in Nat /\ i + 1 # 1 /\ i + 1 \in DOMAIN q /\ Tail(q)[i] = q[i + 1]
    BY TailFacts
  <1>3. Untouched(Tail(q), T, S)
    BY <1>2 DEF Untouched
  <1>4. Unlike(Tail(q))
    <2> SUFFICES ASSUME NEW k \in DOMAIN Tail(q), NEW l \in DOMAIN Tail(q),
                        Tail(q)[k].id = Tail(q)[l].id
                 PROVE  k = l
      BY DEF Unlike
    <2>1. k + 1 = l + 1
      BY <1>2 DEF Unlike
    <2> QED
      BY <1>2, <2>1
  <1>5. \A k \in DOMAIN Tail(q) : Tail(q)[k].id # Head(q).id
    BY <1>1, <1>2 DEF Unlike
  <1> QED
    BY <1>1, <1>2, <1>3, <1>4, <1>5 DEF Untouched

\* A new ticket leaves the others as they were.
LEMMA TicketAdded ==
    ASSUME TypeOK, OrderInv, NEW t \in Ticket, tickets' = Append(tickets, t)
    PROVE  /\ \A n \in DOMAIN tickets : n \in DOMAIN tickets' /\ tickets'[n] = tickets[n]
           /\ next_id \in DOMAIN tickets' /\ tickets'[next_id] = t
           /\ next_id \notin DOMAIN tickets
  <1>1. /\ tickets \in Seq(Ticket) /\ Len(tickets) = next_id - 1 /\ next_id \in Nat \ {0}
        /\ DOMAIN tickets = 1..Len(tickets)
    BY DEF TypeOK, OrderInv
  <1>2. /\ DOMAIN tickets' = 1..(Len(tickets) + 1)
        /\ \A i \in 1..Len(tickets) : tickets'[i] = tickets[i]
        /\ tickets'[Len(tickets) + 1] = t
    BY <1>1, AppendFacts
  <1> QED
    BY <1>1, <1>2

\* Tickets that stand as they stood keep everything.
LEMMA TicketsStand ==
    ASSUME NEW E, NEW B, NEW T, NEW S, NEW U, Ticketed(E, B, T, S),
           \A x \in DOMAIN E : Engaged(E[x]) => E[x].job.id \in DOMAIN T,
           \A n \in DOMAIN T : n \in DOMAIN U /\ U[n] = T[n]
    PROVE  Ticketed(E, B, U, S)
  <1>1. \A q : Untouched(q, T, S) => Untouched(q, U, S)
    BY DEF Untouched
  <1>2. \A x \in DOMAIN E : Told(E[x], U)
    <2> SUFFICES ASSUME NEW x \in DOMAIN E PROVE Told(E[x], U)
      OBVIOUS
    <2>1. Told(E[x], T)
      BY DEF Ticketed
    <2>2. CASE Engaged(E[x])
      <3>1. U[E[x].job.id] = T[E[x].job.id]
        BY <2>2
      <3> QED
        BY <2>1, <2>2, <3>1 DEF Told
    <2>3. CASE ~Engaged(E[x])
      BY <2>1, <2>3 DEF Told, Engaged
    <2> QED
      BY <2>2, <2>3
  <1> QED
    BY <1>1, <1>2 DEF Ticketed

\* A new executor is created without a job.
LEMMA AcceptNew ==
    ASSUME TypeOK, NEW j \in Job, Accept(j), slot' \notin DOMAIN execs
    PROVE  execs'[slot'].job = NoJob
  <1>1. slot = 0
    BY DEF TypeOK, Accept, Target
  <1>2. Started = Append(execs, NewExecutor) /\ Target = Len(execs) + 1
    BY <1>1 DEF Started, Target
  <1>3. NewExecutor \in Executor
    BY StorageAssumption DEF NewExecutor, Executor, Job, NoJob, Phases
  <1>4. Started[Target] = NewExecutor /\ Target \in DOMAIN Started
    BY <1>2, <1>3, AppendFacts DEF TypeOK
  <1>5. execs'[slot'] = Queued(NewExecutor, j)
    BY <1>4 DEF Accept
  <1> QED
    BY <1>5 DEF Queued, NewExecutor

\* A job that waits nowhere else is accepted.
LEMMA AcceptTickets ==
    ASSUME TypeOK, SlotInv, JobInv, NEW j \in Job, NEW B, NEW T, Accept(j),
           Ticketed(execs, B, T, started),
           ~Holds(started, j.id), j.id \in DOMAIN T, T[j.id] = NewTicket(j.edit),
           \A x \in DOMAIN execs : \A k \in DOMAIN execs[x].queue : execs[x].queue[k].id # j.id,
           \A k \in DOMAIN B : B[k].id # j.id
    PROVE  Ticketed(execs', B, T, started)
  <1>1. /\ slot' \in DOMAIN execs' /\ Found \in Seq(Job)
        /\ execs'[slot'].queue = Append(Found, j)
        /\ \A x \in DOMAIN execs' : x # slot' => x \in DOMAIN execs /\ execs'[x] = execs[x]
        /\ \A x \in DOMAIN execs : execs'[x].phase = execs[x].phase /\ execs'[x].job = execs[x].job
        /\ slot' \in DOMAIN execs => slot' = slot
        /\ slot' \notin DOMAIN execs => slot = 0 /\ execs'[slot'].phase = "idle"
    BY AcceptShape
  <1>2. /\ Untouched(Found, T, started) /\ Unlike(Found) /\ Apart(Found, B)
        /\ \A k \in DOMAIN Found : Found[k].id # j.id
    <2>1. CASE slot = 0
      <3>1. Found = <<>>
        BY <2>1 DEF Found
      <3> QED
        BY <3>1 DEF Untouched, Unlike, Apart
    <2>2. CASE slot # 0
      <3>1. Found = execs[slot].queue /\ slot \in DOMAIN execs
        BY <2>2 DEF Found, TypeOK
      <3> QED
        BY <3>1 DEF Ticketed
    <2> QED
      BY <2>1, <2>2
  <1>3. Untouched(Append(Found, j), T, started) /\ Unlike(Append(Found, j))
    BY <1>1, <1>2, AppendWaits
  <1>4. Apart(Append(Found, j), B)
    <2>1. \A i \in DOMAIN Append(Found, j) : \/ i \in DOMAIN Found /\ Append(Found, j)[i] = Found[i]
                                             \/ Append(Found, j)[i] = j
      BY <1>1, AppendPlaces
    <2> QED
      BY <1>2, <2>1 DEF Apart
  <1>5. Told(execs'[slot'], T)
    <2>1. CASE slot' \in DOMAIN execs
      <3>1. Told(execs[slot'], T) /\ execs'[slot'].phase = execs[slot'].phase
            /\ execs'[slot'].job = execs[slot'].job
        BY <1>1, <2>1 DEF Ticketed
      <3> QED
        BY <3>1 DEF Told, Engaged, Open
    <2>2. CASE slot' \notin DOMAIN execs
      <3>1. execs'[slot'].phase = "idle" /\ execs'[slot'].job = NoJob
        BY <1>1, <2>2, AcceptNew
      <3> QED
        BY <3>1 DEF Told, Engaged
    <2> QED
      BY <2>1, <2>2
  <1>6. \A x \in DOMAIN execs' : /\ Untouched(execs'[x].queue, T, started) /\ Unlike(execs'[x].queue)
                                 /\ Apart(execs'[x].queue, B) /\ Told(execs'[x], T)
    <2> SUFFICES ASSUME NEW x \in DOMAIN execs'
                 PROVE  /\ Untouched(execs'[x].queue, T, started) /\ Unlike(execs'[x].queue)
                        /\ Apart(execs'[x].queue, B) /\ Told(execs'[x], T)
      OBVIOUS
    <2>1. CASE x = slot'
      BY <1>1, <1>3, <1>4, <1>5, <2>1
    <2>2. CASE x # slot'
      BY <1>1, <2>2 DEF Ticketed
    <2> QED
      BY <2>1, <2>2
  <1>7. \A x \in DOMAIN execs' : Engaged(execs'[x]) =>
           x \in DOMAIN execs /\ Engaged(execs[x]) /\ execs'[x].job = execs[x].job
    BY <1>1 DEF Engaged
  <1>8. \A x, y \in DOMAIN execs' :
           Engaged(execs'[x]) /\ Engaged(execs'[y]) /\ execs'[x].job.id = execs'[y].job.id => x = y
    BY <1>7 DEF Ticketed
  <1> QED
    BY <1>6, <1>8 DEF Ticketed

\* The number next_id is not in use.
LEMMA NextUnused ==
    ASSUME TypeOK, OrderInv
    PROVE  /\ ~Holds(started, next_id)
           /\ \A k \in DOMAIN backlog : backlog[k].id # next_id
           /\ \A x \in DOMAIN execs : \A k \in DOMAIN execs[x].queue :
                 execs[x].queue[k].id # next_id
  <1>1. next_id \in Nat
    BY DEF TypeOK
  <1>2. ASSUME NEW q \in Seq(Job), Numbered(q, next_id), NEW k \in DOMAIN q
        PROVE  q[k].id # next_id
    <2>1. q[k] \in Job
      BY <1>2
    <2>2. q[k].id \in Nat /\ q[k].id < next_id
      BY <1>2, <2>1 DEF Numbered, Job
    <2> QED
      BY <1>1, <2>2
  <1>3. \A x \in DOMAIN execs : execs[x].queue \in Seq(Job)
    BY QueueType
  <1> QED
    BY <1>2, <1>3 DEF OrderInv, TypeOK, Holds

\* submit gives a new number, and a ticket only to a job that was taken.
LEMMA SubmitTickets == ASSUME IInv, TicketInv, Submit PROVE TicketInv'
  <1>0. TypeOK /\ SlotInv /\ JobInv /\ OrderInv
    BY DEF IInv
  <1>1. backlog' = backlog /\ started' = started
    BY DEF Submit
  <1>2. NewTicket(FALSE) \in Ticket /\ NoTicket \in Ticket
    BY DEF NewTicket, NoTicket, Ticket
  <1>3. ASSUME NEW t \in Ticket, tickets' = Append(tickets, t)
        PROVE  Ticketed(execs, backlog, tickets', started)
    <2>1. \A n \in DOMAIN tickets : n \in DOMAIN tickets' /\ tickets'[n] = tickets[n]
      BY <1>0, <1>3, TicketAdded
    <2>2. \A x \in DOMAIN execs : Engaged(execs[x]) => execs[x].job.id \in DOMAIN tickets
      BY <1>0 DEF JobInv, Engaged
    <2> QED
      BY <2>1, <2>2, TicketsStand DEF TicketInv
  <1>4. CASE /\ Accept([id |-> next_id, edit |-> FALSE])
             /\ tickets' = Append(tickets, NewTicket(FALSE))
    <2> DEFINE j == [id |-> next_id, edit |-> FALSE]
    <2>1. j \in Job /\ j.id = next_id /\ j.edit = FALSE /\ Accept(j)
      BY <1>0, <1>4 DEF TypeOK, Job
    <2>2. next_id \in DOMAIN tickets' /\ tickets'[next_id] = NewTicket(FALSE)
      BY <1>0, <1>2, <1>4, TicketAdded
    <2>3. Ticketed(execs, backlog, tickets', started)
      BY <1>2, <1>3, <1>4
    <2> HIDE DEF j
    <2>4. /\ ~Holds(started, j.id) /\ j.id \in DOMAIN tickets' /\ tickets'[j.id] = NewTicket(j.edit)
          /\ \A x \in DOMAIN execs : \A k \in DOMAIN execs[x].queue : execs[x].queue[k].id # j.id
          /\ \A k \in DOMAIN backlog : backlog[k].id # j.id
      BY <1>0, <2>1, <2>2, NextUnused
    <2>5. Ticketed(execs', backlog, tickets', started)
      BY <1>0, <2>1, <2>3, <2>4, AcceptTickets
    <2> QED
      BY <1>1, <2>5 DEF TicketInv
  <1>5. CASE /\ AnswersFull \/ AnswersStopped \/ AnswersStartFailed
             /\ tickets' = Append(tickets, NoTicket)
    <2>1. execs' = execs
      BY <1>0, <1>5, RefusedShape
    <2>2. Ticketed(execs, backlog, tickets', started)
      BY <1>2, <1>3, <1>5
    <2> QED
      BY <1>1, <2>1, <2>2 DEF TicketInv
  <1> QED
    BY <1>4, <1>5 DEF Submit

\* So does submit_retained, whose job joins the backlog.
LEMMA RetainTickets == ASSUME IInv, TicketInv, SubmitRetained PROVE TicketInv'
  <1> DEFINE j == [id |-> next_id, edit |-> TRUE]
             B == Append(backlog, j)
  <1>0. TypeOK /\ JobInv /\ OrderInv /\ backlog \in Seq(Job)
    BY DEF IInv, TypeOK
  <1>1. /\ backlog' = B /\ tickets' = Append(tickets, NewTicket(TRUE))
        /\ started' = started /\ execs' = execs
    BY DEF SubmitRetained
  <1>2. NewTicket(TRUE) \in Ticket
    BY DEF NewTicket, Ticket
  <1>3. /\ \A n \in DOMAIN tickets : n \in DOMAIN tickets' /\ tickets'[n] = tickets[n]
        /\ next_id \in DOMAIN tickets' /\ tickets'[next_id] = NewTicket(TRUE)
    BY <1>0, <1>1, <1>2, TicketAdded
  <1>4. Ticketed(execs, backlog, tickets', started)
    <2>1. \A x \in DOMAIN execs : Engaged(execs[x]) => execs[x].job.id \in DOMAIN tickets
      BY <1>0 DEF JobInv, Engaged
    <2> QED
      BY <1>3, <2>1, TicketsStand DEF TicketInv
  <1>5. j \in Job /\ j.id = next_id /\ j.edit = TRUE
    BY <1>0 DEF TypeOK, Job
  <1>6. \A i \in DOMAIN B : (i \in DOMAIN backlog /\ B[i] = backlog[i]) \/ B[i] = j
    BY <1>0, <1>5, AppendPlaces
  <1> HIDE DEF j
  <1>7. /\ ~Holds(started, j.id) /\ j.id \in DOMAIN tickets' /\ tickets'[j.id] = NewTicket(j.edit)
        /\ \A x \in DOMAIN execs : \A k \in DOMAIN execs[x].queue : execs[x].queue[k].id # j.id
        /\ \A k \in DOMAIN backlog : backlog[k].id # j.id
    BY <1>0, <1>3, <1>5, NextUnused
  <1>8. Untouched(B, tickets', started) /\ Unlike(B)
    BY <1>0, <1>4, <1>5, <1>7, AppendWaits DEF Ticketed
  <1> HIDE DEF B
  <1>9. \A x \in DOMAIN execs : Apart(execs[x].queue, B)
    BY <1>4, <1>6, <1>7 DEF Ticketed, Apart
  <1>10. Ticketed(execs, B, tickets', started)
    BY <1>4, <1>8, <1>9 DEF Ticketed
  <1> QED
    BY <1>1, <1>10 DEF TicketInv

\* The oldest edit leaves the backlog for the queue.
LEMMA HandOverTickets == ASSUME IInv, TicketInv, HandOver PROVE TicketInv'
  <1>0. TypeOK /\ SlotInv /\ JobInv /\ backlog \in Seq(Job) /\ backlog # <<>>
    BY DEF IInv, TypeOK, HandOver
  <1>1. /\ Accept(Head(backlog)) /\ backlog' = Tail(backlog)
        /\ tickets' = tickets /\ started' = started
    BY DEF HandOver
  <1>2. Head(backlog) \in Job
    BY <1>0, TailFacts
  <1>3. /\ Untouched(Tail(backlog), tickets, started) /\ Unlike(Tail(backlog))
        /\ \A k \in DOMAIN Tail(backlog) : \E l \in DOMAIN backlog : Tail(backlog)[k] = backlog[l]
        /\ \E l \in DOMAIN backlog : Head(backlog) = backlog[l]
        /\ \A k \in DOMAIN Tail(backlog) : Tail(backlog)[k].id # Head(backlog).id
        /\ ~Holds(started, Head(backlog).id) /\ Head(backlog).id \in DOMAIN tickets
        /\ tickets[Head(backlog).id] = NewTicket(Head(backlog).edit)
    BY <1>0, TailWaits DEF TicketInv, Ticketed
  <1>4. \A x \in DOMAIN execs : Apart(execs[x].queue, Tail(backlog))
    BY <1>3 DEF TicketInv, Ticketed, Apart
  <1>5. Ticketed(execs, Tail(backlog), tickets, started)
    BY <1>3, <1>4 DEF TicketInv, Ticketed
  <1>6. \A x \in DOMAIN execs : \A k \in DOMAIN execs[x].queue :
           execs[x].queue[k].id # Head(backlog).id
    BY <1>3 DEF TicketInv, Ticketed, Apart
  <1>7. Ticketed(execs', Tail(backlog), tickets, started)
    BY <1>0, <1>1, <1>2, <1>3, <1>5, <1>6, AcceptTickets
  <1> QED
    BY <1>1, <1>7 DEF TicketInv

\* The worker takes the oldest command.
LEMMA TakeTickets ==
    ASSUME IInv, TicketInv, NEW x \in DOMAIN execs, Take(x)
    PROVE  TicketInv'
  <1> DEFINE q == execs[x].queue
             j == Head(q)
  <1>0. TypeOK /\ SlotInv /\ JobInv /\ started \in Seq(Job) /\ WorkerStep(x)
    BY DEF IInv, TypeOK, WorkerStep
  <1>1. /\ q \in Seq(Job) /\ q # <<>> /\ j \in Job /\ started' = Append(started, j)
        /\ execs'[x].queue = Tail(q) /\ execs'[x].phase = "running" /\ execs'[x].job = j
        /\ tickets' = tickets
    <2>1. execs'[x] = [queue |-> Tail(q), job |-> j, phase |-> "running"]
      BY <1>0 DEF Take, Becomes, TypeOK
    <2> QED
      BY <1>0, <2>1, WorkerStarts DEF Take
  <1>2. /\ DOMAIN execs' = DOMAIN execs /\ backlog' = backlog
        /\ \A y \in DOMAIN execs : y # x => execs'[y] = execs[y]
    BY <1>0, WorkerShape
  <1>3. Untouched(q, tickets, started) /\ Unlike(q) /\ Apart(q, backlog)
    BY DEF TicketInv, Ticketed
  <1> HIDE DEF q
  <1>4. /\ Untouched(Tail(q), tickets, started) /\ Unlike(Tail(q))
        /\ \A k \in DOMAIN Tail(q) : \E l \in DOMAIN q : Tail(q)[k] = q[l]
        /\ \E l \in DOMAIN q : j = q[l]
        /\ \A k \in DOMAIN Tail(q) : Tail(q)[k].id # j.id
        /\ ~Holds(started, j.id) /\ j.id \in DOMAIN tickets
        /\ tickets[j.id] = NewTicket(j.edit)
    BY <1>1, <1>3, TailWaits
  <1> HIDE DEF j
  <1>5. \A n : Holds(started', n) => Holds(started, n) \/ n = j.id
    <2>1. \A i \in DOMAIN started' : (i \in DOMAIN started /\ started'[i] = started[i]) \/ started'[i] = j
      BY <1>0, <1>1, AppendPlaces
    <2> QED
      BY <2>1 DEF Holds
  <1>6. Untouched(Tail(q), tickets, started') /\ Apart(Tail(q), backlog)
    BY <1>3, <1>4, <1>5 DEF Untouched, Apart
  <1>7. Untouched(backlog, tickets, started')
    BY <1>3, <1>4, <1>5 DEF TicketInv, Ticketed, Untouched, Apart
  <1>8. ASSUME NEW y \in DOMAIN execs, y # x PROVE execs[y].queue = <<>> /\ ~Open(execs[y])
    <2>1. x = slot
      BY <1>0 DEF SlotInv, Take, Open
    <2> QED
      BY <1>0, <1>8, <2>1 DEF SlotInv
  <1>9. Told(execs'[x], tickets)
    BY <1>1, <1>4 DEF Told, Engaged, Open, NewTicket
  <1>10. \A y \in DOMAIN execs : /\ Untouched(execs'[y].queue, tickets, started') /\ Unlike(execs'[y].queue)
                                 /\ Apart(execs'[y].queue, backlog) /\ Told(execs'[y], tickets)
    <2> SUFFICES ASSUME NEW y \in DOMAIN execs
                 PROVE  /\ Untouched(execs'[y].queue, tickets, started') /\ Unlike(execs'[y].queue)
                        /\ Apart(execs'[y].queue, backlog) /\ Told(execs'[y], tickets)
      OBVIOUS
    <2>1. CASE y = x
      BY <1>1, <1>4, <1>6, <1>9, <2>1
    <2>2. CASE y # x
      <3>1. execs'[y] = execs[y] /\ execs[y].queue = <<>> /\ Told(execs[y], tickets)
        BY <1>2, <1>8, <2>2 DEF TicketInv, Ticketed
      <3> QED
        BY <3>1 DEF Untouched, Unlike, Apart
    <2> QED
      BY <2>1, <2>2
  <1>11. ASSUME NEW y \in DOMAIN execs, y # x, Engaged(execs[y]) PROVE execs[y].job.id # j.id
    <2>1. Told(execs[y], tickets) /\ execs[y].phase = "closed"
      BY <1>8, <1>11 DEF TicketInv, Ticketed, Engaged, Open
    <2>2. tickets[execs[y].job.id].result = "closed" /\ tickets[j.id].result = "open"
      BY <1>4, <2>1 DEF Told, NewTicket
    <2> QED
      BY <2>2
  <1>12. \A y, z \in DOMAIN execs :
            Engaged(execs'[y]) /\ Engaged(execs'[z]) /\ execs'[y].job.id = execs'[z].job.id => y = z
    <2> SUFFICES ASSUME NEW y \in DOMAIN execs, NEW z \in DOMAIN execs, y # z,
                        Engaged(execs'[y]), Engaged(execs'[z])
                 PROVE  execs'[y].job.id # execs'[z].job.id
      OBVIOUS
    <2>1. CASE y = x
      BY <1>1, <1>2, <1>11, <2>1
    <2>2. CASE z = x
      BY <1>1, <1>2, <1>11, <2>2
    <2>3. CASE y # x /\ z # x
      BY <1>2, <2>3 DEF TicketInv, Ticketed
    <2> QED
      BY <2>1, <2>2, <2>3
  <1>13. Unlike(backlog)
    BY DEF TicketInv, Ticketed
  <1> QED
    BY <1>1, <1>2, <1>7, <1>10, <1>12, <1>13 DEF TicketInv, Ticketed

\* The executor x changes, with tickets no waiting job and no other executor has.
LEMMA Retold ==
    ASSUME NEW E, NEW B, NEW T, NEW S, NEW F, NEW U, NEW x \in DOMAIN E, Ticketed(E, B, T, S),
           DOMAIN F = DOMAIN E, \A y \in DOMAIN E : y # x => F[y] = E[y],
           F[x].queue \in {E[x].queue, <<>>}, DOMAIN U = DOMAIN T,
           \A y \in DOMAIN E : \A k \in DOMAIN F[y].queue :
               U[F[y].queue[k].id] = T[F[y].queue[k].id],
           \A k \in DOMAIN B : U[B[k].id] = T[B[k].id],
           \A y \in DOMAIN E : y # x /\ Engaged(E[y]) => U[E[y].job.id] = T[E[y].job.id],
           Told(F[x], U),
           Engaged(F[x]) => Engaged(E[x]) /\ F[x].job = E[x].job
    PROVE  Ticketed(F, B, U, S)
  <1>1. Untouched(B, U, S) /\ Unlike(B)
    BY DEF Ticketed, Untouched
  <1>2. ASSUME NEW y \in DOMAIN E
        PROVE  /\ Untouched(F[y].queue, U, S) /\ Unlike(F[y].queue)
               /\ Apart(F[y].queue, B) /\ Told(F[y], U)
    <2>1. F[y].queue \in {E[y].queue, <<>>}
      OBVIOUS
    <2>2. Untouched(F[y].queue, T, S) /\ Unlike(F[y].queue) /\ Apart(F[y].queue, B)
      <3>1. Untouched(E[y].queue, T, S) /\ Unlike(E[y].queue) /\ Apart(E[y].queue, B)
        BY DEF Ticketed
      <3>2. Untouched(<<>>, T, S) /\ Unlike(<<>>) /\ Apart(<<>>, B)
        BY DEF Untouched, Unlike, Apart
      <3> QED
        BY <2>1, <3>1, <3>2
    <2>3. Untouched(F[y].queue, U, S)
      BY <2>2 DEF Untouched
    <2>4. Told(F[y], U)
      <3>1. CASE y = x
        BY <3>1
      <3>2. CASE y # x /\ Engaged(E[y])
        <4>1. Told(E[y], T) /\ F[y] = E[y] /\ U[E[y].job.id] = T[E[y].job.id]
          BY <3>2 DEF Ticketed
        <4> QED
          BY <4>1 DEF Told
      <3>3. CASE y # x /\ ~Engaged(E[y])
        <4>1. Told(E[y], T) /\ F[y] = E[y]
          BY <3>3 DEF Ticketed
        <4> QED
          BY <3>3, <4>1 DEF Told, Engaged
      <3> QED
        BY <3>1, <3>2, <3>3
    <2> QED
      BY <2>2, <2>3, <2>4
  <1>3. \A y \in DOMAIN E : Engaged(F[y]) => Engaged(E[y]) /\ F[y].job = E[y].job
    OBVIOUS
  <1>4. \A y, z \in DOMAIN F :
           Engaged(F[y]) /\ Engaged(F[z]) /\ F[y].job.id = F[z].job.id => y = z
    BY <1>3 DEF Ticketed
  <1> QED
    BY <1>1, <1>2, <1>4 DEF Ticketed

\* Only the ticket of x's own job changes: no waiting job has it, nor another
\* executor.
LEMMA OwnTicket ==
    ASSUME IInv, TicketInv, NEW x \in DOMAIN execs, Engaged(execs[x]),
           NEW r, NEW w, tickets' = [tickets EXCEPT ![execs[x].job.id] = Settled(@, r, w)],
           NEW next, Becomes(x, next), started' = started,
           next.queue = execs[x].queue,
           Engaged(next) => next.job = execs[x].job,
           Told(next, tickets')
    PROVE  TicketInv'
  <1> DEFINE n == execs[x].job.id
  <1>0. TypeOK /\ JobInv
    BY DEF IInv
  <1>1. n \in DOMAIN tickets /\ Holds(started, n)
    BY <1>0 DEF JobInv, Engaged, Begun
  <1>2. DOMAIN tickets' = DOMAIN tickets /\ \A m \in DOMAIN tickets : m # n => tickets'[m] = tickets[m]
    OBVIOUS
  <1>3. /\ DOMAIN execs' = DOMAIN execs /\ execs'[x] = next /\ backlog' = backlog
        /\ \A y \in DOMAIN execs : y # x => execs'[y] = execs[y]
    BY DEF Becomes
  <1> HIDE DEF n
  <1>4. ASSUME NEW q, Untouched(q, tickets, started), NEW k \in DOMAIN q
        PROVE  tickets'[q[k].id] = tickets[q[k].id]
    BY <1>1, <1>2, <1>4 DEF Untouched
  <1>5. \A y \in DOMAIN execs : execs'[y].queue = execs[y].queue
    BY <1>3
  <1>6. \A y \in DOMAIN execs : \A k \in DOMAIN execs'[y].queue :
           tickets'[execs'[y].queue[k].id] = tickets[execs'[y].queue[k].id]
    BY <1>4, <1>5 DEF TicketInv, Ticketed
  <1>7. \A k \in DOMAIN backlog : tickets'[backlog[k].id] = tickets[backlog[k].id]
    BY <1>4 DEF TicketInv, Ticketed
  <1>8. \A y \in DOMAIN execs : y # x /\ Engaged(execs[y]) =>
           tickets'[execs[y].job.id] = tickets[execs[y].job.id]
    <2> SUFFICES ASSUME NEW y \in DOMAIN execs, y # x, Engaged(execs[y])
                 PROVE  tickets'[execs[y].job.id] = tickets[execs[y].job.id]
      OBVIOUS
    <2>1. execs[y].job.id \in DOMAIN tickets
      BY <1>0 DEF JobInv, Engaged
    <2>2. execs[y].job.id # n
      BY DEF TicketInv, Ticketed, n
    <2> QED
      BY <1>2, <2>1, <2>2
  <1>9. /\ execs'[x].queue \in {execs[x].queue, <<>>} /\ Told(execs'[x], tickets')
        /\ Engaged(execs'[x]) => Engaged(execs[x]) /\ execs'[x].job = execs[x].job
    BY <1>3
  <1>10. Ticketed(execs, backlog, tickets, started) /\ x \in DOMAIN execs
    BY DEF TicketInv
  <1>11. Ticketed(execs', backlog, tickets', started)
    BY ONLY <1>2, <1>3, <1>6, <1>7, <1>8, <1>9, <1>10, Retold
  <1> QED
    BY <1>3, <1>11 DEF TicketInv

\* A worker's step.
LEMMA WorkerTickets ==
    ASSUME IInv, TicketInv, NEW x \in DOMAIN execs, WorkerStep(x)
    PROVE  TicketInv'
  <1> DEFINE e == execs[x]
             n == e.job.id
  <1>0. TypeOK /\ SlotInv /\ JobInv /\ tickets \in Seq(Ticket)
    BY DEF IInv, TypeOK
  <1>1. Engaged(e) => n \in DOMAIN tickets /\ Holds(started, n) /\ tickets[n] \in Ticket
    BY <1>0 DEF JobInv, Engaged, Begun
  <1>2. Told(e, tickets)
    BY DEF TicketInv, Ticketed
  <1>3. CASE Take(x)
    BY <1>3, TakeTickets
  <1>4. CASE Complete(x)
    <2> DEFINE f == [queue |-> e.queue, job |-> NoJob, phase |-> "idle"]
    <2>1. /\ Engaged(e) /\ Becomes(x, f) /\ started' = started
          /\ tickets' = [tickets EXCEPT ![n] = Settled(@, "sent", @.worker)]
      BY <1>4 DEF Complete, Engaged
    <2>2. tickets' = [tickets EXCEPT ![n] = Settled(@, "sent", tickets[n].worker)]
      BY <1>1, <2>1
    <2>3. f.queue = e.queue /\ ~Engaged(f) /\ Told(f, tickets')
      BY DEF Engaged, Told
    <2> HIDE DEF f
    <2> QED
      BY <2>1, <2>2, <2>3, OwnTicket
  <1>5. CASE Unwind(x)
    <2> DEFINE f == InPhase(e, "unwinding")
               w == IF e.job.edit THEN "closed" ELSE tickets[n].worker
    <2>1. /\ Engaged(e) /\ Open(e) /\ Becomes(x, f) /\ started' = started
          /\ tickets' = [tickets EXCEPT ![n] =
                            Settled(@, "closed", IF e.job.edit THEN "closed" ELSE @.worker)]
      BY <1>5 DEF Unwind, Engaged, Open
    <2>2. tickets' = [tickets EXCEPT ![n] = Settled(@, "closed", w)]
      BY <1>1, <2>1
    <2>3. f.queue = e.queue /\ f.job = e.job /\ f.phase = "unwinding"
      BY DEF InPhase
    <2>4. tickets'[n] = Settled(tickets[n], "closed", w)
      BY <1>1, <2>1, <2>2
    <2>5. /\ tickets'[n].edit = e.job.edit /\ tickets'[n].result = "closed"
          /\ ~e.job.edit => tickets'[n].worker = "open"
      BY <1>2, <2>1, <2>4 DEF Settled, Told
    <2> HIDE DEF f, w
    <2>6. Told(f, tickets')
      BY <2>3, <2>5 DEF Told, Engaged
    <2> QED
      BY <2>1, <2>2, <2>3, <2>6, OwnTicket
  <1>6. CASE Die(x)
    <2> DEFINE f == [queue |-> e.queue, job |-> NoJob, phase |-> "dead"]
    <2>1. /\ Engaged(e) /\ Becomes(x, f) /\ started' = started
          /\ tickets' = [tickets EXCEPT ![n] = Settled(@, @.result, "closed")]
      BY <1>6 DEF Die, Engaged
    <2>2. tickets' = [tickets EXCEPT ![n] = Settled(@, tickets[n].result, "closed")]
      BY <1>1, <2>1
    <2>3. f.queue = e.queue /\ ~Engaged(f) /\ Told(f, tickets')
      BY DEF Engaged, Told
    <2> HIDE DEF f
    <2> QED
      BY <2>1, <2>2, <2>3, OwnTicket
  <1>7. CASE Close(x)
    <2> DEFINE f == [queue |-> <<>>, job |-> e.job, phase |-> "closed"]
    <2>1. /\ e.phase = "unwinding" /\ Engaged(e) /\ Open(e) /\ Becomes(x, f) /\ started' = started
          /\ tickets' = [m \in DOMAIN tickets |->
                            IF m \in QueuedIn(x) THEN Settled(tickets[m], "closed", "closed")
                            ELSE tickets[m]]
      BY <1>7 DEF Close, Engaged, Open
    <2>2. /\ DOMAIN execs' = DOMAIN execs /\ execs'[x] = f /\ backlog' = backlog
          /\ \A y \in DOMAIN execs : y # x => execs'[y] = execs[y]
      BY <2>1 DEF Becomes
    <2>3. /\ DOMAIN tickets' = DOMAIN tickets
          /\ \A m \in DOMAIN tickets : m \notin QueuedIn(x) => tickets'[m] = tickets[m]
      BY <2>1
    <2>4. \A m \in QueuedIn(x) : ~Holds(started, m)
      BY DEF QueuedIn, TicketInv, Ticketed, Untouched
    <2>5. f.queue = <<>> /\ f.job = e.job /\ f.phase = "closed"
      OBVIOUS
    <2> HIDE DEF f
    <2>6. \A y \in DOMAIN execs : execs'[y].queue = <<>>
      <3>1. x = slot
        BY <1>0, <2>1 DEF SlotInv
      <3>2. \A y \in DOMAIN execs : y # x => execs[y].queue = <<>>
        BY <1>0, <3>1 DEF SlotInv
      <3> QED
        BY <2>2, <2>5, <3>2
    <2>7. \A k \in DOMAIN backlog : tickets'[backlog[k].id] = tickets[backlog[k].id]
      <3> SUFFICES ASSUME NEW k \in DOMAIN backlog
                   PROVE  tickets'[backlog[k].id] = tickets[backlog[k].id]
        OBVIOUS
      <3>1. backlog[k].id \in DOMAIN tickets
        BY DEF TicketInv, Ticketed, Untouched
      <3>2. backlog[k].id \notin QueuedIn(x)
        BY DEF QueuedIn, TicketInv, Ticketed, Apart
      <3> QED
        BY <2>3, <3>1, <3>2
    <2>8. \A y \in DOMAIN execs : Engaged(execs[y]) =>
             tickets'[execs[y].job.id] = tickets[execs[y].job.id]
      <3> SUFFICES ASSUME NEW y \in DOMAIN execs, Engaged(execs[y])
                   PROVE  tickets'[execs[y].job.id] = tickets[execs[y].job.id]
        OBVIOUS
      <3>1. execs[y].job.id \in DOMAIN tickets /\ Holds(started, execs[y].job.id)
        BY <1>0 DEF JobInv, Engaged, Begun
      <3> QED
        BY <2>3, <2>4, <3>1
    <2>9. Told(f, tickets')
      <3>1. tickets'[n] = tickets[n]
        BY <2>1, <2>8
      <3> QED
        BY <1>2, <2>1, <2>5, <3>1 DEF Told, Engaged, Open
    <2>10. execs'[x].queue \in {execs[x].queue, <<>>}
      BY <2>6
    <2>11. \A y \in DOMAIN execs : \A k \in DOMAIN execs'[y].queue :
              tickets'[execs'[y].queue[k].id] = tickets[execs'[y].queue[k].id]
      BY <2>6
    <2>12. Told(execs'[x], tickets') /\ Engaged(execs[x]) /\ execs'[x].job = execs[x].job
      BY <2>1, <2>2, <2>5, <2>9
    <2>13. Ticketed(execs', backlog, tickets', started)
      BY <2>2, <2>3, <2>7, <2>8, <2>10, <2>11, <2>12, Retold DEF TicketInv
    <2> QED
      BY <2>1, <2>2, <2>13 DEF TicketInv
  <1> QED
    BY <1>3, <1>4, <1>5, <1>6, <1>7 DEF WorkerStep

\* No ticket is out at the start.
LEMMA InitTickets == Init => TicketInv
  BY DEF Init, TicketInv, Ticketed, Untouched, Unlike

\* Every step keeps what the tickets say.
LEMMA NextTickets == IInv /\ TicketInv /\ [Next]_swVars => TicketInv'
  <1> SUFFICES ASSUME IInv, TicketInv, [Next]_swVars PROVE TicketInv'
    OBVIOUS
  <1>1. ASSUME UNCHANGED <<execs, backlog, tickets, started>> PROVE TicketInv'
    BY <1>1 DEF TicketInv
  <1>2. CASE PumpRetained \/ PumpEnds \/ BackoffPasses \/ UNCHANGED swVars
    BY <1>1, <1>2 DEF PumpRetained, PumpEnds, BackoffPasses, swVars
  <1>3. CASE PutBack
    BY <1>1, <1>3 DEF PutBack, AnswersFull, AnswersStopped, AnswersStartFailed
  <1> QED
    BY <1>2, <1>3, SubmitTickets, RetainTickets, HandOverTickets, WorkerTickets DEF Next, PumpStep

\* A caller that reads a request's failure knows the worker that failed it takes
\* nothing more, for any capacity and any run of panics, submissions and restarts:
\* the worker lets go of the request's second sender after its receiver is closed.
THEOREM FailuresKnown == Spec => []RequestFailuresKnown
  <1>1. IInv /\ TicketInv => RequestFailuresKnown
    <2> SUFFICES ASSUME IInv, TicketInv, NEW n \in DOMAIN tickets, ~tickets[n].edit,
                        TryRecv(tickets[n]) = "Disconnected",
                        NEW x \in DOMAIN execs, Open(execs[x]), execs[x].job.id = n
                 PROVE  FALSE
      BY DEF RequestFailuresKnown, FailureIsPublic
    <2>1. tickets[n].worker = "closed"
      BY DEF TryRecv
    <2>2. Told(execs[x], tickets)
      BY DEF TicketInv, Ticketed
    <2>3. n # 0
      BY DEF IInv, TypeOK
    <2>4. Engaged(execs[x])
      BY <2>2, <2>3 DEF Told, NoJob
    <2> QED
      BY <2>1, <2>2, <2>4 DEF Told
  <1> QED
    BY <1>1, InitIInv, NextIInv, InitTickets, NextTickets, PTL DEF Spec
==============================================================================
