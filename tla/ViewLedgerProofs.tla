--------------------------- MODULE ViewLedgerProofs --------------------------
(***************************************************************************)
(* Proofs about the ledger under the writes of ViewState: its numbers are  *)
(* unique and already issued, every press that is queued or out is backed  *)
(* by an entry no older than it and, where a title has one copy, by the    *)
(* entry it recorded; and a row that disagrees with its server has a press *)
(* queued or out, or is owed a read-back.                                  *)
(***************************************************************************)
EXTENDS ViewStateProofs

------------------------------------------------------------------------------
(* What the queue and the ledger owe each other.                            *)

\* The requests of v that are queued or out, and those that are presses.
Out(v) == {v.queue[k] : k \in DOMAIN v.queue} \cup ({v.sent} \ {NoReq})

Presses(v) == {r \in Out(v) : ~r.origin_done}

\* The place a request acts on.
Place(r) == [item |-> r.item, scope |-> r.scope]

\* The table t holds an answer to r's question that is not older than r.
Backed(t, r) == \E e \in t.entries : SameKind(e, Place(r), EditOf(r.w)) /\ r.seq <= e.seq

\* Numbers are in order, the request of a stream's end has none, and every press
\* is backed.
Standing(v) ==
    /\ WellNumbered(v.ledger)
    /\ \A r \in Out(v) : r.origin_done => r.seq = 0
    /\ \A q, r \in Presses(v) : q.id < r.id => q.seq < r.seq
    /\ \A r \in Presses(v) : 0 < r.seq /\ Backed(v.ledger, r)

\* Nothing newer of r's item and toggle is queued or out.
Last(v, r) == \A q \in Out(v) : q.item = r.item /\ Family(q.w) = Family(r.w) => q.id <= r.id

\* The entry r recorded.
Recorded(t, r) == [seq |-> r.seq, at |-> Place(r), edit |-> EditOf(r.w)] \in t.entries

\* The last press on an item still has its own entry.
Exact(v) == \A r \in Presses(v) : Last(v, r) => Recorded(v.ledger, r)

\* No worker writes, and no answer reports, a copy.
Alone ==
    /\ \A k \in workers : k.todo = {} /\ k.also = <<>>
    /\ mail # NoMail => mail.also = <<>>

------------------------------------------------------------------------------
(* The table's numbers.                                                     *)

\* The entries of a well-numbered table, with the types the provers need.
LEMMA Numbers ==
    ASSUME NEW t \in Ledger, WellNumbered(t)
    PROVE  /\ t.seq \in Nat
           /\ \A e \in t.entries : e \in Entry /\ e.seq \in Nat /\ 0 < e.seq /\ e.seq <= t.seq
BY DEF Ledger, Entry, WellNumbered

\* Recording takes a number nobody had.
LEMMA RecordNumbered ==
    ASSUME NEW t \in Ledger, WellNumbered(t), NEW at, NEW edit
    PROVE  WellNumbered(Record(t, at, edit))
<1> DEFINE new == [seq |-> t.seq + 1, at |-> at, edit |-> edit]
           E == {e \in t.entries : ~SameKind(e, at, edit)} \cup {new}
<1>1. Record(t, at, edit).seq = t.seq + 1 /\ Record(t, at, edit).entries = E
  BY DEF Record
<1>2. new.seq = t.seq + 1 OBVIOUS
<1> HIDE DEF new
<1>3. \A e \in E : (e \in t.entries /\ 0 < e.seq /\ e.seq <= t.seq /\ e.seq \in Nat) \/ e = new
  BY Numbers
<1>4. t.seq \in Nat BY Numbers
<1> HIDE DEF E
<1> QED BY <1>1, <1>2, <1>3, <1>4 DEF WellNumbered

\* Landing moves one entry to a number nobody had.
LEMMA LandedNumbered ==
    ASSUME NEW t \in Ledger, WellNumbered(t), NEW s
    PROVE  /\ WellNumbered(Landed(t, s))
           /\ \A e \in t.entries : e.seq # s => e \in Landed(t, s).entries
<1>1. CASE ~\E e \in t.entries : e.seq = s
  BY <1>1 DEF Landed
<1>2. CASE \E e \in t.entries : e.seq = s
  <2> DEFINE to(e) == [e EXCEPT !.seq = t.seq + 1]
             E == {IF e.seq = s THEN to(e) ELSE e : e \in t.entries}
  <2>1. Landed(t, s).seq = t.seq + 1 /\ Landed(t, s).entries = E
    BY <1>2 DEF Landed
  <2>2. \A e \in t.entries : to(e).seq = t.seq + 1
    BY Numbers DEF Entry
  <2> HIDE DEF to
  <2>3. \A e \in t.entries : e.seq # s => e \in E
    OBVIOUS
  <2>4. \A n \in E : \/ n \in t.entries /\ n.seq # s
                     \/ \E e \in t.entries : e.seq = s /\ n = to(e)
    OBVIOUS
  <2>5. \A n \in E : 0 < n.seq /\ n.seq <= t.seq + 1
    BY <2>2, <2>4, Numbers
  <2>6. \A m, n \in E : m.seq = n.seq => m = n
    <3> SUFFICES ASSUME NEW m \in E, NEW n \in E, m.seq = n.seq PROVE m = n
      OBVIOUS
    <3>1. t.seq \in Nat /\ \A e \in t.entries : e.seq \in Nat /\ e.seq <= t.seq
      BY Numbers
    <3>2. CASE m \in t.entries /\ m.seq # s
      BY <2>2, <2>4, <3>1, <3>2 DEF WellNumbered
    <3>3. CASE n \in t.entries /\ n.seq # s
      BY <2>2, <2>4, <3>1, <3>3 DEF WellNumbered
    <3>4. CASE (\E e \in t.entries : e.seq = s /\ m = to(e)) /\ (\E e \in t.entries : e.seq = s /\ n = to(e))
      BY <3>4 DEF WellNumbered
    <3> QED BY <2>4, <3>2, <3>3, <3>4
  <2> HIDE DEF E
  <2> QED BY <2>1, <2>3, <2>5, <2>6 DEF WellNumbered
<1> QED BY <1>1, <1>2

\* Retiring and resetting only take entries away.
LEMMA RetireNumbered ==
    ASSUME NEW t \in Ledger, WellNumbered(t), NEW S
    PROVE  /\ WellNumbered(Retire(t, S)) /\ WellNumbered(ResetLedger(t))
           /\ \A e \in t.entries : e.seq \notin S => e \in Retire(t, S).entries
           /\ Retire(t, S).seq = t.seq
BY DEF WellNumbered, Retire, ResetLedger, Ledger

\* The copies take the next numbers, one each.
LEMMA CopiesNumbered ==
    ASSUME NEW t \in Ledger, WellNumbered(t), NEW r \in Req, NEW also \in Seq(Items)
    PROVE  /\ WellNumbered(RecordCopies(t, r, also))
           /\ t.seq <= RecordCopies(t, r, also).seq
           /\ \A e \in t.entries : \E n \in RecordCopies(t, r, also).entries :
                 SameKind(n, e.at, e.edit) /\ e.seq <= n.seq
           /\ also = <<>> => RecordCopies(t, r, also) = t
<1> DEFINE at(k) == [item |-> also[k], scope |-> CopyScope(r.scope)]
           new(k) == [seq |-> t.seq + k, at |-> at(k), edit |-> EditOf(r.w)]
           old == {e \in t.entries : ~\E k \in DOMAIN also : SameKind(e, at(k), EditOf(r.w))}
           E == old \cup {new(k) : k \in DOMAIN also}
           x == RecordCopies(t, r, also)
<1>1. x = [seq |-> t.seq + Len(also), entries |-> E]
  BY Zenon DEF RecordCopies
<1>2. DOMAIN also = 1..Len(also) /\ Len(also) \in Nat
  BY LenProperties
<1>3. \A k : new(k).seq = t.seq + k /\ new(k).at = at(k) /\ new(k).edit = EditOf(r.w)
  OBVIOUS
<1>4. t.seq \in Nat /\ \A e \in t.entries : e.seq \in Nat /\ 0 < e.seq /\ e.seq <= t.seq
  BY Numbers
<1> HIDE DEF new, x, at
<1>5. \A n \in E : n \in t.entries \/ \E k \in DOMAIN also : n = new(k)
  OBVIOUS
<1>6. \A k \in DOMAIN also : new(k) \in E
  OBVIOUS
<1>7. \A e \in t.entries : e \in E \/ \E k \in DOMAIN also : SameKind(e, at(k), EditOf(r.w))
  OBVIOUS
<1> HIDE DEF E
<1>8. \A n \in E : 0 < n.seq /\ n.seq <= t.seq + Len(also)
  BY <1>2, <1>3, <1>4, <1>5
<1>9. \A m, n \in E : m.seq = n.seq => m = n
  <2> SUFFICES ASSUME NEW m \in E, NEW n \in E, m.seq = n.seq PROVE m = n
    OBVIOUS
  <2>1. CASE m \in t.entries /\ n \in t.entries
    BY <2>1 DEF WellNumbered
  <2>2. ASSUME NEW k \in DOMAIN also, m = new(k) PROVE m = n
    <3>0. m.seq = n.seq
      OBVIOUS
    <3>1. k \in Nat /\ 0 < k /\ n.seq = t.seq + k
      BY <1>2, <1>3, <2>2, <3>0
    <3>2. n \notin t.entries
      BY <1>4, <3>1
    <3>3. PICK l \in DOMAIN also : n = new(l)
      BY <1>5, <3>2
    <3>4. l \in Nat /\ n.seq = t.seq + l
      BY <1>2, <1>3, <3>3
    <3>5. k = l
      BY <1>4, <3>1, <3>4
    <3> QED BY <2>2, <3>3, <3>5
  <2>3. ASSUME NEW k \in DOMAIN also, n = new(k) PROVE m = n
    <3>1. k \in Nat /\ 0 < k /\ n.seq = t.seq + k
      BY <1>2, <1>3, <2>3
    <3>2. m \notin t.entries
      BY <1>4, <3>1
    <3>3. PICK l \in DOMAIN also : m = new(l)
      BY <1>5, <3>2
    <3>4. l \in Nat /\ m.seq = t.seq + l
      BY <1>2, <1>3, <3>3
    <3>5. k = l
      BY <1>4, <3>1, <3>4
    <3> QED BY <2>3, <3>3, <3>5
  <2> QED BY <1>5, <2>1, <2>2, <2>3
<1>10. ASSUME NEW e \in t.entries
       PROVE  \E n \in E : SameKind(n, e.at, e.edit) /\ e.seq <= n.seq
  <2>1. CASE e \in E
    <3>1. SameKind(e, e.at, e.edit) /\ e.seq <= e.seq
      BY <1>4 DEF SameKind
    <3> QED BY <2>1, <3>1
  <2>2. CASE e \notin E
    <3>1. PICK k \in DOMAIN also : SameKind(e, at(k), EditOf(r.w))
      BY <1>7, <2>2
    <3>2. e.at = new(k).at /\ e.edit.kind = new(k).edit.kind
      BY <1>3, <3>1 DEF SameKind
    <3>3. e.seq <= new(k).seq
      BY <1>2, <1>3, <1>4
    <3> QED BY <1>6, <3>2, <3>3 DEF SameKind
  <2> QED BY <2>1, <2>2
<1>11. x.seq = t.seq + Len(also) /\ x.entries = E
  BY <1>1
<1>12. also = <<>> => x = t
  <2> SUFFICES ASSUME also = <<>> PROVE x = t
    OBVIOUS
  <2>1. DOMAIN also = {} /\ Len(also) = 0
    OBVIOUS
  <2>2. E = t.entries
    BY <2>1 DEF E
  <2>3. t = [seq |-> t.seq, entries |-> t.entries]
    BY DEF Ledger
  <2> QED BY <1>1, <1>4, <2>1, <2>2, <2>3
<1>13. t.seq <= x.seq
  BY <1>2, <1>4, <1>11
<1> QED BY <1>8, <1>9, <1>10, <1>11, <1>12, <1>13 DEF WellNumbered, x

------------------------------------------------------------------------------
(* The queue.                                                               *)

\* What a queue keeps of a sequence is all it was told to keep.
LEMMA KeptAll ==
    ASSUME NEW S, NEW q \in Seq(S), NEW K \in SUBSET DOMAIN q, NEW k \in K
    PROVE  \E i \in DOMAIN Kept(q, K) : Kept(q, K)[i] = q[k]
<1> DEFINE n == Cardinality(K)
           pos == CHOOSE f \in [1..n -> K] : \A i, j \in 1..n : i < j => f[i] < f[j]
<1>1. DOMAIN q = 1..Len(q) /\ Len(q) \in Nat
  BY LenProperties
<1>2. n \in Nat /\ Listed(K) /\ IsFiniteSet(K)
  BY <1>1, PositionsListed
<1>3. pos \in [1..n -> K] /\ \A i, j \in 1..n : i < j => pos[i] < pos[j]
  BY <1>2 DEF Listed
<1>4. Kept(q, K) = [i \in 1..n |-> q[pos[i]]]
  BY DEF Kept
<1> HIDE DEF pos
<1>5. pos \in Injection(1..n, K)
  <2>1. ASSUME NEW i \in 1..n, NEW j \in 1..n, pos[i] = pos[j] PROVE i = j
    <3>1. pos[i] \in Nat /\ pos[j] \in Nat
      BY <1>1, <1>3
    <3>2. i < j => pos[i] < pos[j]
      BY <1>3
    <3>3. j < i => pos[j] < pos[i]
      BY <1>3
    <3> QED BY <1>2, <2>1, <3>1, <3>2, <3>3
  <2> HIDE DEF n
  <2> QED BY <1>3, <2>1 DEF Injection, IsInjective
<1>6. Cardinality(1..n) = n
  <2>1. 1 \in Int /\ n \in Int
    BY <1>2
  <2> HIDE DEF n
  <2> QED BY <1>2, <2>1, FS_Interval
<1>7. pos \in Surjection(1..n, K)
  BY <1>2, <1>5, <1>6, FS_Injection
<1> HIDE DEF n
<1>8. PICK i \in 1..n : pos[i] = k
  BY <1>7 DEF Surjection
<1> QED BY <1>4, <1>8

\* Requests have the types of a request.
LEMMA OutTyped ==
    ASSUME NEW v \in ViewStateState
    PROVE  \A r \in Out(v) : r \in Req /\ r.id \in Nat /\ r.seq \in Nat
                             /\ r.origin_done \in BOOLEAN
<1>1. v.queue \in Seq(Req) /\ v.sent \in Req \cup {NoReq}
  BY DEF ViewStateState
<1>2. \A k \in DOMAIN v.queue : v.queue[k] \in Req
  BY <1>1, LenProperties
<1>3. \A r \in Req : r.id \in Nat /\ r.seq \in Nat /\ r.origin_done \in BOOLEAN
  BY DEF Req
<1> QED BY <1>1, <1>2, <1>3 DEF Out

\* Taking the oldest requests away, with no entry that a press left behind needs.
LEMMA Shrinks ==
    ASSUME NEW v \in ViewStateState, NEW x, Standing(v), WellNumbered(x.ledger),
           Out(x) \subseteq Out(v),
           \A r \in Presses(x), e \in v.ledger.entries :
              r.seq <= e.seq => e \in x.ledger.entries,
           \A q \in Out(v) \ Out(x), r \in Out(x) : q.id < r.id
    PROVE  Standing(x) /\ (Exact(v) => Exact(x))
<1>1. Presses(x) \subseteq Presses(v)
  BY DEF Presses
<1>2. Standing(x)
  BY <1>1 DEF Standing, Backed
<1>3. ASSUME Exact(v), NEW r \in Presses(x), Last(x, r)
      PROVE  Recorded(x.ledger, r)
  <2>1. r \in Out(x) /\ r \in Presses(v) /\ \A q \in Out(v) : q.id \in Nat
    BY <1>1, <1>3, OutTyped DEF Presses
  <2>2. Last(v, r)
    BY <1>3, <2>1 DEF Last
  <2> DEFINE e == [seq |-> r.seq, at |-> Place(r), edit |-> EditOf(r.w)]
  <2>3. e \in v.ledger.entries /\ e.seq = r.seq
    BY <1>3, <2>1, <2>2 DEF Exact, Recorded
  <2>4. r.seq <= e.seq
    BY <2>1, <2>3, OutTyped
  <2> HIDE DEF e
  <2>5. e \in x.ledger.entries
    BY <1>3, <2>3, <2>4
  <2> QED BY <2>5 DEF e, Recorded
<1> QED BY <1>2, <1>3 DEF Exact

\* kick drops the oldest, and their entries with them.
LEMMA KickStanding ==
    ASSUME NEW v \in ViewStateState, Serial(v), Standing(v)
    PROVE  /\ Standing(Kick(v)) /\ (Exact(v) => Exact(Kick(v)))
           /\ Out(Kick(v)) \subseteq Out(v) /\ Kick(v).ledger.seq = v.ledger.seq
           /\ Kick(v).ledger.entries \subseteq v.ledger.entries
           /\ Kick(v).want_reread = v.want_reread
           /\ (\A r \in Out(v) : Admit(r)) => Out(Kick(v)) = Out(v)
<1>1. CASE v.sent # NoReq \/ v.retry_cd > 0
  BY <1>1 DEF Kick
<1>2. CASE ~(v.sent # NoReq \/ v.retry_cd > 0)
  <2> DEFINE q == v.queue
             may == {k \in DOMAIN q : Admit(q[k])}
             n == IF may = {} THEN Len(q) + 1 ELSE Min(may)
             D == {q[k].seq : k \in 1..(n - 1)}
             L == Retire(v.ledger, D)
             Q == SubSeq(q, n + 1, Len(q))
             X == IF may = {} THEN NoReq ELSE q[n]
  <2>0. PICK x : x = Kick(v) OBVIOUS
  <2>1. /\ q \in Seq(Req) /\ v.ledger \in Ledger /\ DOMAIN q = 1..Len(q) /\ Len(q) \in Nat
        /\ \A k \in DOMAIN q : q[k] \in Req
    BY LenProperties DEF ViewStateState
  <2>2. may # {} => n \in DOMAIN q
    <3>1. may \in SUBSET Nat /\ may \subseteq DOMAIN q
      BY <2>1
    <3> QED BY <3>1, MinLeast
  <2>3. n \in 1..(Len(q) + 1)
    BY <2>1, <2>2
  <2>4. x = [v EXCEPT !.ledger = L, !.queue = Q, !.sent = X]
    BY <1>2, <2>0 DEF Kick
  <2>5. (X = NoReq /\ n = Len(q) + 1) \/ (X = q[n] /\ n \in DOMAIN q)
    BY <2>2
  <2>22. (\A k \in DOMAIN q : Admit(q[k])) => n = 1
    <3> SUFFICES ASSUME \A k \in DOMAIN q : Admit(q[k]) PROVE n = 1
      OBVIOUS
    <3>1. may = DOMAIN q /\ may \in SUBSET Nat BY <2>1
    <3>2. CASE Len(q) = 0 BY <2>1, <3>1, <3>2
    <3>3. CASE Len(q) # 0
      <4>1. 1 \in may BY <2>1, <3>1, <3>3
      <4>2. Min(may) \in may /\ Min(may) <= 1 BY <3>1, <4>1, MinLeast
      <4> QED BY <2>1, <3>1, <4>1, <4>2
    <3> QED BY <3>2, <3>3
  <2> HIDE DEF n, may, L, Q, X
  <2>6. /\ x.ledger = L /\ x.queue = Q /\ x.sent = X /\ v.sent = NoReq
        /\ x.want_reread = v.want_reread
    BY <1>2, <2>4 DEF ViewStateState
  <2>7. /\ Q \in Seq(Req)
        /\ Len(Q) = IF n + 1 <= Len(q) THEN Len(q) - (n + 1) + 1 ELSE 0
        /\ \A i \in 1..(Len(q) - (n + 1) + 1) : Q[i] = q[n + 1 + i - 1]
    <3>1. n + 1 \in Int /\ Len(q) \in Int BY <2>1, <2>3
    <3>2. \A i \in (n + 1)..Len(q) : q[i] \in Req BY <2>1, <2>3
    <3> HIDE DEF q
    <3> QED BY <3>1, <3>2, SubSeqProperties DEF Q
  <2>8. DOMAIN Q = 1..Len(Q)
    BY <2>7, LenProperties
  <2>9. \A i \in DOMAIN Q : i + n \in DOMAIN q /\ Q[i] = q[i + n] /\ n <= i + n
    BY <2>1, <2>3, <2>7, <2>8
  <2>10. \A k \in DOMAIN q : n < k => k - n \in DOMAIN Q /\ Q[k - n] = q[k]
    BY <2>1, <2>3, <2>7, <2>8
  <2>11. \A r \in Out(x) : \E k \in DOMAIN q : r = q[k] /\ n <= k
    BY <2>3, <2>5, <2>6, <2>9 DEF Out
  <2>12. \A r \in Out(v) : \E k \in DOMAIN q : r = q[k]
    BY <2>6 DEF Out
  <2>13. \A k \in DOMAIN q : n <= k => q[k] \in Out(x)
    <3> SUFFICES ASSUME NEW k \in DOMAIN q, n <= k PROVE q[k] \in Out(x)
      OBVIOUS
    <3>1. CASE k = n
      <4>1. X = q[n] /\ n # Len(q) + 1
        BY <2>1, <2>5, <3>1
      <4>2. X # NoReq
        <5>1. q[n] \in Req BY <2>1, <3>1
        <5>2. DOMAIN NoReq = {"id"} BY DEF NoReq
        <5>3. "seq" \in DOMAIN q[n] BY <5>1 DEF Req
        <5> QED BY <4>1, <5>2, <5>3
      <4> QED BY <2>6, <3>1, <4>1, <4>2 DEF Out
    <3>2. CASE k # n
      <4>1. n < k BY <2>1, <2>3, <3>2
      <4> QED BY <2>6, <2>10, <4>1 DEF Out
    <3> QED BY <3>1, <3>2
  <2>14. Out(x) \subseteq Out(v)
    BY <2>11 DEF Out
  <2>15. \A j, k \in DOMAIN q : j < k => q[j].id < q[k].id
    BY DEF Serial
  <2>16. ASSUME NEW p \in Out(v) \ Out(x), NEW r \in Out(x) PROVE p.id < r.id
    <3>1. PICK j \in DOMAIN q : p = q[j] BY <2>12
    <3>2. PICK k \in DOMAIN q : r = q[k] /\ n <= k BY <2>11
    <3>3. j < n BY <2>1, <2>3, <2>13, <2>16, <3>1
    <3>4. j < k BY <2>1, <2>3, <3>2, <3>3
    <3> QED BY <2>15, <3>1, <3>2, <3>4
  <2>17. WellNumbered(L) /\ (\A e \in v.ledger.entries : e.seq \notin D => e \in L.entries)
         /\ L.seq = v.ledger.seq
    <3> HIDE DEF D
    <3> QED BY <2>1, RetireNumbered DEF L, Standing
  <2>23. x.ledger.entries \subseteq v.ledger.entries
    <3> HIDE DEF D
    <3> QED BY <2>1, <2>6 DEF L, Retire, Ledger
  <2>18. ASSUME NEW r \in Presses(x), NEW e \in v.ledger.entries, r.seq <= e.seq
         PROVE  e \in x.ledger.entries
    <3>1. e.seq \in Nat /\ 0 < e.seq
      BY <2>1, Numbers DEF Standing
    <3>2. r \in Out(x) /\ r \in Presses(v)
      BY <2>14 DEF Presses
    <3>3. PICK k \in DOMAIN q : r = q[k] /\ n <= k
      BY <2>11, <3>2
    <3>4. ASSUME NEW j \in 1..(n - 1) PROVE q[j].seq # e.seq
      <4>1. j \in DOMAIN q /\ j < k
        BY <2>1, <2>3, <3>3
      <4>2. q[j] \in Out(v) /\ q[j].id < r.id
        BY <2>15, <3>3, <4>1 DEF Out
      <4>3. CASE q[j].origin_done
        BY <3>1, <4>2, <4>3 DEF Standing
      <4>4. CASE ~q[j].origin_done
        <5>1. q[j].seq < r.seq
          BY <3>2, <4>2, <4>4 DEF Standing, Presses
        <5>2. q[j].seq \in Nat /\ r.seq \in Nat
          BY <3>2, <4>2, OutTyped DEF Presses
        <5> QED BY <2>18, <3>1, <5>1, <5>2
      <4> QED BY <4>3, <4>4
    <3>5. e.seq \notin D
      BY <3>4
    <3> QED BY <2>6, <2>17, <3>5
  <2>19. WellNumbered(x.ledger)
    BY <2>6, <2>17
  <2>20. Standing(x) /\ (Exact(v) => Exact(x))
    BY <2>14, <2>16, <2>18, <2>19, Shrinks
  <2>21. ASSUME \A r \in Out(v) : Admit(r) PROVE Out(x) = Out(v)
    <3>1. n = 1 BY <2>22, <2>21 DEF Out
    <3>2. \A k \in DOMAIN q : n <= k BY <2>1, <3>1
    <3> QED BY <2>12, <2>13, <2>14, <3>2
  <2> QED BY <2>0, <2>6, <2>14, <2>17, <2>20, <2>21, <2>23
<1> QED BY <1>1, <1>2

------------------------------------------------------------------------------
(* The steps.                                                               *)

\* Nothing issued yet: what is queued or out is older than the next identity.
LEMMA OutOlder ==
    ASSUME NEW v \in ViewStateState, Serial(v)
    PROVE  \A r \in Out(v) : r.id < v.next_id
BY DEF Serial, Out

\* The request a press queues.
Made(v, i, w) ==
    [id |-> v.next_id, seq |-> RecordedSeq(v.ledger), item |-> i,
     key |-> token[ServerOf[i]].key, profile |-> profile, w |-> w,
     scope |-> ScopeOf[i], origin_done |-> FALSE]

\* A press puts its request last and supersedes queued ones of its item and toggle.
LEMMA PressedOut ==
    ASSUME TypeOK, NEW i \in Items, NEW w \in AllWrites
    PROVE  LET x == Pressed(vs, i, w)
               r == Made(vs, i, w)
           IN  /\ x.sent = vs.sent /\ x.want_reread = vs.want_reread
               /\ x.ledger = Record(vs.ledger, [item |-> i, scope |-> ScopeOf[i]], EditOf(w))
               /\ r \in Out(x)
               /\ \A q \in Out(x) : q \in Out(vs) \/ q = r
               /\ \A p \in Out(vs) : p \in Out(x) \/ (p.item = i /\ Family(p.w) = Family(w))
<1> DEFINE K == {k \in DOMAIN vs.queue :
                    ~(vs.queue[k].item = i /\ Family(vs.queue[k].w) = Family(w))}
           c == Kept(vs.queue, K)
           r == Made(vs, i, w)
           T == Record(vs.ledger, [item |-> i, scope |-> ScopeOf[i]], EditOf(w))
<1>0. PICK x : x = Pressed(vs, i, w) OBVIOUS
<1>1. vs \in ViewStateState /\ vs.queue \in Seq(Req) /\ vs.ledger \in Ledger
  BY DEF TypeOK, ViewStateState
<1>2. /\ x.queue = Append(c, r) /\ x.sent = vs.sent /\ x.ledger = T
      /\ x.want_reread = vs.want_reread
  BY <1>0, <1>1 DEF Pressed, Coalesce, ViewStateState, Made
<1>3. K \in SUBSET DOMAIN vs.queue OBVIOUS
<1>4. /\ c \in Seq(Req)
      /\ \A m \in DOMAIN c : \E k \in K : c[m] = vs.queue[k]
  <2> HIDE DEF K
  <2>1. /\ c \in Seq(Req)
        /\ \E f \in [DOMAIN c -> K] : /\ \A m, n \in DOMAIN c : m < n => f[m] < f[n]
                                      /\ \A m \in DOMAIN c : c[m] = vs.queue[f[m]]
    BY <1>1, <1>3, KeptInOrder
  <2> HIDE DEF c
  <2> QED BY <2>1
<1>5. \A k \in K : \E m \in DOMAIN c : c[m] = vs.queue[k]
  <2> HIDE DEF K
  <2> QED BY <1>1, <1>3, KeptAll
<1>6. /\ DOMAIN x.queue = 1..(Len(c) + 1) /\ DOMAIN c = 1..Len(c) /\ Len(c) \in Nat
      /\ \A m \in 1..Len(c) : x.queue[m] = c[m]
      /\ x.queue[Len(c) + 1] = r
  <2>1. DOMAIN c = 1..Len(c) /\ Len(c) \in Nat
    BY <1>4, LenProperties
  <2>2. r \in Req
    <3>1. RecordedSeq(vs.ledger) \in Nat BY <1>1 DEF RecordedSeq, Ledger
    <3>2. token[ServerOf[i]].key \in Nat /\ profile \in Nat /\ vs.next_id \in Nat
      BY ViewStateAssumption DEF TypeOK, ViewStateState
    <3> QED BY <3>1, <3>2, ViewStateAssumption DEF Req, Made
  <2> HIDE DEF c, r
  <2>3. Append(c, r) \in Seq(Req) /\ Len(Append(c, r)) = Len(c) + 1
        /\ (\A m \in 1..Len(c) : Append(c, r)[m] = c[m]) /\ Append(c, r)[Len(c) + 1] = r
    BY <1>4, <2>2, AppendProperties
  <2>4. DOMAIN Append(c, r) = 1..(Len(c) + 1)
    BY <2>3, LenProperties
  <2> QED BY <1>2, <2>1, <2>3, <2>4
<1>7. \A k \in DOMAIN vs.queue :
         k \in K \/ (vs.queue[k].item = i /\ Family(vs.queue[k].w) = Family(w))
  OBVIOUS
<1> HIDE DEF r, c
<1>9. r \in Out(x)
  BY <1>6 DEF Out
<1>10. \A q \in Out(x) : q \in Out(vs) \/ q = r
  <2>1. \A m \in DOMAIN x.queue : x.queue[m] = r \/ (m \in DOMAIN c /\ x.queue[m] = c[m])
    BY <1>6
  <2>2. \A m \in DOMAIN c : c[m] \in Out(vs)
    BY <1>3, <1>4 DEF Out
  <2> QED BY <1>2, <2>1, <2>2 DEF Out
<1>11. \A p \in Out(vs) : p \in Out(x) \/ (p.item = i /\ Family(p.w) = Family(w))
  <2>1. \A k \in K : vs.queue[k] \in Out(x)
    <3> HIDE DEF K
    <3> QED BY <1>5, <1>6 DEF Out
  <2> HIDE DEF K
  <2> QED BY <1>2, <1>7, <2>1 DEF Out
<1> HIDE DEF T
<1> QED BY <1>0, <1>2, <1>9, <1>10, <1>11 DEF T, r

\* A press records the newest entry of its place and goes last; what it takes out of
\* the queue is of its own item and toggle.
LEMMA PressedStanding ==
    ASSUME TypeOK, Serial(vs), Standing(vs), NEW i \in Items, NEW w \in AllWrites
    PROVE  LET x == Pressed(vs, i, w)
           IN  /\ Standing(x) /\ (Exact(vs) => Exact(x))
               /\ x.ledger.seq = vs.ledger.seq + 1
               /\ \A q \in Presses(x) : q \in Presses(vs) \/ q.seq = vs.ledger.seq + 1
<1> DEFINE at == [item |-> i, scope |-> ScopeOf[i]]
           r == Made(vs, i, w)
           t == vs.ledger
           T == Record(t, at, EditOf(w))
           new == [seq |-> t.seq + 1, at |-> at, edit |-> EditOf(w)]
<1>0. PICK x : x = Pressed(vs, i, w) OBVIOUS
<1>1. vs \in ViewStateState /\ t \in Ledger /\ WellNumbered(t)
  BY DEF TypeOK, ViewStateState, Standing
<1>2. x.sent = vs.sent /\ x.ledger = T
  BY <1>0, PressedOut
<1>8. /\ r.id = vs.next_id /\ r.seq = t.seq + 1 /\ r.item = i /\ r.w = w /\ ~r.origin_done
      /\ Place(r) = at
  BY DEF RecordedSeq, Place, Made
<1> HIDE DEF r
<1>9. r \in Out(x)
  BY <1>0, PressedOut DEF r
<1>10. \A q \in Out(x) : q \in Out(vs) \/ q = r
  BY <1>0, PressedOut DEF r
<1>11. \A p \in Out(vs) : p \in Out(x) \/ (p.item = i /\ Family(p.w) = Family(w))
  <2>1. \A p \in Out(vs) : p \in Out(Pressed(vs, i, w)) \/ (p.item = i /\ Family(p.w) = Family(w))
    BY PressedOut, Zenon
  <2> QED BY <1>0, <2>1
<1>12. T.seq = t.seq + 1 /\ T.entries = {e \in t.entries : ~SameKind(e, at, EditOf(w))} \cup {new}
  BY DEF Record
<1>13. WellNumbered(T)
  BY <1>1, RecordNumbered
<1>14. t.seq \in Nat /\ (\A e \in t.entries : e.seq \in Nat /\ 0 < e.seq /\ e.seq <= t.seq)
  BY <1>1, Numbers
<1>15. new \in T.entries /\ new.seq = t.seq + 1 /\ new.at = at /\ new.edit = EditOf(w)
  BY <1>12
<1> HIDE DEF T, new, at
<1>16. \A q \in Out(vs) : q.id \in Nat /\ q.seq \in Nat /\ q.id < r.id
  BY <1>1, <1>8, OutTyped, OutOlder
<1>17. \A q \in Presses(vs) : q \in Out(vs) /\ q.seq <= t.seq /\ 0 < q.seq
  <2> SUFFICES ASSUME NEW q \in Presses(vs) PROVE q \in Out(vs) /\ q.seq <= t.seq /\ 0 < q.seq
    OBVIOUS
  <2>1. q \in Out(vs) /\ q.seq \in Nat BY <1>16 DEF Presses
  <2>2. 0 < q.seq /\ Backed(t, q) BY DEF Standing
  <2>3. PICK e \in t.entries : q.seq <= e.seq BY <2>2 DEF Backed
  <2> QED BY <1>14, <2>1, <2>2, <2>3
<1>18. \A q \in Presses(x) : q \in Presses(vs) \/ q = r
  BY <1>10 DEF Presses
<1>19. ASSUME NEW q \in Presses(x) PROVE 0 < q.seq /\ Backed(T, q)
  <2>1. CASE q = r
    <3>1. SameKind(new, Place(q), EditOf(q.w)) /\ q.seq <= new.seq
      BY <1>8, <1>14, <1>15, <2>1 DEF SameKind
    <3> QED BY <1>8, <1>14, <1>15, <2>1, <3>1 DEF Backed
  <2>2. CASE q \in Presses(vs)
    <3>1. 0 < q.seq /\ q.seq <= t.seq /\ q.seq \in Nat BY <1>16, <1>17, <2>2
    <3>2. PICK e \in t.entries : SameKind(e, Place(q), EditOf(q.w)) /\ q.seq <= e.seq
      BY <2>2 DEF Standing, Backed
    <3>3. CASE ~SameKind(e, at, EditOf(w))
      BY <1>12, <3>1, <3>2, <3>3 DEF Backed
    <3>4. CASE SameKind(e, at, EditOf(w))
      <4>1. SameKind(new, Place(q), EditOf(q.w)) /\ q.seq <= new.seq
        BY <1>14, <1>15, <3>1, <3>2, <3>4 DEF SameKind
      <4> QED BY <1>15, <3>1, <4>1 DEF Backed
    <3> QED BY <3>3, <3>4
  <2> QED BY <1>18, <2>1, <2>2
<1>20. ASSUME NEW p \in Presses(x), NEW q \in Presses(x), p.id < q.id PROVE p.seq < q.seq
  <2>1. CASE p \in Presses(vs) /\ q \in Presses(vs)
    BY <1>20, <2>1 DEF Standing
  <2>2. CASE p \in Presses(vs) /\ q = r
    BY <1>8, <1>14, <1>16, <1>17, <2>2
  <2>3. CASE p = r /\ q \in Presses(vs)
    <3>1. q.id < p.id /\ q.id \in Nat /\ p.id \in Nat
      BY <1>1, <1>8, <1>16, <1>17, <2>3 DEF ViewStateState
    <3> QED BY <1>20, <3>1
  <2>4. CASE p = r /\ q = r
    <3>1. r.id \in Nat BY <1>1, <1>8 DEF ViewStateState
    <3> QED BY <1>20, <2>4, <3>1
  <2> QED BY <1>18, <2>1, <2>2, <2>3, <2>4
<1>21. \A q \in Out(x) : q.origin_done => q.seq = 0
  BY <1>8, <1>10 DEF Standing
<1>22. Standing(x)
  BY <1>2, <1>13, <1>19, <1>20, <1>21 DEF Standing
<1>23. ASSUME Exact(vs), NEW q \in Presses(x), Last(x, q)
       PROVE  Recorded(T, q)
  <2>1. CASE q = r
    <3>1. new = [seq |-> q.seq, at |-> Place(q), edit |-> EditOf(q.w)]
      BY <1>8, <2>1 DEF new
    <3> QED BY <1>15, <3>1 DEF Recorded
  <2>2. CASE q # r
    <3>1. q \in Presses(vs) /\ q \in Out(vs) /\ q.id < r.id /\ q.id \in Nat /\ r.id \in Nat
      BY <1>1, <1>8, <1>16, <1>17, <1>18, <2>2 DEF ViewStateState
    <3>2. ~(r.item = q.item /\ Family(r.w) = Family(q.w))
      BY <1>9, <1>23, <3>1 DEF Last
    <3>3. Last(vs, q)
      BY <1>8, <1>11, <1>23, <3>2 DEF Last
    <3> DEFINE e == [seq |-> q.seq, at |-> Place(q), edit |-> EditOf(q.w)]
    <3>4. e \in t.entries
      BY <1>23, <3>1, <3>3 DEF Exact, Recorded
    <3>5. ~SameKind(e, at, EditOf(w))
      <4>1. e.at = Place(q) /\ e.edit = EditOf(q.w) OBVIOUS
      <4>2. Place(q).item = q.item /\ at.item = i
        BY DEF Place, at
      <4>3. q.w \in AllWrites
        BY <1>1, <3>1, OutTyped DEF Req
      <4>4. EditOf(q.w).kind = EditOf(w).kind => Family(q.w) = Family(w)
        BY <4>3 DEF EditOf, Family, AllWrites, Watched, LeftDeck
      <4> HIDE DEF e
      <4> QED BY <1>8, <3>2, <4>1, <4>2, <4>4 DEF SameKind
    <3> HIDE DEF e
    <3>6. e \in T.entries
      BY <1>12, <3>4, <3>5
    <3> QED BY <3>6 DEF Recorded, e
  <2> QED BY <2>1, <2>2
<1>24. Exact(vs) => Exact(x)
  BY <1>2, <1>23 DEF Exact
<1>25. x.ledger.seq = t.seq + 1 /\ \A q \in Presses(x) : q \in Presses(vs) \/ q.seq = t.seq + 1
  BY <1>2, <1>8, <1>12, <1>18
<1> QED BY <1>0, <1>22, <1>24, <1>25

\* request keeps all of it.
LEMMA PressStanding ==
    ASSUME TypeOK, Serial(vs), Standing(vs), NEW i \in Items, NEW w \in AllWrites
    PROVE  LET x == Request(vs, i, w)
           IN  /\ Standing(x) /\ (Exact(vs) => Exact(x))
               /\ x.ledger.seq = vs.ledger.seq + 1
               /\ \A q \in Presses(x) : q \in Presses(vs) \/ q.seq = vs.ledger.seq + 1
<1>1. PICK y : y = Pressed(vs, i, w) OBVIOUS
<1>2. Request(vs, i, w) = Kick(y) /\ y \in ViewStateState /\ Serial(y)
  BY <1>1, PressedType, PressedSerial
<1>3. /\ Standing(y) /\ (Exact(vs) => Exact(y)) /\ y.ledger.seq = vs.ledger.seq + 1
      /\ \A q \in Presses(y) : q \in Presses(vs) \/ q.seq = vs.ledger.seq + 1
  BY <1>1, PressedStanding
<1>4. /\ Standing(Kick(y)) /\ (Exact(y) => Exact(Kick(y)))
      /\ Out(Kick(y)) \subseteq Out(y) /\ Kick(y).ledger.seq = y.ledger.seq
  BY <1>2, <1>3, KickStanding
<1>5. Presses(Kick(y)) \subseteq Presses(y)
  BY <1>4 DEF Presses
<1> QED BY <1>2, <1>3, <1>4, <1>5

\* The request of a stream's end brings no entry and displaces none.
LEMMA StreamEndStanding ==
    ASSUME TypeOK, NEW v \in ViewStateState, Serial(v), Standing(v), NEW i \in Items
    PROVE  LET x == FanOutOriginWatched(v, i)
           IN  /\ Standing(x) /\ (Exact(v) => Exact(x))
               /\ x.ledger.seq = v.ledger.seq /\ Presses(x) \subseteq Presses(v)
               /\ x.ledger.entries \subseteq v.ledger.entries
               /\ x.want_reread = v.want_reread
               /\ (\A q \in Out(v) : Admit(q)) =>
                     Presses(x) = Presses(v) /\ \A q \in Out(x) : Admit(q)
<1> DEFINE r == [id |-> v.next_id, seq |-> 0, item |-> i,
                 key |-> token[ServerOf[i]].key, profile |-> profile,
                 w |-> "Watched", scope |-> "Leaf", origin_done |-> TRUE]
<1>1. PICK y : y = StreamEnded(v, i) OBVIOUS
<1>2. /\ FanOutOriginWatched(v, i) = v \/ FanOutOriginWatched(v, i) = Kick(y)
      /\ y \in ViewStateState /\ Serial(y)
  BY <1>1, StreamEndedType, StreamEndedSerial
<1>3. /\ y.queue = Append(v.queue, r) /\ y.sent = v.sent /\ y.ledger = v.ledger
      /\ y.want_reread = v.want_reread
  BY <1>1 DEF StreamEnded, ViewStateState
<1>4. r.seq = 0 /\ r.origin_done
  OBVIOUS
<1>11. FanOutOriginWatched(v, i) = v \/ Admit(r)
  BY DEF FanOutOriginWatched, Admit
<1> HIDE DEF r
<1>5. /\ \A q \in Out(y) : q \in Out(v) \/ q = r
      /\ Out(v) \subseteq Out(y)
  <2>1. v.queue \in Seq(Req) /\ DOMAIN v.queue = 1..Len(v.queue) /\ Len(v.queue) \in Nat
    BY LenProperties DEF ViewStateState
  <2>2. /\ DOMAIN y.queue = 1..(Len(v.queue) + 1)
        /\ \A m \in 1..Len(v.queue) : y.queue[m] = v.queue[m]
        /\ y.queue[Len(v.queue) + 1] = r
    BY <1>3, <2>1
  <2>3. \A m \in DOMAIN v.queue : m \in DOMAIN y.queue /\ y.queue[m] = v.queue[m]
    BY <2>1, <2>2
  <2>4. \A m \in DOMAIN y.queue : y.queue[m] = r \/ (m \in DOMAIN v.queue /\ y.queue[m] = v.queue[m])
    BY <2>1, <2>2
  <2> QED BY <1>3, <2>3, <2>4 DEF Out
<1>6. Presses(y) = Presses(v)
  BY <1>4, <1>5 DEF Presses
<1>7. Standing(y)
  BY <1>3, <1>4, <1>5, <1>6 DEF Standing
<1>8. Exact(v) => Exact(y)
  BY <1>3, <1>5, <1>6 DEF Exact, Last
<1>9. /\ Standing(Kick(y)) /\ (Exact(y) => Exact(Kick(y)))
      /\ Out(Kick(y)) \subseteq Out(y) /\ Kick(y).ledger.seq = y.ledger.seq
      /\ Kick(y).ledger.entries \subseteq y.ledger.entries
      /\ Kick(y).want_reread = y.want_reread
      /\ (\A q \in Out(y) : Admit(q)) => Out(Kick(y)) = Out(y)
  BY <1>2, <1>7, KickStanding
<1>10. Presses(Kick(y)) \subseteq Presses(v)
  BY <1>6, <1>9 DEF Presses
<1>12. ASSUME \A q \in Out(v) : Admit(q), Admit(r)
       PROVE  Presses(Kick(y)) = Presses(v) /\ \A q \in Out(Kick(y)) : Admit(q)
  <2>1. \A q \in Out(y) : Admit(q) BY <1>5, <1>12
  <2>2. Out(Kick(y)) = Out(y) BY <1>9, <2>1
  <2> QED BY <1>6, <2>1, <2>2 DEF Presses
<1> QED BY <1>2, <1>3, <1>8, <1>9, <1>10, <1>11, <1>12

\* The write that was out is answered, or dropped: only its own entry may go.
LEMMA SentGone ==
    ASSUME NEW v \in ViewStateState, Serial(v), Standing(v), v.sent \in Req, NEW x,
           x.queue = v.queue, x.sent = NoReq, WellNumbered(x.ledger),
           \A e \in v.ledger.entries : e.seq # v.sent.seq => e \in x.ledger.entries
    PROVE  Standing(x) /\ (Exact(v) => Exact(x)) /\ Out(x) \subseteq Out(v)
<1>1. v.sent # NoReq
  <2>1. DOMAIN NoReq = {"id"} BY DEF NoReq
  <2>2. "seq" \in DOMAIN v.sent BY DEF Req
  <2> QED BY <2>1, <2>2
<1>2. \A r \in Out(x) : r \in Out(v) /\ v.sent.id < r.id
  BY <1>1 DEF Out, Serial
<1>3. \A q \in Out(v) \ Out(x) : q = v.sent
  BY DEF Out
<1>4. v.sent \in Out(v)
  BY <1>1 DEF Out
<1>5. ASSUME NEW r \in Presses(x), NEW e \in v.ledger.entries, r.seq <= e.seq
      PROVE  e \in x.ledger.entries
  <2>1. r \in Out(x) /\ r \in Presses(v) /\ r.seq \in Nat
    BY <1>2, OutTyped DEF Presses
  <2>2. e.seq \in Nat /\ 0 < e.seq
    <3>1. v.ledger \in Ledger /\ WellNumbered(v.ledger) BY DEF ViewStateState, Standing
    <3> QED BY <3>1, Numbers
  <2>3. CASE v.sent.origin_done
    BY <1>4, <2>2, <2>3 DEF Standing
  <2>4. CASE ~v.sent.origin_done
    <3>1. v.sent.seq < r.seq /\ v.sent.seq \in Nat
      BY <1>2, <1>4, <2>1, <2>4, OutTyped DEF Standing, Presses
    <3> QED BY <1>5, <2>1, <2>2, <3>1
  <2> QED BY <2>3, <2>4
<1>6. \A q \in Out(v) \ Out(x), r \in Out(x) : q.id < r.id
  BY <1>2, <1>3
<1>7. Out(x) \subseteq Out(v)
  BY <1>2
<1> QED BY <1>5, <1>6, <1>7, Shrinks

\* Standing and Exact are about what is queued or out and the table, and nothing else.
LEMMA SameStanding ==
    ASSUME NEW v, NEW x, Out(x) = Out(v), x.ledger = v.ledger
    PROVE  (Standing(v) => Standing(x)) /\ (Exact(v) => Exact(x)) /\ Presses(x) = Presses(v)
BY DEF Standing, Exact, Last, Presses

\* The answer of a frame.
LEMMA LandStanding ==
    ASSUME TypeOK, Serial(vs), Standing(vs), NEW v, v = Land(RetryTick(vs))
    PROVE  /\ Standing(v) /\ vs.ledger.seq <= v.ledger.seq /\ Presses(v) \subseteq Presses(vs)
           /\ Exact(vs) /\ (mail # NoMail => mail.also = <<>>) => Exact(v)
           /\ Out(v) \subseteq Out(vs)
           /\ \A r \in Out(vs) : \/ r \in Out(v)
                                 \/ /\ Answers /\ r = vs.sent
                                    /\ mail.outcome = "NotStarted" => ~Admit(r)
<1>1. vs \in ViewStateState /\ vs.ledger \in Ledger /\ vs.ledger.seq \in Nat
  BY DEF TypeOK, ViewStateState, Ledger
<1>2. PICK t : t = RetryTick(vs) OBVIOUS
<1>3. /\ t \in ViewStateState /\ t.queue = vs.queue /\ t.sent = vs.sent
      /\ t.next_id = vs.next_id /\ t.ledger = vs.ledger
  <2>1. t \in ViewStateState BY <1>1, <1>2, RetryTickType
  <2> QED BY <1>1, <1>2, <2>1 DEF RetryTick, ViewStateState
<1>4. Out(t) = Out(vs)
  BY <1>3 DEF Out
<1>5. Standing(t) /\ (Exact(vs) => Exact(t)) /\ Presses(t) = Presses(vs)
  BY <1>3, <1>4, SameStanding
<1>6. Serial(t)
  BY <1>3, SameOrder
<1>7. CASE ~Answers
  <2>1. v = t BY <1>2, <1>7 DEF Land
  <2> QED BY <1>1, <1>3, <1>4, <1>5, <2>1
<1>8. CASE Answers /\ mail.outcome = "NotStarted"
  <2>1. t.sent \in Req BY <1>3, <1>8, PumpedType
  <2>2. v = RestartRefused(t) BY <1>2, <1>8 DEF Land
  <2>3. CASE Admit(t.sent)
    <3> DEFINE Q == <<t.sent>> \o t.queue
    <3>1. v = [t EXCEPT !.queue = Q, !.sent = NoReq, !.retry_cd = RetryFrames]
      BY <2>2, <2>3 DEF RestartRefused
    <3>2. v.queue = Q /\ v.sent = NoReq /\ v.ledger = t.ledger
      BY <1>3, <3>1 DEF ViewStateState
    <3>3. t.queue \in Seq(Req) /\ DOMAIN t.queue = 1..Len(t.queue) /\ Len(t.queue) \in Nat
      BY <1>3, LenProperties DEF ViewStateState
    <3>4. /\ DOMAIN Q = 1..(Len(t.queue) + 1) /\ Q[1] = t.sent
          /\ \A m \in 1..Len(t.queue) : Q[m + 1] = t.queue[m]
      BY <2>1, <3>3
    <3> HIDE DEF Q
    <3>5. \A m \in DOMAIN Q : Q[m] = t.sent \/ \E k \in DOMAIN t.queue : Q[m] = t.queue[k]
      <4> SUFFICES ASSUME NEW m \in DOMAIN Q, m # 1 PROVE \E k \in DOMAIN t.queue : Q[m] = t.queue[k]
        BY <3>4
      <4>1. m - 1 \in 1..Len(t.queue) /\ (m - 1) + 1 = m BY <3>3, <3>4
      <4>2. Q[m] = t.queue[m - 1] BY <3>4, <4>1
      <4> QED BY <3>3, <4>1, <4>2
    <3>6. \A k \in DOMAIN t.queue : k + 1 \in DOMAIN Q /\ Q[k + 1] = t.queue[k]
      BY <3>3, <3>4
    <3>7. 1 \in DOMAIN Q BY <3>3, <3>4
    <3>8. t.sent # NoReq BY <1>3, <1>8 DEF Answers
    <3>9. Out(v) = Out(t)
      <4>1. \A r \in Out(v) : r \in Out(t) BY <3>2, <3>5, <3>8 DEF Out
      <4>2. \A r \in Out(t) : r \in Out(v) BY <3>2, <3>4, <3>6, <3>7 DEF Out
      <4> QED BY <4>1, <4>2
    <3> QED BY <1>1, <1>3, <1>4, <1>5, <3>2, <3>9, SameStanding
  <2>4. CASE ~Admit(t.sent)
    <3> DEFINE L == Retire(t.ledger, {t.sent.seq})
    <3>1. v = [t EXCEPT !.ledger = L, !.sent = NoReq]
      BY <2>2, <2>4 DEF RestartRefused
    <3>2. /\ WellNumbered(L) /\ L.seq = vs.ledger.seq
          /\ \A e \in t.ledger.entries : e.seq # t.sent.seq => e \in L.entries
      BY <1>1, <1>3, <1>5, RetireNumbered DEF Standing
    <3> HIDE DEF L
    <3>3. v.queue = t.queue /\ v.sent = NoReq /\ v.ledger = L
      BY <1>3, <3>1 DEF ViewStateState
    <3>4. Standing(v) /\ (Exact(t) => Exact(v)) /\ Out(v) \subseteq Out(t)
      BY <1>3, <1>5, <1>6, <2>1, <3>2, <3>3, SentGone
    <3>5. Presses(v) \subseteq Presses(vs) BY <1>5, <3>4 DEF Presses
    <3>6. \A r \in Out(vs) : r \in Out(v) \/ r = vs.sent BY <1>3, <3>3 DEF Out
    <3> QED BY <1>1, <1>3, <1>4, <1>5, <1>8, <2>4, <3>2, <3>3, <3>4, <3>5, <3>6
  <2> QED BY <2>3, <2>4
<1>9. CASE Answers /\ mail.outcome # "NotStarted"
  <2>1. t.sent \in Req /\ mail \in Completion /\ mail # NoMail
    BY <1>3, <1>9, PumpedType DEF Answers
  <2>2. v = LandWritten(t, mail) BY <1>2, <1>9 DEF Land
  <2>3. mail.also \in Seq(Items) BY <2>1 DEF Completion
  <2>4. PICK L : L = IF mail.ok THEN Landed(t.ledger, t.sent.seq) ELSE Retire(t.ledger, {t.sent.seq})
    OBVIOUS
  <2>5. /\ v.queue = t.queue /\ v.sent = NoReq
        /\ v.ledger = RecordCopies(L, t.sent, mail.also)
    <3>1. v.queue = t.queue /\ v.sent = NoReq BY <1>3, <2>1, <2>2, LandWrittenType
    <3>2. v.ledger = RecordCopies(L, t.sent, mail.also)
      BY <1>3, <2>2, <2>4 DEF LandWritten, ViewStateState
    <3> QED BY <3>1, <3>2
  <2>6. /\ L \in Ledger /\ WellNumbered(L) /\ vs.ledger.seq <= L.seq
        /\ \A e \in t.ledger.entries : e.seq # t.sent.seq => e \in L.entries
    <3>1. t.ledger \in Ledger /\ WellNumbered(t.ledger) BY <1>1, <1>3, <1>5 DEF Standing
    <3>2. CASE mail.ok
      <4>1. L = Landed(t.ledger, t.sent.seq) BY <2>4, <3>2
      <4>2. vs.ledger.seq <= L.seq BY <1>1, <1>3, <4>1 DEF Landed
      <4> QED BY <3>1, <4>1, <4>2, LandedLedger, LandedNumbered
    <3>3. CASE ~mail.ok
      <4>1. L = Retire(t.ledger, {t.sent.seq}) BY <2>4, <3>3
      <4> QED BY <1>1, <1>3, <3>1, <4>1, RetireLedger, RetireNumbered
    <3> QED BY <3>2, <3>3
  <2> DEFINE y == [queue |-> t.queue, sent |-> NoReq, ledger |-> L]
  <2>7. y.queue = t.queue /\ y.sent = NoReq /\ y.ledger = L OBVIOUS
  <2> HIDE DEF y
  <2>8. Standing(y) /\ (Exact(t) => Exact(y)) /\ Out(y) \subseteq Out(t)
    BY <1>3, <1>5, <1>6, <2>1, <2>6, <2>7, SentGone
  <2>9. Out(v) = Out(y) /\ Presses(v) = Presses(y)
    BY <2>5, <2>7 DEF Out, Presses
  <2>10. /\ WellNumbered(v.ledger) /\ L.seq <= v.ledger.seq
         /\ \A e \in L.entries : \E n \in v.ledger.entries :
               SameKind(n, e.at, e.edit) /\ e.seq <= n.seq
         /\ mail.also = <<>> => v.ledger = L
    BY <2>1, <2>3, <2>5, <2>6, CopiesNumbered
  <2>11. ASSUME NEW r \in Presses(v) PROVE 0 < r.seq /\ Backed(v.ledger, r)
    <3>1. r \in Presses(y) /\ r \in Presses(t) /\ r.seq \in Nat
      BY <1>3, <2>8, <2>9, OutTyped DEF Presses
    <3>2. 0 < r.seq /\ Backed(L, r) BY <2>7, <2>8, <3>1 DEF Standing
    <3>3. PICK e \in L.entries : SameKind(e, Place(r), EditOf(r.w)) /\ r.seq <= e.seq
      BY <3>2 DEF Backed
    <3>4. PICK n \in v.ledger.entries : SameKind(n, e.at, e.edit) /\ e.seq <= n.seq
      BY <2>10
    <3>5. e.seq \in Nat /\ n.seq \in Nat
      <4>1. v.ledger \in Ledger BY <2>1, <2>3, <2>5, <2>6, RecordCopiesLedger
      <4> QED BY <2>6, <2>10, <4>1, Numbers
    <3>6. SameKind(n, Place(r), EditOf(r.w)) /\ r.seq <= n.seq
      BY <3>1, <3>3, <3>4, <3>5 DEF SameKind
    <3> QED BY <3>2, <3>6 DEF Backed
  <2>12. Standing(v)
    BY <2>8, <2>9, <2>10, <2>11 DEF Standing
  <2>13. mail.also = <<>> /\ Exact(y) => Exact(v)
    BY <2>7, <2>9, <2>10, SameStanding
  <2>14. Presses(v) \subseteq Presses(vs)
    BY <1>4, <2>8, <2>9 DEF Presses
  <2>15. vs.ledger.seq <= v.ledger.seq
    <3>1. L.seq \in Nat BY <2>6 DEF Ledger
    <3>2. v.ledger.seq \in Nat
      <4>1. v.ledger \in Ledger BY <2>1, <2>3, <2>5, <2>6, RecordCopiesLedger
      <4> QED BY <4>1 DEF Ledger
    <3> QED BY <1>1, <2>6, <2>10, <3>1, <3>2
  <2>16. \A r \in Out(vs) : r \in Out(v) \/ r = vs.sent BY <1>3, <2>5 DEF Out
  <2>17. Out(v) \subseteq Out(vs) BY <1>4, <2>8, <2>9
  <2> QED BY <1>5, <1>9, <2>1, <2>8, <2>12, <2>13, <2>14, <2>15, <2>16, <2>17
<1> QED BY <1>7, <1>8, <1>9

\* A frame keeps it.
LEMMA PumpStanding ==
    ASSUME TypeOK, OneWriteOut, Standing(vs), ViewStatePump
    PROVE  /\ Standing(vs') /\ vs.ledger.seq <= vs'.ledger.seq
           /\ Presses(vs') \subseteq Presses(vs)
           /\ Exact(vs) /\ (mail # NoMail => mail.also = <<>>) => Exact(vs')
<1>1. PICK v : v = Land(RetryTick(vs)) OBVIOUS
<1>2. PICK x : x = Pumped OBVIOUS
<1>3. v \in ViewStateState /\ x \in ViewStateState /\ vs \in ViewStateState
  BY <1>1, <1>2, PumpedType DEF TypeOK
<1>4. Serial(vs) /\ Serial(v)
  BY <1>1, LandOne DEF OneWriteOut
<1>5. /\ Standing(v) /\ vs.ledger.seq <= v.ledger.seq /\ Presses(v) \subseteq Presses(vs)
      /\ Exact(vs) /\ (mail # NoMail => mail.also = <<>>) => Exact(v)
  BY <1>1, <1>4, LandStanding
<1>6. x = v \/ x = Kick(v)
  BY <1>1, <1>2 DEF Pumped
<1>7. /\ Standing(x) /\ (Exact(v) => Exact(x)) /\ Out(x) \subseteq Out(v)
      /\ x.ledger.seq = v.ledger.seq
  BY <1>3, <1>4, <1>5, <1>6, KickStanding
<1>8. vs'.queue = x.queue /\ vs'.sent = x.sent /\ vs'.ledger = x.ledger
  <2>1. vs'.queue = x.queue /\ vs'.sent = x.sent
    BY <1>2, PumpStep
  <2> DEFINE H == x.want_hubs /\ ~RefetchDue(x)
  <2>2. vs' = [x EXCEPT !.want_hubs = H]
    BY <1>2 DEF ViewStatePump
  <2> HIDE DEF H
  <2>3. vs'.ledger = x.ledger
    BY <1>3, <2>2 DEF ViewStateState
  <2> QED BY <2>1, <2>3
<1>9. Out(vs') = Out(x)
  BY <1>8 DEF Out
<1>10. Standing(vs') /\ (Exact(x) => Exact(vs')) /\ Presses(vs') = Presses(x)
  BY <1>7, <1>8, <1>9, SameStanding
<1>11. Presses(x) \subseteq Presses(v)
  BY <1>7 DEF Presses
<1> QED BY <1>5, <1>7, <1>8, <1>10, <1>11

\* A reset forgets the presses with the entries, and numbers on.
LEMMA ResetStanding ==
    ASSUME TypeOK, Standing(vs), Reset
    PROVE  /\ Standing(vs') /\ vs.ledger.seq <= vs'.ledger.seq
           /\ Presses(vs') = {} /\ Exact(vs')
<1>1. vs \in ViewStateState /\ vs.ledger \in Ledger /\ WellNumbered(vs.ledger)
  BY DEF TypeOK, ViewStateState, Standing
<1>2. vs'.queue = <<>> /\ vs'.sent = NoReq /\ vs'.ledger = ResetLedger(vs.ledger)
  BY <1>1 DEF Reset, ResetViewState, ViewStateState
<1>3. Out(vs') = {}
  <2>1. DOMAIN vs'.queue = {} BY <1>2
  <2> QED BY <1>2, <2>1 DEF Out
<1>4. Presses(vs') = {}
  BY <1>3 DEF Presses
<1>5. WellNumbered(vs'.ledger)
  BY <1>1, <1>2, RetireNumbered
<1>6. Standing(vs')
  BY <1>3, <1>4, <1>5 DEF Standing
<1>7. Exact(vs')
  BY <1>4 DEF Exact
<1>8. vs.ledger.seq <= vs'.ledger.seq
  BY <1>1, <1>2 DEF ResetLedger, Ledger
<1> QED BY <1>4, <1>6, <1>7, <1>8

\* Every step of the writes keeps the presses backed; the numbers only grow, and a
\* press that was not there has a fresh one.
LEMMA StepStanding ==
    ASSUME TypeInv, Ordered, Standing(vs), [Next]_vsVars
    PROVE  /\ Standing(vs') /\ vs.ledger.seq <= vs'.ledger.seq
           /\ \A q \in Presses(vs') : q \in Presses(vs) \/ vs.ledger.seq < q.seq
           /\ Exact(vs) /\ (mail # NoMail => mail.also = <<>>) => Exact(vs')
<1> DEFINE Goal == /\ Standing(vs') /\ vs.ledger.seq <= vs'.ledger.seq
                   /\ \A q \in Presses(vs') : q \in Presses(vs) \/ vs.ledger.seq < q.seq
                   /\ Exact(vs) /\ (mail # NoMail => mail.also = <<>>) => Exact(vs')
<1>1. TypeOK /\ OneWriteOut /\ Serial(vs) /\ vs \in ViewStateState /\ vs.ledger.seq \in Nat
  BY DEF TypeInv, TypeOK, Ordered, OneWriteOut, ViewStateState, Ledger
<1>2. ASSUME Out(vs') = Out(vs), vs'.ledger = vs.ledger PROVE Goal
  <2>1. (Standing(vs) => Standing(vs')) /\ (Exact(vs) => Exact(vs')) /\ Presses(vs') = Presses(vs)
    BY <1>2, SameStanding
  <2> QED BY <1>1, <1>2, <2>1
<1>3. CASE vs' = vs
  BY <1>2, <1>3
<1>4. ASSUME NEW i \in Pressable, NEW w \in Writes, Press(i, w) PROVE Goal
  <2>1. i \in Items /\ w \in AllWrites BY ViewStateAssumption
  <2>2. vs' = Request(vs, i, w) BY <1>4 DEF Press
  <2>3. /\ Standing(vs') /\ (Exact(vs) => Exact(vs')) /\ vs'.ledger.seq = vs.ledger.seq + 1
        /\ \A q \in Presses(vs') : q \in Presses(vs) \/ q.seq = vs.ledger.seq + 1
    BY <1>1, <2>1, <2>2, PressStanding
  <2>4. vs.ledger.seq < vs.ledger.seq + 1 /\ vs.ledger.seq <= vs.ledger.seq + 1 BY <1>1
  <2> QED BY <2>3, <2>4
<1>5. ASSUME NEW i \in Items, EndOfStream(i) PROVE Goal
  <2>1. vs' = FanOutOriginWatched(vs, i) BY <1>5 DEF EndOfStream
  <2>2. /\ Standing(vs') /\ (Exact(vs) => Exact(vs'))
        /\ vs'.ledger.seq = vs.ledger.seq /\ Presses(vs') \subseteq Presses(vs)
    BY <1>1, <2>1, StreamEndStanding
  <2> QED BY <1>1, <2>2
<1>6. CASE ViewStatePump
  BY <1>1, <1>6, PumpStanding
<1>7. ASSUME NEW on \in Routes, HoldNetwork(on) PROVE Goal
  <2>1. vs'.queue = vs.queue /\ vs'.sent = vs.sent /\ vs'.ledger = vs.ledger
    BY <1>1, <1>7 DEF HoldNetwork, ViewStateState
  <2>2. Out(vs') = Out(vs) BY <2>1 DEF Out
  <2> QED BY <1>2, <2>1, <2>2
<1>8. CASE Reset
  BY <1>1, <1>8, ResetStanding
<1>9. ASSUME \/ \E u \in Users : SwapTokens(u)
             \/ PublishProfile
             \/ \E s \in Servers : RefreshToken(s)
      PROVE  vs' = vs
  BY <1>9 DEF SwapTokens, PublishProfile, RefreshToken
<1>10. ASSUME NEW k \in workers, WorkerStep(k) PROVE vs' = vs
  BY <1>10 DEF WorkerStep, WriteOrigin, FanOut, Finish, Panic, Becomes, Post
<1>11. CASE UNCHANGED vsVars
  BY <1>3, <1>11 DEF vsVars
<1> QED BY <1>3, <1>4, <1>5, <1>6, <1>7, <1>8, <1>9, <1>10, <1>11 DEF Next, SwitchStep

------------------------------------------------------------------------------
(* Where a title has one copy.                                              *)

\* A job of such a title has nothing to repeat.
LEMMA NewWorkerAlone ==
    ASSUME \A i \in Items : Copies(i) = {}, TypeOK, Alone, NEW before,
           NEW after \in ViewStateState, NEW posted, posted # NoMail => posted.also = <<>>,
           StartJobs(before, after, posted)
    PROVE  Alone'
<1>1. Emitted(before, after) => after.sent.item \in Items
  BY DEF Emitted, ViewStateState, Req
<1>2. Emitted(before, after) =>
         NewWorker(after.sent).todo = {} /\ NewWorker(after.sent).also = <<>>
  BY <1>1 DEF NewWorker
<1>3. NotStarted(after.sent.id).also = <<>>
  BY DEF NotStarted
<1> QED BY <1>2, <1>3 DEF StartJobs, Alone

\* No step finds a copy.
LEMMA StepAlone ==
    ASSUME \A i \in Items : Copies(i) = {}, TypeInv, Alone, [Next]_vsVars
    PROVE  Alone'
<1>1. TypeOK /\ vs' \in ViewStateState /\ workers \subseteq Worker
  <2>1. TypeInv' BY NextType
  <2> QED BY <2>1 DEF TypeInv, TypeOK
<1>2. CASE UNCHANGED <<workers, mail>>
  BY <1>2 DEF Alone
<1>3. ASSUME NEW i \in Pressable, NEW w \in Writes, Press(i, w) PROVE Alone'
  <2>1. StartJobs(vs, vs', mail) BY <1>3 DEF Press
  <2> QED BY <1>1, <2>1, NewWorkerAlone DEF Alone
<1>4. ASSUME NEW i \in Items, EndOfStream(i) PROVE Alone'
  <2>1. StartJobs(vs, vs', mail) BY <1>4 DEF EndOfStream
  <2> QED BY <1>1, <2>1, NewWorkerAlone DEF Alone
<1>5. CASE ViewStatePump
  <2>1. StartJobs(vs, Pumped, NoMail) /\ Pumped \in ViewStateState
    BY <1>1, <1>5, PumpStep, PumpedType
  <2> QED BY <1>1, <2>1, NewWorkerAlone
<1>6. CASE Reset
  BY <1>6 DEF Reset, Alone
<1>7. ASSUME NEW k \in workers, NEW taken \in BOOLEAN, NEW ok \in BOOLEAN,
             WriteOrigin(k, taken, ok)
      PROVE  Alone'
  <2>1. PICK n : n = [k EXCEPT !.pc = "fan_out", !.ok = ok] OBVIOUS
  <2>2. n.todo = k.todo /\ n.also = k.also BY <1>1, <2>1 DEF Worker
  <2>3. workers' = (workers \ {k}) \cup {n} /\ mail' = mail
    BY <1>7, <2>1 DEF WriteOrigin, Becomes
  <2> QED BY <2>2, <2>3 DEF Alone
<1>8. ASSUME NEW k \in workers, NEW ok, Post(k, ok, <<>>) PROVE Alone'
  BY <1>8 DEF Post, Written, Alone
<1>9. ASSUME NEW k \in workers, WorkerStep(k) PROVE Alone'
  <2>1. k.todo = {} /\ k.also = <<>> BY DEF Alone
  <2>2. ~\E c \in k.todo, taken, ok \in BOOLEAN : FanOut(k, c, taken, ok) BY <2>1
  <2>3. Finish(k) => Post(k, k.ok, <<>>) BY <2>1 DEF Finish
  <2>4. Panic(k) => Post(k, FALSE, <<>>) BY DEF Panic
  <2> QED BY <1>7, <1>8, <1>9, <2>2, <2>3, <2>4 DEF WorkerStep
<1>10. ASSUME \/ \E on \in Routes : HoldNetwork(on)
              \/ \E u \in Users : SwapTokens(u)
              \/ PublishProfile
              \/ \E s \in Servers : RefreshToken(s)
       PROVE  UNCHANGED <<workers, mail>>
  BY <1>10 DEF HoldNetwork, SwapTokens, PublishProfile, RefreshToken
<1>11. CASE UNCHANGED vsVars
  BY <1>2, <1>11 DEF vsVars
<1> QED BY <1>2, <1>3, <1>4, <1>5, <1>6, <1>9, <1>10, <1>11 DEF Next, SwitchStep

------------------------------------------------------------------------------
(* What the rows are owed, where no credential moves, no title has a second *)
(* copy and presses are of films and episodes.                              *)

\* Nobody switched and no token was refreshed.
Steady ==
    /\ switch = "seated" /\ profile = 1
    /\ \A s \in Servers : token[s] = [key |-> 1, user |-> seats[1]]

\* What is queued or out may be sent, and a press is of a film or an episode.
Sendable(v) == \A r \in Out(v) : Admit(r) /\ (~r.origin_done => r.item \in Leaves)

\* The worker writes what the request that is out says.
Charged(v) ==
    \A k \in workers : /\ k.port = adapter /\ k.item = v.sent.item /\ k.w = v.sent.w
                       /\ k.pc = "origin" => ~v.sent.origin_done

\* An entry that has a press's number is about the press's own item and toggle.
Placed(v) ==
    \A r \in Presses(v), e \in v.ledger.entries :
        e.seq = r.seq => e.at = Place(r) /\ e.edit.kind = EditOf(r.w).kind

\* What the step from a press to its read-back rests on.
SendInv == Alone /\ Steady /\ Sendable(vs) /\ Charged(vs) /\ Placed(vs)

\* The row is owed a read-back, or a press of it is queued or out.
InDebt(v, i) == i \in v.want_reread \/ \E r \in Presses(v) : r.item = i /\ Propagates(r.w)

\* A row and the server's own record of it agree, or the row is in debt.
Owing(v) == \A i \in Leaves : screen[i] = truth[seats[1]].watched[i] \/ InDebt(v, i)

OwedInv == SendInv /\ Owing(vs)

\* What a step of the writes may do to a row and to its record: it forgets no debt, and
\* whatever it changes or numbers anew is in debt.
Debts ==
    /\ seats' = seats
    /\ \A i : InDebt(vs, i) => InDebt(vs', i)
    /\ \A i \in Items : InDebt(vs', i) \/ screen'[i] = screen[i]
    /\ \A i \in Leaves : InDebt(vs', i) \/ truth'[seats[1]].watched[i] = truth[seats[1]].watched[i]
    /\ \A e \in vs'.ledger.entries :
          \/ e \in vs.ledger.entries
          \/ e.at.item \in Leaves /\ (e.edit.kind = "Watched" => InDebt(vs', e.at.item))

\* A leaf is its own only leaf, and an edit made at it reaches no other row.
LEMMA LeafAlone ==
    ASSUME NEW i \in Leaves
    PROVE  /\ i \in Items /\ LeavesOf(i) = {i}
           /\ \A s, r : r \in Items => (Covers([item |-> i, scope |-> s], r) <=> r = i)
<1>1. i \in Items /\ \A r \in Items : ShowOf[r] # i /\ SeasonOf[r] # i
  BY DEF Leaves, IsLeaf
<1>2. LeavesOf(i) = {i}
  <2>1. \A r \in Leaves : r \in Items BY DEF Leaves
  <2> QED BY <1>1, <2>1 DEF LeavesOf
<1>3. ASSUME NEW s, NEW r \in Items PROVE Covers([item |-> i, scope |-> s], r) <=> r = i
  BY <1>1 DEF Covers
<1> QED BY <1>1, <1>2, <1>3

\* Starting a job keeps the worker and the request that is out the same: a worker runs
\* only while its request stays out, and a new one is of the request newly out.
LEMMA JobsCharged ==
    ASSUME Charged(vs), NEW after, NEW posted, StartJobs(vs, after, posted),
           adapter' = adapter, vs'.sent = after.sent,
           workers # {} => after.sent = vs.sent
    PROVE  Charged(vs)'
<1>1. CASE workers' = workers
  BY <1>1 DEF Charged
<1>2. CASE Emitted(vs, after) /\ workers' = workers \cup {NewWorker(after.sent)}
  <2>1. workers = {} BY <1>2 DEF Emitted
  <2>2. PICK n : n = NewWorker(after.sent) OBVIOUS
  <2>3. /\ n.port = adapter /\ n.item = after.sent.item /\ n.w = after.sent.w
        /\ n.pc = "origin" => ~after.sent.origin_done
    BY <2>2 DEF NewWorker
  <2>4. workers' = {n} BY <1>2, <2>1, <2>2
  <2> QED BY <2>3, <2>4 DEF Charged
<1> QED BY <1>1, <1>2 DEF StartJobs

\* While a worker runs, moving forward leaves the request that is out.
LEMMA ForwardCharged ==
    ASSUME OneWriteOut, Charged(vs), NEW x, Forward(vs, x)
    PROVE  workers # {} => x.sent = vs.sent
BY DEF OneWriteOut, WorkerInv, Charged, Forward

\* Nothing a main-thread step leaves alone makes a request unsendable.
LEMMA SendableNext ==
    ASSUME Steady, UNCHANGED <<token, profile, switch, seats>>, Sendable(vs')
    PROVE  Steady' /\ Sendable(vs)'
BY DEF Steady, Sendable, Admit, Out

\* A press is not newer than the table.
LEMMA PressNumbered ==
    ASSUME NEW v \in ViewStateState, Standing(v), NEW r \in Presses(v)
    PROVE  r.seq \in Nat /\ 0 < r.seq /\ r.seq <= v.ledger.seq
<1>1. v.ledger \in Ledger /\ WellNumbered(v.ledger) /\ 0 < r.seq /\ Backed(v.ledger, r)
  BY DEF ViewStateState, Standing
<1>2. r.seq \in Nat
  BY OutTyped DEF Presses
<1>3. PICK e \in v.ledger.entries : r.seq <= e.seq
  BY <1>1 DEF Backed
<1> QED BY <1>1, <1>2, <1>3, Numbers

\* Taking requests and entries away displaces none.
LEMMA ShrinksPlaced ==
    ASSUME NEW v, NEW x, Placed(v), Presses(x) \subseteq Presses(v),
           x.ledger.entries \subseteq v.ledger.entries
    PROVE  Placed(x)
BY DEF Placed

\* A press on a leaf changes that row alone, and its request answers for it.
LEMMA PressDebts ==
    ASSUME TypeInv, Ordered, Standing(vs), SendInv, Alone', Pressable \subseteq Leaves,
           NEW i \in Pressable, NEW w \in Writes, Press(i, w)
    PROVE  SendInv' /\ Debts
<1> DEFINE at == [item |-> i, scope |-> ScopeOf[i]]
           new == [seq |-> vs.ledger.seq + 1, at |-> at, edit |-> EditOf(w)]
<1>1. /\ TypeOK /\ OneWriteOut /\ Serial(vs) /\ i \in Leaves /\ i \in Items /\ w \in AllWrites
      /\ Steady /\ Sendable(vs) /\ Charged(vs) /\ Placed(vs) /\ vs \in ViewStateState
  BY ViewStateAssumption, LeafAlone DEF TypeInv, TypeOK, Ordered, OneWriteOut, SendInv
<1>2. /\ vs' = Request(vs, i, w) /\ StartJobs(vs, vs', mail)
      /\ UNCHANGED <<adapter, token, profile, switch, truth, seats>>
      /\ screen' = PublishRows(screen, {at}, EditOf(w))
  BY DEF Press, Publish
<1>3. PICK y : y = Pressed(vs, i, w) OBVIOUS
<1>4. PICK r : r = Made(vs, i, w) OBVIOUS
<1>5. vs' = Kick(y) /\ y \in ViewStateState /\ Serial(y) /\ Standing(y)
  BY <1>1, <1>2, <1>3, PressedType, PressedSerial, PressedStanding
<1>6. /\ y.want_reread = vs.want_reread /\ r \in Out(y)
      /\ \A q \in Out(y) : q \in Out(vs) \/ q = r
      /\ y.ledger = Record(vs.ledger, at, EditOf(w))
  BY <1>1, <1>3, <1>4, PressedOut
<1>7. \A p \in Out(vs) : p \in Out(y) \/ (p.item = i /\ Family(p.w) = Family(w))
  <2>1. \A p \in Out(vs) : p \in Out(Pressed(vs, i, w)) \/ (p.item = i /\ Family(p.w) = Family(w))
    BY <1>1, PressedOut, Zenon
  <2> QED BY <1>3, <2>1
<1>8. /\ r.item = i /\ r.w = w /\ ~r.origin_done /\ Admit(r)
      /\ r.seq = vs.ledger.seq + 1 /\ Place(r) = at
  <2>1. /\ r.item = i /\ r.w = w /\ ~r.origin_done /\ r.profile = profile
        /\ r.key = token[ServerOf[i]].key /\ r.seq = vs.ledger.seq + 1 /\ r.scope = ScopeOf[i]
    BY <1>4 DEF Made, RecordedSeq
  <2>2. token[ServerOf[i]].key # 0 BY DEF Press
  <2> QED BY <2>1, <2>2 DEF Admit, Place
<1>9. \A q \in Out(y) : Admit(q) /\ (~q.origin_done => q.item \in Leaves)
  BY <1>1, <1>6, <1>8 DEF Sendable
<1>10. /\ Out(vs') = Out(y) /\ vs'.want_reread = vs.want_reread
       /\ vs'.ledger.entries \subseteq y.ledger.entries
  BY <1>5, <1>6, <1>9, KickStanding
<1>11. Steady' /\ Sendable(vs)'
  <2>1. Sendable(vs') BY <1>9, <1>10 DEF Sendable
  <2> QED BY <1>1, <1>2, <2>1, SendableNext
<1>12. Charged(vs)'
  <2>1. Forward(vs, vs') BY <1>1, <1>2, PressForward
  <2>2. workers # {} => vs'.sent = vs.sent BY <1>1, <2>1, ForwardCharged
  <2> QED BY <1>1, <1>2, <2>2, JobsCharged
<1>13. r \in Presses(vs') BY <1>6, <1>8, <1>10 DEF Presses
<1>14. \A e \in y.ledger.entries : e \in vs.ledger.entries \/ e = new
  BY <1>6 DEF Record
<1>15. new.seq = vs.ledger.seq + 1 /\ new.at = at /\ new.edit = EditOf(w) /\ at.item = i
  OBVIOUS
<1> HIDE DEF new, at
<1>16. Placed(vs')
  <2>1. \A q \in Presses(vs') : q \in Presses(vs) \/ q = r BY <1>6, <1>10 DEF Presses
  <2>2. \A q \in Presses(vs) : q.seq \in Nat /\ q.seq <= vs.ledger.seq BY <1>1, PressNumbered
  <2>3. vs.ledger.seq \in Nat /\ \A e \in vs.ledger.entries : e.seq \in Nat /\ e.seq <= vs.ledger.seq
    BY <1>1, Numbers DEF ViewStateState, Standing
  <2>4. ASSUME NEW q \in Presses(vs'), NEW e \in vs'.ledger.entries, e.seq = q.seq
        PROVE  e.at = Place(q) /\ e.edit.kind = EditOf(q.w).kind
    <3>1. CASE q = r /\ e = new BY <1>8, <1>15, <3>1
    <3>2. CASE q \in Presses(vs) /\ e \in vs.ledger.entries BY <1>1, <2>4, <3>2 DEF Placed
    <3>3. CASE q = r /\ e \in vs.ledger.entries BY <1>8, <2>3, <2>4, <3>3
    <3>4. CASE q \in Presses(vs) /\ e = new BY <1>15, <2>2, <2>3, <2>4, <3>4
    <3> QED BY <1>10, <1>14, <2>1, <3>1, <3>2, <3>3, <3>4
  <2> QED BY <2>4 DEF Placed
<1>17. \A j : (j = i /\ Propagates(w)) => InDebt(vs', j)
  BY <1>8, <1>13 DEF InDebt
<1>18. ASSUME NEW j, InDebt(vs, j) PROVE InDebt(vs', j)
  <2>1. CASE j \in vs.want_reread BY <1>10, <2>1 DEF InDebt
  <2>2. ASSUME NEW q \in Presses(vs), q.item = j, Propagates(q.w) PROVE InDebt(vs', j)
    <3>1. q \in Out(vs) /\ ~q.origin_done BY DEF Presses
    <3>2. CASE q \in Out(vs') BY <2>2, <3>1, <3>2 DEF Presses, InDebt
    <3>3. CASE q \notin Out(vs')
      <4>1. q.item = i /\ Family(q.w) = Family(w) BY <1>7, <1>10, <3>1, <3>3
      <4>2. Propagates(w) BY <1>1, <2>2, <4>1 DEF Propagates, Family, AllWrites
      <4> QED BY <1>17, <2>2, <4>1, <4>2
    <3> QED BY <3>2, <3>3
  <2> QED BY <1>18, <2>1, <2>2 DEF InDebt
<1>19. ASSUME NEW j \in Items PROVE InDebt(vs', j) \/ screen'[j] = screen[j]
  <2>1. CASE j = i /\ Propagates(w) BY <1>17, <2>1
  <2>2. CASE ~Propagates(w)
    <3>1. EditOf(w).kind # "Watched"
      BY <1>1, <2>2 DEF EditOf, Propagates, AllWrites, LeftDeck
    <3> QED BY <1>2, <3>1 DEF PublishRows
  <2>3. CASE j # i
    <3>1. DOMAIN screen = Items BY <1>1 DEF TypeOK
    <3>2. ~Covers(at, j) BY <1>1, <2>3, LeafAlone DEF at
    <3> QED BY <1>2, <3>1, <3>2 DEF PublishRows
  <2> QED BY <2>1, <2>2, <2>3
<1>20. ASSUME NEW e \in vs'.ledger.entries
       PROVE  \/ e \in vs.ledger.entries
              \/ e.at.item \in Leaves /\ (e.edit.kind = "Watched" => InDebt(vs', e.at.item))
  <2>1. CASE e = new
    <3>1. e.at.item = i /\ e.edit = EditOf(w) BY <1>15, <2>1
    <3>2. e.edit.kind = "Watched" => Propagates(w)
      BY <1>1, <3>1 DEF EditOf, Propagates, AllWrites, LeftDeck
    <3> QED BY <1>1, <1>17, <3>1, <3>2
  <2> QED BY <1>10, <1>14, <2>1
<1>21. SendInv'
  <2>1. Placed(vs)' BY <1>16 DEF Placed, Presses, Out, Place
  <2> QED BY <1>11, <1>12, <2>1 DEF SendInv
<1>22. Debts
  BY <1>2, <1>18, <1>19, <1>20 DEF Debts
<1> QED BY <1>21, <1>22

\* A step that leaves the rows, their records and the presses alone, and takes entries
\* away at most, leaves the debts.
LEMMA AsideDebts ==
    ASSUME SendInv, Alone', Steady', Sendable(vs)', Charged(vs)', Presses(vs') = Presses(vs),
           vs.want_reread \subseteq vs'.want_reread,
           vs'.ledger.entries \subseteq vs.ledger.entries, UNCHANGED <<screen, truth, seats>>
    PROVE  SendInv' /\ Debts
<1>1. Placed(vs)'
  <2>1. Placed(vs') BY ShrinksPlaced DEF SendInv
  <2> QED BY <2>1 DEF Placed, Presses, Out, Place
<1>2. \A i : InDebt(vs, i) => InDebt(vs', i) BY DEF InDebt
<1>3. Debts BY <1>2 DEF Debts
<1> QED BY <1>1, <1>3 DEF SendInv

\* A stream's end brings a request that writes no origin.
LEMMA EndOfStreamDebts ==
    ASSUME TypeInv, Ordered, Standing(vs), SendInv, Alone', NEW i \in Items, EndOfStream(i)
    PROVE  SendInv' /\ Debts
<1>1. /\ TypeOK /\ OneWriteOut /\ Serial(vs) /\ vs \in ViewStateState
      /\ Steady /\ Sendable(vs) /\ Charged(vs)
  BY DEF TypeInv, TypeOK, Ordered, OneWriteOut, SendInv
<1>2. /\ vs' = FanOutOriginWatched(vs, i) /\ StartJobs(vs, vs', mail)
      /\ UNCHANGED <<adapter, token, profile, switch, screen, truth, seats>>
  BY DEF EndOfStream
<1>3. \A q \in Out(vs) : Admit(q) BY <1>1 DEF Sendable
<1>4. /\ vs'.want_reread = vs.want_reread /\ Presses(vs') = Presses(vs)
      /\ vs'.ledger.entries \subseteq vs.ledger.entries
      /\ \A q \in Out(vs') : Admit(q)
  BY <1>1, <1>2, <1>3, StreamEndStanding
<1>5. Sendable(vs')
  BY <1>1, <1>4 DEF Sendable, Presses
<1>6. Steady' /\ Sendable(vs)'
  BY <1>1, <1>2, <1>5, SendableNext
<1>7. Charged(vs)'
  <2>1. Forward(vs, vs') BY <1>1, <1>2, StreamEndForward
  <2>2. workers # {} => vs'.sent = vs.sent BY <1>1, <2>1, ForwardCharged
  <2> QED BY <1>1, <1>2, <2>2, JobsCharged
<1> QED BY <1>2, <1>4, <1>6, <1>7, AsideDebts

\* An answered press leaves its item among the rows to read back.
LEMMA LandReread ==
    ASSUME TypeOK, NEW v, v = Land(RetryTick(vs))
    PROVE  /\ vs.want_reread \subseteq v.want_reread
           /\ Answers /\ mail.outcome # "NotStarted" /\ Propagates(vs.sent.w)
                 /\ ~vs.sent.origin_done => vs.sent.item \in v.want_reread
<1>1. vs \in ViewStateState BY DEF TypeOK
<1>2. PICK t : t = RetryTick(vs) OBVIOUS
<1>3. /\ t \in ViewStateState /\ t.sent = vs.sent /\ t.want_reread = vs.want_reread
  <2>1. t \in ViewStateState BY <1>1, <1>2, RetryTickType
  <2> QED BY <1>1, <1>2, <2>1 DEF RetryTick, ViewStateState
<1>4. CASE ~Answers
  BY <1>2, <1>3, <1>4 DEF Land
<1>5. CASE Answers /\ mail.outcome = "NotStarted"
  <2>1. v = RestartRefused(t) BY <1>2, <1>5 DEF Land
  <2> DEFINE L == Retire(t.ledger, {t.sent.seq})
             Q == <<t.sent>> \o t.queue
  <2>2. \/ v = [t EXCEPT !.queue = Q, !.sent = NoReq, !.retry_cd = RetryFrames]
        \/ v = [t EXCEPT !.ledger = L, !.sent = NoReq]
    BY <2>1 DEF RestartRefused
  <2> HIDE DEF L, Q
  <2>3. v.want_reread = t.want_reread BY <1>3, <2>2 DEF ViewStateState
  <2> QED BY <1>3, <1>5, <2>3
<1>6. CASE Answers /\ mail.outcome # "NotStarted"
  <2> DEFINE also == {mail.also[k] : k \in DOMAIN mail.also}
             origin == IF t.sent.origin_done THEN {} ELSE {t.sent.item}
             R == IF Propagates(t.sent.w) THEN t.want_reread \cup origin \cup also ELSE t.want_reread
  <2>1. v = LandWritten(t, mail) BY <1>2, <1>6 DEF Land
  <2>2. v.want_reread = R
    BY <1>3, <2>1 DEF LandWritten, ViewStateState
  <2> HIDE DEF also
  <2> QED BY <1>3, <2>2
<1> QED BY <1>4, <1>5, <1>6

\* A frame's answer numbers the entry of its own press anew, and adds none.
LEMMA LandLedger ==
    ASSUME TypeOK, Standing(vs), mail # NoMail => mail.also = <<>>, NEW v, v = Land(RetryTick(vs)),
           NEW e \in v.ledger.entries, e \notin vs.ledger.entries
    PROVE  /\ Answers /\ mail.outcome # "NotStarted" /\ e.seq = vs.ledger.seq + 1
           /\ \E d \in vs.ledger.entries : d.seq = vs.sent.seq /\ e.at = d.at /\ e.edit = d.edit
<1>1. vs \in ViewStateState /\ vs.ledger \in Ledger /\ WellNumbered(vs.ledger)
  BY DEF TypeOK, ViewStateState, Standing
<1>2. PICK t : t = RetryTick(vs) OBVIOUS
<1>3. /\ t \in ViewStateState /\ t.sent = vs.sent /\ t.ledger = vs.ledger
  <2>1. t \in ViewStateState BY <1>1, <1>2, RetryTickType
  <2> QED BY <1>1, <1>2, <2>1 DEF RetryTick, ViewStateState
<1>4. \A S : Retire(t.ledger, S).entries \subseteq vs.ledger.entries
  BY <1>1, <1>3 DEF Retire, Ledger
<1>5. CASE ~Answers
  BY <1>2, <1>3, <1>5 DEF Land
<1>6. CASE Answers /\ mail.outcome = "NotStarted"
  <2>1. v = RestartRefused(t) BY <1>2, <1>6 DEF Land
  <2> DEFINE L == Retire(t.ledger, {t.sent.seq})
             Q == <<t.sent>> \o t.queue
  <2>2. \/ v = [t EXCEPT !.queue = Q, !.sent = NoReq, !.retry_cd = RetryFrames]
        \/ v = [t EXCEPT !.ledger = L, !.sent = NoReq]
    BY <2>1 DEF RestartRefused
  <2>3. L.entries \subseteq vs.ledger.entries BY <1>4
  <2> HIDE DEF L, Q
  <2>4. v.ledger = t.ledger \/ v.ledger = L BY <1>3, <2>2 DEF ViewStateState
  <2> QED BY <1>3, <2>3, <2>4
<1>7. CASE Answers /\ mail.outcome # "NotStarted"
  <2>1. t.sent \in Req /\ mail \in Completion /\ mail # NoMail /\ mail.also = <<>>
    BY <1>3, <1>7, PumpedType DEF Answers
  <2>2. PICK L : L = IF mail.ok THEN Landed(t.ledger, t.sent.seq) ELSE Retire(t.ledger, {t.sent.seq})
    OBVIOUS
  <2>3. v = LandWritten(t, mail) BY <1>2, <1>7 DEF Land
  <2>4. v.ledger = RecordCopies(L, t.sent, mail.also)
    BY <1>3, <2>2, <2>3 DEF LandWritten, ViewStateState
  <2>5. L \in Ledger /\ WellNumbered(L)
    <3>1. CASE mail.ok
      BY <1>1, <1>3, <2>2, <3>1, LandedLedger, LandedNumbered
    <3>2. CASE ~mail.ok
      BY <1>1, <1>3, <2>2, <3>2, RetireLedger, RetireNumbered
    <3> QED BY <3>1, <3>2
  <2>6. mail.also \in Seq(Items) BY <2>1 DEF Completion
  <2>7. v.ledger = L BY <2>1, <2>4, <2>5, <2>6, CopiesNumbered
  <2>8. CASE ~mail.ok
    BY <1>4, <2>2, <2>7, <2>8
  <2>9. CASE mail.ok
    <3> DEFINE to(d) == [d EXCEPT !.seq = t.ledger.seq + 1]
    <3>1. \A d \in vs.ledger.entries :
             to(d).seq = vs.ledger.seq + 1 /\ to(d).at = d.at /\ to(d).edit = d.edit
      BY <1>1, <1>3 DEF Ledger, Entry
    <3>2. L = Landed(t.ledger, t.sent.seq) BY <2>2, <2>9
    <3>3. \/ L = t.ledger
          \/ L.entries = {IF d.seq = t.sent.seq THEN to(d) ELSE d : d \in t.ledger.entries}
      BY <3>2 DEF Landed
    <3> HIDE DEF to
    <3>4. PICK d \in vs.ledger.entries : d.seq = vs.sent.seq /\ e = to(d)
      BY <1>3, <2>7, <3>3
    <3> QED BY <1>7, <3>1, <3>4
  <2> QED BY <2>8, <2>9
<1> QED BY <1>5, <1>6, <1>7

\* A frame: what leaves the queue leaves its row to the read-back.
LEMMA PumpDebts ==
    ASSUME TypeInv, Ordered, Standing(vs), SendInv, Alone', ViewStatePump
    PROVE  SendInv' /\ Debts
<1>1. /\ TypeOK /\ OneWriteOut /\ Serial(vs) /\ vs \in ViewStateState /\ Alone
      /\ Steady /\ Sendable(vs) /\ Charged(vs) /\ Placed(vs) /\ MailInv
  BY DEF TypeInv, TypeOK, Ordered, OneWriteOut, SendInv
<1>2. PICK v : v = Land(RetryTick(vs)) OBVIOUS
<1>3. PICK x : x = Pumped OBVIOUS
<1>4. /\ v \in ViewStateState /\ x \in ViewStateState /\ Serial(v) /\ Standing(v)
      /\ x = v \/ x = Kick(v)
      /\ Answers => vs.sent \in Req /\ mail \in Completion
  BY <1>1, <1>2, <1>3, PumpedType, LandOne, LandStanding DEF Pumped
<1>5. /\ Out(v) \subseteq Out(vs)
      /\ \A r \in Out(vs) : \/ r \in Out(v)
                            \/ /\ Answers /\ r = vs.sent
                               /\ mail.outcome = "NotStarted" => ~Admit(r)
  BY <1>1, <1>2, LandStanding
<1>6. \A r \in Out(v) : Admit(r) /\ (~r.origin_done => r.item \in Leaves)
  BY <1>1, <1>5 DEF Sendable
<1>7. /\ Out(x) = Out(v) /\ x.want_reread = v.want_reread
      /\ x.ledger.entries \subseteq v.ledger.entries
  BY <1>4, <1>6, KickStanding
<1>8. /\ StartJobs(vs, x, NoMail) /\ vs'.sent = x.sent /\ vs'.queue = x.queue
      /\ UNCHANGED <<adapter, token, profile, switch, truth, seats>>
  BY <1>1, <1>3, PumpStep
<1>9. vs'.want_reread = x.want_reread /\ vs'.ledger = x.ledger
  <2> DEFINE H == x.want_hubs /\ ~RefetchDue(x)
  <2>1. vs' = [x EXCEPT !.want_hubs = H] BY <1>3 DEF ViewStatePump
  <2> HIDE DEF H
  <2> QED BY <1>4, <2>1 DEF ViewStateState
<1>10. /\ Out(vs') = Out(v) /\ vs'.want_reread = v.want_reread
       /\ vs'.ledger.entries \subseteq v.ledger.entries
  BY <1>7, <1>8, <1>9 DEF Out
<1>11. Steady' /\ Sendable(vs)'
  <2>1. Sendable(vs') BY <1>6, <1>10 DEF Sendable
  <2> QED BY <1>1, <1>8, <2>1, SendableNext
<1>12. Charged(vs)'
  <2>1. ASSUME workers # {} PROVE x.sent = vs.sent
    <3>1. vs.sent # NoReq /\ mail = NoMail
      BY <1>1, <2>1 DEF OneWriteOut, WorkerInv, Charged, MailInv
    <3>2. v.sent = vs.sent
      BY <1>1, <1>2, <3>1, LandOne DEF Answers
    <3>3. Kick(v) = v BY <3>1, <3>2 DEF Kick
    <3> QED BY <1>4, <3>2, <3>3
  <2> QED BY <1>1, <1>8, <2>1, JobsCharged
<1>13. screen' = screen
  <2>1. CASE Answers /\ mail.outcome = "Written"
    <3>1. mail.also = <<>> BY <1>1, <2>1 DEF Alone, Answers
    <3>2. CopyAts(vs.sent, mail.also) = {} BY <3>1 DEF CopyAts
    <3>3. screen' = PublishRows(screen, {}, EditOf(vs.sent.w))
      BY <2>1, <3>2 DEF ViewStatePump, Publish
    <3>4. screen \in [Items -> BOOLEAN] BY <1>1 DEF TypeOK
    <3>5. screen = [r \in DOMAIN screen |-> screen[r]] BY <3>4
    <3> QED BY <3>3, <3>5 DEF PublishRows
  <2>2. CASE ~(Answers /\ mail.outcome = "Written")
    BY <2>2 DEF ViewStatePump
  <2> QED BY <2>1, <2>2
<1>14. /\ vs.want_reread \subseteq vs'.want_reread
       /\ Answers /\ mail.outcome # "NotStarted" /\ Propagates(vs.sent.w)
             /\ ~vs.sent.origin_done => vs.sent.item \in vs'.want_reread
  BY <1>1, <1>2, <1>10, LandReread
<1>15. ASSUME NEW r \in Presses(vs), Propagates(r.w)
       PROVE  r \in Presses(vs') \/ r.item \in vs'.want_reread
  <2>1. r \in Out(vs) /\ ~r.origin_done /\ Admit(r) BY <1>1 DEF Presses, Sendable
  <2>2. CASE r \in Out(v) BY <1>10, <2>1, <2>2 DEF Presses
  <2>3. CASE r \notin Out(v)
    <3>1. Answers /\ r = vs.sent /\ mail.outcome # "NotStarted" BY <1>5, <2>1, <2>3
    <3> QED BY <1>14, <1>15, <2>1, <3>1
  <2> QED BY <2>2, <2>3
<1>16. \A i : InDebt(vs, i) => InDebt(vs', i)
  <2> HIDE DEF Presses
  <2> QED BY <1>14, <1>15 DEF InDebt
<1>17. ASSUME NEW e \in vs'.ledger.entries, e \notin vs.ledger.entries
       PROVE  /\ e.seq = vs.ledger.seq + 1 /\ e.at.item \in Leaves
              /\ e.edit.kind = "Watched" => InDebt(vs', e.at.item)
  <2>1. e \in v.ledger.entries /\ (mail # NoMail => mail.also = <<>>)
    BY <1>1, <1>10 DEF Alone
  <2>2. Answers /\ mail.outcome # "NotStarted" /\ e.seq = vs.ledger.seq + 1
    BY <1>1, <1>2, <1>17, <2>1, LandLedger
  <2>3. PICK d \in vs.ledger.entries : d.seq = vs.sent.seq /\ e.at = d.at /\ e.edit = d.edit
    BY <1>1, <1>2, <1>17, <2>1, LandLedger
  <2>4. vs.sent \in Out(vs) /\ vs.sent \in Req
    BY <1>4, <2>2 DEF Answers, Out
  <2>5. 0 < d.seq /\ d.seq \in Nat
    BY <1>1, Numbers DEF ViewStateState, Standing
  <2>6. ~vs.sent.origin_done
    BY <2>3, <2>4, <2>5 DEF Standing
  <2>7. d.at = Place(vs.sent) /\ d.edit.kind = EditOf(vs.sent.w).kind
    BY <1>1, <2>3, <2>4, <2>6 DEF Placed, Presses
  <2>8. e.at.item = vs.sent.item /\ vs.sent.item \in Leaves
    BY <1>1, <2>3, <2>4, <2>6, <2>7 DEF Place, Sendable
  <2>9. e.edit.kind = "Watched" => Propagates(vs.sent.w)
    <3>1. vs.sent.w \in AllWrites BY <2>4 DEF Req
    <3> QED BY <2>3, <2>7, <3>1 DEF EditOf, Propagates, AllWrites, LeftDeck
  <2> QED BY <1>14, <2>2, <2>6, <2>8, <2>9 DEF InDebt
<1>18. Placed(vs)'
  <2>1. Presses(vs') \subseteq Presses(vs) BY <1>5, <1>10 DEF Presses
  <2>2. \A q \in Presses(vs) : q.seq \in Nat /\ q.seq <= vs.ledger.seq BY <1>1, PressNumbered
  <2>3. vs.ledger.seq \in Nat BY <1>1 DEF ViewStateState, Ledger
  <2>4. ASSUME NEW q \in Presses(vs'), NEW e \in vs'.ledger.entries, e.seq = q.seq
        PROVE  e.at = Place(q) /\ e.edit.kind = EditOf(q.w).kind
    <3>1. e \in vs.ledger.entries BY <1>17, <2>1, <2>2, <2>3, <2>4
    <3> QED BY <1>1, <2>1, <2>4, <3>1 DEF Placed
  <2>5. Placed(vs') BY <2>4 DEF Placed
  <2> QED BY <2>5 DEF Placed, Presses, Out, Place
<1>19. SendInv' BY <1>11, <1>12, <1>18 DEF SendInv
<1>20. Debts BY <1>8, <1>13, <1>16, <1>17 DEF Debts
<1> QED BY <1>19, <1>20

\* What a server takes for a film or an episode changes its record of that one alone.
LEMMA AppliedLeaf ==
    ASSUME TypeOK, NEW u \in Users, NEW i \in Leaves, NEW w, NEW j \in Leaves,
           j # i \/ ~Propagates(w), w \in AllWrites
    PROVE  Applied(u, i, w)[u].watched[j] = truth[u].watched[j]
<1> DEFINE W == [watched : [Leaves -> BOOLEAN], deck : SUBSET Items]
           D == truth[u].deck \ {i}
           F == [r \in Leaves |-> IF r \in LeavesOf(i) THEN w = "Watched" ELSE truth[u].watched[r]]
<1>1. truth \in [Users -> W] /\ truth[u] \in W
  BY DEF TypeOK
<1>2. CASE w = "RemoveFromDeck"
  <2>1. Applied(u, i, w) = [truth EXCEPT ![u].deck = D] BY <1>2 DEF Applied
  <2> HIDE DEF D
  <2> QED BY <1>1, <2>1
<1>3. CASE w # "RemoveFromDeck"
  <2>1. Applied(u, i, w) = [truth EXCEPT ![u].watched = F] BY <1>3 DEF Applied
  <2>2. j # i BY <1>3 DEF Propagates, AllWrites
  <2>3. F[j] = truth[u].watched[j] BY <2>2, LeafAlone
  <2> HIDE DEF F
  <2>4. Applied(u, i, w)[u].watched = F BY <1>1, <2>1
  <2> QED BY <2>3, <2>4
<1> QED BY <1>2, <1>3

\* A worker changes the server's record of its own press only.
LEMMA WorkerDebts ==
    ASSUME TypeInv, Ordered, SendInv, Alone', NEW k \in workers, WorkerStep(k)
    PROVE  SendInv' /\ Debts
<1>1. /\ TypeOK /\ OneWriteOut /\ k \in Worker /\ Alone
      /\ Steady /\ Sendable(vs) /\ Charged(vs) /\ Placed(vs)
  BY DEF TypeInv, TypeOK, Ordered, SendInv
<1>2. /\ k.port = adapter /\ k.item = vs.sent.item /\ k.w = vs.sent.w
      /\ k.pc = "origin" => ~vs.sent.origin_done
      /\ k.todo = {} /\ vs.sent # NoReq
  BY <1>1 DEF Charged, Alone, OneWriteOut, WorkerInv
<1>3. /\ vs' = vs /\ UNCHANGED <<adapter, token, profile, switch, screen, seats>>
  BY DEF WorkerStep, WriteOrigin, FanOut, Finish, Panic, Becomes, Post
<1>4. Steady' /\ Sendable(vs)'
  <2>1. Sendable(vs') BY <1>1, <1>3
  <2> QED BY <1>1, <1>3, <2>1, SendableNext
<1>5. ASSUME workers' \subseteq workers, truth' = truth PROVE SendInv' /\ Debts
  <2>1. Charged(vs)' BY <1>1, <1>3, <1>5 DEF Charged
  <2>2. vs'.ledger.entries \subseteq vs.ledger.entries /\ vs.want_reread \subseteq vs'.want_reread
        /\ Presses(vs') = Presses(vs)
    BY <1>3
  <2> QED BY <1>3, <1>4, <1>5, <2>1, <2>2, AsideDebts
<1>6. CASE Finish(k) \/ Panic(k)
  BY <1>5, <1>6 DEF Finish, Panic, Post
<1>7. ASSUME NEW taken \in BOOLEAN, NEW ok \in BOOLEAN, WriteOrigin(k, taken, ok)
      PROVE  SendInv' /\ Debts
  <2>1. PICK n : n = [k EXCEPT !.pc = "fan_out", !.ok = ok] OBVIOUS
  <2>2. n.port = k.port /\ n.item = k.item /\ n.w = k.w /\ n.pc = "fan_out"
    BY <1>1, <2>1 DEF Worker
  <2>3. workers' = (workers \ {k}) \cup {n} BY <1>7, <2>1 DEF WriteOrigin, Becomes
  <2>4. Charged(vs)'
    BY <1>1, <1>2, <1>3, <2>2, <2>3 DEF Charged
  <2>5. /\ vs.sent \in Presses(vs) /\ k.item \in Leaves /\ k.w \in AllWrites
    <3>1. vs.sent \in Out(vs) /\ ~vs.sent.origin_done BY <1>2, <1>7 DEF Out, WriteOrigin
    <3>2. k.w \in AllWrites BY <1>1 DEF Worker
    <3> QED BY <1>1, <1>2, <3>1, <3>2 DEF Sendable, Presses
  <2>6. truth' = truth \/ truth' = Applied(seats[1], k.item, k.w)
    <3>1. ServerOf[k.item] \in Servers BY <2>5, LeafAlone, ViewStateAssumption
    <3>2. token[ServerOf[k.item]].user = seats[1] BY <1>1, <3>1 DEF Steady
    <3> QED BY <1>7, <3>2 DEF WriteOrigin, Perform
  <2>7. seats[1] \in Users
    <3>1. Len(seats) # 0 /\ seats \in Seq(Users) BY DEF TypeInv, TypeOK
    <3> QED BY <3>1
  <2>8. ASSUME NEW j \in Leaves
        PROVE  InDebt(vs', j) \/ truth'[seats[1]].watched[j] = truth[seats[1]].watched[j]
    <3>1. CASE j = k.item /\ Propagates(k.w)
      BY <1>2, <1>3, <2>5, <3>1 DEF InDebt
    <3>2. CASE ~(j = k.item /\ Propagates(k.w))
      BY <1>1, <2>5, <2>6, <2>7, <3>2, AppliedLeaf
    <3> QED BY <3>1, <3>2
  <2>9. Placed(vs)' BY <1>1, <1>3 DEF Placed, Presses, Out, Place
  <2>10. SendInv' BY <1>4, <2>4, <2>9 DEF SendInv
  <2>11. Debts BY <1>3, <2>8 DEF Debts
  <2> QED BY <2>10, <2>11
<1> QED BY <1>2, <1>6, <1>7 DEF WorkerStep

\* Every step of the writes pays no debt and makes none in secret.
LEMMA StepDebts ==
    ASSUME \A i \in Items : Copies(i) = {}, Pressable \subseteq Leaves, MaxSwitches = 0,
           TypeInv, Ordered, Standing(vs), SendInv, [Next]_vsVars
    PROVE  SendInv' /\ Debts
<1>1. Alone' BY StepAlone DEF SendInv
<1>2. vs \in ViewStateState BY DEF TypeInv, TypeOK
<1>3. ASSUME vs'.queue = vs.queue, vs'.sent = vs.sent, vs'.want_reread = vs.want_reread,
             vs'.ledger = vs.ledger,
             UNCHANGED <<adapter, workers, token, profile, switch, screen, truth, seats>>
      PROVE  SendInv' /\ Debts
  <2>1. Steady' /\ Sendable(vs)' /\ Charged(vs)'
    BY <1>3 DEF SendInv, Steady, Sendable, Charged, Admit, Out
  <2>2. Presses(vs') = Presses(vs) BY <1>3 DEF Presses, Out
  <2> QED BY <1>1, <1>3, <2>1, <2>2, AsideDebts
<1>4. ASSUME NEW on \in Routes, HoldNetwork(on) PROVE SendInv' /\ Debts
  <2>1. /\ vs'.queue = vs.queue /\ vs'.sent = vs.sent /\ vs'.want_reread = vs.want_reread
        /\ vs'.ledger = vs.ledger
        /\ UNCHANGED <<adapter, workers, token, profile, switch, screen, truth, seats>>
    BY <1>2, <1>4 DEF HoldNetwork, ViewStateState
  <2> QED BY <1>3, <2>1
<1>5. ~PublishProfile /\ ~Reset
  BY DEF SendInv, Steady, PublishProfile, Reset
<1>6. /\ ~\E u \in Users : SwapTokens(u)
      /\ ~\E s \in Servers : RefreshToken(s)
  <2>1. \E s \in Servers : token[s].key = 1
    BY ViewStateAssumption DEF SendInv, Steady
  <2>2. ~\A s \in Servers : token[s].key <= MaxSwitches
    BY <2>1
  <2> QED BY <2>2 DEF SwapTokens, RefreshToken
<1>7. CASE UNCHANGED vsVars
  BY <1>3, <1>7 DEF vsVars
<1> QED BY <1>1, <1>4, <1>5, <1>6, <1>7, PressDebts, EndOfStreamDebts, PumpDebts, WorkerDebts
        DEF Next, SwitchStep

\* ... so every step keeps the rows owed.
LEMMA StepOwed ==
    ASSUME \A i \in Items : Copies(i) = {}, Pressable \subseteq Leaves, MaxSwitches = 0,
           TypeInv, Ordered, Standing(vs), OwedInv, [Next]_vsVars
    PROVE  OwedInv'
<1>1. SendInv' /\ Debts /\ Owing(vs)
  BY StepDebts DEF OwedInv
<1>2. \A i \in Leaves : i \in Items
  BY DEF Leaves
<1>3. \A i \in Leaves : screen'[i] = truth'[seats'[1]].watched[i] \/ InDebt(vs', i)
  BY <1>1, <1>2 DEF Debts, Owing
<1>4. Owing(vs)'
  BY <1>3 DEF Owing, InDebt, Presses, Out
<1> QED BY <1>1, <1>4 DEF OwedInv

------------------------------------------------------------------------------
(* The theorems.                                                            *)

\* The ledger's numbers are sound and every press that is queued or out is backed.
LedgerInv == Standing(vs)

\* ... by its own entry, if it is the last of its item and toggle.
EntryInv == Standing(vs) /\ Exact(vs) /\ Alone

\* Nothing is pressed at the start.
LEMMA InitLedger == vsInit => LedgerInv /\ EntryInv
<1> SUFFICES ASSUME vsInit PROVE LedgerInv /\ EntryInv
  OBVIOUS
<1>1. vs.queue = <<>> /\ vs.sent = NoReq /\ vs.ledger.entries = {} /\ mail = NoMail /\ workers = {}
  BY DEF vsInit, EmptyLedger
<1>2. Out(vs) = {} /\ Presses(vs) = {}
  <2>1. DOMAIN vs.queue = {} BY <1>1
  <2>2. Out(vs) = {} BY <1>1, <2>1 DEF Out
  <2> QED BY <2>2 DEF Presses
<1>3. WellNumbered(vs.ledger)
  BY <1>1 DEF WellNumbered
<1>4. Standing(vs)
  BY <1>2, <1>3 DEF Standing
<1>5. Exact(vs)
  BY <1>2 DEF Exact
<1>6. Alone
  BY <1>1 DEF Alone
<1> QED BY <1>4, <1>5, <1>6 DEF LedgerInv, EntryInv

\* The primed forms.
LEMMA StandingNext ==
    /\ Standing(vs') => LedgerInv'
    /\ Standing(vs') /\ Exact(vs') /\ Alone' => EntryInv'
BY DEF LedgerInv, EntryInv, Standing, Exact, Last, Presses, Out, Backed, Recorded, Place

\* An invariant and the property it is for.
LEMMA EntryHeld == TypeInv /\ EntryInv => EntryStands
<1> SUFFICES ASSUME TypeInv, EntryInv, NEW r \in Outstanding, Newest(r), ~r.origin_done
             PROVE  \E e \in vs.ledger.entries : e.at.item = r.item /\ e.edit = EditOf(r.w)
  BY DEF EntryStands
<1>1. Outstanding = Out(vs)
  BY DEF Outstanding, Out
<1>2. r \in Presses(vs) /\ Last(vs, r)
  BY <1>1 DEF Presses, Last, Newest
<1>3. Recorded(vs.ledger, r)
  BY <1>2 DEF EntryInv, Exact
<1> DEFINE e == [seq |-> r.seq, at |-> Place(r), edit |-> EditOf(r.w)]
<1>4. e \in vs.ledger.entries /\ e.at.item = r.item /\ e.edit = EditOf(r.w)
  BY <1>3 DEF Recorded, Place
<1> HIDE DEF e
<1> QED BY <1>4

\* Between the press and the landing the entry stands: through refused launches,
\* dropped presses, panics, resets and newer presses of other items, the newest
\* unanswered press of an item is what the ledger would make again on it, where no
\* title has a second copy.
THEOREM PressedEntryStands ==
    ASSUME \A i \in Items : Copies(i) = {}
    PROVE  Spec => []EntryStands
<1>1. TypeInv /\ Ordered /\ EntryInv /\ [Next]_vsVars => EntryInv'
  <2> SUFFICES ASSUME TypeInv, Ordered, EntryInv, [Next]_vsVars PROVE EntryInv'
    OBVIOUS
  <2>1. Standing(vs) /\ Exact(vs) /\ Alone BY DEF EntryInv
  <2>2. mail # NoMail => mail.also = <<>> BY <2>1 DEF Alone
  <2>3. Standing(vs') /\ Exact(vs') BY <2>1, <2>2, StepStanding
  <2>4. Alone' BY <2>1, StepAlone
  <2> QED BY <2>3, <2>4, StandingNext
<1> QED BY <1>1, InitType, NextType, InitOrdered, NextOrdered, InitLedger, EntryHeld, PTL DEF Spec

\* Whatever copies a title has: a press that is queued or out always has an entry, of
\* its own place and kind and not older than itself, so every read requested before
\* the press is patched.  (The entry may be a newer write's: the landing of a write on
\* a copy answers the same question.)
THEOREM PressesBacked == Spec => [](\A r \in Presses(vs) : Backed(vs.ledger, r))
<1>1. TypeInv /\ Ordered /\ LedgerInv /\ [Next]_vsVars => LedgerInv'
  <2> SUFFICES ASSUME TypeInv, Ordered, LedgerInv, [Next]_vsVars PROVE LedgerInv'
    OBVIOUS
  <2>1. Standing(vs') BY StepStanding DEF LedgerInv
  <2> QED BY <2>1, StandingNext
<1>2. LedgerInv => \A r \in Presses(vs) : Backed(vs.ledger, r)
  BY DEF LedgerInv, Standing
<1> QED BY <1>1, <1>2, InitType, NextType, InitOrdered, NextOrdered, InitLedger, PTL DEF Spec

\* Nobody switched and every row agrees at the start.
LEMMA InitOwed == vsInit => OwedInv
<1> SUFFICES ASSUME vsInit PROVE OwedInv
  OBVIOUS
<1>1. PICK u \in Users : token = [s \in Servers |-> [key |-> 1, user |-> u]] /\ seats = <<u>>
  BY DEF vsInit
<1>2. Steady
  BY <1>1 DEF vsInit, Steady
<1>3. Alone /\ Out(vs) = {}
  <2>1. vs.queue = <<>> /\ vs.sent = NoReq /\ mail = NoMail /\ workers = {}
    BY DEF vsInit
  <2>2. DOMAIN vs.queue = {} BY <2>1
  <2> QED BY <2>1, <2>2 DEF Alone, Out
<1>4. Sendable(vs) /\ Charged(vs) /\ Placed(vs)
  BY <1>3 DEF Sendable, Charged, Placed, Presses, vsInit
<1>5. Owing(vs)
  <2>1. seats[1] = u BY <1>1
  <2>2. \A i \in Leaves : i \in Items BY DEF Leaves
  <2>3. truth[u].watched = [i \in Leaves |-> FALSE] BY DEF vsInit
  <2>4. screen = [i \in Items |-> FALSE] BY DEF vsInit
  <2> QED BY <2>1, <2>2, <2>3, <2>4 DEF Owing
<1> QED BY <1>2, <1>3, <1>4, <1>5 DEF OwedInv, SendInv

\* Once nothing is queued or out, the press that answered for a row is gone.
LEMMA OwedHeld == TypeInv /\ OwedInv => DisagreementIsOwed
<1> SUFFICES ASSUME TypeInv, OwedInv, Settled, NEW i \in Leaves,
                    screen[i] # ServerSays(SeatedUser, i)
             PROVE  i \in vs.want_reread
  BY DEF DisagreementIsOwed
<1>1. Presses(vs) = {}
  <2>1. vs.queue = <<>> /\ vs.sent = NoReq BY DEF Settled, Busy
  <2>2. DOMAIN vs.queue = {} BY <2>1
  <2>3. Out(vs) = {} BY <2>1, <2>2 DEF Out
  <2> QED BY <2>3 DEF Presses
<1>2. SeatedUser = seats[1] BY DEF SeatedUser, OwedInv, SendInv, Steady
<1>3. seats[1] \in Users
  <2>1. Len(seats) # 0 /\ seats \in Seq(Users) BY DEF TypeInv, TypeOK
  <2> QED BY <2>1
<1>4. truth[seats[1]].watched[i] \in BOOLEAN /\ screen[i] \in BOOLEAN
  BY <1>3, LeafAlone DEF TypeInv, TypeOK
<1>5. ServerSays(SeatedUser, i) <=> truth[seats[1]].watched[i]
  BY <1>2, LeafAlone DEF ServerSays
<1>6. ServerSays(SeatedUser, i) \in BOOLEAN
  BY DEF ServerSays
<1>7. screen[i] # truth[seats[1]].watched[i]
  <2>1. ServerSays(SeatedUser, i) = truth[seats[1]].watched[i]
    BY <1>4, <1>5, <1>6
  <2> QED BY <2>1
<1> QED BY <1>1, <1>7 DEF OwedInv, Owing, InDebt

\* On refusal the read-back is what puts the tile back: through refused launches,
\* refused writes, answers that were lost and panics, a settled leaf row that disagrees
\* with its server is owed a read-back.  Where no title has a second copy, presses are
\* of films and episodes, and no credential moves between press and send (a moved one
\* drops the press and owes nothing).
THEOREM DisagreementOwed ==
    ASSUME \A i \in Items : Copies(i) = {}, Pressable \subseteq Leaves, MaxSwitches = 0
    PROVE  Spec => []DisagreementIsOwed
<1>1. TypeInv /\ Ordered /\ LedgerInv /\ OwedInv /\ [Next]_vsVars => LedgerInv' /\ OwedInv'
  <2> SUFFICES ASSUME TypeInv, Ordered, LedgerInv, OwedInv, [Next]_vsVars
               PROVE  LedgerInv' /\ OwedInv'
    OBVIOUS
  <2>1. Standing(vs) BY DEF LedgerInv
  <2>2. LedgerInv' BY <2>1, StepStanding, StandingNext
  <2>3. OwedInv' BY <2>1, StepOwed
  <2> QED BY <2>2, <2>3
<1> QED BY <1>1, InitType, NextType, InitOrdered, NextOrdered, InitLedger, InitOwed, OwedHeld, PTL DEF Spec
==============================================================================
