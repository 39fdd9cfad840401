--------------------------- MODULE ViewStateProofs ----------------------------
(***************************************************************************)
(* What module ViewState keeps for every set of items, servers and users   *)
(* and every value of the bounds: the types, and that the writes of one    *)
(* owner reach the servers in the order they were pressed, none twice, and *)
(* as the household member who pressed them.                               *)
(***************************************************************************)
EXTENDS ViewState, WellFoundedInduction, FiniteSetTheorems, SequenceTheorems, TLAPS

------------------------------------------------------------------------------
(* Least elements, and induction from them.                                 *)

Less == {p \in Nat \X Nat : p[1] < p[2]}

\* Every nonempty set of naturals has a least element.
LEMMA LeastNatural ==
    ASSUME NEW S \in SUBSET Nat, S # {}
    PROVE  \E m \in S : \A k \in S : m <= k
<1>1. IsWellFoundedOn(Less, Nat)
  BY NatLessThanWellFounded, Zenon DEF OpToRel, Less
<1>2. PICK x \in S : \A y \in S : ~ (<<y, x>> \in Less)
  BY <1>1, WFMin
<1>3. \A y, z \in Nat : y < z => <<y, z>> \in Less
  BY DEF Less
<1>4. ASSUME NEW y \in S PROVE x <= y
  <2>1. ~ (<<y, x>> \in Less) BY <1>2
  <2>2. x \in Nat /\ y \in Nat OBVIOUS
  <2> QED BY <2>1, <2>2, <1>3
<1> QED BY <1>4

\* The Min of module FiniteSetsExt is that element.
LEMMA MinLeast ==
    ASSUME NEW S \in SUBSET Nat, S # {}
    PROVE  Min(S) \in S /\ \A k \in S : Min(S) <= k
BY LeastNatural DEF Min

\* A finite set of positions can be listed in increasing order.
Listed(K) ==
    \E f \in [1..Cardinality(K) -> K] :
        \A i, j \in 1..Cardinality(K) : i < j => f[i] < f[j]

\* A set of positions is finite, so ViewQueue can list it in order.
LEMMA PositionsListed ==
    ASSUME NEW n \in Nat, NEW K \in SUBSET (1..n)
    PROVE  IsFiniteSet(K) /\ Cardinality(K) \in Nat /\ Listed(K)
<1> DEFINE Bad == {m \in Nat : \E L \in SUBSET (1..m) : ~Listed(L)}
<1>1. \A m \in Nat : \A L \in SUBSET (1..m) : IsFiniteSet(L) /\ Cardinality(L) \in Nat
  <2> SUFFICES ASSUME NEW m \in Nat, NEW L \in SUBSET (1..m)
               PROVE  IsFiniteSet(L) /\ Cardinality(L) \in Nat
    OBVIOUS
  <2>1. IsFiniteSet(1..m) BY FS_Interval
  <2>2. IsFiniteSet(L) BY <2>1, FS_Subset
  <2> QED BY <2>2, FS_CardinalityType
<1>2. Bad = {}
  <2> SUFFICES ASSUME Bad # {} PROVE FALSE OBVIOUS
  <2>1. PICK m \in Bad : \A k \in Bad : m <= k
    BY LeastNatural
  <2>2. PICK L \in SUBSET (1..m) : ~Listed(L)
    BY <2>1
  <2>3. m \in Nat /\ IsFiniteSet(L) /\ Cardinality(L) \in Nat
    BY <2>1, <1>1
  <2>4. CASE m \notin L
    <3>1. CASE m = 0
      <4>1. L = {} BY <3>1, <2>3
      <4>2. Cardinality(L) = 0 BY <4>1, FS_EmptySet
      <4>3. 1..0 = {} OBVIOUS
      <4>4. [x \in {} |-> x] \in [1..0 -> L] BY <4>3
      <4>5. \A i, j \in 1..0 : FALSE BY <4>3
      <4>6. Listed(L) BY <4>2, <4>4, <4>5, Zenon DEF Listed
      <4> QED BY <4>6, <2>2
    <3>2. CASE m # 0
      <4>1. m - 1 \in Nat /\ L \in SUBSET (1..(m - 1))
        BY <3>2, <2>3, <2>4
      <4>2. ~(m <= m - 1) BY <2>3
      <4>3. m - 1 \notin Bad BY <2>1, <4>2
      <4> QED BY <4>1, <4>3, <2>2
    <3> QED BY <3>1, <3>2
  <2>5. CASE m \in L
    <3> DEFINE R == L \ {m}
               c == Cardinality(R)
    <3>1. m # 0 /\ m - 1 \in Nat /\ R \in SUBSET (1..(m - 1))
      BY <2>5, <2>3
    <3>2. ~(m <= m - 1) BY <2>3
    <3>3. m - 1 \notin Bad BY <2>1, <3>2
    <3>4. Listed(R) BY <3>1, <3>3
    <3>5. c \in Nat /\ Cardinality(L) = c + 1
      <4>1. c = Cardinality(L) - 1 BY <2>3, <2>5, FS_RemoveElement
      <4>2. c \in Nat BY <3>1, <1>1
      <4> QED BY <4>1, <4>2, <2>3
    <3>6. PICK f \in [1..c -> R] : \A i, j \in 1..c : i < j => f[i] < f[j]
      BY <3>4 DEF Listed
    <3> DEFINE g == [i \in 1..(c + 1) |-> IF i = c + 1 THEN m ELSE f[i]]
    <3>7. g \in [1..(c + 1) -> L]
      <4> SUFFICES ASSUME NEW i \in 1..(c + 1) PROVE g[i] \in L OBVIOUS
      <4>1. i # c + 1 => i \in 1..c BY <3>5
      <4> QED BY <4>1, <3>6, <2>5
    <3>8. ASSUME NEW i \in 1..(c + 1), NEW j \in 1..(c + 1), i < j PROVE g[i] < g[j]
      <4>1. i \in 1..c BY <3>8, <3>5
      <4>2. f[i] \in 1..(m - 1) BY <4>1, <3>6, <3>1
      <4>3. CASE j = c + 1
        BY <4>1, <4>2, <4>3, <2>3, <3>5
      <4>4. CASE j # c + 1
        <5>1. j \in 1..c BY <4>4, <3>5
        <5>2. f[i] < f[j] BY <5>1, <4>1, <3>6, <3>8
        <5>3. g[i] = f[i] /\ g[j] = f[j] BY <5>1, <4>1, <4>4, <3>5
        <5> QED BY <5>2, <5>3
      <4> QED BY <4>3, <4>4
    <3>9. Listed(L)
      <4> HIDE DEF g, c
      <4>1. g \in [1..Cardinality(L) -> L]
        BY <3>5, <3>7
      <4>2. \A i, j \in 1..Cardinality(L) : i < j => g[i] < g[j]
        BY <3>5, <3>8
      <4> QED BY <4>1, <4>2 DEF Listed
    <3> QED BY <3>9, <2>2
  <2> QED BY <2>4, <2>5
<1>3. Listed(K) BY <1>2
<1> QED BY <1>1, <1>3

\* Dropping elements of a sequence keeps the others in their order.
LEMMA KeptInOrder ==
    ASSUME NEW S, NEW q \in Seq(S), NEW K \in SUBSET DOMAIN q
    PROVE  /\ Kept(q, K) \in Seq(S)
           /\ \E f \in [DOMAIN Kept(q, K) -> K] :
                 /\ \A i, j \in DOMAIN Kept(q, K) : i < j => f[i] < f[j]
                 /\ \A i \in DOMAIN Kept(q, K) : Kept(q, K)[i] = q[f[i]]
<1> DEFINE n == Cardinality(K)
           pos == CHOOSE f \in [1..n -> K] : \A i, j \in 1..n : i < j => f[i] < f[j]
<1>1. DOMAIN q = 1..Len(q) /\ Len(q) \in Nat /\ \A i \in DOMAIN q : q[i] \in S
  BY LenProperties
<1>2. n \in Nat /\ Listed(K)
  BY <1>1, PositionsListed
<1>3. pos \in [1..n -> K] /\ \A i, j \in 1..n : i < j => pos[i] < pos[j]
  BY <1>2 DEF Listed
<1>4. Kept(q, K) = [i \in 1..n |-> q[pos[i]]]
  BY DEF Kept
<1> HIDE DEF n, pos
<1>5. DOMAIN Kept(q, K) = 1..n
  BY <1>4
<1>6. \A i \in 1..n : q[pos[i]] \in S
  BY <1>1, <1>3
<1>7. Kept(q, K) \in Seq(S)
  BY <1>2, <1>4, <1>6, IsASeq
<1> QED BY <1>3, <1>4, <1>5, <1>7

------------------------------------------------------------------------------
(* The ledger.                                                              *)

\* Recording numbers above everything issued, one entry per question; landing,
\* retiring and resetting keep both facts.
LEMMA RecordLedger ==
    ASSUME NEW t \in Ledger, NEW at \in At, NEW edit \in Edit
    PROVE  Record(t, at, edit) \in Ledger /\ RecordedSeq(t) \in Nat
<1>1. t.seq \in Nat /\ t.entries \in SUBSET Entry BY DEF Ledger
<1>2. [seq |-> t.seq + 1, at |-> at, edit |-> edit] \in Entry BY <1>1 DEF Entry
<1> QED BY <1>1, <1>2 DEF Record, RecordedSeq, Ledger

\* Landing a write leaves a ledger.
LEMMA LandedLedger ==
    ASSUME NEW t \in Ledger, NEW s
    PROVE  Landed(t, s) \in Ledger
<1>1. t.seq \in Nat /\ t.entries \in SUBSET Entry BY DEF Ledger
<1>2. \A e \in t.entries : [e EXCEPT !.seq = t.seq + 1] \in Entry BY <1>1 DEF Entry
<1>3. {IF e.seq = s THEN [e EXCEPT !.seq = t.seq + 1] ELSE e : e \in t.entries} \in SUBSET Entry
  BY <1>1, <1>2
<1> QED BY <1>1, <1>3 DEF Landed, Ledger

\* So do retiring entries and emptying it.
LEMMA RetireLedger ==
    ASSUME NEW t \in Ledger, NEW S
    PROVE  Retire(t, S) \in Ledger /\ ResetLedger(t) \in Ledger
BY DEF Retire, ResetLedger, Ledger

\* Every write is recorded as one of the ledger's edits.
LEMMA EditOfType ==
    ASSUME NEW w \in AllWrites
    PROVE  EditOf(w) \in Edit
BY DEF EditOf, AllWrites, Edit, Watched, LeftDeck

\* Recording a press on the other copies leaves a ledger.
LEMMA RecordCopiesLedger ==
    ASSUME NEW t \in Ledger, NEW r \in Req, NEW also \in Seq(Items)
    PROVE  RecordCopies(t, r, also) \in Ledger
<1> DEFINE at(k) == [item |-> also[k], scope |-> CopyScope(r.scope)]
<1>1. t.seq \in Nat /\ t.entries \in SUBSET Entry BY DEF Ledger
<1>2. DOMAIN also = 1..Len(also) /\ Len(also) \in Nat /\ \A k \in DOMAIN also : also[k] \in Items
  BY LenProperties
<1>3. r.scope \in Scopes /\ r.w \in AllWrites BY DEF Req
<1>4. CopyScope(r.scope) \in Scopes BY <1>3 DEF CopyScope, Scopes
<1>5. EditOf(r.w) \in Edit BY <1>3, EditOfType
<1>6. \A k \in DOMAIN also : at(k) \in At BY <1>2, <1>4 DEF At
<1>7. \A k \in DOMAIN also : [seq |-> t.seq + k, at |-> at(k), edit |-> EditOf(r.w)] \in Entry
  BY <1>1, <1>2, <1>5, <1>6 DEF Entry
<1>8. {[seq |-> t.seq + k, at |-> at(k), edit |-> EditOf(r.w)] : k \in DOMAIN also} \in SUBSET Entry
  BY <1>7
<1>9. t.seq + Len(also) \in Nat BY <1>1, <1>2
<1> HIDE DEF at
<1> DEFINE old == {e \in t.entries : ~\E k \in DOMAIN also : SameKind(e, at(k), EditOf(r.w))}
           new == {[seq |-> t.seq + k, at |-> at(k), edit |-> EditOf(r.w)] : k \in DOMAIN also}
<1>10. old \cup new \in SUBSET Entry BY <1>1, <1>8
<1>11. RecordCopies(t, r, also) = [seq |-> t.seq + Len(also), entries |-> old \cup new]
  BY Zenon DEF RecordCopies, at
<1> QED BY <1>9, <1>10, <1>11 DEF Ledger

------------------------------------------------------------------------------
(* The queue operations, on types.                                          *)

\* The position kick sends from, and what it leaves behind it.
LEMMA KickType ==
    ASSUME NEW v \in ViewStateState
    PROVE  /\ Kick(v) \in ViewStateState
           /\ Kick(v).next_id = v.next_id
           /\ \/ Kick(v) = v
              \/ /\ v.sent = NoReq /\ v.retry_cd = 0
                 /\ \E n \in 1..(Len(v.queue) + 1) :
                       /\ Kick(v).queue = SubSeq(v.queue, n + 1, Len(v.queue))
                       /\ \/ n \in DOMAIN v.queue /\ Kick(v).sent = v.queue[n]
                          \/ Kick(v).sent = NoReq
<1>1. CASE v.sent # NoReq \/ v.retry_cd > 0
  BY <1>1 DEF Kick
<1>2. CASE ~(v.sent # NoReq \/ v.retry_cd > 0)
  <2> DEFINE may == {k \in DOMAIN v.queue : Admit(v.queue[k])}
             n == IF may = {} THEN Len(v.queue) + 1 ELSE Min(may)
             L == Retire(v.ledger, {v.queue[k].seq : k \in 1..(n - 1)})
             Q == SubSeq(v.queue, n + 1, Len(v.queue))
             X == IF may = {} THEN NoReq ELSE v.queue[n]
  <2>1. v.queue \in Seq(Req) /\ v.ledger \in Ledger /\ v.retry_cd \in Nat
    BY ViewStateAssumption DEF ViewStateState
  <2>2. DOMAIN v.queue = 1..Len(v.queue) /\ Len(v.queue) \in Nat
        /\ \A k \in DOMAIN v.queue : v.queue[k] \in Req
    BY <2>1, LenProperties
  <2>3. may \in SUBSET Nat /\ may \subseteq DOMAIN v.queue
    BY <2>2
  <2>4. may # {} => n \in DOMAIN v.queue
    BY <2>3, MinLeast
  <2>5. n \in 1..(Len(v.queue) + 1)
    BY <2>2, <2>4
  <2>6. Kick(v) = [v EXCEPT !.ledger = L, !.queue = Q, !.sent = X]
    BY <1>2 DEF Kick
  <2> HIDE DEF n, may
  <2>7. L \in Ledger
    BY <2>1, RetireLedger
  <2>8. Q \in Seq(Req)
    <3>1. \A i \in (n + 1)..Len(v.queue) : v.queue[i] \in Req BY <2>2, <2>5
    <3>2. n + 1 \in Int /\ Len(v.queue) \in Int BY <2>2, <2>5
    <3> QED BY <3>1, <3>2, SubSeqProperties
  <2>9. X \in Req \cup {NoReq}
    BY <2>2, <2>4
  <2>10. X = NoReq \/ (n \in DOMAIN v.queue /\ X = v.queue[n])
    BY <2>4
  <2>11. v.sent = NoReq /\ v.retry_cd = 0
    BY <1>2, <2>1
  <2> HIDE DEF L, Q, X
  <2>12. Kick(v) \in ViewStateState
    BY <2>6, <2>7, <2>8, <2>9 DEF ViewStateState
  <2>13. Kick(v).next_id = v.next_id /\ Kick(v).queue = Q /\ Kick(v).sent = X
    BY <2>6 DEF ViewStateState
  <2> QED BY <2>5, <2>10, <2>11, <2>12, <2>13 DEF Q
<1> QED BY <1>1, <1>2

\* request: the queue keeps its order and the press goes last.
Pressed(v, i, w) ==
    [v EXCEPT !.ledger  = Record(@, [item |-> i, scope |-> ScopeOf[i]], EditOf(w)),
              !.queue   = Append(Coalesce(@, i, w),
                            [id |-> v.next_id, seq |-> RecordedSeq(v.ledger), item |-> i,
                             key |-> token[ServerOf[i]].key, profile |-> profile, w |-> w,
                             scope |-> ScopeOf[i], origin_done |-> FALSE]),
              !.next_id = @ + 1]

\* The state request hands to kick has the types of the store.
LEMMA PressedType ==
    ASSUME TypeOK, NEW i \in Items, NEW w \in AllWrites
    PROVE  /\ Request(vs, i, w) = Kick(Pressed(vs, i, w))
           /\ Pressed(vs, i, w) \in ViewStateState
<1> DEFINE at == [item |-> i, scope |-> ScopeOf[i]]
           r == [id |-> vs.next_id, seq |-> RecordedSeq(vs.ledger), item |-> i,
                 key |-> token[ServerOf[i]].key, profile |-> profile, w |-> w,
                 scope |-> ScopeOf[i], origin_done |-> FALSE]
           C == Coalesce(vs.queue, i, w)
<1>1. Request(vs, i, w) = Kick(Pressed(vs, i, w))
  BY DEF Request, Pressed
<1>2. /\ vs \in ViewStateState /\ vs.ledger \in Ledger /\ vs.queue \in Seq(Req)
      /\ vs.next_id \in Nat \ {0} /\ profile \in Nat
  BY DEF TypeOK, ViewStateState
<1>3. at \in At
  BY ViewStateAssumption DEF At
<1>4. EditOf(w) \in Edit BY EditOfType
<1>5. Record(vs.ledger, at, EditOf(w)) \in Ledger /\ RecordedSeq(vs.ledger) \in Nat
  BY <1>2, <1>3, <1>4, RecordLedger
<1>6. token[ServerOf[i]].key \in Nat
  BY ViewStateAssumption DEF TypeOK
<1>7. r \in Req
  BY <1>2, <1>5, <1>6, ViewStateAssumption DEF Req
<1>8. C \in Seq(Req)
  BY <1>2, KeptInOrder DEF Coalesce
<1> HIDE DEF r, C, at
<1>9. Append(C, r) \in Seq(Req)
  BY <1>7, <1>8, AppendProperties
<1> DEFINE L == Record(vs.ledger, at, EditOf(w))
           Q == Append(C, r)
           N == vs.next_id + 1
<1>10. Pressed(vs, i, w) = [vs EXCEPT !.ledger = L, !.queue = Q, !.next_id = N]
  BY DEF Pressed, at, r, C
<1>11. L \in Ledger /\ Q \in Seq(Req) /\ N \in Nat \ {0}
  BY <1>2, <1>5, <1>9
<1> HIDE DEF L, Q, N
<1>12. Pressed(vs, i, w) \in ViewStateState
  BY <1>2, <1>10, <1>11 DEF ViewStateState
<1> QED BY <1>1, <1>12

\* fan_out_origin_watched: the request of a stream's end goes last.
StreamEnded(v, i) ==
    [v EXCEPT !.queue   = Append(@, [id |-> v.next_id, seq |-> 0, item |-> i,
                                     key |-> token[ServerOf[i]].key, profile |-> profile,
                                     w |-> "Watched", scope |-> "Leaf", origin_done |-> TRUE]),
              !.next_id = @ + 1]

\* The state it hands to kick has the types of the store.
LEMMA StreamEndedType ==
    ASSUME TypeOK, NEW v \in ViewStateState, NEW i \in Items
    PROVE  /\ FanOutOriginWatched(v, i) = v
              \/ FanOutOriginWatched(v, i) = Kick(StreamEnded(v, i))
           /\ StreamEnded(v, i) \in ViewStateState
<1> DEFINE r == [id |-> v.next_id, seq |-> 0, item |-> i,
                 key |-> token[ServerOf[i]].key, profile |-> profile,
                 w |-> "Watched", scope |-> "Leaf", origin_done |-> TRUE]
           Q == Append(v.queue, r)
           N == v.next_id + 1
<1>1. FanOutOriginWatched(v, i) = v
         \/ FanOutOriginWatched(v, i) = Kick(StreamEnded(v, i))
  BY DEF FanOutOriginWatched, StreamEnded
<1>2. /\ v \in ViewStateState /\ v.queue \in Seq(Req)
      /\ v.next_id \in Nat \ {0} /\ profile \in Nat
  BY DEF TypeOK, ViewStateState
<1>3. token[ServerOf[i]].key \in Nat
  BY ViewStateAssumption DEF TypeOK
<1>4. r \in Req
  BY <1>2, <1>3 DEF Req, AllWrites, Scopes
<1>5. StreamEnded(v, i) = [v EXCEPT !.queue = Q, !.next_id = N]
  BY DEF StreamEnded
<1> HIDE DEF r
<1>6. Q \in Seq(Req) /\ N \in Nat \ {0}
  BY <1>2, <1>4, AppendProperties
<1> HIDE DEF Q, N
<1>7. StreamEnded(v, i) \in ViewStateState
  BY <1>2, <1>5, <1>6 DEF ViewStateState
<1> QED BY <1>1, <1>7

\* A frame of the retry wait keeps the types and touches nothing else.
LEMMA RetryTickType ==
    ASSUME NEW v \in ViewStateState
    PROVE  /\ RetryTick(v) \in ViewStateState
           /\ RetryTick(v).queue = v.queue /\ RetryTick(v).sent = v.sent
           /\ RetryTick(v).next_id = v.next_id
<1> DEFINE c == IF v.retry_cd > 0 THEN v.retry_cd - 1 ELSE 0
<1>1. RetryTick(v) = [v EXCEPT !.retry_cd = c]
  BY DEF RetryTick
<1>2. c \in 0..RetryFrames
  BY ViewStateAssumption DEF ViewStateState
<1> HIDE DEF c
<1> QED BY <1>1, <1>2 DEF ViewStateState

\* A refused launch goes back to the head behind the wait, or is dropped.
LEMMA RestartType ==
    ASSUME NEW v \in ViewStateState, v.sent \in Req
    PROVE  /\ RestartRefused(v) \in ViewStateState
           /\ RestartRefused(v).sent = NoReq
           /\ RestartRefused(v).next_id = v.next_id
           /\ \/ /\ RestartRefused(v).queue = <<v.sent>> \o v.queue
                 /\ RestartRefused(v).retry_cd > 0
              \/ RestartRefused(v).queue = v.queue
<1>1. CASE Admit(v.sent)
  <2> DEFINE Q == <<v.sent>> \o v.queue
  <2>1. RestartRefused(v) = [v EXCEPT !.queue = Q, !.sent = NoReq, !.retry_cd = RetryFrames]
    BY <1>1 DEF RestartRefused
  <2>2. <<v.sent>> \in Seq(Req) /\ v.queue \in Seq(Req)
    BY DEF ViewStateState
  <2>3. Q \in Seq(Req)
    BY <2>2, ConcatProperties
  <2>4. RetryFrames \in 0..RetryFrames /\ RetryFrames > 0
    BY ViewStateAssumption
  <2> HIDE DEF Q
  <2>5. RestartRefused(v) \in ViewStateState
    BY <2>1, <2>3, <2>4 DEF ViewStateState
  <2>6. /\ RestartRefused(v).queue = Q /\ RestartRefused(v).sent = NoReq
        /\ RestartRefused(v).retry_cd = RetryFrames /\ RestartRefused(v).next_id = v.next_id
    BY <2>1 DEF ViewStateState
  <2> QED BY <2>4, <2>5, <2>6 DEF Q
<1>2. CASE ~Admit(v.sent)
  <2> DEFINE L == Retire(v.ledger, {v.sent.seq})
  <2>1. RestartRefused(v) = [v EXCEPT !.ledger = L, !.sent = NoReq]
    BY <1>2 DEF RestartRefused
  <2>2. L \in Ledger
    BY RetireLedger DEF ViewStateState
  <2> HIDE DEF L
  <2> QED BY <2>1, <2>2 DEF ViewStateState
<1> QED BY <1>1, <1>2

\* An answer clears the write that is out and leaves the queue alone.
LEMMA LandWrittenType ==
    ASSUME NEW v \in ViewStateState, v.sent \in Req, NEW m \in Completion
    PROVE  /\ LandWritten(v, m) \in ViewStateState
           /\ LandWritten(v, m).sent = NoReq
           /\ LandWritten(v, m).next_id = v.next_id
           /\ LandWritten(v, m).queue = v.queue
<1> DEFINE r == v.sent
           told == IF m.ok THEN Landed(v.ledger, r.seq) ELSE Retire(v.ledger, {r.seq})
           origin == IF r.origin_done THEN {} ELSE {r.item}
           also == {m.also[k] : k \in DOMAIN m.also}
           L == RecordCopies(told, r, m.also)
           H == v.want_hubs \/ ~(r.origin_done /\ m.also = <<>>)
           R == IF Propagates(r.w) THEN v.want_reread \cup origin \cup also ELSE v.want_reread
<1>1. LandWritten(v, m) = [v EXCEPT !.ledger = L, !.sent = NoReq, !.want_hubs = H,
                                    !.want_reread = R]
  BY DEF LandWritten
<1>2. v.ledger \in Ledger /\ v.want_reread \in SUBSET Items /\ r.item \in Items
  BY DEF ViewStateState, Req
<1>3. m.also \in Seq(Items)
  BY DEF Completion
<1>4. also \in SUBSET Items
  BY <1>3, ElementOfSeq
<1>5. told \in Ledger
  BY <1>2, LandedLedger, RetireLedger
<1>6. L \in Ledger
  BY <1>3, <1>5, RecordCopiesLedger
<1>7. H \in BOOLEAN
  BY DEF ViewStateState
<1>8. R \in SUBSET Items
  BY <1>2, <1>4
<1> HIDE DEF L, H, R
<1> QED BY <1>1, <1>6, <1>7, <1>8 DEF ViewStateState

\* A frame's pump keeps the types.
LEMMA PumpedType ==
    ASSUME TypeOK
    PROVE  /\ Land(RetryTick(vs)) \in ViewStateState
           /\ Pumped \in ViewStateState
           /\ Answers => vs.sent \in Req /\ mail \in Completion
<1>1. Answers => vs.sent \in Req /\ mail \in Completion
  BY DEF Answers, TypeOK, ViewStateState
<1>2. vs \in ViewStateState
  BY DEF TypeOK
<1>3. RetryTick(vs) \in ViewStateState /\ RetryTick(vs).sent = vs.sent
  BY <1>2, RetryTickType
<1>4. Answers => /\ RestartRefused(RetryTick(vs)) \in ViewStateState
                 /\ LandWritten(RetryTick(vs), mail) \in ViewStateState
  BY <1>1, <1>3, RestartType, LandWrittenType
<1>5. Land(RetryTick(vs)) \in ViewStateState
  BY <1>3, <1>4 DEF Land
<1>6. Kick(Land(RetryTick(vs))) \in ViewStateState
  BY <1>5, KickType
<1>7. Pumped \in ViewStateState
  BY <1>5, <1>6 DEF Pumped
<1> QED BY <1>1, <1>5, <1>7

\* A started job is a worker of the current owner.
LEMMA NewWorkerType ==
    ASSUME TypeOK, NEW r \in Req
    PROVE  NewWorker(r) \in Worker
<1>1. [s \in Servers |-> token[s].key] \in [Servers -> Nat]
  BY DEF TypeOK
<1>2. Copies(r.item) \in SUBSET Items
  BY DEF Copies
<1>3. /\ r.id \in Nat /\ r.item \in Items /\ r.w \in AllWrites /\ r.origin_done \in BOOLEAN
      /\ adapter \in Nat
  BY DEF Req, TypeOK
<1>4. <<>> \in Seq(Items)
  OBVIOUS
<1> DEFINE K == [s \in Servers |-> token[s].key]
           T == IF Propagates(r.w) /\ Cardinality(Servers) > 1 THEN Copies(r.item) ELSE {}
           P == IF r.origin_done THEN "fan_out" ELSE "origin"
<1>5. K \in [Servers -> Nat] /\ T \in SUBSET Items /\ P \in {"origin", "fan_out"}
  BY <1>1, <1>2
<1>6. NewWorker(r) = [id |-> r.id, port |-> adapter, item |-> r.item, w |-> r.w, pc |-> P,
                      ok |-> r.origin_done, keys |-> K, todo |-> T, also |-> <<>>]
  BY DEF NewWorker
<1> HIDE DEF K, T, P
<1> QED BY <1>3, <1>4, <1>5, <1>6 DEF Worker

\* Starting or refusing the emitted job keeps the types.
LEMMA StartJobsType ==
    ASSUME TypeOK, NEW before, NEW after \in ViewStateState,
           NEW posted \in {NoMail} \cup Completion,
           StartJobs(before, after, posted)
    PROVE  /\ workers' \subseteq Worker
           /\ mail' \in {NoMail} \cup Completion
           /\ refused' \in Nat
<1>1. Emitted(before, after) => after.sent \in Req
  BY DEF Emitted, ViewStateState
<1>2. Emitted(before, after) => NewWorker(after.sent) \in Worker
  BY <1>1, NewWorkerType
<1>3. <<>> \in Seq(Items)
  OBVIOUS
<1>4. Emitted(before, after) => NotStarted(after.sent.id) \in Completion
  BY <1>1, <1>3 DEF NotStarted, Completion, Req
<1>5. workers \subseteq Worker /\ refused \in Nat
  BY DEF TypeOK
<1> QED BY <1>2, <1>4, <1>5 DEF StartJobs

\* Publishing an edit keeps the types of what is drawn.
LEMMA PublishType ==
    ASSUME TypeOK, NEW ats, NEW edit \in Edit, Publish(ats, edit)
    PROVE  screen' \in [Items -> BOOLEAN] /\ deck' \in SUBSET Items
<1>1. screen \in [Items -> BOOLEAN] /\ deck \in SUBSET Items
  BY DEF TypeOK
<1>2. edit.on \in BOOLEAN
  BY DEF Edit
<1>3. PublishRows(screen, ats, edit) \in [Items -> BOOLEAN]
  <2> DEFINE f == [r \in DOMAIN screen |->
                      IF \E at \in ats : Covers(at, r) THEN edit.on ELSE screen[r]]
  <2>1. DOMAIN screen = Items BY <1>1
  <2>2. \A r \in Items : (IF \E at \in ats : Covers(at, r) THEN edit.on ELSE screen[r]) \in BOOLEAN
    BY <1>1, <1>2
  <2>3. f \in [Items -> BOOLEAN] BY <2>1, <2>2
  <2>4. PublishRows(screen, ats, edit) = screen \/ PublishRows(screen, ats, edit) = f
    BY DEF PublishRows
  <2> QED BY <1>1, <2>3, <2>4
<1>4. PublishDeck(deck, ats, edit) \in SUBSET Items
  BY <1>1 DEF PublishDeck
<1> QED BY <1>3, <1>4 DEF Publish

\* What a server holds after it took a write is still a record of the leaves.
LEMMA AppliedType ==
    ASSUME TypeOK, NEW u \in Users, NEW i, NEW w
    PROVE  Applied(u, i, w) \in [Users -> [watched : [Leaves -> BOOLEAN], deck : SUBSET Items]]
<1> DEFINE W == [watched : [Leaves -> BOOLEAN], deck : SUBSET Items]
           D == truth[u].deck \ {i}
           F == [r \in Leaves |-> IF r \in LeavesOf(i) THEN w = "Watched" ELSE truth[u].watched[r]]
<1>1. truth \in [Users -> W] /\ truth[u] \in W
  BY DEF TypeOK
<1>2. D \in SUBSET Items /\ F \in [Leaves -> BOOLEAN]
  <2>1. truth[u].deck \in SUBSET Items /\ truth[u].watched \in [Leaves -> BOOLEAN] BY <1>1
  <2>2. \A r \in Leaves : (IF r \in LeavesOf(i) THEN w = "Watched" ELSE truth[u].watched[r]) \in BOOLEAN
    BY <2>1
  <2> QED BY <2>1, <2>2
<1>3. Applied(u, i, w) = [truth EXCEPT ![u].deck = D] \/ Applied(u, i, w) = [truth EXCEPT ![u].watched = F]
  BY DEF Applied
<1> HIDE DEF D, F
<1>4. [truth EXCEPT ![u].deck = D] \in [Users -> W] /\ [truth EXCEPT ![u].watched = F] \in [Users -> W]
  BY <1>1, <1>2
<1> QED BY <1>3, <1>4

------------------------------------------------------------------------------
(* Type correctness.                                                        *)

\* The seat in force is the last one taken.
TypeInv == TypeOK /\ profile = Len(seats) /\ profile # 0

\* A main-thread step: what it leaves alone, and the types of what it changes.
LEMMA MainStepType ==
    ASSUME TypeInv, vs' \in ViewStateState, workers' \subseteq Worker,
           mail' \in {NoMail} \cup Completion, refused' \in Nat,
           screen' \in [Items -> BOOLEAN], deck' \in SUBSET Items,
           UNCHANGED <<adapter, token, profile, switch, truth, log, seats, failed>>
    PROVE  TypeInv'
BY DEF TypeInv, TypeOK

\* A press keeps the types.
LEMMA PressType ==
    ASSUME TypeInv, NEW i \in Pressable, NEW w \in Writes, Press(i, w)
    PROVE  TypeInv'
<1>1. i \in Items /\ w \in AllWrites
  BY ViewStateAssumption
<1>2. vs' \in ViewStateState
  BY <1>1, PressedType, KickType DEF Press, TypeInv
<1>3. screen' \in [Items -> BOOLEAN] /\ deck' \in SUBSET Items
  BY <1>1, EditOfType, PublishType DEF Press, TypeInv
<1>4. workers' \subseteq Worker /\ mail' \in {NoMail} \cup Completion /\ refused' \in Nat
  <2>1. mail \in {NoMail} \cup Completion BY DEF TypeInv, TypeOK
  <2>2. StartJobs(vs, vs', mail) BY DEF Press
  <2> QED BY <1>2, <2>1, <2>2, StartJobsType DEF TypeInv
<1> QED BY <1>2, <1>3, <1>4, MainStepType DEF Press

\* A stream's end keeps the types.
LEMMA EndOfStreamType ==
    ASSUME TypeInv, NEW i \in Items, EndOfStream(i)
    PROVE  TypeInv'
<1>1. vs' \in ViewStateState
  <2>1. TypeOK /\ vs \in ViewStateState BY DEF TypeInv, TypeOK
  <2> QED BY <2>1, StreamEndedType, KickType DEF EndOfStream
<1>2. screen' \in [Items -> BOOLEAN] /\ deck' \in SUBSET Items
  BY DEF EndOfStream, TypeInv, TypeOK
<1>3. workers' \subseteq Worker /\ mail' \in {NoMail} \cup Completion /\ refused' \in Nat
  <2>1. mail \in {NoMail} \cup Completion BY DEF TypeInv, TypeOK
  <2>2. StartJobs(vs, vs', mail) BY DEF EndOfStream
  <2> QED BY <1>1, <2>1, <2>2, StartJobsType DEF TypeInv
<1> QED BY <1>1, <1>2, <1>3, MainStepType DEF EndOfStream

\* The store after a frame is what Pumped says, but for the refetch it made.
LEMMA PumpStep ==
    ASSUME TypeOK, ViewStatePump
    PROVE  /\ vs' \in ViewStateState
           /\ vs'.queue = Pumped.queue /\ vs'.sent = Pumped.sent
           /\ vs'.next_id = Pumped.next_id
           /\ StartJobs(vs, Pumped, NoMail)
           /\ UNCHANGED <<adapter, token, profile, switch, truth, log, seats, failed>>
<1> DEFINE H == Pumped.want_hubs /\ ~RefetchDue(Pumped)
<1>1. Pumped \in ViewStateState
  BY PumpedType
<1>2. vs' = [Pumped EXCEPT !.want_hubs = H] /\ StartJobs(vs, Pumped, NoMail)
  BY DEF ViewStatePump
<1>3. H \in BOOLEAN
  BY <1>1 DEF ViewStateState
<1> HIDE DEF H
<1>4. vs' \in ViewStateState
  BY <1>1, <1>2, <1>3 DEF ViewStateState
<1>5. vs'.queue = Pumped.queue /\ vs'.sent = Pumped.sent /\ vs'.next_id = Pumped.next_id
  BY <1>1, <1>2 DEF ViewStateState
<1> QED BY <1>2, <1>4, <1>5 DEF ViewStatePump

\* A frame keeps the types.
LEMMA PumpType ==
    ASSUME TypeInv, ViewStatePump
    PROVE  TypeInv'
<1>1. TypeOK BY DEF TypeInv
<1>2. vs' \in ViewStateState /\ StartJobs(vs, Pumped, NoMail)
      /\ UNCHANGED <<adapter, token, profile, switch, truth, log, seats, failed>>
  BY <1>1, PumpStep
<1>3. workers' \subseteq Worker /\ mail' \in {NoMail} \cup Completion /\ refused' \in Nat
  BY <1>1, <1>2, PumpedType, StartJobsType
<1>4. screen' \in [Items -> BOOLEAN] /\ deck' \in SUBSET Items
  <2>1. CASE Answers /\ mail.outcome = "Written"
    <3>1. Publish(CopyAts(vs.sent, mail.also), EditOf(vs.sent.w)) BY <2>1 DEF ViewStatePump
    <3>2. EditOf(vs.sent.w) \in Edit
      BY <1>1, <2>1, PumpedType, EditOfType DEF Req
    <3> QED BY <1>1, <3>1, <3>2, PublishType
  <2>2. CASE ~(Answers /\ mail.outcome = "Written")
    BY <2>2 DEF ViewStatePump, TypeInv, TypeOK
  <2> QED BY <2>1, <2>2
<1> QED BY <1>2, <1>3, <1>4, MainStepType

\* A profile switch, a token refresh and the player's coming and going keep the types.
LEMMA SwitchType ==
    ASSUME TypeInv,
           \/ \E on \in Routes : HoldNetwork(on)
           \/ SwitchStep
           \/ \E s \in Servers : RefreshToken(s)
    PROVE  TypeInv'
<1> USE DEF TypeInv
<1>1. ASSUME NEW on \in Routes, HoldNetwork(on) PROVE TypeInv'
  <2>1. on \in BOOLEAN BY ViewStateAssumption
  <2>2. vs' \in ViewStateState
    BY <1>1, <2>1 DEF HoldNetwork, TypeOK, ViewStateState
  <2> QED BY <1>1, <2>2, MainStepType DEF HoldNetwork, TypeOK
<1>2. \A S \in SUBSET Servers, u \in Users : Retokened(S, u) \in [Servers -> [key : Nat, user : Users]]
  BY DEF Retokened, TypeOK
<1>3. ASSUME NEW u \in Users, SwapTokens(u) PROVE TypeInv'
  BY <1>2, <1>3 DEF SwapTokens, TypeOK
<1>4. ASSUME PublishProfile PROVE TypeInv'
  <2> DEFINE u == token[CHOOSE s \in Servers : TRUE].user
  <2>1. u \in Users BY ViewStateAssumption DEF TypeOK
  <2>2. seats' = Append(seats, u) /\ profile' = profile + 1 BY <1>4 DEF PublishProfile
  <2> HIDE DEF u
  <2>3. seats' \in Seq(Users) /\ Len(seats') = Len(seats) + 1
    BY <2>1, <2>2, AppendProperties DEF TypeOK
  <2> QED BY <1>4, <2>2, <2>3 DEF PublishProfile, TypeOK
<1>5. ASSUME Reset PROVE TypeInv'
  <2>1. vs' \in ViewStateState
    <3> DEFINE L == ResetLedger(vs.ledger)
    <3>1. vs' = [vs EXCEPT !.ledger = L, !.queue = <<>>, !.sent = NoReq, !.retry_cd = 0,
                           !.want_hubs = FALSE, !.want_reread = {}]
      BY <1>5 DEF Reset, ResetViewState
    <3>2. L \in Ledger BY RetireLedger DEF TypeOK, ViewStateState
    <3>3. 0 \in 0..RetryFrames /\ <<>> \in Seq(Req) BY ViewStateAssumption
    <3> HIDE DEF L
    <3> QED BY <3>1, <3>2, <3>3 DEF TypeOK, ViewStateState
  <2>2. SeatedUser \in Users
    <3>1. profile \in Nat /\ seats \in Seq(Users) /\ profile = Len(seats) BY DEF TypeOK
    <3>2. profile # 0 OBVIOUS
    <3> QED BY <3>1, <3>2, ElementOfSeq DEF SeatedUser
  <2>3. deck' \in SUBSET Items BY <1>5, <2>2 DEF Reset, TypeOK
  <2>4. screen' \in [Items -> BOOLEAN] BY <1>5 DEF Reset, ServerSays
  <2> QED BY <1>5, <2>1, <2>3, <2>4 DEF Reset, TypeOK
<1>6. ASSUME NEW s \in Servers, RefreshToken(s) PROVE TypeInv'
  <2>1. token[s].user \in Users BY DEF TypeOK
  <2>2. token' \in [Servers -> [key : Nat, user : Users]]
    BY <1>2, <1>6, <2>1 DEF RefreshToken
  <2> QED BY <1>6, <2>2 DEF RefreshToken, TypeOK
<1> QED BY <1>1, <1>3, <1>4, <1>5, <1>6 DEF SwitchStep

\* What a worker's step changes: its own record, and at most one entry of the log.
LEMMA PerformType ==
    ASSUME TypeInv, NEW k \in Worker, NEW i \in Items, NEW taken \in BOOLEAN,
           Perform(k, i, taken)
    PROVE  /\ truth' \in [Users -> [watched : [Leaves -> BOOLEAN], deck : SUBSET Items]]
           /\ log' \in Seq(LogEntry)
<1> DEFINE u == token[ServerOf[i]].user
           e == [id |-> k.id, item |-> i, w |-> k.w, by |-> u, port |-> k.port,
                 origin |-> i = k.item, moved |-> token[ServerOf[i]].key # k.keys[ServerOf[i]]]
<1>1. TypeOK BY DEF TypeInv
<1>2. u \in Users BY <1>1, ViewStateAssumption DEF TypeOK
<1>3. e \in LogEntry BY <1>2 DEF LogEntry, Worker
<1>4. log \in Seq(LogEntry) BY <1>1 DEF TypeOK
<1>5. CASE taken
  <2>1. truth' = Applied(u, i, k.w) /\ log' = Append(log, e) BY <1>5 DEF Perform
  <2> HIDE DEF u, e
  <2> QED BY <1>1, <1>2, <1>3, <1>4, <2>1, AppliedType, AppendProperties
<1>6. CASE ~taken
  BY <1>1, <1>6 DEF Perform, TypeOK
<1> QED BY <1>5, <1>6

\* A worker's step keeps the types.
LEMMA WorkerType ==
    ASSUME TypeInv, NEW k \in workers, WorkerStep(k)
    PROVE  TypeInv'
<1>1. TypeOK /\ k \in Worker BY DEF TypeInv, TypeOK
<1>2. ASSUME NEW next \in Worker, Becomes(k, next), failed' \in Nat,
             truth' \in [Users -> [watched : [Leaves -> BOOLEAN], deck : SUBSET Items]],
             log' \in Seq(LogEntry)
      PROVE  TypeInv'
  BY <1>2 DEF Becomes, TypeInv, TypeOK
<1>3. ASSUME NEW ok \in BOOLEAN, NEW also \in Seq(Items), Post(k, ok, also), failed' \in Nat
      PROVE  TypeInv'
  <2>1. Written(k.id, ok, also) \in Completion
    BY <1>1 DEF Written, Completion, Worker
  <2>2. mail' \in {NoMail} \cup Completion
    BY <1>1, <1>3, <2>1 DEF Post, TypeOK
  <2> QED BY <1>3, <2>2 DEF Post, TypeInv, TypeOK
<1>4. \A ok \in BOOLEAN : Counted(ok) => failed' \in Nat
  BY <1>1 DEF Counted, TypeOK
<1>5. ASSUME NEW taken \in BOOLEAN, NEW ok \in BOOLEAN, WriteOrigin(k, taken, ok)
      PROVE  TypeInv'
  <2>1. k.item \in Items BY <1>1 DEF Worker
  <2>2. /\ truth' \in [Users -> [watched : [Leaves -> BOOLEAN], deck : SUBSET Items]]
        /\ log' \in Seq(LogEntry)
    BY <1>1, <1>5, <2>1, PerformType DEF WriteOrigin
  <2>3. [k EXCEPT !.pc = "fan_out", !.ok = ok] \in Worker
    BY <1>1 DEF Worker
  <2> QED BY <1>2, <1>4, <1>5, <2>2, <2>3 DEF WriteOrigin
<1>6. ASSUME NEW c \in k.todo, NEW taken \in BOOLEAN, NEW ok \in BOOLEAN, FanOut(k, c, taken, ok)
      PROVE  TypeInv'
  <2> DEFINE T == k.todo \ {c}
             A == IF ok THEN Append(k.also, c) ELSE k.also
             n == [k EXCEPT !.todo = T, !.also = A]
  <2>1. c \in Items BY <1>1 DEF Worker
  <2>2. /\ truth' \in [Users -> [watched : [Leaves -> BOOLEAN], deck : SUBSET Items]]
        /\ log' \in Seq(LogEntry) /\ failed' \in Nat
    <3>1. CASE token[ServerOf[c]].key = k.keys[ServerOf[c]]
      BY <1>1, <1>4, <1>6, <2>1, <3>1, PerformType DEF FanOut
    <3>2. CASE token[ServerOf[c]].key # k.keys[ServerOf[c]]
      BY <1>1, <1>6, <3>2 DEF FanOut, TypeOK
    <3> QED BY <3>1, <3>2
  <2>3. T \in SUBSET Items /\ A \in Seq(Items)
    BY <1>1, <2>1, AppendProperties DEF Worker
  <2>4. Becomes(k, n)
    BY <1>6 DEF FanOut
  <2>5. n \in Worker
    <3> HIDE DEF T, A
    <3> QED BY <1>1, <2>3 DEF Worker
  <2> HIDE DEF n
  <2> QED BY <1>2, <2>2, <2>4, <2>5
<1>7. ASSUME Finish(k) PROVE TypeInv'
  <2>1. k.ok \in BOOLEAN /\ k.also \in Seq(Items) BY <1>1 DEF Worker
  <2>2. failed' \in Nat BY <1>1, <1>7 DEF Finish, TypeOK
  <2> QED BY <1>3, <1>7, <2>1, <2>2 DEF Finish
<1>8. ASSUME Panic(k) PROVE TypeInv'
  <2>1. <<>> \in Seq(Items) /\ FALSE \in BOOLEAN OBVIOUS
  <2>2. failed' \in Nat BY <1>1, <1>8 DEF Panic, TypeOK
  <2> QED BY <1>3, <1>8, <2>1, <2>2 DEF Panic
<1> QED BY <1>5, <1>6, <1>7, <1>8 DEF WorkerStep

\* The initial state has the types.
LEMMA InitType == vsInit => TypeInv
<1> SUFFICES ASSUME vsInit PROVE TypeInv
  OBVIOUS
<1> DEFINE L == EmptyLedger
<1>1. L \in Ledger BY DEF EmptyLedger, Ledger
<1>2. /\ 0 \in 0..RetryFrames /\ <<>> \in Seq(Req) /\ <<>> \in Seq(LogEntry)
      /\ Leaves \in SUBSET Items
  BY ViewStateAssumption DEF Leaves
<1>3. vs \in ViewStateState
  <2> HIDE DEF L
  <2>1. vs = [ledger |-> L, queue |-> <<>>, sent |-> NoReq, retry_cd |-> 0,
              want_hubs |-> FALSE, want_reread |-> {}, next_id |-> 1, hold_refresh |-> FALSE]
    BY DEF vsInit, L
  <2> QED BY <1>1, <1>2, <2>1 DEF ViewStateState
<1>4. PICK u \in Users : token = [s \in Servers |-> [key |-> 1, user |-> u]] /\ seats = <<u>>
  BY DEF vsInit
<1>5. seats \in Seq(Users) /\ Len(seats) = 1 BY <1>4
<1>6. token \in [Servers -> [key : Nat, user : Users]] BY <1>4
<1>7. truth \in [Users -> [watched : [Leaves -> BOOLEAN], deck : SUBSET Items]]
  BY <1>2 DEF vsInit
<1>8. screen \in [Items -> BOOLEAN] /\ deck \in SUBSET Items BY <1>2 DEF vsInit
<1> QED BY <1>2, <1>3, <1>5, <1>6, <1>7, <1>8 DEF vsInit, TypeInv, TypeOK

\* Every step keeps the types.
LEMMA NextType == TypeInv /\ [Next]_vsVars => TypeInv'
<1> SUFFICES ASSUME TypeInv, [Next]_vsVars PROVE TypeInv'
  OBVIOUS
<1>1. CASE UNCHANGED vsVars
  BY <1>1 DEF vsVars, TypeInv, TypeOK
<1>2. ASSUME NEW i \in Pressable, NEW w \in Writes, Press(i, w) PROVE TypeInv'
  BY <1>2, PressType
<1>3. ASSUME NEW i \in Items, EndOfStream(i) PROVE TypeInv'
  BY <1>3, EndOfStreamType
<1>4. CASE ViewStatePump
  BY <1>4, PumpType
<1>5. CASE (\E on \in Routes : HoldNetwork(on)) \/ SwitchStep \/ (\E s \in Servers : RefreshToken(s))
  BY <1>5, SwitchType
<1>6. ASSUME NEW k \in workers, WorkerStep(k) PROVE TypeInv'
  BY <1>6, WorkerType
<1> QED BY <1>1, <1>2, <1>3, <1>4, <1>5, <1>6 DEF Next

\* The store, its mailbox, its workers and what the servers hold have the types
\* of the code in every reachable state, for any library, roster and household.
THEOREM TypeCorrect == Spec => []TypeOK
<1>1. TypeInv => TypeOK BY DEF TypeInv
<1> QED BY <1>1, InitType, NextType, PTL DEF Spec

------------------------------------------------------------------------------
(* Order: the queue operations keep Serial, and everything behind.          *)

\* What x may be after v: still serial, with nothing newer put behind, and with a
\* write newly out only if none was and it is newer than everything behind it.
Forward(v, x) ==
    /\ Serial(x)
    /\ \A n \in Nat : Behind(n, v) => Behind(n, x)
    /\ \/ x.sent = v.sent
       \/ /\ v.sent = NoReq /\ x.sent \in Req /\ x.sent.id > 0
          /\ \A n \in Nat : Behind(n, v) => n < x.sent.id

\* kick moves forward.
LEMMA KickForward ==
    ASSUME NEW v \in ViewStateState, Serial(v)
    PROVE  Forward(v, Kick(v))
<1> DEFINE x == Kick(v)
<1>1. CASE x = v
  BY <1>1 DEF Forward
<1>2. CASE x # v
  <2> DEFINE q == v.queue
  <2>1. x \in ViewStateState /\ x.next_id = v.next_id /\ v.sent = NoReq
    BY <1>2, KickType
  <2>2. PICK n \in 1..(Len(q) + 1) :
             /\ x.queue = SubSeq(q, n + 1, Len(q))
             /\ (n \in DOMAIN q /\ x.sent = q[n]) \/ x.sent = NoReq
    BY <1>2, KickType
  <2>3. /\ q \in Seq(Req) /\ DOMAIN q = 1..Len(q) /\ Len(q) \in Nat
        /\ \A i \in DOMAIN q : q[i] \in Req /\ q[i].id \in Nat
    <3>1. q \in Seq(Req) BY DEF ViewStateState
    <3>2. \A r \in Req : r.id \in Nat BY DEF Req
    <3> HIDE DEF q
    <3> QED BY <3>1, <3>2, LenProperties
  <2>4. /\ DOMAIN x.queue = 1..Len(x.queue)
        /\ \A i \in DOMAIN x.queue : i + n \in DOMAIN q /\ x.queue[i] = q[i + n]
    <3>1. \A i \in (n + 1)..Len(q) : q[i] \in Req BY <2>2, <2>3
    <3>2. /\ x.queue \in Seq(Req)
          /\ Len(x.queue) = IF n + 1 <= Len(q) THEN Len(q) - (n + 1) + 1 ELSE 0
          /\ \A i \in 1..(Len(q) - (n + 1) + 1) : x.queue[i] = q[n + 1 + i - 1]
      <4>1. n + 1 \in Int /\ Len(q) \in Int BY <2>2, <2>3
      <4> HIDE DEF q
      <4> QED BY <2>2, <3>1, <4>1, SubSeqProperties
    <3>3. DOMAIN x.queue = 1..Len(x.queue) BY <3>2, LenProperties
    <3> QED BY <2>2, <2>3, <3>2, <3>3
  <2>5. \A i \in DOMAIN q : 0 < q[i].id /\ q[i].id < v.next_id
    BY DEF Serial
  <2>6. \A i, j \in DOMAIN q : i < j => q[i].id < q[j].id
    BY DEF Serial
  <2>7. /\ \A i \in DOMAIN x.queue : 0 < x.queue[i].id /\ x.queue[i].id < x.next_id
        /\ \A i, j \in DOMAIN x.queue : i < j => x.queue[i].id < x.queue[j].id
    <3>1. \A i, j \in DOMAIN x.queue : i < j => i + n < j + n BY <2>2, <2>4
    <3> QED BY <2>1, <2>4, <2>5, <2>6, <3>1
  <2>8. x.sent # NoReq => /\ x.sent \in Req /\ 0 < x.sent.id /\ x.sent.id < x.next_id
                          /\ \A j \in DOMAIN x.queue : x.sent.id < x.queue[j].id
    <3>1. \A j \in DOMAIN x.queue : n < j + n BY <2>2, <2>4
    <3> QED BY <2>1, <2>2, <2>3, <2>4, <2>5, <2>6, <3>1
  <2>9. Serial(x)
    BY <2>7, <2>8 DEF Serial
  <2>10. \A k \in Nat : Behind(k, v) => Behind(k, x)
    BY <2>1, <2>4 DEF Behind
  <2>11. x.sent # NoReq => \A k \in Nat : Behind(k, v) => k < x.sent.id
    BY <2>2 DEF Behind
  <2>12. x.sent = NoReq => x.sent = v.sent
    BY <2>1
  <2> QED BY <2>1, <2>8, <2>9, <2>10, <2>11, <2>12 DEF Forward
<1> QED BY <1>1, <1>2

\* A fresh identity behind a part of the queue, in its order, keeps Serial and
\* what is behind.
LEMMA AppendSerial ==
    ASSUME NEW v \in ViewStateState, Serial(v), NEW x \in ViewStateState,
           NEW c \in Seq(Req), NEW f \in [DOMAIN c -> DOMAIN v.queue],
           \A i, j \in DOMAIN c : i < j => f[i] < f[j],
           \A i \in DOMAIN c : c[i] = v.queue[f[i]],
           NEW r \in Req, r.id = v.next_id,
           x.queue = Append(c, r), x.sent = v.sent,
           x.next_id = v.next_id + 1
    PROVE  Serial(x) /\ \A n \in Nat : Behind(n, v) => Behind(n, x)
<1> DEFINE q == v.queue
<1>1. q \in Seq(Req) /\ v.next_id \in Nat /\ v.next_id > 0 BY DEF ViewStateState
<1>2. /\ \A i, j \in DOMAIN c : i < j => f[i] < f[j]
      /\ \A i \in DOMAIN c : f[i] \in DOMAIN q /\ c[i] = q[f[i]]
  OBVIOUS
<1>4. DOMAIN c = 1..Len(c) /\ Len(c) \in Nat BY LenProperties
<1>5. /\ x.queue \in Seq(Req) /\ Len(x.queue) = Len(c) + 1
      /\ \A i \in 1..Len(c) : x.queue[i] = c[i]
      /\ x.queue[Len(c) + 1] = r
  BY AppendProperties
<1>6. DOMAIN x.queue = 1..(Len(c) + 1) BY <1>5, LenProperties
<1>7. \A i \in DOMAIN q : q[i] \in Req /\ q[i].id \in Nat
  <2>1. \A s \in Req : s.id \in Nat BY DEF Req
  <2> HIDE DEF q
  <2> QED BY <1>1, <2>1, LenProperties
<1>8. \A i \in DOMAIN x.queue :
         \/ i \in DOMAIN c /\ f[i] \in DOMAIN q /\ x.queue[i] = q[f[i]]
         \/ i = Len(c) + 1 /\ x.queue[i] = r
  BY <1>2, <1>4, <1>5, <1>6
<1>9. \A i \in DOMAIN q : 0 < q[i].id /\ q[i].id < v.next_id
  BY DEF Serial
<1>10. \A i, j \in DOMAIN q : i < j => q[i].id < q[j].id
  BY DEF Serial
<1>11. \A i \in DOMAIN x.queue : 0 < x.queue[i].id /\ x.queue[i].id < x.next_id
  BY <1>1, <1>7, <1>8, <1>9
<1>12. ASSUME NEW i \in DOMAIN x.queue, NEW j \in DOMAIN x.queue, i < j
       PROVE  x.queue[i].id < x.queue[j].id
  <2>1. i \in DOMAIN c BY <1>4, <1>6, <1>12
  <2>2. f[i] \in DOMAIN q /\ x.queue[i] = q[f[i]] BY <1>2, <1>4, <1>5, <2>1
  <2>3. CASE j \in DOMAIN c
    <3>1. f[j] \in DOMAIN q /\ x.queue[j] = q[f[j]] /\ f[i] < f[j]
      BY <1>2, <1>4, <1>5, <1>12, <2>1, <2>3
    <3> QED BY <1>10, <2>2, <3>1
  <2>4. CASE j \notin DOMAIN c
    <3>1. x.queue[j].id = v.next_id BY <1>8, <2>4
    <3> QED BY <1>9, <2>2, <3>1
  <2> QED BY <2>3, <2>4
<1>13. x.sent # NoReq => /\ 0 < x.sent.id /\ x.sent.id < x.next_id
                         /\ \A j \in DOMAIN x.queue : x.sent.id < x.queue[j].id
  <2> SUFFICES ASSUME x.sent # NoReq
               PROVE  /\ 0 < x.sent.id /\ x.sent.id < x.next_id
                      /\ \A j \in DOMAIN x.queue : x.sent.id < x.queue[j].id
    OBVIOUS
  <2>1. /\ 0 < v.sent.id /\ v.sent.id < v.next_id
        /\ \A j \in DOMAIN q : v.sent.id < q[j].id
    BY DEF Serial
  <2>2. v.sent.id \in Nat BY DEF ViewStateState, Req
  <2> QED BY <1>1, <1>8, <2>1, <2>2
<1>14. Serial(x) BY <1>11, <1>12, <1>13 DEF Serial
<1>15. \A n \in Nat : Behind(n, v) => Behind(n, x)
  BY <1>1, <1>8 DEF Behind
<1> QED BY <1>14, <1>15

\* Forward, through a step that only appended, is forward.
LEMMA ForwardVia ==
    ASSUME NEW v, NEW w, NEW x, w.sent = v.sent, Forward(w, x),
           \A n \in Nat : Behind(n, v) => Behind(n, w)
    PROVE  Forward(v, x)
BY DEF Forward

\* A press goes behind everything.
LEMMA PressedSerial ==
    ASSUME TypeOK, Serial(vs), NEW i \in Items, NEW w \in AllWrites
    PROVE  LET x == Pressed(vs, i, w)
           IN  /\ Serial(x) /\ x.sent = vs.sent
               /\ \A n \in Nat : Behind(n, vs) => Behind(n, x)
<1> DEFINE x == Pressed(vs, i, w)
           K == {k \in DOMAIN vs.queue :
                    ~(vs.queue[k].item = i /\ Family(vs.queue[k].w) = Family(w))}
           c == Kept(vs.queue, K)
           r == [id |-> vs.next_id, seq |-> RecordedSeq(vs.ledger), item |-> i,
                 key |-> token[ServerOf[i]].key, profile |-> profile, w |-> w,
                 scope |-> ScopeOf[i], origin_done |-> FALSE]
<1>1. Request(vs, i, w) = Kick(x) /\ x \in ViewStateState
  BY PressedType
<1>2. vs \in ViewStateState /\ vs.queue \in Seq(Req)
  BY DEF TypeOK, ViewStateState
<1>3. /\ c \in Seq(Req)
      /\ \E f \in [DOMAIN c -> K] : /\ \A m, n \in DOMAIN c : m < n => f[m] < f[n]
                                    /\ \A m \in DOMAIN c : c[m] = vs.queue[f[m]]
  <2>1. K \in SUBSET DOMAIN vs.queue OBVIOUS
  <2> HIDE DEF K
  <2> QED BY <1>2, <2>1, KeptInOrder
<1>4. PICK f \in [DOMAIN c -> DOMAIN vs.queue] :
          /\ \A m, n \in DOMAIN c : m < n => f[m] < f[n]
          /\ \A m \in DOMAIN c : c[m] = vs.queue[f[m]]
  <2>1. \A f \in [DOMAIN c -> K] : f \in [DOMAIN c -> DOMAIN vs.queue]
    OBVIOUS
  <2> HIDE DEF c, K
  <2> QED BY <1>3, <2>1
<1>5. x.queue = Append(c, r) /\ x.sent = vs.sent /\ x.next_id = vs.next_id + 1
  BY <1>2 DEF Pressed, Coalesce, ViewStateState
<1>6. r.id = vs.next_id
  OBVIOUS
<1>7. r \in Req
  <2>1. RecordedSeq(vs.ledger) \in Nat BY <1>2 DEF RecordedSeq, ViewStateState, Ledger
  <2>2. token[ServerOf[i]].key \in Nat /\ profile \in Nat /\ vs.next_id \in Nat
    BY ViewStateAssumption DEF TypeOK, ViewStateState
  <2> QED BY <2>1, <2>2, ViewStateAssumption DEF Req
<1> HIDE DEF x, c, r, K
<1>8. Serial(x) /\ \A n \in Nat : Behind(n, vs) => Behind(n, x)
  BY <1>1, <1>2, <1>3, <1>4, <1>5, <1>6, <1>7, AppendSerial
<1> QED BY <1>5, <1>8 DEF x

\* A press moves forward.
LEMMA PressForward ==
    ASSUME TypeOK, Serial(vs), NEW i \in Items, NEW w \in AllWrites
    PROVE  Forward(vs, Request(vs, i, w)) /\ Request(vs, i, w) \in ViewStateState
<1>1. PICK x : x = Pressed(vs, i, w) OBVIOUS
<1>2. Request(vs, i, w) = Kick(x) /\ x \in ViewStateState
  BY <1>1, PressedType
<1>3. Serial(x) /\ x.sent = vs.sent /\ \A n \in Nat : Behind(n, vs) => Behind(n, x)
  BY <1>1, PressedSerial
<1>4. Forward(x, Kick(x)) /\ Kick(x) \in ViewStateState
  BY <1>2, <1>3, KickForward, KickType
<1> QED BY <1>2, <1>3, <1>4, ForwardVia

\* The request a stream's end makes goes behind everything.
LEMMA StreamEndedSerial ==
    ASSUME TypeOK, NEW v \in ViewStateState, Serial(v), NEW i \in Items
    PROVE  LET x == StreamEnded(v, i)
           IN  /\ Serial(x) /\ x.sent = v.sent
               /\ \A n \in Nat : Behind(n, v) => Behind(n, x)
<1> DEFINE x == StreamEnded(v, i)
           r == [id |-> v.next_id, seq |-> 0, item |-> i,
                 key |-> token[ServerOf[i]].key, profile |-> profile,
                 w |-> "Watched", scope |-> "Leaf", origin_done |-> TRUE]
           f == [m \in DOMAIN v.queue |-> m]
<1>1. /\ FanOutOriginWatched(v, i) = v \/ FanOutOriginWatched(v, i) = Kick(x)
      /\ x \in ViewStateState
  BY StreamEndedType
<1>2. v \in ViewStateState /\ v.queue \in Seq(Req)
  BY DEF TypeOK, ViewStateState
<1>3. x.queue = Append(v.queue, r) /\ x.sent = v.sent /\ x.next_id = v.next_id + 1
  BY <1>2 DEF StreamEnded, ViewStateState
<1>4. r \in Req /\ r.id = v.next_id
  <2>1. token[ServerOf[i]].key \in Nat /\ profile \in Nat /\ v.next_id \in Nat
    BY ViewStateAssumption DEF TypeOK, ViewStateState
  <2> QED BY <2>1 DEF Req, AllWrites, Scopes
<1>5. /\ f \in [DOMAIN v.queue -> DOMAIN v.queue]
      /\ \A m, n \in DOMAIN v.queue : m < n => f[m] < f[n]
      /\ \A m \in DOMAIN v.queue : v.queue[m] = v.queue[f[m]]
  OBVIOUS
<1> HIDE DEF x, r, f
<1>6. Serial(x) /\ \A n \in Nat : Behind(n, v) => Behind(n, x)
  BY <1>1, <1>2, <1>3, <1>4, <1>5, AppendSerial
<1> QED BY <1>3, <1>6 DEF x

\* It moves forward.
LEMMA StreamEndForward ==
    ASSUME TypeOK, NEW v \in ViewStateState, Serial(v), NEW i \in Items
    PROVE  /\ Forward(v, FanOutOriginWatched(v, i))
           /\ FanOutOriginWatched(v, i) \in ViewStateState
<1>1. PICK x : x = StreamEnded(v, i) OBVIOUS
<1>2. /\ FanOutOriginWatched(v, i) = v \/ FanOutOriginWatched(v, i) = Kick(x)
      /\ x \in ViewStateState
  BY <1>1, StreamEndedType
<1>3. Serial(x) /\ x.sent = v.sent /\ \A n \in Nat : Behind(n, v) => Behind(n, x)
  BY <1>1, StreamEndedSerial
<1>4. Forward(x, Kick(x)) /\ Kick(x) \in ViewStateState
  BY <1>2, <1>3, KickForward, KickType
<1>5. Forward(v, Kick(x))
  BY <1>3, <1>4, ForwardVia
<1>6. Forward(v, v)
  BY DEF Forward
<1> QED BY <1>2, <1>4, <1>5, <1>6

\* Only the queue, the write that is out and the counter decide Serial and Behind.
LEMMA SameOrder ==
    ASSUME NEW v, NEW x, x.queue = v.queue, x.sent = v.sent, x.next_id = v.next_id
    PROVE  /\ Serial(v) => Serial(x)
           /\ \A n \in Nat : Behind(n, v) => Behind(n, x)
BY DEF Serial, Behind

\* A refused launch put back at the head is older than all that waits.
LEMMA RestartSerial ==
    ASSUME NEW v \in ViewStateState, Serial(v), v.sent \in Req
    PROVE  /\ Serial(RestartRefused(v))
           /\ \A n \in Nat : Behind(n, v) /\ n < v.sent.id => Behind(n, RestartRefused(v))
<1> DEFINE x == RestartRefused(v)
           q == v.queue
<1>1. x \in ViewStateState /\ x.sent = NoReq /\ x.next_id = v.next_id
  BY RestartType
<1>2. q \in Seq(Req) /\ DOMAIN q = 1..Len(q) /\ Len(q) \in Nat /\ v.sent.id \in Nat
  <2>1. q \in Seq(Req) /\ v.sent.id \in Nat BY DEF ViewStateState, Req
  <2> HIDE DEF q
  <2> QED BY <2>1, LenProperties
<1>3. v.sent # NoReq
  <2>1. v.sent = NoReq => DOMAIN v.sent = {"id"} BY DEF NoReq
  <2>2. "seq" \in DOMAIN v.sent BY DEF Req
  <2> QED BY <2>1, <2>2
<1>4. /\ 0 < v.sent.id /\ v.sent.id < v.next_id
      /\ \A j \in DOMAIN q : v.sent.id < q[j].id
      /\ \A j \in DOMAIN q : 0 < q[j].id /\ q[j].id < v.next_id
      /\ \A i, j \in DOMAIN q : i < j => q[i].id < q[j].id
  BY <1>3 DEF Serial
<1>5. CASE x.queue = q
  BY <1>1, <1>4, <1>5 DEF Serial, Behind
<1>6. CASE x.queue = <<v.sent>> \o q
  <2>1. <<v.sent>> \in Seq(Req) /\ Len(<<v.sent>>) = 1 /\ <<v.sent>>[1] = v.sent
    OBVIOUS
  <2>2. /\ x.queue \in Seq(Req) /\ Len(x.queue) = Len(q) + 1
        /\ \A i \in 1..(Len(q) + 1) : x.queue[i] = IF i <= 1 THEN <<v.sent>>[i] ELSE q[i - 1]
    <3> HIDE DEF x, q
    <3>1. /\ <<v.sent>> \o q \in Seq(Req)
          /\ Len(<<v.sent>> \o q) = Len(<<v.sent>>) + Len(q)
          /\ \A i \in 1..(Len(<<v.sent>>) + Len(q)) : (<<v.sent>> \o q)[i] =
                IF i <= Len(<<v.sent>>) THEN <<v.sent>>[i] ELSE q[i - Len(<<v.sent>>)]
      BY <1>2, <2>1, ConcatProperties
    <3> QED BY <1>2, <1>6, <2>1, <3>1
  <2>3. DOMAIN x.queue = 1..(Len(q) + 1)
    BY <2>2, LenProperties
  <2>4. /\ x.queue[1] = v.sent
        /\ \A i \in DOMAIN x.queue : i # 1 => i - 1 \in DOMAIN q /\ x.queue[i] = q[i - 1]
    BY <1>2, <2>1, <2>2, <2>3
  <2>5. \A i \in DOMAIN x.queue : 0 < x.queue[i].id /\ x.queue[i].id < x.next_id
    BY <1>1, <1>4, <2>4
  <2>6. \A i, j \in DOMAIN x.queue : i < j => x.queue[i].id < x.queue[j].id
    <3> SUFFICES ASSUME NEW i \in DOMAIN x.queue, NEW j \in DOMAIN x.queue, i < j
                 PROVE  x.queue[i].id < x.queue[j].id
      OBVIOUS
    <3>1. j # 1 /\ j - 1 \in DOMAIN q /\ x.queue[j] = q[j - 1] BY <1>2, <2>3, <2>4
    <3>2. CASE i = 1 BY <1>4, <2>4, <3>1, <3>2
    <3>3. CASE i # 1
      <4>1. i - 1 \in DOMAIN q /\ x.queue[i] = q[i - 1] /\ i - 1 < j - 1
        BY <1>2, <2>3, <2>4, <3>3
      <4> QED BY <1>4, <3>1, <4>1
    <3> QED BY <3>2, <3>3
  <2>7. Serial(x) BY <1>1, <2>5, <2>6 DEF Serial
  <2>8. \A n \in Nat : Behind(n, v) /\ n < v.sent.id => Behind(n, x)
    BY <1>1, <2>4 DEF Behind
  <2> QED BY <2>7, <2>8
<1> QED BY <1>5, <1>6, RestartType

------------------------------------------------------------------------------
(* Order: the steps keep OneWriteOut.                                       *)

\* The facts about the workers and the log that a change of the store must keep.
Followed(v) ==
    /\ \A k \in workers : WorkerInv(k, v) /\ TodoInv(k)
    /\ \A k, l \in workers : k.port = l.port \/ k.id = l.id => k = l
    /\ LogInv(v)

\* Moving forward keeps them, as long as nothing was newly sent.
LEMMA ForwardFollowed ==
    ASSUME TypeOK, NEW v, NEW x, Followed(v),
           \A n \in Nat : Behind(n, v) => Behind(n, x), x.sent = v.sent
    PROVE  Followed(x)
<1>1. \A k \in workers : k.id \in Nat
  BY DEF TypeOK, Worker
<1>2. \A m \in DOMAIN log : log[m].id \in Nat
  <2>1. log \in Seq(LogEntry) BY DEF TypeOK
  <2>2. \A e \in LogEntry : e.id \in Nat BY DEF LogEntry
  <2> QED BY <2>1, <2>2, LenProperties
<1>3. ASSUME NEW k \in workers PROVE WorkerInv(k, x)
  BY <1>1 DEF Followed, WorkerInv
<1>4. LogInv(x)
  BY <1>2 DEF Followed, LogInv
<1> QED BY <1>3, <1>4 DEF Followed

\* A main-thread step from v, what the landing left, to `after`, what kick made of
\* it, with the job it emitted started or refused, keeps OneWriteOut.
LEMMA JobStep ==
    ASSUME TypeOK, NEW before, NEW v \in ViewStateState, NEW after \in ViewStateState,
           NEW posted \in {NoMail} \cup Completion,
           Serial(v), Followed(v), Forward(v, after),
           v.sent = before.sent \/ v.sent = NoReq,
           after.sent = v.sent \/ after.sent.id # before.sent.id,
           posted # NoMail =>
              /\ v.sent # NoReq /\ posted.id = v.sent.id
              /\ \A k \in workers : k.port # adapter
              /\ posted.outcome = "NotStarted" => \A m \in DOMAIN log : log[m].id < posted.id,
           StartJobs(before, after, posted),
           vs'.queue = after.queue, vs'.sent = after.sent, vs'.next_id = after.next_id,
           adapter' = adapter, log' = log
    PROVE  OneWriteOut'
<1> DEFINE x == vs'
<1>1. \A n \in Nat : Behind(n, after) => Behind(n, x)
  BY SameOrder
<1>2. Serial(x)
  BY SameOrder DEF Forward
<1>3. \A k \in workers : k.id \in Nat /\ k.port \in Nat
  BY DEF TypeOK, Worker
<1>4. \A m \in DOMAIN log : log[m].id \in Nat
  <2>1. log \in Seq(LogEntry) BY DEF TypeOK
  <2>2. \A e \in LogEntry : e.id \in Nat BY DEF LogEntry
  <2> QED BY <2>1, <2>2, LenProperties
<1>5. \A n \in Nat : Behind(n, v) => Behind(n, x)
  BY <1>1 DEF Forward
<1>6. CASE after.sent = v.sent
  <2>1. ~Emitted(before, after)
    BY <1>6 DEF Emitted
  <2>2. workers' = workers /\ mail' = posted
    BY <2>1 DEF StartJobs
  <2>3. Followed(x)
    BY <1>5, <1>6, ForwardFollowed
  <2>4. MailInv'
    BY <1>6, <2>2 DEF MailInv
  <2>5. (\A k \in workers : WorkerInv(k, vs) /\ TodoInv(k))'
    BY <2>2, <2>3 DEF Followed, WorkerInv, TodoInv, Behind
  <2>6. LogInv(vs)'
    BY <2>3 DEF Followed, LogInv, Behind
  <2>7. (\A k, l \in workers : k.port = l.port \/ k.id = l.id => k = l)'
    BY <2>2 DEF Followed
  <2>8. Serial(vs)'
    BY <1>2 DEF Serial
  <2> QED BY <2>4, <2>5, <2>6, <2>7, <2>8 DEF OneWriteOut
<1>7. CASE after.sent # v.sent
  <2> DEFINE r == after.sent
  <2>1. /\ v.sent = NoReq /\ r \in Req /\ r.id > 0 /\ r.id \in Nat /\ r # NoReq
        /\ \A n \in Nat : Behind(n, v) => n < r.id
    BY <1>7 DEF Forward, Req
  <2>2. posted = NoMail
    BY <2>1
  <2>3. Emitted(before, after)
    BY <1>7, <2>1 DEF Emitted
  <2>4. ASSUME NEW k \in workers PROVE k.port # adapter /\ k.id < r.id /\ Behind(k.id, x)
    BY <1>3, <1>5, <2>1, <2>4 DEF Followed, WorkerInv
  <2>5. ASSUME NEW m \in DOMAIN log PROVE log[m].id < r.id /\ Behind(log[m].id, x)
    BY <1>4, <1>5, <2>1, <2>5 DEF Followed, LogInv
  <2>6. x.sent = r /\ x.sent # NoReq
    BY <2>1
  <2>7. LogInv(vs)'
    <3>1. \A m \in DOMAIN log : 0 < log[m].id BY DEF Followed, LogInv
    <3>2. \A m \in DOMAIN log : log[m].id <= r.id BY <1>4, <2>1, <2>5
    <3> HIDE DEF r
    <3> QED BY <2>5, <2>6, <3>1, <3>2 DEF LogInv, Behind
  <2>8. Serial(vs)'
    BY <1>2 DEF Serial
  <2>9. ASSUME NEW k \in workers PROVE WorkerInv(k, vs)' /\ TodoInv(k)'
    BY <2>4, <2>6, <1>3 DEF Followed, WorkerInv, TodoInv, Behind
  <2>10. CASE workers' = workers \cup {NewWorker(r)} /\ mail' = posted
    <3>0. PICK k0 : k0 = NewWorker(r)
      OBVIOUS
    <3>1. k0.id = r.id /\ k0.port = adapter /\ k0.item = r.item /\ k0.item \notin k0.todo
      BY <3>0 DEF NewWorker, Copies
    <3>2. WorkerInv(k0, vs)'
      <4>1. Behind(r.id, x)
        BY <1>2, <2>6 DEF Serial, Behind
      <4>2. adapter \in Nat BY DEF TypeOK
      <4> QED BY <2>1, <2>6, <3>1, <4>1, <4>2 DEF WorkerInv, Behind
    <3>3. TodoInv(k0)'
      <4>1. \A m \in DOMAIN log : log[m].id # k0.id /\ log[m].id <= k0.id
        BY <1>4, <2>1, <2>5, <3>1
      <4> QED BY <3>1, <4>1 DEF TodoInv
    <3>4. \A k, l \in workers' : k.port = l.port \/ k.id = l.id => k = l
      <4>1. \A k \in workers : k.port # k0.port /\ k.id # k0.id
        BY <1>3, <2>1, <2>4, <3>1
      <4>2. workers' = workers \cup {k0} BY <2>10, <3>0
      <4> QED BY <4>1, <4>2 DEF Followed
    <3>5. MailInv'
      BY <2>2, <2>10 DEF MailInv
    <3>6. workers' = workers \cup {k0} BY <2>10, <3>0
    <3>7. \A k \in workers' : WorkerInv(k, vs)' /\ TodoInv(k)'
      BY <2>9, <3>2, <3>3, <3>6
    <3> QED BY <2>7, <2>8, <3>4, <3>5, <3>7 DEF OneWriteOut
  <2>11. CASE workers' = workers /\ mail' = NotStarted(r.id)
    <3>1. MailInv'
      BY <2>4, <2>5, <2>6, <2>11 DEF MailInv, NotStarted
    <3>2. (\A k, l \in workers : k.port = l.port \/ k.id = l.id => k = l)'
      BY <2>11 DEF Followed
    <3>3. \A k \in workers' : WorkerInv(k, vs)' /\ TodoInv(k)'
      BY <2>9, <2>11
    <3> QED BY <2>7, <2>8, <3>1, <3>2, <3>3 DEF OneWriteOut
  <2> QED BY <2>3, <2>10, <2>11 DEF StartJobs
<1> QED BY <1>6, <1>7

\* A press keeps OneWriteOut.
LEMMA PressOne ==
    ASSUME TypeOK, OneWriteOut, NEW i \in Items, NEW w \in AllWrites, Press(i, w)
    PROVE  OneWriteOut'
<1> DEFINE x == Request(vs, i, w)
<1>1. Serial(vs) /\ Followed(vs) /\ MailInv
  BY DEF OneWriteOut, Followed
<1>2. x \in ViewStateState /\ Forward(vs, x)
  BY <1>1, PressForward
<1>3. /\ vs' = x /\ StartJobs(vs, x, mail) /\ adapter' = adapter /\ log' = log
  BY DEF Press
<1> HIDE DEF x
<1>4. x.sent = vs.sent \/ x.sent.id # vs.sent.id
  BY <1>2 DEF Forward, NoReq
<1>5. vs \in ViewStateState /\ mail \in {NoMail} \cup Completion
  BY DEF TypeOK
<1> QED BY <1>1, <1>2, <1>3, <1>4, <1>5, JobStep DEF MailInv

\* So does the request of a stream's end.
LEMMA EndOfStreamOne ==
    ASSUME TypeOK, OneWriteOut, NEW i \in Items, EndOfStream(i)
    PROVE  OneWriteOut'
<1> DEFINE x == FanOutOriginWatched(vs, i)
<1>1. Serial(vs) /\ Followed(vs) /\ MailInv
  BY DEF OneWriteOut, Followed
<1>2. x \in ViewStateState /\ Forward(vs, x)
  <2>1. vs \in ViewStateState BY DEF TypeOK
  <2> QED BY <1>1, <2>1, StreamEndForward
<1>3. /\ vs' = x /\ StartJobs(vs, x, mail) /\ adapter' = adapter /\ log' = log
  BY DEF EndOfStream
<1> HIDE DEF x
<1>4. x.sent = vs.sent \/ x.sent.id # vs.sent.id
  BY <1>2 DEF Forward, NoReq
<1>5. vs \in ViewStateState /\ mail \in {NoMail} \cup Completion
  BY DEF TypeOK
<1> QED BY <1>1, <1>2, <1>3, <1>4, <1>5, JobStep DEF MailInv

\* An answer takes the write that is out off the sequence: what is left is behind
\* it, unless the write goes back to the head to wait.
LEMMA LandOne ==
    ASSUME TypeOK, OneWriteOut, NEW v, v = Land(RetryTick(vs))
    PROVE  /\ Serial(v) /\ Followed(v)
           /\ v.sent = vs.sent \/ v.sent = NoReq
           /\ ~Answers => v.sent = vs.sent
           /\ Answers => v.retry_cd > 0 \/ Behind(vs.sent.id, v)
<1> DEFINE t == RetryTick(vs)
<1>1. vs \in ViewStateState /\ Serial(vs) /\ Followed(vs) /\ MailInv
  BY DEF OneWriteOut, Followed, TypeOK
<1>2. /\ t \in ViewStateState /\ t.sent = vs.sent /\ t.queue = vs.queue
      /\ t.next_id = vs.next_id
  <2>1. t \in ViewStateState BY <1>1, RetryTickType
  <2> QED BY <1>1, <2>1 DEF RetryTick, ViewStateState
<1> HIDE DEF t
<1>3. Serial(t) /\ (\A n \in Nat : Behind(n, vs) => Behind(n, t))
  BY <1>1, <1>2, SameOrder
<1>4. Followed(t)
  BY <1>1, <1>2, <1>3, ForwardFollowed
<1>5. CASE ~Answers
  <2>1. v = t BY <1>5 DEF Land, t
  <2> QED BY <1>2, <1>3, <1>4, <1>5, <2>1
<1>6. CASE Answers
  <2>1. vs.sent \in Req /\ mail \in Completion /\ mail # NoMail /\ vs.sent # NoReq
    BY <1>6, PumpedType DEF Answers
  <2>2. vs.sent.id \in Nat BY <2>1 DEF Req
  <2>3. \A k \in workers : k.port # adapter /\ k.id \in Nat
    BY <1>1, <2>1 DEF MailInv, TypeOK, Worker
  <2>4. \A k \in workers : k.id < vs.sent.id /\ Behind(k.id, t)
    BY <1>2, <1>4, <2>1, <2>3 DEF Followed, WorkerInv
  <2>5. \A m \in DOMAIN log : log[m].id \in Nat
    <3>1. log \in Seq(LogEntry) BY DEF TypeOK
    <3>2. \A e \in LogEntry : e.id \in Nat BY DEF LogEntry
    <3> QED BY <3>1, <3>2, LenProperties
  <2>6. Behind(vs.sent.id, t)
    BY <1>2, <1>3, <2>1 DEF Serial, Behind
  <2>7. ASSUME v.sent = NoReq, \A k \in workers : Behind(k.id, v),
               \A m \in DOMAIN log : Behind(log[m].id, v)
        PROVE  Followed(v)
    <3>1. \A k \in workers : WorkerInv(k, v) BY <1>1, <2>3, <2>7 DEF Followed, WorkerInv
    <3>2. LogInv(v) BY <1>1, <2>7 DEF Followed, LogInv
    <3> QED BY <1>1, <3>1, <3>2 DEF Followed
  <2>8. CASE mail.outcome = "NotStarted"
    <3>1. v = RestartRefused(t) BY <1>6, <2>8 DEF Land, t
    <3>2. /\ v.sent = NoReq
          /\ (v.queue = <<t.sent>> \o t.queue /\ v.retry_cd > 0) \/ v.queue = t.queue
          /\ v.next_id = t.next_id
      BY <1>2, <2>1, <3>1, RestartType
    <3>3. Serial(v) /\ (\A n \in Nat : Behind(n, t) /\ n < t.sent.id => Behind(n, v))
      BY <1>2, <1>3, <2>1, <3>1, RestartSerial
    <3>4. \A k \in workers : Behind(k.id, v)
      BY <1>2, <2>3, <2>4, <3>3
    <3>5. \A m \in DOMAIN log : Behind(log[m].id, v)
      BY <1>1, <1>2, <1>4, <2>1, <2>5, <2>8, <3>3 DEF MailInv, Followed, LogInv
    <3>6. v.retry_cd > 0 \/ Behind(vs.sent.id, v)
      BY <2>6, <3>2 DEF Behind
    <3> QED BY <1>6, <2>7, <3>2, <3>3, <3>4, <3>5, <3>6
  <2>9. CASE mail.outcome # "NotStarted"
    <3>1. v = LandWritten(t, mail) BY <1>6, <2>9 DEF Land, t
    <3>2. v.sent = NoReq /\ v.queue = t.queue /\ v.next_id = t.next_id
      BY <1>2, <2>1, <3>1, LandWrittenType
    <3>3. Serial(v) BY <1>3, <3>2 DEF Serial
    <3>4. \A n \in Nat : Behind(n, t) => Behind(n, v) BY <3>2 DEF Behind
    <3>5. \A m \in DOMAIN log : Behind(log[m].id, v)
      BY <1>4, <2>5, <3>4 DEF Followed, LogInv
    <3>6. \A k \in workers : Behind(k.id, v) BY <2>3, <2>4, <3>4
    <3> QED BY <1>6, <2>2, <2>6, <2>7, <3>2, <3>3, <3>4, <3>5, <3>6
  <2> QED BY <2>8, <2>9
<1> QED BY <1>5, <1>6

\* A frame keeps OneWriteOut.
LEMMA PumpOne ==
    ASSUME TypeOK, OneWriteOut, ViewStatePump
    PROVE  OneWriteOut'
<1>0. PICK v : v = Land(RetryTick(vs)) OBVIOUS
<1>1. PICK x : x = Pumped OBVIOUS
<1>2. v \in ViewStateState /\ x \in ViewStateState
  BY <1>0, <1>1, PumpedType
<1>3. /\ Serial(v) /\ Followed(v)
      /\ v.sent = vs.sent \/ v.sent = NoReq
      /\ ~Answers => v.sent = vs.sent
      /\ Answers => v.retry_cd > 0 \/ Behind(vs.sent.id, v)
  BY <1>0, LandOne
<1>4. x = v \/ x = Kick(v)
  BY <1>0, <1>1 DEF Pumped
<1>5. Forward(v, x)
  BY <1>2, <1>3, <1>4, KickForward DEF Forward
<1>6. x.sent = v.sent \/ x.sent.id # vs.sent.id
  <2>1. CASE Answers /\ v.retry_cd > 0
    BY <1>4, <2>1 DEF Kick
  <2>2. CASE Answers /\ Behind(vs.sent.id, v)
    <3>1. vs.sent.id \in Nat BY <2>2, PumpedType DEF Req
    <3> QED BY <1>5, <2>2, <3>1 DEF Forward
  <2>3. CASE ~Answers
    BY <1>3, <1>5, <2>3 DEF Forward, NoReq
  <2> QED BY <1>3, <2>1, <2>2, <2>3
<1>7. /\ vs'.queue = x.queue /\ vs'.sent = x.sent /\ vs'.next_id = x.next_id
      /\ StartJobs(vs, x, NoMail) /\ adapter' = adapter /\ log' = log
  BY <1>1, PumpStep
<1> QED BY <1>2, <1>3, <1>5, <1>6, <1>7, JobStep

\* Steps that leave the queue, the write that is out, its mailbox, its workers and
\* the log alone keep OneWriteOut.
LEMMA AsideOne ==
    ASSUME OneWriteOut,
           vs'.queue = vs.queue, vs'.sent = vs.sent, vs'.next_id = vs.next_id,
           UNCHANGED <<adapter, mail, workers, log>>
    PROVE  OneWriteOut'
BY DEF OneWriteOut, Serial, MailInv, WorkerInv, TodoInv, LogInv, Behind

\* A reset forgets the queue and the write that is out; its worker becomes a
\* forgotten owner's, and the identity counter keeps it older than what follows.
LEMMA ResetOne ==
    ASSUME TypeOK, OneWriteOut, Reset
    PROVE  OneWriteOut'
<1>1. /\ vs'.queue = <<>> /\ vs'.sent = NoReq /\ vs'.next_id = vs.next_id
      /\ adapter' = adapter + 1 /\ mail' = NoMail /\ workers' = workers /\ log' = log
  <2>1. vs \in ViewStateState BY DEF TypeOK
  <2> QED BY <2>1 DEF Reset, ResetViewState, ViewStateState
<1>2. adapter \in Nat /\ \A k \in workers : k.port \in Nat
  BY DEF TypeOK, Worker
<1>3. \A k \in workers : k.port <= adapter /\ k.port # adapter'
  BY <1>1, <1>2 DEF OneWriteOut, WorkerInv
<1>4. DOMAIN vs'.queue = {}
  BY <1>1
<1>5. \A n \in Nat : Behind(n, vs) => Behind(n, vs)'
  BY <1>1, <1>4 DEF Behind
<1>6. Serial(vs)' BY <1>1, <1>4 DEF Serial
<1>7. MailInv' BY <1>1 DEF MailInv
<1>8. LogInv(vs)' BY <1>1, <1>4 DEF OneWriteOut, LogInv, Behind
<1>9. ASSUME NEW k \in workers PROVE WorkerInv(k, vs)' /\ TodoInv(k)'
  BY <1>1, <1>2, <1>3, <1>4 DEF OneWriteOut, WorkerInv, TodoInv, Behind
<1>10. \A k \in workers' : WorkerInv(k, vs)' /\ TodoInv(k)'
  BY <1>1, <1>9
<1>11. \A k, l \in workers' : k.port = l.port \/ k.id = l.id => k = l
  BY <1>1 DEF OneWriteOut
<1> QED BY <1>6, <1>7, <1>8, <1>10, <1>11 DEF OneWriteOut

\* The main thread's side of the order: no step of it writes to a server.
LEMMA MainOne ==
    ASSUME TypeOK, OneWriteOut,
           \/ \E on \in Routes : HoldNetwork(on)
           \/ SwitchStep
           \/ \E s \in Servers : RefreshToken(s)
    PROVE  OneWriteOut'
<1>1. vs \in ViewStateState BY DEF TypeOK
<1>2. ASSUME NEW on \in Routes, HoldNetwork(on) PROVE OneWriteOut'
  <2>1. vs'.queue = vs.queue /\ vs'.sent = vs.sent /\ vs'.next_id = vs.next_id
    BY <1>1, <1>2 DEF HoldNetwork, ViewStateState
  <2> QED BY <1>2, <2>1, AsideOne DEF HoldNetwork
<1>3. ASSUME NEW u \in Users, SwapTokens(u) PROVE OneWriteOut'
  BY <1>3, AsideOne DEF SwapTokens
<1>4. ASSUME PublishProfile PROVE OneWriteOut'
  BY <1>4, AsideOne DEF PublishProfile
<1>5. ASSUME NEW s \in Servers, RefreshToken(s) PROVE OneWriteOut'
  BY <1>5, AsideOne DEF RefreshToken
<1> QED BY <1>2, <1>3, <1>4, <1>5, ResetOne DEF SwitchStep

------------------------------------------------------------------------------
(* Order: the workers.                                                      *)

\* The promise and the invariant that carries it.
Ordered == OneWriteOut /\ PressOrder /\ PerformedOnce

\* A worker k that becomes n, having asked nothing or asked for one item i it had
\* not asked for before, keeps the order.
LEMMA AskedOnce ==
    ASSUME TypeOK, Ordered, NEW k \in workers, NEW n \in Worker, NEW i \in Items,
           n.id = k.id, n.port = k.port, n.item = k.item, n.pc = "fan_out",
           n.todo \subseteq k.todo, i \notin n.todo, Becomes(k, n),
           \A m \in DOMAIN log : log[m].id = k.id => log[m].item # i,
           \/ log' = log
           \/ \E e \in LogEntry : /\ e.id = k.id /\ e.item = i /\ e.port = k.port
                                  /\ log' = Append(log, e)
    PROVE  Ordered'
<1>1. /\ vs' = vs /\ adapter' = adapter /\ mail' = mail
      /\ workers' = (workers \ {k}) \cup {n}
  BY DEF Becomes
<1>2. log \in Seq(LogEntry) /\ DOMAIN log = 1..Len(log) /\ Len(log) \in Nat
  BY LenProperties DEF TypeOK
<1>3. \A m \in DOMAIN log : log[m].id \in Nat /\ log[m].port \in Nat
  <2>1. \A e \in LogEntry : e.id \in Nat /\ e.port \in Nat BY DEF LogEntry
  <2> QED BY <1>2, <2>1
<1>4. /\ DOMAIN log' = DOMAIN log \/ DOMAIN log' = 1..(Len(log) + 1)
      /\ \A m \in DOMAIN log' :
            \/ m \in DOMAIN log /\ log'[m] = log[m]
            \/ /\ m = Len(log) + 1
               /\ log'[m].id = k.id /\ log'[m].item = i /\ log'[m].port = k.port
  <2>1. CASE log' = log BY <2>1
  <2>2. ASSUME NEW e \in LogEntry, e.id = k.id, e.item = i, e.port = k.port,
               log' = Append(log, e)
        PROVE  /\ DOMAIN log' = 1..(Len(log) + 1)
               /\ \A m \in DOMAIN log' :
                     \/ m \in DOMAIN log /\ log'[m] = log[m]
                     \/ /\ m = Len(log) + 1
                        /\ log'[m].id = k.id /\ log'[m].item = i /\ log'[m].port = k.port
    <3>1. /\ log' \in Seq(LogEntry) /\ Len(log') = Len(log) + 1
          /\ \A m \in 1..Len(log) : log'[m] = log[m]
          /\ log'[Len(log) + 1] = e
      <4>1. /\ Append(log, e) \in Seq(LogEntry) /\ Len(Append(log, e)) = Len(log) + 1
            /\ \A m \in 1..Len(log) : Append(log, e)[m] = log[m]
            /\ Append(log, e)[Len(log) + 1] = e
        BY <1>2, AppendProperties
      <4> QED BY <2>2, <4>1
    <3>2. DOMAIN log' = 1..(Len(log) + 1) BY <3>1, LenProperties
    <3>3. ASSUME NEW m \in 1..(Len(log) + 1), m \notin 1..Len(log) PROVE m = Len(log) + 1
      BY <1>2, <3>3
    <3> QED BY <1>2, <2>2, <3>1, <3>2, <3>3
  <2> QED BY <2>1, <2>2
<1>5. /\ k.id \in Nat /\ 0 < k.id /\ Behind(k.id, vs) /\ k.port \in Nat
      /\ WorkerInv(k, vs) /\ TodoInv(k)
  BY DEF Ordered, OneWriteOut, WorkerInv, TypeOK, Worker
<1>6. /\ \A l \in workers : WorkerInv(l, vs) /\ TodoInv(l)
      /\ \A l \in workers : l.port = k.port \/ l.id = k.id => l = k
      /\ Serial(vs) /\ MailInv /\ LogInv(vs)
  BY DEF Ordered, OneWriteOut
<1>7. vs.sent # NoReq => vs.sent.id \in Nat /\ k.id <= vs.sent.id
  <2>1. vs.sent # NoReq => vs.sent.id \in Nat BY DEF TypeOK, ViewStateState, Req
  <2> QED BY <1>5, <2>1 DEF WorkerInv
<1>8. PressOrder'
  <2>1. \A m \in DOMAIN log : log[m].port = k.port => log[m].id <= k.id
    BY <1>5 DEF TodoInv
  <2>2. SUFFICES ASSUME NEW m \in DOMAIN log', NEW p \in DOMAIN log', m < p,
                        log'[m].port = log'[p].port
                 PROVE  log'[m].id <= log'[p].id
    BY DEF PressOrder
  <2>3. m \in DOMAIN log /\ log'[m] = log[m]
    BY <1>2, <1>4, <2>2
  <2>4. CASE p \in DOMAIN log /\ log'[p] = log[p]
    BY <2>2, <2>3, <2>4 DEF Ordered, PressOrder
  <2>5. CASE log'[p].id = k.id /\ log'[p].port = k.port
    BY <2>1, <2>2, <2>3, <2>5
  <2> QED BY <1>4, <2>4, <2>5
<1>9. PerformedOnce'
  BY <1>2, <1>4 DEF Ordered, PerformedOnce
<1>10. Serial(vs)' BY <1>1, <1>6
<1>11. LogInv(vs)'
  BY <1>1, <1>4, <1>5, <1>6, <1>7 DEF LogInv
<1>12. MailInv'
  <2> SUFFICES ASSUME mail # NoMail PROVE MailInv'
    BY <1>1 DEF MailInv
  <2>1. k.port # adapter /\ k.id < vs.sent.id /\ mail.id = vs.sent.id
    BY <1>5, <1>6 DEF MailInv, WorkerInv
  <2> QED BY <1>1, <1>4, <1>6, <2>1 DEF MailInv
<1>13. WorkerInv(n, vs)' /\ TodoInv(n)'
  <2>1. WorkerInv(n, vs)' BY <1>1, <1>5 DEF WorkerInv
  <2>2. TodoInv(n)' BY <1>4, <1>5 DEF TodoInv
  <2> QED BY <2>1, <2>2
<1>14. ASSUME NEW l \in workers, l # k PROVE WorkerInv(l, vs)' /\ TodoInv(l)'
  <2>1. WorkerInv(l, vs)' BY <1>1, <1>6 DEF WorkerInv
  <2>2. l.port # k.port /\ l.id # k.id BY <1>6, <1>14
  <2>3. TodoInv(l)' BY <1>4, <1>6, <2>2 DEF TodoInv
  <2> QED BY <2>1, <2>3
<1>15. \A l \in workers' : WorkerInv(l, vs)' /\ TodoInv(l)'
  BY <1>1, <1>13, <1>14
<1>16. \A j, l \in workers' : j.port = l.port \/ j.id = l.id => j = l
  BY <1>1, <1>6 DEF Ordered, OneWriteOut
<1> QED BY <1>8, <1>9, <1>10, <1>11, <1>12, <1>15, <1>16 DEF Ordered, OneWriteOut

\* An answer posted is the answer to the write that is out, or nobody reads it.
LEMMA PostOne ==
    ASSUME TypeOK, Ordered, NEW k \in workers, NEW ok \in BOOLEAN, NEW also \in Seq(Items),
           Post(k, ok, also)
    PROVE  Ordered'
<1>1. /\ vs' = vs /\ adapter' = adapter /\ log' = log /\ workers' = workers \ {k}
      /\ mail' = IF k.port = adapter THEN Written(k.id, ok, also) ELSE mail
  BY DEF Post
<1>2. PressOrder' /\ PerformedOnce'
  BY <1>1 DEF Ordered, PressOrder, PerformedOnce
<1>3. Serial(vs)' /\ LogInv(vs)'
  BY <1>1 DEF Ordered, OneWriteOut, LogInv
<1>4. ASSUME NEW l \in workers PROVE WorkerInv(l, vs)' /\ TodoInv(l)'
  BY <1>1 DEF Ordered, OneWriteOut, WorkerInv, TodoInv
<1>5. MailInv'
  <2>1. CASE k.port = adapter
    <3>1. mail'.id = k.id /\ mail'.outcome = "Written" BY <1>1, <2>1 DEF Written
    <3>2. vs.sent # NoReq /\ vs.sent.id = k.id BY <2>1 DEF Ordered, OneWriteOut, WorkerInv
    <3>3. \A l \in workers' : l.port # adapter BY <1>1, <2>1 DEF Ordered, OneWriteOut
    <3> QED BY <1>1, <3>1, <3>2, <3>3 DEF MailInv
  <2>2. CASE k.port # adapter
    BY <1>1, <2>2 DEF Ordered, OneWriteOut, MailInv
  <2> QED BY <2>1, <2>2
<1>6. \A l \in workers' : WorkerInv(l, vs)' /\ TodoInv(l)'
  BY <1>1, <1>4
<1>7. \A j, l \in workers' : j.port = l.port \/ j.id = l.id => j = l
  BY <1>1 DEF Ordered, OneWriteOut
<1> QED BY <1>2, <1>3, <1>5, <1>6, <1>7 DEF Ordered, OneWriteOut

\* A request adds to the log what the worker asked for, or nothing.
LEMMA PerformLog ==
    ASSUME TypeInv, NEW k \in Worker, NEW i \in Items, NEW taken \in BOOLEAN,
           Perform(k, i, taken)
    PROVE  \/ log' = log
           \/ \E e \in LogEntry : /\ e.id = k.id /\ e.item = i /\ e.port = k.port
                                  /\ log' = Append(log, e)
<1> DEFINE u == token[ServerOf[i]].user
           e == [id |-> k.id, item |-> i, w |-> k.w, by |-> u, port |-> k.port,
                 origin |-> i = k.item, moved |-> token[ServerOf[i]].key # k.keys[ServerOf[i]]]
<1>1. u \in Users BY ViewStateAssumption DEF TypeInv, TypeOK
<1>2. e \in LogEntry BY <1>1 DEF LogEntry, Worker
<1>3. e.id = k.id /\ e.item = i /\ e.port = k.port OBVIOUS
<1>4. log' = log \/ log' = Append(log, e) BY DEF Perform
<1> HIDE DEF e
<1> QED BY <1>2, <1>3, <1>4

\* A worker's step keeps the order.
LEMMA WorkerOrdered ==
    ASSUME TypeInv, Ordered, NEW k \in workers, WorkerStep(k)
    PROVE  Ordered'
<1>1. TypeOK /\ k \in Worker BY DEF TypeInv, TypeOK
<1>2. TodoInv(k) BY DEF Ordered, OneWriteOut
<1>3. ASSUME NEW taken \in BOOLEAN, NEW ok \in BOOLEAN, WriteOrigin(k, taken, ok)
      PROVE  Ordered'
  <2>0. PICK n : n = [k EXCEPT !.pc = "fan_out", !.ok = ok] OBVIOUS
  <2>1. /\ n \in Worker /\ n.id = k.id /\ n.port = k.port /\ n.item = k.item
        /\ n.pc = "fan_out" /\ n.todo = k.todo
    BY <1>1, <2>0 DEF Worker
  <2>2. k.item \in Items /\ k.item \notin n.todo
    BY <1>1, <1>2, <2>1 DEF TodoInv, Worker
  <2>3. \A m \in DOMAIN log : log[m].id = k.id => log[m].item # k.item
    BY <1>2, <1>3 DEF TodoInv, WriteOrigin
  <2>4. \/ log' = log
        \/ \E e \in LogEntry : /\ e.id = k.id /\ e.item = k.item /\ e.port = k.port
                               /\ log' = Append(log, e)
    BY <1>1, <1>3, <2>2, PerformLog DEF WriteOrigin
  <2>5. Becomes(k, n) BY <1>3, <2>0 DEF WriteOrigin
  <2> QED BY <1>1, <2>1, <2>2, <2>3, <2>4, <2>5, AskedOnce
<1>4. ASSUME NEW c \in k.todo, NEW taken \in BOOLEAN, NEW ok \in BOOLEAN, FanOut(k, c, taken, ok)
      PROVE  Ordered'
  <2> DEFINE T == k.todo \ {c}
             A == IF ok THEN Append(k.also, c) ELSE k.also
  <2>0. PICK n : n = [k EXCEPT !.todo = T, !.also = A] OBVIOUS
  <2>1. c \in Items BY <1>1 DEF Worker
  <2>2. T \in SUBSET Items /\ A \in Seq(Items)
    BY <1>1, <2>1, AppendProperties DEF Worker
  <2>3. /\ n \in Worker /\ n.id = k.id /\ n.port = k.port /\ n.item = k.item
        /\ n.pc = "fan_out" /\ n.todo = T
    <3> HIDE DEF T, A
    <3> QED BY <1>1, <1>4, <2>0, <2>2 DEF Worker, FanOut
  <2>4. \A m \in DOMAIN log : log[m].id = k.id => log[m].item # c
    BY <1>2, <1>4 DEF TodoInv
  <2>5. \/ log' = log
        \/ \E e \in LogEntry : /\ e.id = k.id /\ e.item = c /\ e.port = k.port
                               /\ log' = Append(log, e)
    <3>1. CASE token[ServerOf[c]].key = k.keys[ServerOf[c]]
      BY <1>1, <1>4, <2>1, <3>1, PerformLog DEF FanOut
    <3>2. CASE token[ServerOf[c]].key # k.keys[ServerOf[c]]
      BY <1>4, <3>2 DEF FanOut
    <3> QED BY <3>1, <3>2
  <2>6. Becomes(k, n) BY <1>4, <2>0 DEF FanOut
  <2> QED BY <1>1, <2>1, <2>3, <2>4, <2>5, <2>6, AskedOnce
<1>5. ASSUME Finish(k) PROVE Ordered'
  BY <1>1, <1>5, PostOne DEF Finish, Worker
<1>6. ASSUME Panic(k) PROVE Ordered'
  <2>1. <<>> \in Seq(Items) /\ FALSE \in BOOLEAN OBVIOUS
  <2> QED BY <1>1, <1>6, <2>1, PostOne DEF Panic
<1> QED BY <1>3, <1>4, <1>5, <1>6 DEF WorkerStep

------------------------------------------------------------------------------
(* Order: the theorems.                                                     *)

\* Nothing is out at the start.
LEMMA InitOrdered == vsInit => Ordered
<1> SUFFICES ASSUME vsInit PROVE Ordered
  OBVIOUS
<1>1. /\ vs.queue = <<>> /\ vs.sent = NoReq /\ mail = NoMail /\ workers = {} /\ log = <<>>
  BY DEF vsInit
<1> QED BY <1>1 DEF Ordered, OneWriteOut, Serial, MailInv, LogInv, PressOrder, PerformedOnce

\* Every step keeps the order.
LEMMA NextOrdered == TypeInv /\ Ordered /\ [Next]_vsVars => Ordered'
<1> SUFFICES ASSUME TypeInv, Ordered, [Next]_vsVars PROVE Ordered'
  OBVIOUS
<1>1. TypeOK /\ OneWriteOut BY DEF TypeInv, Ordered
<1>2. ASSUME OneWriteOut', log' = log PROVE Ordered'
  BY <1>2 DEF Ordered, PressOrder, PerformedOnce
<1>3. CASE UNCHANGED vsVars
  <2>1. UNCHANGED <<vs, adapter, mail, workers, log>> BY <1>3 DEF vsVars
  <2> QED BY <1>1, <1>2, <2>1, AsideOne
<1>4. ASSUME NEW i \in Pressable, NEW w \in Writes, Press(i, w) PROVE Ordered'
  <2>1. i \in Items /\ w \in AllWrites BY ViewStateAssumption
  <2>2. log' = log BY <1>4 DEF Press
  <2> QED BY <1>1, <1>2, <1>4, <2>1, <2>2, PressOne
<1>5. ASSUME NEW i \in Items, EndOfStream(i) PROVE Ordered'
  <2>1. log' = log BY <1>5 DEF EndOfStream
  <2> QED BY <1>1, <1>2, <1>5, <2>1, EndOfStreamOne
<1>6. CASE ViewStatePump
  <2>1. log' = log BY <1>6 DEF ViewStatePump
  <2> QED BY <1>1, <1>2, <1>6, <2>1, PumpOne
<1>7. CASE (\E on \in Routes : HoldNetwork(on)) \/ SwitchStep \/ (\E s \in Servers : RefreshToken(s))
  <2>1. log' = log
    BY <1>7 DEF HoldNetwork, SwitchStep, SwapTokens, PublishProfile, Reset, RefreshToken
  <2> QED BY <1>1, <1>2, <1>7, <2>1, MainOne
<1>8. ASSUME NEW k \in workers, WorkerStep(k) PROVE Ordered'
  BY <1>8, WorkerOrdered
<1> QED BY <1>3, <1>4, <1>5, <1>6, <1>7, <1>8 DEF Next

\* The queue, the write that is out, its worker and its answer stay one sequence, for
\* any number of presses, servers, refused launches, panics and profile switches.
THEOREM OneOut == Spec => []OneWriteOut
<1>1. Ordered => OneWriteOut BY DEF Ordered
<1> QED BY <1>1, InitType, NextType, InitOrdered, NextOrdered, PTL DEF Spec

\* The servers see one owner's writes in the order they were pressed.
THEOREM WritesInOrder == Spec => []PressOrder
<1>1. Ordered => PressOrder BY DEF Ordered
<1> QED BY <1>1, InitType, NextType, InitOrdered, NextOrdered, PTL DEF Spec

\* No server is made to apply one write to one item twice.
THEOREM NoWriteTwice == Spec => []PerformedOnce
<1>1. Ordered => PerformedOnce BY DEF Ordered
<1> QED BY <1>1, InitType, NextType, InitOrdered, NextOrdered, PTL DEF Spec

------------------------------------------------------------------------------
(* Whose writes they are: a server applies a write for the household member *)
(* who pressed it (SentAsPresser), for every library, roster and household. *)
(* The credential numbers carry the argument.  A slot's number only grows,  *)
(* so a request that carries the slot's number was pressed under the seat   *)
(* in force, and a worker whose snapshot still agrees with the slot speaks  *)
(* for the seat it was started under.                                       *)

\* A credential number the slot has held; while a switch is under way, one it no
\* longer holds.
Stamped(r) ==
    /\ r.key <= token[ServerOf[r.item]].key
    /\ switch # "seated" => r.key < token[ServerOf[r.item]].key

\* Every request that waits or is out carries such a number.
AllStamped(v) ==
    /\ \A j \in DOMAIN v.queue : Stamped(v.queue[j])
    /\ v.sent # NoReq => Stamped(v.sent)

\* A slot whose credential is the one the worker found still speaks for the seat
\* the worker was started under.
Speaks(k) ==
    /\ k.port \in 1..Len(seats)
    /\ \A s \in Servers :
          /\ k.keys[s] <= token[s].key
          /\ k.keys[s] = token[s].key => token[s].user = seats[k.port]

\* The owner's adapter is the seat's, but between the publication and the reset.
Rotation ==
    IF switch = "published" THEN profile = adapter + 1 ELSE profile = adapter

\* Between the swap and the publication the slots speak for the coming seat.
Seating ==
    \A s, t \in Servers :
        /\ token[s].user = token[t].user
        /\ switch # "swapped" => token[s].user = seats[profile]

\* What the log says of itself.
Signed ==
    /\ SentAsPresser
    /\ \A m \in DOMAIN log : log[m].port \in 1..Len(seats)

\* What keeps a write with its presser.
SeatInv ==
    /\ Rotation
    /\ Seating
    /\ AllStamped(vs)
    /\ \A k \in workers : Speaks(k)
    /\ Signed

------------------------------------------------------------------------------
(* The queue: what is sent was admitted, and no stamp is lost.              *)

\* A request the runner admits while every stamp is in order was admitted under a
\* seat in force: no write starts while a switch is under way.
LEMMA AdmittedSeated ==
    ASSUME TypeOK, NEW r \in Req, Stamped(r), Admit(r)
    PROVE  switch = "seated"
<1>1. r.key \in Nat BY DEF Req
<1> QED BY <1>1 DEF Stamped, Admit

\* kick sends an admitted request or none, and adds none.
LEMMA KickStamped ==
    ASSUME NEW v \in ViewStateState, AllStamped(v)
    PROVE  /\ AllStamped(Kick(v))
           /\ Kick(v).sent = v.sent \/ Admit(Kick(v).sent)
<1> DEFINE x == Kick(v)
           q == v.queue
<1>1. CASE x = v
  BY <1>1
<1>2. CASE x # v
  <2>1. v.sent = NoReq /\ v.retry_cd = 0 /\ x \in ViewStateState
    BY <1>2, KickType
  <2>2. q \in Seq(Req) /\ DOMAIN q = 1..Len(q) /\ Len(q) \in Nat
    <3>1. q \in Seq(Req) BY DEF ViewStateState
    <3> HIDE DEF q
    <3> QED BY <3>1, LenProperties
  <2>3. PICK n \in 1..(Len(q) + 1) :
             /\ x.queue = SubSeq(q, n + 1, Len(q))
             /\ (n \in DOMAIN q /\ x.sent = q[n]) \/ x.sent = NoReq
    BY <1>2, KickType
  <2>4. \A i \in DOMAIN x.queue : i + n \in DOMAIN q /\ x.queue[i] = q[i + n]
    <3>1. \A i \in DOMAIN q : q[i] \in Req BY <2>2
    <3>2. \A i \in (n + 1)..Len(q) : q[i] \in Req BY <2>2, <2>3, <3>1
    <3>3. /\ x.queue \in Seq(Req)
          /\ Len(x.queue) = IF n + 1 <= Len(q) THEN Len(q) - (n + 1) + 1 ELSE 0
          /\ \A i \in 1..(Len(q) - (n + 1) + 1) : x.queue[i] = q[n + 1 + i - 1]
      <4>1. n + 1 \in Int /\ Len(q) \in Int BY <2>2, <2>3
      <4> HIDE DEF q, x
      <4> QED BY <2>3, <3>2, <4>1, SubSeqProperties
    <3>4. DOMAIN x.queue = 1..Len(x.queue) BY <3>3, LenProperties
    <3> QED BY <2>2, <2>3, <3>3, <3>4
  <2>5. \A j \in DOMAIN q : Stamped(q[j])
    BY DEF AllStamped
  <2>6. AllStamped(x)
    BY <2>3, <2>4, <2>5 DEF AllStamped
  <2>7. x.sent = NoReq \/ Admit(x.sent)
    <3> DEFINE may == {k \in DOMAIN q : Admit(q[k])}
    <3>1. CASE may = {}
      <4>1. x.sent = NoReq BY <2>1, <3>1 DEF Kick, ViewStateState
      <4> QED BY <4>1
    <3>2. CASE may # {}
      <4>1. x.sent = q[Min(may)]
        <5> DEFINE L == Retire(v.ledger, {q[k].seq : k \in 1..(Min(may) - 1)})
                   Q == SubSeq(q, Min(may) + 1, Len(q))
                   X == q[Min(may)]
        <5>1. ~(v.sent # NoReq \/ v.retry_cd > 0) BY <2>1
        <5>2. x = [v EXCEPT !.ledger = L, !.queue = Q, !.sent = X]
          BY <3>2, <5>1 DEF Kick
        <5> HIDE DEF L, Q, X, x
        <5>3. x.sent = X BY <5>2 DEF ViewStateState
        <5> QED BY <5>3 DEF X
      <4>2. may \in SUBSET Nat BY <2>2
      <4>3. Min(may) \in may BY <3>2, <4>2, MinLeast
      <4> QED BY <4>1, <4>3
    <3> QED BY <3>1, <3>2
  <2> QED BY <2>1, <2>6, <2>7
<1> QED BY <1>1, <1>2

\* A request made under a seat in force carries the slot's own number.
LEMMA AppendStamped ==
    ASSUME TypeOK, switch = "seated", NEW v \in ViewStateState, AllStamped(v),
           NEW x, NEW c \in Seq(Req), NEW r \in Req,
           \A j \in DOMAIN c : \E m \in DOMAIN v.queue : c[j] = v.queue[m],
           r.key = token[ServerOf[r.item]].key,
           x.queue = Append(c, r), x.sent = v.sent
    PROVE  AllStamped(x)
<1>1. Stamped(r)
  <2>1. r.key \in Nat BY DEF Req
  <2> QED BY <2>1 DEF Stamped
<1>2. DOMAIN c = 1..Len(c) /\ Len(c) \in Nat BY LenProperties
<1>3. /\ x.queue \in Seq(Req) /\ Len(x.queue) = Len(c) + 1
      /\ \A i \in 1..Len(c) : x.queue[i] = c[i]
      /\ x.queue[Len(c) + 1] = r
  BY AppendProperties
<1>4. DOMAIN x.queue = 1..(Len(c) + 1) BY <1>3, LenProperties
<1>5. \A j \in DOMAIN x.queue : x.queue[j] = r \/ (j \in DOMAIN c /\ x.queue[j] = c[j])
  BY <1>2, <1>3, <1>4
<1>6. \A m \in DOMAIN v.queue : Stamped(v.queue[m])
  BY DEF AllStamped
<1>7. \A j \in DOMAIN c : Stamped(c[j])
  BY <1>6
<1> QED BY <1>1, <1>5, <1>7 DEF AllStamped

\* request keeps the stamps, and sends an admitted request or none.
LEMMA PressStamped ==
    ASSUME TypeOK, switch = "seated", AllStamped(vs), NEW i \in Items, NEW w \in AllWrites
    PROVE  LET x == Request(vs, i, w)
           IN  x \in ViewStateState /\ AllStamped(x) /\ (x.sent = vs.sent \/ Admit(x.sent))
<1> DEFINE x == Pressed(vs, i, w)
           K == {k \in DOMAIN vs.queue :
                    ~(vs.queue[k].item = i /\ Family(vs.queue[k].w) = Family(w))}
           c == Kept(vs.queue, K)
           r == [id |-> vs.next_id, seq |-> RecordedSeq(vs.ledger), item |-> i,
                 key |-> token[ServerOf[i]].key, profile |-> profile, w |-> w,
                 scope |-> ScopeOf[i], origin_done |-> FALSE]
<1>1. Request(vs, i, w) = Kick(x) /\ x \in ViewStateState
  BY PressedType
<1>2. vs \in ViewStateState /\ vs.queue \in Seq(Req)
  BY DEF TypeOK, ViewStateState
<1>3. c \in Seq(Req) /\ \A j \in DOMAIN c : \E m \in DOMAIN vs.queue : c[j] = vs.queue[m]
  <2>1. K \in SUBSET DOMAIN vs.queue OBVIOUS
  <2> HIDE DEF K
  <2>2. /\ c \in Seq(Req)
        /\ \E f \in [DOMAIN c -> K] : /\ \A m, n \in DOMAIN c : m < n => f[m] < f[n]
                                      /\ \A m \in DOMAIN c : c[m] = vs.queue[f[m]]
    BY <1>2, <2>1, KeptInOrder
  <2>3. PICK f \in [DOMAIN c -> K] : \A m \in DOMAIN c : c[m] = vs.queue[f[m]]
    BY <2>2
  <2> HIDE DEF c
  <2> QED BY <2>1, <2>2, <2>3
<1>4. x.queue = Append(c, r) /\ x.sent = vs.sent
  BY <1>2 DEF Pressed, Coalesce, ViewStateState
<1>5. r \in Req /\ r.key = token[ServerOf[r.item]].key
  <2>1. RecordedSeq(vs.ledger) \in Nat BY <1>2 DEF RecordedSeq, ViewStateState, Ledger
  <2>2. token[ServerOf[i]].key \in Nat /\ profile \in Nat /\ vs.next_id \in Nat
    BY ViewStateAssumption DEF TypeOK, ViewStateState
  <2> QED BY <2>1, <2>2, ViewStateAssumption DEF Req
<1> HIDE DEF x, c, r, K
<1>6. AllStamped(x)
  BY <1>2, <1>3, <1>4, <1>5, AppendStamped
<1>7. AllStamped(Kick(x)) /\ (Kick(x).sent = x.sent \/ Admit(Kick(x).sent))
      /\ Kick(x) \in ViewStateState
  BY <1>1, <1>6, KickStamped, KickType
<1> QED BY <1>1, <1>4, <1>7

\* So does the request of a stream's end.
LEMMA StreamEndStamped ==
    ASSUME TypeOK, switch = "seated", AllStamped(vs), NEW i \in Items
    PROVE  LET x == FanOutOriginWatched(vs, i)
           IN  x \in ViewStateState /\ AllStamped(x) /\ (x.sent = vs.sent \/ Admit(x.sent))
<1> DEFINE x == StreamEnded(vs, i)
           r == [id |-> vs.next_id, seq |-> 0, item |-> i,
                 key |-> token[ServerOf[i]].key, profile |-> profile,
                 w |-> "Watched", scope |-> "Leaf", origin_done |-> TRUE]
<1>1. /\ FanOutOriginWatched(vs, i) = vs \/ FanOutOriginWatched(vs, i) = Kick(x)
      /\ x \in ViewStateState
  <2>1. vs \in ViewStateState BY DEF TypeOK
  <2> QED BY <2>1, StreamEndedType
<1>2. vs \in ViewStateState /\ vs.queue \in Seq(Req)
  BY DEF TypeOK, ViewStateState
<1>3. x.queue = Append(vs.queue, r) /\ x.sent = vs.sent
  BY <1>2 DEF StreamEnded, ViewStateState
<1>4. r \in Req /\ r.key = token[ServerOf[r.item]].key
  <2>1. token[ServerOf[i]].key \in Nat /\ profile \in Nat /\ vs.next_id \in Nat
    BY ViewStateAssumption DEF TypeOK, ViewStateState
  <2> QED BY <2>1 DEF Req, AllWrites, Scopes
<1> HIDE DEF x, r
<1>5. \A j \in DOMAIN vs.queue : \E m \in DOMAIN vs.queue : vs.queue[j] = vs.queue[m]
  OBVIOUS
<1>6. AllStamped(x)
  BY <1>2, <1>3, <1>4, <1>5, AppendStamped
<1>7. AllStamped(Kick(x)) /\ (Kick(x).sent = x.sent \/ Admit(Kick(x).sent))
      /\ Kick(x) \in ViewStateState
  BY <1>1, <1>6, KickStamped, KickType
<1> QED BY <1>1, <1>2, <1>3, <1>7

\* A landing only takes requests away, or puts the one that was out back.
LEMMA LandStamped ==
    ASSUME TypeOK, AllStamped(vs), NEW v, v = Land(RetryTick(vs))
    PROVE  v \in ViewStateState /\ AllStamped(v) /\ (v.sent = vs.sent \/ v.sent = NoReq)
<1> DEFINE t == RetryTick(vs)
<1>1. vs \in ViewStateState BY DEF TypeOK
<1>2. t \in ViewStateState /\ t.sent = vs.sent /\ t.queue = vs.queue
  BY <1>1, RetryTickType
<1>3. v \in ViewStateState BY PumpedType
<1> HIDE DEF t
<1>4. AllStamped(t) BY <1>2 DEF AllStamped
<1>5. CASE ~Answers
  <2>1. v = t BY <1>5 DEF Land, t
  <2> QED BY <1>2, <1>3, <1>4, <2>1
<1>6. CASE Answers
  <2>1. vs.sent \in Req /\ mail \in Completion /\ vs.sent # NoReq
    BY <1>6, PumpedType DEF Answers
  <2>2. CASE mail.outcome = "NotStarted"
    <3>1. v = RestartRefused(t) BY <1>6, <2>2 DEF Land, t
    <3>2. v.sent = NoReq /\ (v.queue = <<t.sent>> \o t.queue \/ v.queue = t.queue)
      BY <1>2, <2>1, <3>1, RestartType
    <3>3. CASE v.queue = t.queue
      BY <1>3, <1>4, <3>2, <3>3 DEF AllStamped
    <3>4. CASE v.queue = <<t.sent>> \o t.queue
      <4> DEFINE q == t.queue
                 h == <<t.sent>>
      <4>1. q \in Seq(Req) /\ h \in Seq(Req) /\ Len(h) = 1 /\ h[1] = t.sent
        BY <1>2, <2>1 DEF ViewStateState
      <4>2. Len(q) \in Nat /\ DOMAIN q = 1..Len(q) /\ v.queue = h \o q
        BY <3>4, <4>1, LenProperties
      <4> HIDE DEF q, h
      <4>3. /\ h \o q \in Seq(Req) /\ Len(h \o q) = Len(h) + Len(q)
            /\ \A i \in 1..(Len(h) + Len(q)) :
                  (h \o q)[i] = IF i <= Len(h) THEN h[i] ELSE q[i - Len(h)]
        BY <4>1, ConcatProperties
      <4>4. DOMAIN v.queue = 1..(1 + Len(q)) BY <4>1, <4>2, <4>3, LenProperties
      <4>5. \A i \in DOMAIN v.queue :
               v.queue[i] = t.sent \/ (i - 1 \in DOMAIN q /\ v.queue[i] = q[i - 1])
        <5> SUFFICES ASSUME NEW i \in DOMAIN v.queue
                     PROVE  v.queue[i] = t.sent \/ (i - 1 \in DOMAIN q /\ v.queue[i] = q[i - 1])
          OBVIOUS
        <5>1. i \in 1..(1 + Len(q)) BY <4>4
        <5>2. v.queue[i] = IF i <= 1 THEN h[i] ELSE q[i - 1] BY <4>1, <4>2, <4>3, <5>1
        <5>3. CASE i = 1 BY <4>1, <5>2, <5>3
        <5>4. CASE i # 1
          <6>1. i - 1 \in 1..Len(q) /\ ~(i <= 1) BY <4>2, <5>1, <5>4
          <6> QED BY <4>2, <5>2, <6>1
        <5> QED BY <5>3, <5>4
      <4>6. Stamped(t.sent) /\ \A j \in DOMAIN q : Stamped(q[j])
        BY <1>2, <1>4, <2>1 DEF AllStamped, q
      <4>7. \A i \in DOMAIN v.queue : Stamped(v.queue[i]) BY <4>5, <4>6
      <4> QED BY <1>3, <3>2, <4>7 DEF AllStamped
    <3> QED BY <3>2, <3>3, <3>4
  <2>3. CASE mail.outcome # "NotStarted"
    <3>1. v = LandWritten(t, mail) BY <1>6, <2>3 DEF Land, t
    <3>2. v.sent = NoReq /\ v.queue = t.queue
      BY <1>2, <2>1, <3>1, LandWrittenType
    <3> QED BY <1>3, <1>4, <3>2 DEF AllStamped
  <2> QED BY <2>2, <2>3
<1> QED BY <1>5, <1>6

\* A frame's pump keeps the stamps, and sends an admitted request or none.
LEMMA PumpedStamped ==
    ASSUME TypeOK, AllStamped(vs)
    PROVE  /\ Pumped \in ViewStateState /\ AllStamped(Pumped)
           /\ Pumped.sent = vs.sent \/ Pumped.sent = NoReq \/ Admit(Pumped.sent)
<1>1. PICK v : v = Land(RetryTick(vs)) OBVIOUS
<1>2. v \in ViewStateState /\ AllStamped(v) /\ (v.sent = vs.sent \/ v.sent = NoReq)
  BY <1>1, LandStamped
<1>3. Pumped = v \/ Pumped = Kick(v) BY <1>1 DEF Pumped
<1>4. AllStamped(Kick(v)) /\ (Kick(v).sent = v.sent \/ Admit(Kick(v).sent))
  BY <1>2, KickStamped
<1>5. Pumped \in ViewStateState BY PumpedType
<1>6. CASE Pumped = v BY <1>2, <1>5, <1>6
<1>7. CASE Pumped = Kick(v) BY <1>2, <1>4, <1>5, <1>7
<1> QED BY <1>3, <1>6, <1>7

------------------------------------------------------------------------------
(* The steps.                                                               *)

\* A worker started now speaks for the seat in force.
LEMMA NewWorkerSpeaks ==
    ASSUME TypeInv, SeatInv, switch = "seated", NEW r
    PROVE  Speaks(NewWorker(r))
<1> DEFINE k == NewWorker(r)
<1>1. k.port = adapter /\ k.keys = [s \in Servers |-> token[s].key] BY DEF NewWorker
<1>2. adapter = profile /\ \A s \in Servers : token[s].user = seats[profile]
  BY DEF SeatInv, Rotation, Seating
<1>3. profile \in 1..Len(seats)
  BY DEF TypeInv, TypeOK
<1>4. \A s \in Servers : token[s].key \in Nat BY DEF TypeInv, TypeOK
<1> HIDE DEF k
<1> QED BY <1>1, <1>2, <1>3, <1>4 DEF Speaks, k

\* A main-thread step that keeps the stamps and sends only what was admitted.
LEMMA MainSeat ==
    ASSUME TypeInv, SeatInv, NEW x \in ViewStateState, AllStamped(x), NEW posted,
           x.sent = vs.sent \/ x.sent = NoReq \/ Admit(x.sent),
           StartJobs(vs, x, posted), vs'.queue = x.queue, vs'.sent = x.sent,
           UNCHANGED <<adapter, token, profile, switch, log, seats>>
    PROVE  SeatInv'
<1>1. TypeOK BY DEF TypeInv
<1>2. \A k : Speaks(k) => Speaks(k)'
  BY DEF Speaks
<1>3. \A k \in workers' : Speaks(k)'
  <2>1. \A k \in workers : Speaks(k) BY DEF SeatInv
  <2>2. CASE workers' = workers BY <1>2, <2>1, <2>2
  <2>3. CASE workers' # workers
    <3>1. Emitted(vs, x) /\ workers' = workers \cup {NewWorker(x.sent)}
      BY <2>3 DEF StartJobs
    <3>2. x.sent # NoReq /\ x.sent # vs.sent BY <3>1 DEF Emitted
    <3>3. x.sent \in Req /\ Stamped(x.sent) /\ Admit(x.sent)
      BY <3>2 DEF AllStamped, ViewStateState
    <3>4. switch = "seated" BY <1>1, <3>3, AdmittedSeated
    <3>5. Speaks(NewWorker(x.sent)) BY <3>4, NewWorkerSpeaks
    <3>6. \A k \in workers' : Speaks(k) BY <2>1, <3>1, <3>5
    <3> QED BY <1>2, <3>6
  <2> QED BY <2>2, <2>3
<1>4. AllStamped(vs)'
  BY DEF AllStamped, Stamped
<1>5. Rotation' /\ Seating' /\ Signed'
  BY DEF SeatInv, Rotation, Seating, Signed, SentAsPresser
<1> QED BY <1>3, <1>4, <1>5 DEF SeatInv

\* A slot that takes a new number: what it held before is no longer its own.
LEMMA Renumbered ==
    ASSUME TypeInv, SeatInv, NEW S \in SUBSET Servers, NEW u \in Users,
           token' = Retokened(S, u), UNCHANGED <<vs, workers, log, seats>>,
           switch' = switch \/ S = Servers
    PROVE  AllStamped(vs)' /\ (\A k \in workers : Speaks(k)) ' /\ Signed'
<1>1. TypeOK BY DEF TypeInv
<1>2. \A s \in Servers :
         /\ token[s].key \in Nat
         /\ s \in S => token'[s].key = token[s].key + 1
         /\ s \notin S => token'[s] = token[s]
  BY <1>1 DEF TypeOK, Retokened
<1>3. ASSUME NEW r \in Req, Stamped(r) PROVE Stamped(r)'
  <2> DEFINE s == ServerOf[r.item]
  <2>1. r.key \in Nat /\ s \in Servers BY ViewStateAssumption DEF Req
  <2>2. r.key <= token[s].key /\ (switch # "seated" => r.key < token[s].key)
    BY <1>3 DEF Stamped
  <2>3. CASE s \in S
    <3>1. token'[s].key = token[s].key + 1 /\ token[s].key \in Nat BY <1>2, <2>1, <2>3
    <3>2. r.key < token'[s].key /\ r.key <= token'[s].key
      <4> HIDE DEF s
      <4> QED BY <2>1, <2>2, <3>1
    <3> QED BY <3>2 DEF Stamped
  <2>4. CASE s \notin S
    <3>1. token'[s] = token[s] /\ switch' = switch BY <1>2, <2>1, <2>4
    <3> QED BY <2>2, <3>1 DEF Stamped
  <2> QED BY <2>3, <2>4
<1>4. AllStamped(vs)'
  <2>1. \A j \in DOMAIN vs.queue : vs.queue[j] \in Req
    <3>1. vs.queue \in Seq(Req) BY <1>1 DEF TypeOK, ViewStateState
    <3> QED BY <3>1, LenProperties
  <2>2. vs.sent # NoReq => vs.sent \in Req BY <1>1 DEF TypeOK, ViewStateState
  <2>3. AllStamped(vs) BY DEF SeatInv
  <2>4. \A j \in DOMAIN vs.queue : Stamped(vs.queue[j])' BY <1>3, <2>1, <2>3 DEF AllStamped
  <2>5. vs.sent # NoReq => Stamped(vs.sent)' BY <1>3, <2>2, <2>3 DEF AllStamped
  <2> QED BY <2>4, <2>5 DEF AllStamped
<1>5. ASSUME NEW k \in workers PROVE Speaks(k)'
  <2>1. Speaks(k) BY DEF SeatInv
  <2>2. \A s \in Servers : k.keys[s] \in Nat BY <1>1 DEF TypeOK, Worker
  <2>3. ASSUME NEW s \in Servers
        PROVE  /\ k.keys[s] <= token'[s].key
               /\ k.keys[s] = token'[s].key => token'[s].user = seats[k.port]
    <3>1. k.keys[s] <= token[s].key /\ (k.keys[s] = token[s].key => token[s].user = seats[k.port])
      BY <2>1 DEF Speaks
    <3>2. CASE s \in S
      <4>1. token'[s].key = token[s].key + 1 /\ token[s].key \in Nat /\ k.keys[s] \in Nat
        BY <1>2, <2>2, <3>2
      <4> QED BY <3>1, <4>1
    <3>3. CASE s \notin S
      <4>1. token'[s] = token[s] BY <1>2, <3>3
      <4> QED BY <3>1, <4>1
    <3> QED BY <3>2, <3>3
  <2> QED BY <2>1, <2>3 DEF Speaks
<1>6. Signed' BY DEF SeatInv, Signed, SentAsPresser
<1> QED BY <1>4, <1>5, <1>6

\* The three frames of a profile switch and a token refresh.
LEMMA SwitchSeat ==
    ASSUME TypeInv, SeatInv, SwitchStep \/ \E s \in Servers : RefreshToken(s)
    PROVE  SeatInv'
<1>1. TypeOK /\ Servers # {} BY ViewStateAssumption DEF TypeInv
<1>2. ASSUME NEW u \in Users, SwapTokens(u) PROVE SeatInv'
  <2>1. /\ switch = "seated" /\ token' = Retokened(Servers, u) /\ switch' = "swapped"
        /\ UNCHANGED <<vs, adapter, workers, profile, log, seats>>
    BY <1>2 DEF SwapTokens
  <2>2. AllStamped(vs)' /\ (\A k \in workers : Speaks(k)) ' /\ Signed'
    BY <2>1, Renumbered
  <2>3. Rotation' BY <2>1 DEF SeatInv, Rotation
  <2>4. Seating' BY <2>1 DEF Seating, Retokened
  <2> QED BY <2>2, <2>3, <2>4 DEF SeatInv
<1>3. ASSUME PublishProfile PROVE SeatInv'
  <2> DEFINE u == token[CHOOSE s \in Servers : TRUE].user
  <2>1. /\ switch = "swapped" /\ profile' = profile + 1 /\ seats' = Append(seats, u)
        /\ switch' = "published" /\ UNCHANGED <<vs, adapter, workers, token, log>>
    BY <1>3 DEF PublishProfile
  <2>2. u \in Users /\ \A s \in Servers : token[s].user = u
    BY <1>1 DEF TypeOK, SeatInv, Seating
  <2>3. seats \in Seq(Users) /\ Len(seats) \in Nat /\ profile = Len(seats)
    BY <1>1, LenProperties DEF TypeOK, TypeInv
  <2> HIDE DEF u
  <2>4. /\ Len(seats') = Len(seats) + 1 /\ seats'[Len(seats) + 1] = u
        /\ \A n \in 1..Len(seats) : seats'[n] = seats[n] /\ n \in 1..Len(seats')
    <3>1. /\ Len(Append(seats, u)) = Len(seats) + 1
          /\ Append(seats, u)[Len(seats) + 1] = u
          /\ \A n \in 1..Len(seats) : Append(seats, u)[n] = seats[n]
      BY <2>2, <2>3, AppendProperties
    <3> QED BY <2>1, <2>3, <3>1
  <2>5. Rotation' BY <2>1 DEF SeatInv, Rotation
  <2>6. Seating' BY <2>1, <2>2, <2>3, <2>4 DEF Seating
  <2>7. AllStamped(vs)' BY <2>1 DEF SeatInv, AllStamped, Stamped
  <2>8. ASSUME NEW k \in workers PROVE Speaks(k)'
    BY <2>1, <2>4 DEF SeatInv, Speaks
  <2>9. Signed' BY <2>1, <2>4 DEF SeatInv, Signed, SentAsPresser
  <2> QED BY <2>1, <2>5, <2>6, <2>7, <2>8, <2>9 DEF SeatInv
<1>4. ASSUME Reset PROVE SeatInv'
  <2>1. /\ vs'.queue = <<>> /\ vs'.sent = NoReq /\ adapter' = adapter + 1
        /\ switch = "published" /\ switch' = "seated"
        /\ UNCHANGED <<workers, token, profile, log, seats>>
    <3>1. vs \in ViewStateState BY <1>1 DEF TypeOK
    <3> QED BY <1>4, <3>1 DEF Reset, ResetViewState, ViewStateState
  <2>2. AllStamped(vs)' BY <2>1 DEF AllStamped
  <2>3. Rotation' /\ Seating' BY <2>1 DEF SeatInv, Rotation, Seating
  <2>4. \A k \in workers : Speaks(k)' BY <2>1 DEF SeatInv, Speaks
  <2>5. Signed' BY <2>1 DEF SeatInv, Signed, SentAsPresser
  <2> QED BY <2>1, <2>2, <2>3, <2>4, <2>5 DEF SeatInv
<1>5. ASSUME NEW s \in Servers, RefreshToken(s) PROVE SeatInv'
  <2>1. /\ token' = Retokened({s}, token[s].user) /\ switch' = switch /\ switch = "seated"
        /\ UNCHANGED <<vs, adapter, workers, profile, log, seats>>
    BY <1>5 DEF RefreshToken
  <2>2. token[s].user \in Users /\ {s} \in SUBSET Servers BY <1>1 DEF TypeOK
  <2>3. AllStamped(vs)' /\ (\A k \in workers : Speaks(k)) ' /\ Signed'
    BY <2>1, <2>2, Renumbered
  <2>4. Rotation' BY <2>1 DEF SeatInv, Rotation
  <2>5. \A t \in Servers : token'[t].user = token[t].user
    BY <1>1, <2>1 DEF Retokened, TypeOK
  <2>6. Seating' BY <2>1, <2>5 DEF SeatInv, Seating
  <2> QED BY <2>3, <2>4, <2>6 DEF SeatInv
<1> QED BY <1>2, <1>3, <1>4, <1>5 DEF SwitchStep

\* A request signs the log with the presser, or with the mark of a slot that moved
\* under the press's own write.
LEMMA PerformSigned ==
    ASSUME TypeInv, SeatInv, NEW k \in workers, NEW i \in Items, NEW taken \in BOOLEAN,
           Perform(k, i, taken), seats' = seats,
           i = k.item \/ token[ServerOf[i]].key = k.keys[ServerOf[i]]
    PROVE  Signed'
<1> DEFINE s == ServerOf[i]
           e == [id |-> k.id, item |-> i, w |-> k.w, by |-> token[s].user, port |-> k.port,
                 origin |-> i = k.item, moved |-> token[s].key # k.keys[s]]
<1>1. TypeOK /\ k \in Worker /\ s \in Servers
  BY ViewStateAssumption DEF TypeInv, TypeOK
<1>2. Speaks(k) /\ Signed BY DEF SeatInv
<1>3. CASE ~taken
  BY <1>2, <1>3 DEF Perform, Signed, SentAsPresser
<1>4. CASE taken
  <2>1. log' = Append(log, e) BY <1>4 DEF Perform
  <2>2. e \in LogEntry
    <3>1. token[s].user \in Users BY <1>1 DEF TypeOK
    <3> QED BY <1>1, <3>1 DEF LogEntry, Worker
  <2>3. e.port \in 1..Len(seats) /\ (e.by = seats[e.port] \/ (e.origin /\ e.moved))
    BY <1>1, <1>2 DEF Speaks
  <2>4. log \in Seq(LogEntry) /\ Len(log) \in Nat /\ DOMAIN log = 1..Len(log)
    BY <1>1, LenProperties DEF TypeOK
  <2> HIDE DEF e
  <2>5. \A m \in DOMAIN log' : log'[m] = e \/ (m \in DOMAIN log /\ log'[m] = log[m])
    <3>1. /\ Append(log, e) \in Seq(LogEntry) /\ Len(Append(log, e)) = Len(log) + 1
          /\ \A m \in 1..Len(log) : Append(log, e)[m] = log[m]
          /\ Append(log, e)[Len(log) + 1] = e
      BY <2>2, <2>4, AppendProperties
    <3>2. DOMAIN log' = 1..(Len(log) + 1) BY <2>1, <3>1, LenProperties
    <3> QED BY <2>1, <2>4, <3>1, <3>2
  <2> QED BY <1>2, <2>3, <2>5 DEF Signed, SentAsPresser
<1> QED BY <1>3, <1>4

\* A worker's step.
LEMMA WorkerSeat ==
    ASSUME TypeInv, SeatInv, NEW k \in workers, WorkerStep(k)
    PROVE  SeatInv'
<1>1. TypeOK /\ k \in Worker /\ Speaks(k) BY DEF TypeInv, TypeOK, SeatInv
<1>2. ASSUME NEW n, Becomes(k, n), n.port = k.port, n.keys = k.keys, Signed'
      PROVE  SeatInv'
  <2>1. /\ workers' = (workers \ {k}) \cup {n}
        /\ UNCHANGED <<vs, adapter, token, profile, switch, seats>>
    BY <1>2 DEF Becomes
  <2>2. \A l \in workers : Speaks(l)' BY <2>1 DEF SeatInv, Speaks
  <2>3. Speaks(n)' BY <1>1, <1>2, <2>1 DEF Speaks
  <2>4. Rotation' /\ Seating' /\ AllStamped(vs)'
    BY <2>1 DEF SeatInv, Rotation, Seating, AllStamped, Stamped
  <2> QED BY <1>2, <2>1, <2>2, <2>3, <2>4 DEF SeatInv
<1>3. ASSUME NEW ok, NEW also, Post(k, ok, also) PROVE SeatInv'
  <2>1. /\ workers' \subseteq workers
        /\ UNCHANGED <<vs, adapter, token, profile, switch, log, seats>>
    BY <1>3 DEF Post
  <2>2. \A l \in workers : Speaks(l)' BY <2>1 DEF SeatInv, Speaks
  <2>3. Rotation' /\ Seating' /\ AllStamped(vs)' /\ Signed'
    BY <2>1 DEF SeatInv, Rotation, Seating, AllStamped, Stamped, Signed, SentAsPresser
  <2> QED BY <2>1, <2>2, <2>3 DEF SeatInv
<1>4. ASSUME NEW taken \in BOOLEAN, NEW ok \in BOOLEAN, WriteOrigin(k, taken, ok)
      PROVE  SeatInv'
  <2>0. PICK n : n = [k EXCEPT !.pc = "fan_out", !.ok = ok] OBVIOUS
  <2>1. n.port = k.port /\ n.keys = k.keys BY <1>1, <2>0 DEF Worker
  <2>2. Becomes(k, n) /\ Perform(k, k.item, taken) BY <1>4, <2>0 DEF WriteOrigin
  <2>3. k.item \in Items /\ seats' = seats BY <1>1, <2>2 DEF Worker, Becomes
  <2>4. Signed' BY <2>2, <2>3, PerformSigned
  <2> QED BY <1>2, <2>1, <2>2, <2>4
<1>5. ASSUME NEW c \in k.todo, NEW taken \in BOOLEAN, NEW ok \in BOOLEAN, FanOut(k, c, taken, ok)
      PROVE  SeatInv'
  <2>0. PICK n : n = [k EXCEPT !.todo = @ \ {c}, !.also = IF ok THEN Append(@, c) ELSE @]
    OBVIOUS
  <2>1. n.port = k.port /\ n.keys = k.keys BY <1>1, <2>0 DEF Worker
  <2>2. Becomes(k, n) BY <1>5, <2>0 DEF FanOut
  <2>3. c \in Items /\ seats' = seats BY <1>1, <2>2 DEF Worker, Becomes
  <2>4. Signed'
    <3>1. CASE token[ServerOf[c]].key = k.keys[ServerOf[c]]
      <4>1. Perform(k, c, taken) BY <1>5, <3>1 DEF FanOut
      <4> QED BY <2>3, <3>1, <4>1, PerformSigned
    <3>2. CASE token[ServerOf[c]].key # k.keys[ServerOf[c]]
      <4>1. log' = log BY <1>5, <3>2 DEF FanOut
      <4> QED BY <2>3, <4>1 DEF SeatInv, Signed, SentAsPresser
    <3> QED BY <3>1, <3>2
  <2> QED BY <1>2, <2>1, <2>2, <2>4
<1> QED BY <1>3, <1>4, <1>5 DEF WorkerStep, Finish, Panic

------------------------------------------------------------------------------
(* The theorem.                                                             *)

\* At the start nothing waits, and every slot speaks for the first seat.
LEMMA InitSeat == vsInit => SeatInv
<1> SUFFICES ASSUME vsInit PROVE SeatInv
  OBVIOUS
<1>1. /\ vs.queue = <<>> /\ vs.sent = NoReq /\ workers = {} /\ log = <<>>
      /\ adapter = 1 /\ profile = 1 /\ switch = "seated"
  BY DEF vsInit
<1>2. PICK u \in Users : token = [s \in Servers |-> [key |-> 1, user |-> u]] /\ seats = <<u>>
  BY DEF vsInit
<1>3. Seating BY <1>1, <1>2 DEF Seating
<1> QED BY <1>1, <1>3 DEF SeatInv, Rotation, AllStamped, Signed, SentAsPresser

\* Every step keeps the seat's invariant.
LEMMA NextSeat == TypeInv /\ SeatInv /\ [Next]_vsVars => SeatInv'
<1> SUFFICES ASSUME TypeInv, SeatInv, [Next]_vsVars PROVE SeatInv'
  OBVIOUS
<1>1. TypeOK /\ AllStamped(vs) /\ vs \in ViewStateState BY DEF TypeInv, TypeOK, SeatInv
<1>2. ASSUME vs'.queue = vs.queue, vs'.sent = vs.sent,
             UNCHANGED <<adapter, workers, token, profile, switch, log, seats>>
      PROVE  SeatInv'
  <2>1. AllStamped(vs)' BY <1>1, <1>2 DEF AllStamped, Stamped
  <2>2. \A k \in workers : Speaks(k)' BY <1>2 DEF SeatInv, Speaks
  <2>3. Rotation' /\ Seating' /\ Signed'
    BY <1>2 DEF SeatInv, Rotation, Seating, Signed, SentAsPresser
  <2> QED BY <1>2, <2>1, <2>2, <2>3 DEF SeatInv
<1>3. CASE UNCHANGED vsVars
  BY <1>2, <1>3 DEF vsVars
<1>4. ASSUME NEW i \in Pressable, NEW w \in Writes, Press(i, w) PROVE SeatInv'
  <2>0. PICK x : x = Request(vs, i, w) OBVIOUS
  <2>1. i \in Items /\ w \in AllWrites BY ViewStateAssumption
  <2>2. /\ switch = "seated" /\ vs' = x /\ StartJobs(vs, x, mail)
        /\ UNCHANGED <<adapter, token, profile, switch, log, seats>>
    BY <1>4, <2>0 DEF Press
  <2>3. x \in ViewStateState /\ AllStamped(x) /\ (x.sent = vs.sent \/ Admit(x.sent))
    BY <1>1, <2>0, <2>1, <2>2, PressStamped
  <2> QED BY <2>2, <2>3, MainSeat
<1>5. ASSUME NEW i \in Items, EndOfStream(i) PROVE SeatInv'
  <2>0. PICK x : x = FanOutOriginWatched(vs, i) OBVIOUS
  <2>1. /\ switch = "seated" /\ vs' = x /\ StartJobs(vs, x, mail)
        /\ UNCHANGED <<adapter, token, profile, switch, log, seats>>
    BY <1>5, <2>0 DEF EndOfStream
  <2>2. x \in ViewStateState /\ AllStamped(x) /\ (x.sent = vs.sent \/ Admit(x.sent))
    BY <1>1, <2>0, <2>1, StreamEndStamped
  <2> QED BY <2>1, <2>2, MainSeat
<1>6. CASE ViewStatePump
  <2>0. PICK x : x = Pumped OBVIOUS
  <2>1. /\ vs'.queue = x.queue /\ vs'.sent = x.sent /\ StartJobs(vs, x, NoMail)
        /\ UNCHANGED <<adapter, token, profile, switch, log, seats>>
    BY <1>1, <1>6, <2>0, PumpStep
  <2>2. /\ x \in ViewStateState /\ AllStamped(x)
        /\ x.sent = vs.sent \/ x.sent = NoReq \/ Admit(x.sent)
    BY <1>1, <2>0, PumpedStamped
  <2> QED BY <2>1, <2>2, MainSeat
<1>7. ASSUME NEW on \in Routes, HoldNetwork(on) PROVE SeatInv'
  <2>1. vs'.queue = vs.queue /\ vs'.sent = vs.sent
    BY <1>1, <1>7 DEF HoldNetwork, ViewStateState
  <2> QED BY <1>2, <1>7, <2>1 DEF HoldNetwork
<1>8. CASE SwitchStep \/ \E s \in Servers : RefreshToken(s)
  BY <1>8, SwitchSeat
<1>9. ASSUME NEW k \in workers, WorkerStep(k) PROVE SeatInv'
  BY <1>9, WorkerSeat
<1> QED BY <1>3, <1>4, <1>5, <1>6, <1>7, <1>8, <1>9 DEF Next

\* A write is applied for the household member who pressed it, through any number
\* of profile switches, token refreshes, refused launches and forgotten workers:
\* the one exception is the press's own write, when its slot was re-tokened after
\* the runner's check, and a repeat on a copy never is one.  As in ViewState, streams
\* end while a profile is seated.
THEOREM WritesAsPresser == Spec => []SentAsPresser
<1>1. SeatInv => SentAsPresser BY DEF SeatInv, Signed
<1> QED BY <1>1, InitType, NextType, InitSeat, NextSeat, PTL DEF Spec

==============================================================================
