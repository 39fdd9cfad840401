--------------------------- MODULE ViewSyncProofs ----------------------------
(***************************************************************************)
(* Proofs about ViewSync: the reads keep their types, each read that is    *)
(* out is tracked by exactly one worker or answer, the order of the writes *)
(* survives what the read-back adds to them, and once everything is quiet  *)
(* the rows are drawn as their servers have them.                          *)
(*                                                                         *)
(* One frame lands every answer, sends to every server that is free and    *)
(* fans out every stream that ended: each is a fold over a finite set, so  *)
(* the module starts with induction over finite sets.                      *)
(***************************************************************************)
EXTENDS ViewSync, ViewLedgerProofs, WellFoundedInduction

------------------------------------------------------------------------------
(* Folds over finite sets.                                                  *)

\* The element a fold takes first, and what it leaves.
Pick(s) == CHOOSE x \in s : TRUE

Rest(s) == s \ {Pick(s)}

\* There is something to take.
LEMMA PickIn ==
    ASSUME NEW s, s # {}
    PROVE  Pick(s) \in s
BY Zenon DEF Pick

\* Induction on the finite sets: what holds of a set when it holds of all that are
\* smaller holds of every one.
LEMMA SubsetInduction ==
    ASSUME NEW S, IsFiniteSet(S), NEW G,
           \A s \in SUBSET S : (\A u \in SUBSET s : u # s => u \in G) => s \in G
    PROVE  \A s \in SUBSET S : s \in G
<1> DEFINE Bad == {s \in SUBSET S : s \notin G}
<1>1. Bad = {}
  <2> HIDE DEF Bad
  <2> SUFFICES ASSUME Bad # {} PROVE FALSE
    OBVIOUS
  <2> USE DEF Bad
  <2>0. FiniteSubsetsOf(S) = SUBSET S
    BY FS_FiniteSubsetsOfFinite, Zenon
  <2>a. IsWellFoundedOn(StrictSubsetOrdering(S), FiniteSubsetsOf(S))
    BY FS_StrictSubsetOrderingWellFounded
  <2>1. IsWellFoundedOn(StrictSubsetOrdering(S), SUBSET S)
    BY <2>0, <2>a, Zenon
  <2>2. Bad \subseteq SUBSET S
    OBVIOUS
  <2>3. PICK x \in Bad : \A y \in Bad : ~(<<y, x>> \in StrictSubsetOrdering(S))
    <3> HIDE DEF Bad
    <3> QED BY <2>1, <2>2, WFMin
  <2>4. PICK u \in SUBSET x : u # x /\ u \notin G
    OBVIOUS
  <2>5. u \in Bad /\ <<u, x>> \in StrictSubsetOrdering(S)
    BY <2>4 DEF StrictSubsetOrdering
  <2> QED BY <2>3, <2>5
<1> QED BY <1>1

\* The same, one element at a time.
LEMMA RestInduction ==
    ASSUME NEW S, IsFiniteSet(S), NEW G, {} \in G,
           \A s \in SUBSET S : s # {} /\ Rest(s) \in G => s \in G
    PROVE  \A s \in SUBSET S : s \in G
<1>1. ASSUME NEW s \in SUBSET S, \A u \in SUBSET s : u # s => u \in G
      PROVE  s \in G
  <2>1. CASE s = {}
    BY <2>1
  <2>2. CASE s # {}
    <3>1. Pick(s) \in s
      BY <2>2, PickIn
    <3>2. Rest(s) \in SUBSET s /\ Rest(s) # s
      BY <3>1 DEF Rest
    <3> QED BY <1>1, <2>2, <3>2
  <2> QED BY <2>1, <2>2
<1> QED BY <1>1, SubsetInduction

\* g is the fold of the function F from b over every subset of S.
IsFold(g, S, b, F) ==
    g = [s \in SUBSET S |-> IF s = {} THEN b ELSE F[<<Pick(s), g[Rest(s)]>>]]

\* Two folds of one function agree where both are defined.
LEMMA FoldUnique ==
    ASSUME NEW S, NEW T \in SUBSET S, IsFiniteSet(S), NEW b, NEW F, NEW g, NEW h,
           IsFold(g, S, b, F), IsFold(h, T, b, F)
    PROVE  \A s \in SUBSET T : g[s] = h[s]
<1> DEFINE G == {s \in SUBSET T : g[s] = h[s]}
<1>1. IsFiniteSet(T)
  BY FS_Subset
<1>2. {} \in G
  BY DEF IsFold
<1>3. ASSUME NEW s \in SUBSET T, s # {}, Rest(s) \in G
      PROVE  s \in G
  <2>1. g[s] = F[<<Pick(s), g[Rest(s)]>>]
    BY <1>3 DEF IsFold
  <2>2. h[s] = F[<<Pick(s), h[Rest(s)]>>]
    BY <1>3 DEF IsFold
  <2> QED BY <1>3, <2>1, <2>2
<1>4. \A s \in SUBSET T : s \in G
  <2> HIDE DEF G
  <2> QED BY <1>1, <1>2, <1>3, RestInduction
<1> QED BY <1>4

\* A fold over a finite set exists.
LEMMA FoldExists ==
    ASSUME NEW S, IsFiniteSet(S), NEW b, NEW F
    PROVE  \E g : IsFold(g, S, b, F)
<1> DEFINE G == {s \in SUBSET S : \E g : IsFold(g, s, b, F)}
           of(s) == CHOOSE g : IsFold(g, s, b, F)
<1>3. ASSUME NEW T \in SUBSET S, \A u \in SUBSET T : u # T => u \in G
      PROVE  T \in G
  <2>1. ASSUME NEW u \in SUBSET T, u # T
        PROVE  IsFold(of(u), u, b, F)
    BY <1>3, <2>1
  <2> DEFINE g == [s \in SUBSET T |-> IF s = {} THEN b
                                      ELSE F[<<Pick(s), of(Rest(s))[Rest(s)]>>]]
  <2>2. ASSUME NEW u \in SUBSET T, u # T
        PROVE  g[u] = of(u)[u]
    <3>0. IsFiniteSet(u)
      BY FS_Subset
    <3>1. IsFold(of(u), u, b, F)
      BY <2>1, <2>2
    <3>2. CASE u = {}
      <4>1. of(u)[u] = b
        <5> HIDE DEF of
        <5> QED BY <3>1, <3>2 DEF IsFold
      <4> QED BY <3>2, <4>1
    <3>3. CASE u # {}
      <4>1. Pick(u) \in u
        BY <3>3, PickIn
      <4>2. Rest(u) \in SUBSET u /\ Rest(u) \in SUBSET T /\ Rest(u) # T
        BY <2>2, <4>1 DEF Rest
      <4>3. IsFold(of(Rest(u)), Rest(u), b, F)
        BY <2>1, <4>2
      <4>4. of(u)[u] = F[<<Pick(u), of(u)[Rest(u)]>>]
        <5> HIDE DEF of
        <5> QED BY <3>1, <3>3 DEF IsFold
      <4>5. of(u)[Rest(u)] = of(Rest(u))[Rest(u)]
        <5> HIDE DEF of
        <5> QED BY <3>0, <3>1, <4>2, <4>3, FoldUnique
      <4> HIDE DEF of
      <4> QED BY <2>2, <3>3, <4>4, <4>5
    <3> QED BY <3>2, <3>3
  <2>3. IsFold(g, T, b, F)
    <3>1. ASSUME NEW s \in SUBSET T, s # {}
          PROVE  g[Rest(s)] = of(Rest(s))[Rest(s)]
      <4>1. Pick(s) \in s
        BY <3>1, PickIn
      <4>2. Rest(s) \in SUBSET T /\ Rest(s) # T
        BY <4>1 DEF Rest
      <4> HIDE DEF g, of
      <4> QED BY <2>2, <4>2
    <3>2. [s \in SUBSET T |-> IF s = {} THEN b ELSE F[<<Pick(s), of(Rest(s))[Rest(s)]>>]]
          = [s \in SUBSET T |-> IF s = {} THEN b ELSE F[<<Pick(s), g[Rest(s)]>>]]
      <4> HIDE DEF g, of
      <4> QED BY <3>1
    <3> QED BY <3>2 DEF IsFold
  <2> HIDE DEF g
  <2> QED BY <2>3
<1>4. \A s \in SUBSET S : s \in G
  <2> HIDE DEF G
  <2> QED BY <1>3, SubsetInduction
<1> QED BY <1>4

\* g folds F from b and stays in D and in G, a set of pairs <<taken, value>>.
Within(g, S, D, b, F, G) ==
    /\ g \in [SUBSET S -> D]
    /\ g[{}] = b
    /\ \A s \in SUBSET S : <<s, g[s]>> \in G
    /\ \A s \in SUBSET S : s # {} => g[s] = F[<<Pick(s), g[Rest(s)]>>]

\* What each step of a fold keeps, its result has.
LEMMA FoldWithin ==
    ASSUME NEW S, IsFiniteSet(S), NEW D, NEW b \in D, NEW F \in [S \X D -> D],
           NEW G, <<{}, b>> \in G,
           \A t \in SUBSET S, x \in S, r \in D :
              x \notin t /\ <<t, r>> \in G => <<t \cup {x}, F[<<x, r>>]>> \in G
    PROVE  \E g : Within(g, S, D, b, F, G)
<1>1. PICK g : IsFold(g, S, b, F)
  BY FoldExists
<1>2. DOMAIN g = SUBSET S /\ g = [s \in SUBSET S |-> g[s]] /\ g[{}] = b
  BY <1>1 DEF IsFold
<1>3. \A s \in SUBSET S : s # {} => g[s] = F[<<Pick(s), g[Rest(s)]>>]
  BY <1>1 DEF IsFold
<1> DEFINE H == {s \in SUBSET S : g[s] \in D /\ <<s, g[s]>> \in G}
<1>4. {} \in H
  BY <1>2
<1>5. ASSUME NEW s \in SUBSET S, s # {}, Rest(s) \in H
      PROVE  s \in H
  <2>1. Pick(s) \in s
    BY <1>5, PickIn
  <2>2. Rest(s) \in SUBSET S /\ Pick(s) \notin Rest(s) /\ Rest(s) \cup {Pick(s)} = s
    BY <2>1 DEF Rest
  <2>3. <<Pick(s), g[Rest(s)]>> \in S \X D
    BY <1>5, <2>1
  <2>4. F[<<Pick(s), g[Rest(s)]>>] \in D
    BY <2>3
  <2>5. g[Rest(s)] \in D /\ <<Rest(s), g[Rest(s)]>> \in G
    BY <1>5
  <2>6. <<s, F[<<Pick(s), g[Rest(s)]>>]>> \in G
    BY <2>1, <2>2, <2>5
  <2>7. g[s] = F[<<Pick(s), g[Rest(s)]>>]
    BY <1>3, <1>5
  <2> QED BY <2>4, <2>6, <2>7
<1>6. \A s \in SUBSET S : s \in H
  <2> HIDE DEF H
  <2> QED BY <1>4, <1>5, RestInduction
<1>7. g \in [SUBSET S -> D]
  BY <1>2, <1>6
<1> QED BY <1>2, <1>3, <1>6, <1>7 DEF Within

\* G holds of the pairs <<taken, value>> a fold of values in D may pass through.
Through(G, S, D) == G \subseteq (SUBSET S) \X D

\* What one landing keeps, the landing of all answers keeps.
LEMMA LandingFold ==
    ASSUME NEW S, IsFiniteSet(S), NEW D, NEW b, NEW G, Through(G, S, D), <<{}, b>> \in G,
           \A t \in SUBSET S, x \in S, r \in D :
              x \notin t /\ <<t, r>> \in G => <<t \cup {x}, Landing(x, r)>> \in G
    PROVE  <<S, FoldSet(Landing, b, S)>> \in G
<1> DEFINE F == [p \in S \X D |-> IF Landing(p[1], p[2]) \in D THEN Landing(p[1], p[2]) ELSE b]
           Solves(h) == h = [s \in SUBSET S |-> IF s = {} THEN b
                                                ELSE Landing(Pick(s), h[Rest(s)])]
<1>1. b \in D
  BY DEF Through
<1>2. F \in [S \X D -> D]
  BY <1>1
<1>3. ASSUME NEW t \in SUBSET S, NEW x \in S, NEW r \in D, x \notin t, <<t, r>> \in G
      PROVE  F[<<x, r>>] = Landing(x, r) /\ <<t \cup {x}, F[<<x, r>>]>> \in G
  <2>1. <<t \cup {x}, Landing(x, r)>> \in G
    BY <1>3
  <2>2. Landing(x, r) \in D
    BY <2>1 DEF Through
  <2>3. F[<<x, r>>] = Landing(x, r)
    BY <2>2
  <2> QED BY <2>1, <2>3
<1>4. PICK g : Within(g, S, D, b, F, G)
  <2> HIDE DEF F
  <2>1. \A t \in SUBSET S, x \in S, r \in D :
           x \notin t /\ <<t, r>> \in G => <<t \cup {x}, F[<<x, r>>]>> \in G
    BY <1>3
  <2> QED BY <1>1, <1>2, <2>1, FoldWithin
<1>5. ASSUME NEW s \in SUBSET S, s # {}
      PROVE  g[s] = Landing(Pick(s), g[Rest(s)])
  <2>1. Pick(s) \in S /\ Pick(s) \notin Rest(s) /\ Rest(s) \in SUBSET S
    BY <1>5, PickIn DEF Rest
  <2>2. g[Rest(s)] \in D /\ <<Rest(s), g[Rest(s)]>> \in G
    BY <1>4, <2>1 DEF Within
  <2>3. F[<<Pick(s), g[Rest(s)]>>] = Landing(Pick(s), g[Rest(s)])
    <3> HIDE DEF F
    <3> QED BY <1>3, <2>1, <2>2
  <2> HIDE DEF F
  <2> QED BY <1>4, <1>5, <2>3 DEF Within
<1> HIDE DEF F
<1>6. Solves(g)
  BY <1>4, <1>5 DEF Within
<1>7. FoldSet(Landing, b, S) = (CHOOSE h : Solves(h))[S]
  BY DEF FoldSet, MapThenFoldSet, Pick, Rest
<1>8. ASSUME NEW h, Solves(h)
      PROVE  h = g
  <2> DEFINE H == {s \in SUBSET S : h[s] = g[s]}
  <2>1. {} \in H
    BY <1>6, <1>8
  <2>2. ASSUME NEW s \in SUBSET S, s # {}, Rest(s) \in H
        PROVE  s \in H
    <3>1. g[s] = Landing(Pick(s), g[Rest(s)])
      BY <1>5, <2>2
    <3>2. h[s] = Landing(Pick(s), h[Rest(s)])
      BY <1>8, <2>2
    <3> QED BY <2>2, <3>1, <3>2
  <2>3. \A s \in SUBSET S : s \in H
    <3> HIDE DEF H, Solves
    <3> QED BY <2>1, <2>2, RestInduction
  <2>4. h = [s \in SUBSET S |-> h[s]] /\ g = [s \in SUBSET S |-> g[s]]
    BY <1>6, <1>8
  <2> QED BY <2>3, <2>4
<1>9. (CHOOSE h : Solves(h)) = g
  <2> HIDE DEF Solves
  <2> QED BY <1>6, <1>8
<1> QED BY <1>4, <1>7, <1>9 DEF Within

\* What sending to one server keeps, sending to all that are free keeps.
LEMMA SendFold ==
    ASSUME NEW S, IsFiniteSet(S), NEW D, NEW b, NEW G, Through(G, S, D), <<{}, b>> \in G,
           \A t \in SUBSET S, x \in S, r \in D :
              x \notin t /\ <<t, r>> \in G => <<t \cup {x}, SendBatch(x, r)>> \in G
    PROVE  <<S, FoldSet(SendBatch, b, S)>> \in G
<1> DEFINE F == [p \in S \X D |-> IF SendBatch(p[1], p[2]) \in D THEN SendBatch(p[1], p[2]) ELSE b]
           Solves(h) == h = [s \in SUBSET S |-> IF s = {} THEN b
                                                ELSE SendBatch(Pick(s), h[Rest(s)])]
<1>1. b \in D
  BY DEF Through
<1>2. F \in [S \X D -> D]
  BY <1>1
<1>3. ASSUME NEW t \in SUBSET S, NEW x \in S, NEW r \in D, x \notin t, <<t, r>> \in G
      PROVE  F[<<x, r>>] = SendBatch(x, r) /\ <<t \cup {x}, F[<<x, r>>]>> \in G
  <2>1. <<t \cup {x}, SendBatch(x, r)>> \in G
    BY <1>3
  <2>2. SendBatch(x, r) \in D
    BY <2>1 DEF Through
  <2>3. F[<<x, r>>] = SendBatch(x, r)
    BY <2>2
  <2> QED BY <2>1, <2>3
<1>4. PICK g : Within(g, S, D, b, F, G)
  <2> HIDE DEF F
  <2>1. \A t \in SUBSET S, x \in S, r \in D :
           x \notin t /\ <<t, r>> \in G => <<t \cup {x}, F[<<x, r>>]>> \in G
    BY <1>3
  <2> QED BY <1>1, <1>2, <2>1, FoldWithin
<1>5. ASSUME NEW s \in SUBSET S, s # {}
      PROVE  g[s] = SendBatch(Pick(s), g[Rest(s)])
  <2>1. Pick(s) \in S /\ Pick(s) \notin Rest(s) /\ Rest(s) \in SUBSET S
    BY <1>5, PickIn DEF Rest
  <2>2. g[Rest(s)] \in D /\ <<Rest(s), g[Rest(s)]>> \in G
    BY <1>4, <2>1 DEF Within
  <2>3. F[<<Pick(s), g[Rest(s)]>>] = SendBatch(Pick(s), g[Rest(s)])
    <3> HIDE DEF F
    <3> QED BY <1>3, <2>1, <2>2
  <2> HIDE DEF F
  <2> QED BY <1>4, <1>5, <2>3 DEF Within
<1> HIDE DEF F
<1>6. Solves(g)
  BY <1>4, <1>5 DEF Within
<1>7. FoldSet(SendBatch, b, S) = (CHOOSE h : Solves(h))[S]
  BY DEF FoldSet, MapThenFoldSet, Pick, Rest
<1>8. ASSUME NEW h, Solves(h)
      PROVE  h = g
  <2> DEFINE H == {s \in SUBSET S : h[s] = g[s]}
  <2>1. {} \in H
    BY <1>6, <1>8
  <2>2. ASSUME NEW s \in SUBSET S, s # {}, Rest(s) \in H
        PROVE  s \in H
    <3>1. g[s] = SendBatch(Pick(s), g[Rest(s)])
      BY <1>5, <2>2
    <3>2. h[s] = SendBatch(Pick(s), h[Rest(s)])
      BY <1>8, <2>2
    <3> QED BY <2>2, <3>1, <3>2
  <2>3. \A s \in SUBSET S : s \in H
    <3> HIDE DEF H, Solves
    <3> QED BY <2>1, <2>2, RestInduction
  <2>4. h = [s \in SUBSET S |-> h[s]] /\ g = [s \in SUBSET S |-> g[s]]
    BY <1>6, <1>8
  <2> QED BY <2>3, <2>4
<1>9. (CHOOSE h : Solves(h)) = g
  <2> HIDE DEF Solves
  <2> QED BY <1>6, <1>8
<1> QED BY <1>4, <1>7, <1>9 DEF Within

\* What one fan-out keeps, those of every stream that ended keep.
LEMMA FanFold ==
    ASSUME NEW S, IsFiniteSet(S), NEW D, NEW b, NEW G, Through(G, S, D), <<{}, b>> \in G,
           \A t \in SUBSET S, x \in S, r \in D :
              x \notin t /\ <<t, r>> \in G => <<t \cup {x}, Fan(x, r)>> \in G
    PROVE  <<S, FoldSet(Fan, b, S)>> \in G
<1> DEFINE F == [p \in S \X D |-> IF Fan(p[1], p[2]) \in D THEN Fan(p[1], p[2]) ELSE b]
           Solves(h) == h = [s \in SUBSET S |-> IF s = {} THEN b
                                                ELSE Fan(Pick(s), h[Rest(s)])]
<1>1. b \in D
  BY DEF Through
<1>2. F \in [S \X D -> D]
  BY <1>1
<1>3. ASSUME NEW t \in SUBSET S, NEW x \in S, NEW r \in D, x \notin t, <<t, r>> \in G
      PROVE  F[<<x, r>>] = Fan(x, r) /\ <<t \cup {x}, F[<<x, r>>]>> \in G
  <2>1. <<t \cup {x}, Fan(x, r)>> \in G
    BY <1>3
  <2>2. Fan(x, r) \in D
    BY <2>1 DEF Through
  <2>3. F[<<x, r>>] = Fan(x, r)
    BY <2>2
  <2> QED BY <2>1, <2>3
<1>4. PICK g : Within(g, S, D, b, F, G)
  <2> HIDE DEF F
  <2>1. \A t \in SUBSET S, x \in S, r \in D :
           x \notin t /\ <<t, r>> \in G => <<t \cup {x}, F[<<x, r>>]>> \in G
    BY <1>3
  <2> QED BY <1>1, <1>2, <2>1, FoldWithin
<1>5. ASSUME NEW s \in SUBSET S, s # {}
      PROVE  g[s] = Fan(Pick(s), g[Rest(s)])
  <2>1. Pick(s) \in S /\ Pick(s) \notin Rest(s) /\ Rest(s) \in SUBSET S
    BY <1>5, PickIn DEF Rest
  <2>2. g[Rest(s)] \in D /\ <<Rest(s), g[Rest(s)]>> \in G
    BY <1>4, <2>1 DEF Within
  <2>3. F[<<Pick(s), g[Rest(s)]>>] = Fan(Pick(s), g[Rest(s)])
    <3> HIDE DEF F
    <3> QED BY <1>3, <2>1, <2>2
  <2> HIDE DEF F
  <2> QED BY <1>4, <1>5, <2>3 DEF Within
<1> HIDE DEF F
<1>6. Solves(g)
  BY <1>4, <1>5 DEF Within
<1>7. FoldSet(Fan, b, S) = (CHOOSE h : Solves(h))[S]
  BY DEF FoldSet, MapThenFoldSet, Pick, Rest
<1>8. ASSUME NEW h, Solves(h)
      PROVE  h = g
  <2> DEFINE H == {s \in SUBSET S : h[s] = g[s]}
  <2>1. {} \in H
    BY <1>6, <1>8
  <2>2. ASSUME NEW s \in SUBSET S, s # {}, Rest(s) \in H
        PROVE  s \in H
    <3>1. g[s] = Fan(Pick(s), g[Rest(s)])
      BY <1>5, <2>2
    <3>2. h[s] = Fan(Pick(s), h[Rest(s)])
      BY <1>8, <2>2
    <3> QED BY <2>2, <3>1, <3>2
  <2>3. \A s \in SUBSET S : s \in H
    <3> HIDE DEF H, Solves
    <3> QED BY <2>1, <2>2, RestInduction
  <2>4. h = [s \in SUBSET S |-> h[s]] /\ g = [s \in SUBSET S |-> g[s]]
    BY <1>6, <1>8
  <2> QED BY <2>3, <2>4
<1>9. (CHOOSE h : Solves(h)) = g
  <2> HIDE DEF Solves
  <2> QED BY <1>6, <1>8
<1> QED BY <1>4, <1>7, <1>9 DEF Within

------------------------------------------------------------------------------
(* The read-back queue.                                                     *)

\* The items of a read are its own server's, and its parents are among them.
Own(f) == f.parents \subseteq f.keys /\ \A i \in f.keys : ServerOf[i] = f.server

\* What keeps the queue and its flights apart: numbers already given, one read a
\* server, a dirty item is out, and an item that is out does not wait.
Tracks(r) ==
    /\ r \in Reconcile /\ IsFiniteSet(r.flights)
    /\ \A f \in r.flights : Own(f) /\ f.id < r.next_id
    /\ \A f, g \in r.flights : f.server = g.server \/ f.id = g.id => f = g
    /\ r.dirty \subseteq UNION {f.keys : f \in r.flights}
    /\ \A f \in r.flights : f.keys \cap (r.pending \cup r.pending_parents) = {}

\* An item asked for waits, or is marked dirty while its read is out.
LEMMA EnqueueTracks ==
    ASSUME NEW r, Tracks(r), NEW keys \in SUBSET Items
    PROVE  /\ Tracks(Enqueue(r, keys))
           /\ Enqueue(r, keys).flights = r.flights
           /\ Enqueue(r, keys).next_id = r.next_id
           /\ Enqueue(r, keys).candidates = r.candidates
<1> DEFINE Q == r.quiet \ keys
           D == r.dirty \cup {i \in keys : IsOut(r, i)}
           P == r.pending \cup {i \in keys : ~IsOut(r, i)}
           e == [r EXCEPT !.quiet = Q, !.dirty = D, !.pending = P]
<1>1. Enqueue(r, keys) = e
  BY DEF Enqueue
<1>2. r \in Reconcile
  BY DEF Tracks
<1>3. Q \in SUBSET Items /\ D \in SUBSET Items /\ P \in SUBSET Items
  BY <1>2 DEF Reconcile
<1>4. D \subseteq UNION {f.keys : f \in r.flights}
  BY DEF Tracks, IsOut
<1>5. \A f \in r.flights : f.keys \cap (P \cup r.pending_parents) = {}
  BY DEF Tracks, IsOut
<1> HIDE DEF Q, D, P
<1>6. /\ e \in Reconcile /\ e.flights = r.flights /\ e.next_id = r.next_id
      /\ e.dirty = D /\ e.pending = P /\ e.pending_parents = r.pending_parents
      /\ e.candidates = r.candidates
  BY <1>2, <1>3 DEF Reconcile
<1> HIDE DEF e
<1>7. Tracks(e)
  BY <1>4, <1>5, <1>6 DEF Tracks
<1> QED BY <1>1, <1>6, <1>7

\* A change of the fields that track nothing.
LEMMA AsideTracks ==
    ASSUME NEW r, NEW n \in Reconcile, Tracks(r), n.flights = r.flights,
           n.next_id = r.next_id, n.dirty = r.dirty, n.pending = r.pending,
           n.pending_parents = r.pending_parents
    PROVE  Tracks(n)
BY DEF Tracks

\* A quiet re-read, a stop and a page that is owed.
LEMMA AskTracks ==
    ASSUME NEW r, Tracks(r), NEW i \in Items, NEW watched
    PROVE  /\ Tracks(EnqueueReread(r, {i})) /\ EnqueueReread(r, {i}).flights = r.flights
           /\ EnqueueReread(r, {i}).next_id = r.next_id
           /\ Tracks(EnqueueStop(r, i, watched))
           /\ EnqueueStop(r, i, watched).flights = r.flights
           /\ EnqueueStop(r, i, watched).next_id = r.next_id
           /\ Tracks(OwePage(r, {i})) /\ OwePage(r, {i}).flights = r.flights
           /\ OwePage(r, {i}).next_id = r.next_id
<1>1. r \in Reconcile
  BY DEF Tracks
<1>2. /\ Tracks(EnqueueReread(r, {i})) /\ EnqueueReread(r, {i}).flights = r.flights
      /\ EnqueueReread(r, {i}).next_id = r.next_id
  <2> DEFINE fresh == {k \in {i} : ~IsOut(r, k)
                         /\ k \notin r.pending \cup r.pending_parents \cup r.dirty}
  <2>1. PICK e : e = Enqueue(r, {i})
    OBVIOUS
  <2>2. Tracks(e) /\ e.flights = r.flights /\ e.next_id = r.next_id /\ e \in Reconcile
    BY <2>1, EnqueueTracks DEF Tracks
  <2>3. EnqueueReread(r, {i}) = [e EXCEPT !.quiet = e.quiet \cup fresh]
    BY <2>1 DEF EnqueueReread
  <2>4. fresh \in SUBSET Items
    OBVIOUS
  <2> HIDE DEF fresh
  <2> DEFINE Q == e.quiet \cup fresh
             n == [e EXCEPT !.quiet = Q]
  <2>5. Q \in SUBSET Items
    BY <2>2, <2>4 DEF Reconcile
  <2> HIDE DEF Q
  <2>6. /\ n \in Reconcile /\ n.flights = e.flights /\ n.next_id = e.next_id
        /\ n.dirty = e.dirty /\ n.pending = e.pending /\ n.pending_parents = e.pending_parents
    BY <2>2, <2>5 DEF Reconcile
  <2>7. EnqueueReread(r, {i}) = n
    BY <2>3 DEF Q
  <2> HIDE DEF n
  <2> QED BY <2>2, <2>6, <2>7, AsideTracks
<1>3. /\ Tracks(EnqueueStop(r, i, watched)) /\ EnqueueStop(r, i, watched).flights = r.flights
      /\ EnqueueStop(r, i, watched).next_id = r.next_id
  <2> DEFINE C == IF watched THEN r.candidates
                  ELSE {k \in r.candidates : k.item # i} \cup {[item |-> i, born |-> r.next_id]}
             n == [r EXCEPT !.candidates = C]
  <2>1. r.next_id \in Nat \ {0} /\ r.candidates \subseteq [item : Items, born : Nat \ {0}]
    BY <1>1 DEF Reconcile
  <2>2. C \in SUBSET [item : Items, born : Nat \ {0}]
    BY <2>1
  <2>3. EnqueueStop(r, i, watched) = Enqueue(n, {i})
    BY DEF EnqueueStop
  <2> HIDE DEF C
  <2>4. /\ n \in Reconcile /\ n.flights = r.flights /\ n.next_id = r.next_id
        /\ n.dirty = r.dirty /\ n.pending = r.pending /\ n.pending_parents = r.pending_parents
    BY <1>1, <2>2 DEF Reconcile
  <2> HIDE DEF n
  <2>5. Tracks(n)
    BY <2>4, AsideTracks
  <2> QED BY <2>3, <2>4, <2>5, EnqueueTracks
<1>4. /\ Tracks(OwePage(r, {i})) /\ OwePage(r, {i}).flights = r.flights
      /\ OwePage(r, {i}).next_id = r.next_id
  <2> DEFINE L == r.landed \cup {i}
             n == [r EXCEPT !.landed = L]
  <2>1. L \in SUBSET Items
    BY <1>1 DEF Reconcile
  <2>2. OwePage(r, {i}) = n
    BY DEF OwePage
  <2> HIDE DEF L
  <2>3. /\ n \in Reconcile /\ n.flights = r.flights /\ n.next_id = r.next_id
        /\ n.dirty = r.dirty /\ n.pending = r.pending /\ n.pending_parents = r.pending_parents
    BY <1>1, <2>1 DEF Reconcile
  <2> HIDE DEF n
  <2> QED BY <2>2, <2>3, AsideTracks
<1> QED BY <1>2, <1>3, <1>4

\* A row's parents are rows of its own server.
LEMMA ParentsOwn ==
    ASSUME NEW i \in Items
    PROVE  Parents(i) \subseteq Items /\ \A p \in Parents(i) : ServerOf[p] = ServerOf[i]
BY LibraryShape, ViewStateAssumption, ViewSyncAssumption DEF Parents

\* A flight that lands leaves the list with its dirty marks; what it queues is its own
\* server's, on which nothing else is out.
LEMMA DropTracks ==
    ASSUME NEW r, Tracks(r), NEW f \in Flight, Own(f),
           \A g \in r.flights : g.server = f.server => g = f,
           NEW n \in Reconcile, n.flights = r.flights \ {f}, n.next_id = r.next_id,
           n.dirty = r.dirty \ f.keys,
           \A i \in n.pending \cup n.pending_parents :
              i \in r.pending \cup r.pending_parents \/ ServerOf[i] = f.server
    PROVE  Tracks(n)
<1>1. IsFiniteSet(n.flights)
  BY FS_Subset DEF Tracks
<1>2. n.dirty \subseteq UNION {g.keys : g \in n.flights}
  BY DEF Tracks
<1>3. ASSUME NEW g \in n.flights
      PROVE  g.keys \cap (n.pending \cup n.pending_parents) = {}
  BY <1>3 DEF Tracks, Own
<1> QED BY <1>1, <1>2, <1>3 DEF Tracks

\* So does a read that was never started.
LEMMA RequeueTracks ==
    ASSUME NEW r, Tracks(r), NEW f \in Flight, Own(f),
           \A g \in r.flights : g.server = f.server => g = f
    PROVE  /\ Tracks(RequeueUnstarted(r, f))
           /\ RequeueUnstarted(r, f).flights = r.flights \ {f}
           /\ RequeueUnstarted(r, f).next_id = r.next_id
<1> DEFINE again == r.dirty \cap f.keys
           P     == r.pending \cup (f.keys \ f.parents)
           rest  == f.parents \ (P \cup r.pending_parents)
           F     == r.flights \ {f}
           D     == r.dirty \ again
           W     == P \cup (rest \cap again)
           U     == r.pending_parents \cup (rest \ again)
           n     == [r EXCEPT !.flights = F, !.dirty = D, !.pending = W,
                              !.pending_parents = U, !.retry_cd = RetryFrames]
<1>1. RequeueUnstarted(r, f) = n
  BY DEF RequeueUnstarted
<1>2. r \in Reconcile /\ f.keys \in SUBSET Items /\ f.parents \subseteq f.keys
  BY DEF Tracks, Flight, Own
<1>3. /\ F \in SUBSET Flight /\ D \in SUBSET Items /\ W \in SUBSET Items /\ U \in SUBSET Items
      /\ RetryFrames \in 0..RetryFrames
  BY <1>2, ViewStateAssumption DEF Reconcile
<1>4. \A i \in W \cup U : i \in r.pending \cup r.pending_parents \/ i \in f.keys
  BY <1>2
<1>5. D = r.dirty \ f.keys /\ F = r.flights \ {f}
  OBVIOUS
<1> HIDE DEF F, D, W, U
<1>6. /\ n \in Reconcile /\ n.flights = F /\ n.next_id = r.next_id /\ n.dirty = D
      /\ n.pending = W /\ n.pending_parents = U
  BY <1>2, <1>3 DEF Reconcile
<1> HIDE DEF n
<1>7. \A i \in n.pending \cup n.pending_parents :
         i \in r.pending \cup r.pending_parents \/ ServerOf[i] = f.server
  BY <1>4, <1>6 DEF Own
<1>8. Tracks(n)
  BY <1>5, <1>6, <1>7, DropTracks
<1> QED BY <1>1, <1>5, <1>6, <1>8

\* And one that was answered.
LEMMA LandReadTracks ==
    ASSUME NEW r, Tracks(r), NEW f \in Flight, Own(f), NEW m,
           \A g \in r.flights : g.server = f.server => g = f
    PROVE  /\ Tracks(LandRead(r, f, m))
           /\ LandRead(r, f, m).flights = r.flights \ {f}
           /\ LandRead(r, f, m).next_id = r.next_id
<1> DEFINE rows    == Rows(f, m)
           hush    == r.quiet \cap f.keys
           ups(i)  == Parents(i) \ (f.keys \cup r.pending \cup r.pending_parents)
           leaves  == rows \ f.parents
           again   == r.dirty \cap f.keys
           F == r.flights \ {f}
           Q == (r.quiet \ hush) \cup UNION {ups(i) : i \in leaves \cap hush}
           U == r.pending_parents \cup UNION {ups(i) : i \in leaves}
           C == {k \in r.candidates : k.born > f.id \/ k.item \notin f.keys}
           L == r.landed \cup (rows \ hush)
           D == r.dirty \ again
           W == r.pending \cup again
           n == [r EXCEPT !.flights = F, !.quiet = Q, !.pending_parents = U,
                          !.candidates = C, !.landed = L, !.dirty = D, !.pending = W]
<1>1. LandRead(r, f, m) = n
  BY DEF LandRead
<1>2. r \in Reconcile /\ f.keys \in SUBSET Items
  BY DEF Tracks, Flight
<1>3. rows \subseteq f.keys
  BY DEF Rows
<1>4. ASSUME NEW i \in rows
      PROVE  ups(i) \subseteq Items /\ \A p \in ups(i) : ServerOf[p] = f.server
  BY <1>2, <1>3, <1>4, ParentsOwn DEF Own
<1>5. \A i \in U : i \in r.pending_parents \/ ServerOf[i] = f.server
  <2> HIDE DEF rows
  <2> QED BY <1>4
<1>6. \A i \in W : i \in r.pending \/ ServerOf[i] = f.server
  BY <1>2 DEF Own
<1>7. /\ F \in SUBSET Flight /\ Q \in SUBSET Items /\ U \in SUBSET Items
      /\ C \in SUBSET [item : Items, born : Nat \ {0}] /\ L \in SUBSET Items
      /\ D \in SUBSET Items /\ W \in SUBSET Items
  <2>1. F \in SUBSET Flight /\ D \in SUBSET Items /\ W \in SUBSET Items
    BY <1>2 DEF Reconcile
  <2>2. C \in SUBSET [item : Items, born : Nat \ {0}]
    BY <1>2 DEF Reconcile
  <2>3. L \in SUBSET Items
    BY <1>2, <1>3 DEF Reconcile
  <2>4. U \in SUBSET Items /\ Q \in SUBSET Items
    <3>1. r.pending_parents \in SUBSET Items /\ r.quiet \in SUBSET Items
      BY <1>2 DEF Reconcile
    <3> HIDE DEF rows
    <3> QED BY <1>4, <3>1
  <2> QED BY <2>1, <2>2, <2>3, <2>4
<1>8. D = r.dirty \ f.keys /\ F = r.flights \ {f}
  OBVIOUS
<1> HIDE DEF F, Q, U, C, L, D, W
<1>9. /\ n \in Reconcile /\ n.flights = F /\ n.next_id = r.next_id /\ n.dirty = D
      /\ n.pending = W /\ n.pending_parents = U
  BY <1>2, <1>7 DEF Reconcile
<1> HIDE DEF n
<1>10. \A i \in n.pending \cup n.pending_parents :
         i \in r.pending \cup r.pending_parents \/ ServerOf[i] = f.server
  BY <1>5, <1>6, <1>9
<1>11. Tracks(n)
  BY <1>8, <1>9, <1>10, DropTracks
<1> QED BY <1>1, <1>8, <1>9, <1>11

\* Landing every answer takes their flights, and nothing else, off the list.
LEMMA LandAll ==
    ASSUME NEW b, Tracks(rc), Tracks(b), b.flights = rc.flights, b.next_id = rc.next_id,
           IsFiniteSet(rmail)
    PROVE  LET n == FoldSet(Landing, b, Answering)
           IN  /\ Tracks(n) /\ n.next_id = rc.next_id
               /\ n.flights = rc.flights \ {FlightOf(m) : m \in Answering}
<1> DEFINE G == {p \in (SUBSET Answering) \X Reconcile :
                    /\ Tracks(p[2]) /\ p[2].next_id = rc.next_id
                    /\ p[2].flights = rc.flights \ {FlightOf(m) : m \in p[1]}}
<1>1. IsFiniteSet(Answering)
  BY FS_Subset DEF Answering
<1>2. \A m \in Answering : FlightOf(m) \in rc.flights
  BY DEF Answering, FlightOf
<1>3. <<{}, b>> \in G
  BY DEF Tracks
<1>4. ASSUME NEW t \in SUBSET Answering, NEW m \in Answering, NEW r \in Reconcile,
             m \notin t, <<t, r>> \in G
      PROVE  <<t \cup {m}, Landing(m, r)>> \in G
  <2>1. /\ Tracks(r) /\ r.next_id = rc.next_id
        /\ r.flights = rc.flights \ {FlightOf(k) : k \in t}
    BY <1>4
  <2>2. PICK f \in rc.flights : f = FlightOf(m)
    BY <1>2
  <2>3. f \in Flight /\ Own(f)
    BY DEF Tracks, Reconcile
  <2>4. \A g \in r.flights : g.server = f.server => g = f
    BY <2>1 DEF Tracks
  <2>5. PICK n : n = Landing(m, r)
    OBVIOUS
  <2>6. n = RequeueUnstarted(r, f) \/ n = LandRead(r, f, m)
    BY <2>2, <2>5 DEF Landing
  <2>7. Tracks(n) /\ n.next_id = r.next_id /\ n.flights = r.flights \ {f}
    BY <2>1, <2>3, <2>4, <2>6, RequeueTracks, LandReadTracks
  <2>8. n \in Reconcile
    BY <2>7 DEF Tracks
  <2>9. n.flights = rc.flights \ {FlightOf(k) : k \in t \cup {m}}
    BY <2>1, <2>2, <2>7
  <2>10. <<t \cup {m}, n>> \in G
    BY <2>1, <2>7, <2>8, <2>9
  <2> QED BY <2>5, <2>10
<1>5. Through(G, Answering, Reconcile)
  BY DEF Through
<1>6. <<Answering, FoldSet(Landing, b, Answering)>> \in G
  <2> HIDE DEF G
  <2> QED BY <1>1, <1>3, <1>4, <1>5, LandingFold
<1>7. PICK n : n = FoldSet(Landing, b, Answering)
  OBVIOUS
<1>8. <<Answering, n>> \in G
  BY <1>6, <1>7
<1>9. Tracks(n) /\ n.next_id = rc.next_id /\ n.flights = rc.flights \ {FlightOf(m) : m \in Answering}
  BY <1>8
<1> QED BY <1>7, <1>9

\* A batch leaves for a server on which nothing is out, under a fresh number.
LEMMA SendTracks ==
    ASSUME TypeOK, NEW r, Tracks(r), NEW s \in Servers, \A f \in r.flights : f.server # s
    PROVE  LET n == SendBatch(s, r)
           IN  /\ Tracks(n) /\ r.flights \subseteq n.flights /\ r.next_id <= n.next_id
               /\ \A f \in n.flights :
                    \/ f \in r.flights
                    \/ f.server = s /\ f.id = r.next_id /\ f.stamp = vs.ledger.seq
<1>1. r \in Reconcile
  BY DEF Tracks
<1>2. PICK f : f = Batch(r, s)
  OBVIOUS
<1>3. /\ f.id = r.next_id /\ f.server = s /\ f.stamp = vs.ledger.seq /\ Own(f) /\ f \in Flight
      /\ f.keys \subseteq r.pending \cup r.pending_parents
  <2> DEFINE P == {i \in r.pending : ServerOf[i] = s}
             U == {i \in r.pending_parents : ServerOf[i] = s}
  <2>1. f = [id |-> r.next_id, server |-> s, stamp |-> vs.ledger.seq, keys |-> P \cup U,
             parents |-> U \ P]
    BY <1>2 DEF Batch, Stamp
  <2>2. vs.ledger.seq \in Nat
    BY DEF TypeOK, ViewStateState, Ledger
  <2>3. r.next_id \in Nat \ {0} /\ P \cup U \in SUBSET Items /\ U \ P \in SUBSET Items
    BY <1>1 DEF Reconcile
  <2>4. \A i \in P \cup U : ServerOf[i] = s
    OBVIOUS
  <2>5. U \ P \subseteq P \cup U /\ P \cup U \subseteq r.pending \cup r.pending_parents
    OBVIOUS
  <2> HIDE DEF P, U
  <2> QED BY <2>1, <2>2, <2>3, <2>4, <2>5 DEF Flight, Own
<1> DEFINE P == r.pending \ f.keys
           U == r.pending_parents \ f.keys
           F == r.flights \cup {f}
           N == r.next_id + 1
           q == [r EXCEPT !.pending = P, !.pending_parents = U]
           x == [q EXCEPT !.flights = F, !.next_id = N]
<1>4. SendBatch(s, r) = q \/ SendBatch(s, r) = x
  <2>1. q.flights = r.flights /\ q.next_id = r.next_id
    BY <1>1 DEF Reconcile
  <2>2. x = [q EXCEPT !.flights = q.flights \cup {f}, !.next_id = q.next_id + 1]
    BY <2>1
  <2> HIDE DEF x
  <2> QED BY <1>2, <2>2 DEF SendBatch
<1>5. /\ P \in SUBSET Items /\ U \in SUBSET Items /\ F \in SUBSET Flight /\ N \in Nat \ {0}
      /\ N > r.next_id /\ r.next_id \in Nat
  BY <1>1, <1>3 DEF Reconcile
<1>6. /\ P \cap f.keys = {} /\ U \cap f.keys = {}
      /\ P \subseteq r.pending /\ U \subseteq r.pending_parents
  OBVIOUS
<1>7. F = r.flights \cup {f}
  OBVIOUS
<1>8. IsFiniteSet(F)
  BY FS_AddElement DEF Tracks
<1> HIDE DEF P, U, F, N
<1>9. /\ q \in Reconcile /\ q.flights = r.flights /\ q.next_id = r.next_id /\ q.dirty = r.dirty
      /\ q.pending = P /\ q.pending_parents = U
  BY <1>1, <1>5 DEF Reconcile
<1> HIDE DEF q
<1>10. /\ x \in Reconcile /\ x.flights = F /\ x.next_id = N /\ x.dirty = r.dirty
       /\ x.pending = P /\ x.pending_parents = U
  BY <1>5, <1>9 DEF Reconcile
<1> HIDE DEF x
<1>11. Tracks(q)
  BY <1>6, <1>9 DEF Tracks
<1>12. Tracks(x)
  <2>1. \A g \in F : Own(g) /\ g.id < N
    <3>1. \A g \in r.flights : g.id \in Nat /\ g.id < r.next_id /\ Own(g)
      BY <1>1 DEF Tracks, Reconcile, Flight
    <3> QED BY <1>3, <1>5, <1>7, <3>1
  <2>2. \A g, h \in F : g.server = h.server \/ g.id = h.id => g = h
    <3>1. \A g \in r.flights : g.id \in Nat /\ g.id < r.next_id /\ g.server # s
      BY <1>1 DEF Tracks, Reconcile, Flight
    <3> QED BY <1>3, <1>5, <1>7, <3>1 DEF Tracks
  <2>3. r.dirty \subseteq UNION {g.keys : g \in F}
    BY <1>7 DEF Tracks
  <2>4. \A g \in F : g.keys \cap (P \cup U) = {}
    BY <1>6, <1>7 DEF Tracks
  <2> QED BY <1>8, <1>10, <2>1, <2>2, <2>3, <2>4 DEF Tracks
<1> QED BY <1>3, <1>4, <1>5, <1>7, <1>9, <1>10, <1>11, <1>12

\* kick: what is out stays out, and what leaves has a number nobody had.
LEMMA KickTracks ==
    ASSUME TypeOK, NEW r, Tracks(r), NEW may
    PROVE  LET n == KickReads(r, may)
           IN  /\ Tracks(n) /\ r.flights \subseteq n.flights /\ r.next_id <= n.next_id
               /\ \A f \in n.flights :
                    f \in r.flights \/ (may /\ f.id >= r.next_id /\ f.stamp = vs.ledger.seq)
<1>1. r \in Reconcile /\ r.next_id \in Nat
  BY DEF Tracks, Reconcile
<1>2. CASE KickReads(r, may) = r
  BY <1>1, <1>2
<1>3. CASE KickReads(r, may) = [r EXCEPT !.retry_cd = r.retry_cd - 1] /\ r.retry_cd > 0
  <2> DEFINE R == r.retry_cd - 1
             n == [r EXCEPT !.retry_cd = R]
  <2>1. R \in 0..RetryFrames
    BY <1>1, <1>3, ViewStateAssumption DEF Reconcile
  <2>2. KickReads(r, may) = n
    BY <1>3
  <2> HIDE DEF R
  <2>3. /\ n \in Reconcile /\ n.flights = r.flights /\ n.next_id = r.next_id /\ n.dirty = r.dirty
        /\ n.pending = r.pending /\ n.pending_parents = r.pending_parents
    BY <1>1, <2>1 DEF Reconcile
  <2> HIDE DEF n
  <2>4. Tracks(n)
    BY <2>3, AsideTracks
  <2> QED BY <1>1, <2>2, <2>3, <2>4
<1>4. CASE may /\ KickReads(r, may) = FoldSet(SendBatch, r, KickServers(r))
  <2> DEFINE K == KickServers(r)
             G == {p \in (SUBSET K) \X Reconcile :
                     /\ Tracks(p[2]) /\ r.flights \subseteq p[2].flights
                     /\ r.next_id <= p[2].next_id
                     /\ \A f \in p[2].flights :
                          \/ f \in r.flights
                          \/ f.server \in p[1] /\ f.id >= r.next_id /\ f.stamp = vs.ledger.seq}
  <2>1. K \subseteq Servers /\ \A s \in K : \A f \in r.flights : f.server # s
    BY DEF KickServers
  <2>2. IsFiniteSet(K)
    BY <2>1, FS_Subset, ViewSyncAssumption
  <2> HIDE DEF K
  <2>3. <<{}, r>> \in G
    BY <1>1
  <2>4. ASSUME NEW t \in SUBSET K, NEW s \in K, NEW v \in Reconcile, s \notin t, <<t, v>> \in G
        PROVE  <<t \cup {s}, SendBatch(s, v)>> \in G
    <3>1. /\ Tracks(v) /\ r.flights \subseteq v.flights /\ r.next_id <= v.next_id
          /\ \A f \in v.flights :
                \/ f \in r.flights
                \/ f.server \in t /\ f.id >= r.next_id /\ f.stamp = vs.ledger.seq
      BY <2>4
    <3>2. s \in Servers /\ \A f \in v.flights : f.server # s
      BY <2>1, <2>4, <3>1
    <3>3. PICK n : n = SendBatch(s, v)
      OBVIOUS
    <3>4. /\ Tracks(n) /\ v.flights \subseteq n.flights /\ v.next_id <= n.next_id
          /\ \A f \in n.flights :
                \/ f \in v.flights
                \/ f.server = s /\ f.id = v.next_id /\ f.stamp = vs.ledger.seq
      BY <3>1, <3>2, <3>3, SendTracks
    <3>5. v.next_id \in Nat /\ n.next_id \in Nat /\ n \in Reconcile
      BY <3>4 DEF Tracks, Reconcile
    <3>6. r.next_id <= n.next_id
      BY <1>1, <3>1, <3>4, <3>5
    <3>7. \A f \in n.flights :
             \/ f \in r.flights
             \/ f.server \in t \cup {s} /\ f.id >= r.next_id /\ f.stamp = vs.ledger.seq
      BY <3>1, <3>4
    <3>8. <<t \cup {s}, n>> \in G
      BY <3>1, <3>4, <3>5, <3>6, <3>7
    <3> QED BY <3>3, <3>8
  <2>5. Through(G, K, Reconcile)
    BY DEF Through
  <2>6. <<K, FoldSet(SendBatch, r, K)>> \in G
    <3> HIDE DEF G
    <3> QED BY <2>2, <2>3, <2>4, <2>5, SendFold
  <2>7. PICK n : n = FoldSet(SendBatch, r, K)
    OBVIOUS
  <2>8. <<K, n>> \in G
    BY <2>6, <2>7
  <2>9. /\ Tracks(n) /\ r.flights \subseteq n.flights /\ r.next_id <= n.next_id
        /\ \A f \in n.flights : f \in r.flights \/ (f.id >= r.next_id /\ f.stamp = vs.ledger.seq)
    BY <2>8
  <2>10. KickReads(r, may) = n
    BY <1>4, <2>7 DEF K
  <2> QED BY <1>4, <2>9, <2>10
<1> QED BY <1>2, <1>3, <1>4 DEF KickReads

------------------------------------------------------------------------------
(* The reads that are out.                                                  *)

\* What a read worker's answer may hold.
Answer(m) ==
    /\ m.id \in Nat /\ m.outcome \in {"NotStarted", "Read"} /\ DOMAIN m.rows \subseteq Items
    /\ \A i \in DOMAIN m.rows : m.rows[i] \in BOOLEAN

\* The state of the reads, beside the queue's, with the types the code gives it.
Typed ==
    /\ readers \subseteq [id : Nat \ {0}, port : Nat, keys : SUBSET Items]
    /\ IsFiniteSet(rmail) /\ \A m \in rmail : Answer(m)
    /\ page.state \in {"none", "out", "answered"}
    /\ page.state = "answered" => page.rows \in [Items -> BOOLEAN]
    /\ play.state \in {"none", "playing", "stopped"}
    /\ play.state # "none" => play.item \in Items
    /\ used \in [{"reads", "stops", "hints", "unstarted", "unread"} -> Nat]

\* A read that is out is with one worker of this adapter, or answered: R is what
\* runs, M what was posted.
Carried(r, R, M) ==
    /\ \A k \in R : k.id < r.next_id /\ k.port <= adapter
    /\ \A k, l \in R : k.id = l.id => k = l
    /\ \A m \in M : m.id < r.next_id
    /\ \A f \in r.flights :
          (\E k \in R : k.port = adapter /\ k.id = f.id) # (\E m \in M : m.id = f.id)

\* A read that is out left before every press that is queued or out.
Earlier(r, v) ==
    \A f \in r.flights : f.stamp <= v.ledger.seq /\ \A p \in Presses(v) : f.stamp < p.seq

\* The inductive invariant of the composition.
SyncInv ==
    /\ TypeInv /\ Ordered /\ Standing(vs)
    /\ Tracks(rc) /\ Typed /\ Carried(rc, readers, rmail) /\ Earlier(rc, vs)

\* What the landing of every answer leaves out has no answer.
LEMMA LeftOut ==
    ASSUME Tracks(rc), NEW f \in rc.flights \ {FlightOf(m) : m \in Answering}, NEW m \in rmail
    PROVE  m.id # f.id
<1> SUFFICES ASSUME m.id = f.id PROVE FALSE
  OBVIOUS
<1>1. m \in Answering
  BY DEF Answering
<1>2. FlightOf(m) \in rc.flights /\ FlightOf(m).id = m.id
  BY <1>1 DEF Answering, FlightOf
<1>3. FlightOf(m) = f
  BY <1>2 DEF Tracks
<1> QED BY <1>1, <1>3

\* The runner starts each read that left, or answers for it: nothing else is added.
LEMMA LaunchCarried ==
    ASSUME TypeOK, Tracks(rc), Typed, Carried(rc, readers, rmail), NEW n, Tracks(n),
           rc.next_id <= n.next_id, StartReads(rc, n),
           \A f \in n.flights : \/ f \in rc.flights /\ \A m \in rmail : m.id # f.id
                                \/ f.id >= rc.next_id
    PROVE  /\ Carried(n, readers', rmail')
           /\ readers' \subseteq [id : Nat \ {0}, port : Nat, keys : SUBSET Items]
           /\ IsFiniteSet(rmail') /\ \A m \in rmail' : Answer(m)
           /\ used' \in [{"reads", "stops", "hints", "unstarted", "unread"} -> Nat]
<1> DEFINE new == {f \in n.flights : f.id >= rc.next_id}
           run(f) == [id |-> f.id, port |-> adapter, keys |-> f.keys]
           msg(f) == [id |-> f.id, outcome |-> "NotStarted", rows |-> <<>>]
<1>1. PICK no \in SUBSET new :
          /\ used' = [used EXCEPT !.unstarted = @ + Cardinality(no)]
          /\ readers' = readers \cup {run(f) : f \in new \ no}
          /\ rmail' = {msg(f) : f \in no}
  BY DEF StartReads
<1>2. /\ rc.next_id \in Nat /\ n.next_id \in Nat /\ adapter \in Nat
      /\ \A f \in n.flights : f \in Flight /\ f.id \in Nat \ {0} /\ f.id < n.next_id
      /\ \A f \in rc.flights : f.id \in Nat /\ f.id < rc.next_id
  BY DEF Tracks, Reconcile, Flight, TypeOK
<1>3. \A f, g \in n.flights : f.id = g.id => f = g
  BY DEF Tracks
<1>4. \A f \in new : f \in n.flights /\ f.id >= rc.next_id
  OBVIOUS
<1>5. \A f \in new : run(f).id = f.id /\ run(f).port = adapter
  OBVIOUS
<1>6. \A f \in new : run(f) \in [id : Nat \ {0}, port : Nat, keys : SUBSET Items]
  BY <1>2, <1>4 DEF Flight
<1>7. \A f : msg(f).id = f.id /\ msg(f).outcome = "NotStarted" /\ DOMAIN msg(f).rows = {}
  OBVIOUS
<1>8. IsFiniteSet(new) /\ IsFiniteSet(no) /\ Cardinality(no) \in Nat
  <2>1. IsFiniteSet(new)
    BY FS_Subset DEF Tracks
  <2>2. IsFiniteSet(no)
    BY <2>1, FS_Subset
  <2> QED BY <2>1, <2>2, FS_CardinalityType
<1>9. IsFiniteSet(rmail')
  <2> HIDE DEF msg
  <2> DEFINE g == [f \in no |-> msg(f)]
  <2>1. g \in Surjection(no, rmail')
    BY <1>1 DEF Surjection
  <2> HIDE DEF g
  <2> QED BY <1>8, <2>1, FS_Surjection
<1> HIDE DEF new, run, msg
<1>10. \A k \in readers' : k \in readers \/ \E f \in new \ no : k = run(f)
  BY <1>1
<1>11. \A k \in readers : k.id \in Nat /\ k.id < rc.next_id /\ k.port <= adapter
  BY DEF Typed, Carried
<1>12. \A m \in rmail' : \E f \in no : m = msg(f)
  BY <1>1
<1>13. readers' \subseteq [id : Nat \ {0}, port : Nat, keys : SUBSET Items]
  BY <1>6, <1>10 DEF Typed
<1>14. \A m \in rmail' : Answer(m)
  BY <1>2, <1>4, <1>7, <1>12 DEF Answer
<1>15. used' \in [{"reads", "stops", "hints", "unstarted", "unread"} -> Nat]
  BY <1>1, <1>8 DEF Typed
<1>16. \A k \in readers' : k.id < n.next_id /\ k.port <= adapter
  BY <1>2, <1>4, <1>5, <1>10, <1>11
<1>17. \A k, l \in readers' : k.id = l.id => k = l
  <2> SUFFICES ASSUME NEW k \in readers', NEW l \in readers', k.id = l.id PROVE k = l
    OBVIOUS
  <2>1. \A f \in new : f.id \in Nat /\ f.id >= rc.next_id
    BY <1>2, <1>4
  <2>2. CASE k \in readers /\ l \in readers
    BY <2>2 DEF Carried
  <2>3. ASSUME NEW f \in new, k = run(f), l \in readers PROVE FALSE
    BY <1>2, <1>5, <1>11, <2>1, <2>3
  <2>4. ASSUME NEW f \in new, l = run(f), k \in readers PROVE FALSE
    BY <1>2, <1>5, <1>11, <2>1, <2>4
  <2>5. ASSUME NEW f \in new, NEW g \in new, k = run(f), l = run(g) PROVE k = l
    BY <1>3, <1>4, <1>5, <2>5
  <2> QED BY <1>10, <2>2, <2>3, <2>4, <2>5
<1>18. \A m \in rmail' : m.id < n.next_id
  BY <1>2, <1>4, <1>7, <1>12
<1>19. ASSUME NEW f \in n.flights
       PROVE  (\E k \in readers' : k.port = adapter /\ k.id = f.id) # (\E m \in rmail' : m.id = f.id)
  <2>1. CASE f.id < rc.next_id
    <3>1. f \in rc.flights /\ \A m \in rmail : m.id # f.id
      BY <1>2, <2>1
    <3>2. \E k \in readers : k.port = adapter /\ k.id = f.id
      BY <3>1 DEF Carried
    <3>3. \E k \in readers' : k.port = adapter /\ k.id = f.id
      BY <1>1, <3>2
    <3>4. ~\E m \in rmail' : m.id = f.id
      BY <1>2, <1>4, <1>7, <1>12, <2>1
    <3> QED BY <3>3, <3>4
  <2>2. CASE f.id >= rc.next_id /\ f \in no
    <3>1. msg(f) \in rmail' /\ msg(f).id = f.id
      BY <1>1, <1>7, <2>2
    <3>2. ASSUME NEW k \in readers', k.id = f.id PROVE FALSE
      <4>1. CASE k \in readers
        BY <1>2, <1>11, <2>2, <3>2, <4>1
      <4>2. ASSUME NEW g \in new \ no, k = run(g) PROVE FALSE
        <5>1. g.id = f.id BY <1>5, <3>2, <4>2
        <5>2. g = f BY <1>3, <1>4, <5>1
        <5> QED BY <2>2, <5>2
      <4> QED BY <1>10, <4>1, <4>2
    <3> QED BY <3>1, <3>2
  <2>3. CASE f.id >= rc.next_id /\ f \notin no
    <3>1. f \in new \ no
      BY <2>3 DEF new
    <3>2. run(f) \in readers' /\ run(f).port = adapter /\ run(f).id = f.id
      BY <1>1, <1>5, <3>1
    <3>3. ASSUME NEW m \in rmail', m.id = f.id PROVE FALSE
      <4>1. PICK g \in no : m = msg(g) BY <1>12
      <4>2. g.id = f.id BY <1>7, <3>3, <4>1
      <4>3. g = f BY <1>3, <1>4, <4>2
      <4> QED BY <2>3, <4>3
    <3> QED BY <3>2, <3>3
  <2> QED BY <1>2, <2>1, <2>2, <2>3
<1>20. Carried(n, readers', rmail')
  BY <1>16, <1>17, <1>18, <1>19 DEF Carried
<1> QED BY <1>9, <1>13, <1>14, <1>15, <1>20

\* Forward twice is forward.
LEMMA ForwardTwice ==
    ASSUME NEW v, NEW y, NEW x, Forward(v, y), Forward(y, x)
    PROVE  Forward(v, x)
<1>1. CASE x.sent = y.sent
  BY <1>1 DEF Forward
<1>2. CASE x.sent # y.sent
  <2>1. y.sent = NoReq
    BY <1>2 DEF Forward
  <2>2. v.sent = NoReq
    BY <2>1 DEF Forward
  <2> QED BY <1>2, <2>2 DEF Forward
<1> QED BY <1>1, <1>2

\* Fanning out every stream that ended: requests behind all others, no entry, no press,
\* and no press dropped while all may be sent.
LEMMA FanStanding ==
    ASSUME TypeOK, NEW v \in ViewStateState, Serial(v), Standing(v), NEW S \in SUBSET Items
    PROVE  LET x == FoldSet(Fan, v, S)
           IN  /\ x \in ViewStateState /\ Forward(v, x) /\ Standing(x)
               /\ x.ledger.seq = v.ledger.seq /\ Presses(x) \subseteq Presses(v)
               /\ x.ledger.entries \subseteq v.ledger.entries
               /\ x.want_reread = v.want_reread
               /\ (\A q \in Out(v) : Admit(q)) =>
                     Presses(x) = Presses(v) /\ \A q \in Out(x) : Admit(q)
<1> DEFINE D == ViewStateState
           may(x) == \A q \in Out(x) : Admit(q)
           ok(x) == /\ Forward(v, x) /\ Standing(x)
                    /\ x.ledger.seq = v.ledger.seq /\ Presses(x) \subseteq Presses(v)
                    /\ x.ledger.entries \subseteq v.ledger.entries
                    /\ x.want_reread = v.want_reread
                    /\ may(v) => Presses(x) = Presses(v) /\ may(x)
           G == {p \in (SUBSET S) \X D : ok(p[2])}
<1>1. IsFiniteSet(S)
  BY FS_Subset, ViewSyncAssumption
<1>2. <<{}, v>> \in G
  <2>1. Forward(v, v)
    BY DEF Forward
  <2>2. ok(v)
    BY <2>1
  <2> HIDE DEF ok
  <2> QED BY <2>2
<1>3. ASSUME NEW t \in SUBSET S, NEW i \in S, NEW y \in D, i \notin t, <<t, y>> \in G
      PROVE  <<t \cup {i}, Fan(i, y)>> \in G
  <2>0. ok(y)
    <3> HIDE DEF ok
    <3> QED BY <1>3
  <2>1. Forward(v, y) /\ Standing(y) /\ Serial(y)
    BY <2>0 DEF Forward
  <2>2. PICK n : n = FanOutOriginWatched(y, i)
    OBVIOUS
  <2>3. n \in D /\ Forward(y, n)
    BY <2>1, <2>2, StreamEndForward
  <2>4. /\ Standing(n) /\ n.ledger.seq = y.ledger.seq /\ Presses(n) \subseteq Presses(y)
        /\ n.ledger.entries \subseteq y.ledger.entries /\ n.want_reread = y.want_reread
        /\ may(y) => Presses(n) = Presses(y) /\ may(n)
    BY <2>1, <2>2, StreamEndStanding
  <2>5. Forward(v, n)
    BY <2>1, <2>3, ForwardTwice
  <2>6. ok(n)
    <3> HIDE DEF may
    <3> QED BY <2>0, <2>4, <2>5
  <2>7. <<t \cup {i}, n>> \in G
    <3> HIDE DEF ok
    <3> QED BY <2>3, <2>6
  <2> QED BY <2>2, <2>7 DEF Fan
<1>4. Through(G, S, D)
  BY DEF Through
<1>5. <<S, FoldSet(Fan, v, S)>> \in G
  <2> HIDE DEF G, D
  <2> QED BY <1>1, <1>2, <1>3, <1>4, FanFold
<1>6. PICK x : x = FoldSet(Fan, v, S)
  OBVIOUS
<1>7. x \in ViewStateState /\ ok(x)
  <2> HIDE DEF ok
  <2> QED BY <1>5, <1>6
<1> QED BY <1>6, <1>7

\* What an answer publishes about a row is what its server said.
LEMMA FactsType ==
    ASSUME TypeOK, Typed
    PROVE  PublishFacts(screen) \in [Items -> BOOLEAN]
<1>1. \A m \in rmail : \A i \in DOMAIN m.rows : m.rows[i] \in BOOLEAN
  BY DEF Typed, Answer
<1>2. \A m \in Answering : m \in rmail
  BY DEF Answering
<1>3. \A p \in Published : p.on \in BOOLEAN
  <2> SUFFICES ASSUME NEW m \in Answering, NEW p \in Facts(m) PROVE p.on \in BOOLEAN
    BY DEF Published
  <2>1. PICK i \in Rows(FlightOf(m), m) : p = [item |-> i, on |-> m.rows[i]]
    BY DEF Facts
  <2>2. i \in DOMAIN m.rows
    BY DEF Rows
  <2> QED BY <1>1, <1>2, <2>1, <2>2
<1>4. screen \in [Items -> BOOLEAN]
  BY DEF TypeOK
<1>5. \A i \in Items : (\E p \in Published : p.item = i) =>
          (CHOOSE p \in Published : p.item = i) \in Published
  OBVIOUS
<1>6. \A i \in Items : (IF \E p \in Published : p.item = i
                        THEN (CHOOSE p \in Published : p.item = i).on ELSE screen[i]) \in BOOLEAN
  BY <1>3, <1>4, <1>5
<1> QED BY <1>4, <1>6 DEF PublishFacts

\* A frame of the read-back: what it leaves out of the queue is carried, and a read it
\* sent left with no write queued or out.
LEMMA FrameReads ==
    ASSUME SyncInv, ReconcilePump
    PROVE  /\ Tracks(rc') /\ Carried(rc', readers', rmail')
           /\ readers' \subseteq [id : Nat \ {0}, port : Nat, keys : SUBSET Items]
           /\ IsFiniteSet(rmail') /\ \A m \in rmail' : Answer(m)
           /\ used' \in [{"reads", "stops", "hints", "unstarted", "unread"} -> Nat]
           /\ \A f \in rc'.flights : f \in rc.flights \/ (~Busy(vs) /\ f.stamp = vs.ledger.seq)
<1>1. /\ TypeOK /\ Tracks(rc) /\ Typed /\ Carried(rc, readers, rmail)
      /\ IsFiniteSet(rmail)
  BY DEF SyncInv, TypeInv, Typed
<1>2. TakeReread(vs) \in SUBSET Items
  BY <1>1 DEF TakeReread, TypeOK, ViewStateState
<1>3. PICK owed : owed = Enqueue(rc, TakeReread(vs))
  OBVIOUS
<1>4. Tracks(owed) /\ owed.flights = rc.flights /\ owed.next_id = rc.next_id
  BY <1>1, <1>2, <1>3, EnqueueTracks
<1>5. PICK l : l = FoldSet(Landing, owed, Answering)
  OBVIOUS
<1>6. /\ Tracks(l) /\ l.next_id = rc.next_id
      /\ l.flights = rc.flights \ {FlightOf(m) : m \in Answering}
  BY <1>1, <1>4, <1>5, LandAll
<1>7. PICK n : n = rc'
  OBVIOUS
<1>8. n = KickReads(l, MaySend)
  BY <1>3, <1>5, <1>7 DEF ReconcilePump
<1>9. /\ Tracks(n) /\ l.next_id <= n.next_id
      /\ \A f \in n.flights :
            f \in l.flights \/ (MaySend /\ f.id >= l.next_id /\ f.stamp = vs.ledger.seq)
  BY <1>1, <1>6, <1>8, KickTracks
<1>10. StartReads(rc, n)
  BY <1>7 DEF ReconcilePump
<1>11. ASSUME NEW f \in n.flights
       PROVE  \/ f \in rc.flights /\ \A m \in rmail : m.id # f.id
              \/ f.id >= rc.next_id
  <2>1. CASE f \in l.flights
    <3>1. f \in rc.flights \ {FlightOf(m) : m \in Answering} BY <1>6, <2>1
    <3> QED BY <1>1, <3>1, LeftOut
  <2> QED BY <1>6, <1>9, <2>1
<1>12. \A f \in n.flights : f \in rc.flights \/ (~Busy(vs) /\ f.stamp = vs.ledger.seq)
  BY <1>6, <1>9 DEF MaySend
<1>13. /\ Carried(n, readers', rmail')
       /\ readers' \subseteq [id : Nat \ {0}, port : Nat, keys : SUBSET Items]
       /\ IsFiniteSet(rmail') /\ \A m \in rmail' : Answer(m)
       /\ used' \in [{"reads", "stops", "hints", "unstarted", "unread"} -> Nat]
  BY <1>1, <1>6, <1>9, <1>10, <1>11, LaunchCarried
<1> QED BY <1>7, <1>9, <1>12, <1>13

\* The streams an answer ended are rows.
LEMMA EndsItems ==
    ASSUME Tracks(rc), NEW m \in Answering, NEW r
    PROVE  WatchedEnds(r, FlightOf(m), m) \subseteq Items
<1>1. FlightOf(m) \in rc.flights
  BY DEF Answering, FlightOf
<1>2. FlightOf(m).keys \subseteq Items
  BY <1>1 DEF Tracks, Reconcile, Flight
<1> QED BY <1>2 DEF WatchedEnds, Rows

\* ... and the write path takes it as it takes the end of a stream: requests behind all
\* others, one write out, no entry and no press.
LEMMA FrameWrites ==
    ASSUME SyncInv, ReconcilePump
    PROVE  /\ TypeInv' /\ Ordered' /\ Standing(vs')
           /\ vs'.ledger.seq = vs.ledger.seq /\ Presses(vs') \subseteq Presses(vs)
<1>1. /\ TypeInv /\ TypeOK /\ OneWriteOut /\ Serial(vs) /\ Followed(vs) /\ MailInv
      /\ Standing(vs) /\ Tracks(rc) /\ Typed
      /\ vs \in ViewStateState /\ mail \in {NoMail} \cup Completion
  BY DEF SyncInv, TypeInv, TypeOK, Ordered, OneWriteOut, Followed
<1>2. PICK v : v = [vs EXCEPT !.want_reread = @ \ TakeReread(vs)]
  OBVIOUS
<1>3. /\ v \in ViewStateState /\ v.queue = vs.queue /\ v.sent = vs.sent
      /\ v.next_id = vs.next_id /\ v.ledger = vs.ledger
  BY <1>1, <1>2 DEF ViewStateState
<1>4. Serial(v) /\ \A n \in Nat : Behind(n, vs) => Behind(n, v)
  BY <1>1, <1>3, SameOrder
<1>5. Followed(v)
  BY <1>1, <1>3, <1>4, ForwardFollowed
<1>6. Standing(v) /\ Presses(v) = Presses(vs)
  <2>1. Out(v) = Out(vs) BY <1>3 DEF Out
  <2> QED BY <1>1, <1>3, <2>1, SameStanding
<1>7. PICK owed : owed = Enqueue(rc, TakeReread(vs))
  OBVIOUS
<1>8. PICK ends : ends = UNION {WatchedEnds(owed, FlightOf(m), m) :
                                  m \in {n \in Answering : n.outcome = "Read"}}
  OBVIOUS
<1>9. ends \in SUBSET Items
  <2>1. \A m \in Answering : WatchedEnds(owed, FlightOf(m), m) \subseteq Items
    BY <1>1, EndsItems
  <2> QED BY <1>8, <2>1
<1>10. PICK x : x = vs'
  OBVIOUS
<1>11. x = FoldSet(Fan, v, ends)
  BY <1>2, <1>7, <1>8, <1>10 DEF ReconcilePump
<1>12. /\ x \in ViewStateState /\ Forward(v, x) /\ Standing(x)
       /\ x.ledger.seq = v.ledger.seq /\ Presses(x) \subseteq Presses(v)
  BY <1>1, <1>3, <1>4, <1>6, <1>9, <1>11, FanStanding
<1>13. /\ StartJobs(vs, x, mail) /\ screen' = PublishFacts(screen)
       /\ UNCHANGED <<adapter, token, profile, switch, deck, truth, log, seats, failed>>
  BY <1>10 DEF ReconcilePump
<1>14. TypeInv'
  <2>1. workers' \subseteq Worker /\ mail' \in {NoMail} \cup Completion /\ refused' \in Nat
    BY <1>1, <1>12, <1>13, StartJobsType
  <2>2. screen' \in [Items -> BOOLEAN]
    BY <1>1, <1>13, FactsType
  <2>3. deck' \in SUBSET Items
    BY <1>1, <1>13 DEF TypeOK
  <2> QED BY <1>1, <1>10, <1>12, <1>13, <2>1, <2>2, <2>3, MainStepType
<1>15. Ordered'
  <2>1. x.sent = v.sent \/ x.sent.id # vs.sent.id
    BY <1>3, <1>12 DEF Forward, NoReq
  <2>2. mail # NoMail =>
           /\ v.sent # NoReq /\ mail.id = v.sent.id
           /\ \A k \in workers : k.port # adapter
           /\ mail.outcome = "NotStarted" => \A m \in DOMAIN log : log[m].id < mail.id
    BY <1>1, <1>3 DEF MailInv
  <2>3. OneWriteOut'
    BY <1>1, <1>3, <1>4, <1>5, <1>10, <1>12, <1>13, <2>1, <2>2, JobStep
  <2> QED BY <1>13, <2>3 DEF Ordered, PressOrder, PerformedOnce, SyncInv
<1> QED BY <1>3, <1>6, <1>10, <1>12, <1>14, <1>15

\* A frame of the read-back keeps the invariant.
LEMMA FrameStep ==
    ASSUME SyncInv, ReconcilePump
    PROVE  SyncInv'
<1>1. /\ Tracks(rc') /\ Carried(rc', readers', rmail')
      /\ readers' \subseteq [id : Nat \ {0}, port : Nat, keys : SUBSET Items]
      /\ IsFiniteSet(rmail') /\ \A m \in rmail' : Answer(m)
      /\ used' \in [{"reads", "stops", "hints", "unstarted", "unread"} -> Nat]
      /\ \A f \in rc'.flights : f \in rc.flights \/ (~Busy(vs) /\ f.stamp = vs.ledger.seq)
  BY FrameReads
<1>2. /\ TypeInv' /\ Ordered' /\ Standing(vs')
      /\ vs'.ledger.seq = vs.ledger.seq /\ Presses(vs') \subseteq Presses(vs)
  BY FrameWrites
<1>3. adapter' = adapter /\ page' = page /\ play' = play
  BY DEF ReconcilePump
<1>4. Earlier(rc', vs')
  <2>1. Earlier(rc, vs) /\ vs.ledger.seq \in Nat
    BY DEF SyncInv, TypeInv, TypeOK, ViewStateState, Ledger
  <2>2. ~Busy(vs) => Presses(vs) = {}
    <3>1. ~Busy(vs) => Out(vs) = {} BY DEF Busy, Out
    <3> QED BY <3>1 DEF Presses
  <2> QED BY <1>1, <1>2, <2>1, <2>2 DEF Earlier
<1>5. Typed'
  BY <1>1, <1>3 DEF Typed, SyncInv
<1>6. Carried(rc, readers, rmail)'
  BY <1>1, <1>3 DEF Carried
<1> QED BY <1>1, <1>2, <1>4, <1>5, <1>6 DEF SyncInv

\* A step of the writes leaves the reads earlier than every press: a new press has a
\* number the ledger had not given.
LEMMA WriteKeepsEarlier ==
    ASSUME SyncInv, [Next]_vsVars
    PROVE  /\ TypeInv' /\ Ordered' /\ Standing(vs')
           /\ \A r : Earlier(r, vs) /\ Tracks(r) => Earlier(r, vs')
<1>1. /\ TypeInv /\ Ordered /\ Standing(vs) /\ vs.ledger.seq \in Nat
  BY DEF SyncInv, TypeInv, TypeOK, ViewStateState, Ledger
<1>2. TypeInv' /\ Ordered'
  BY <1>1, NextType, NextOrdered
<1>3. /\ Standing(vs') /\ vs.ledger.seq <= vs'.ledger.seq
      /\ \A q \in Presses(vs') : q \in Presses(vs) \/ vs.ledger.seq < q.seq
  BY <1>1, StepStanding
<1>4. vs'.ledger.seq \in Nat /\ \A q \in Presses(vs') : q.seq \in Nat
  <2>1. vs' \in ViewStateState BY <1>2 DEF TypeInv, TypeOK
  <2>2. \A q \in Out(vs') : q \in Req BY <2>1, OutTyped
  <2> QED BY <2>1, <2>2 DEF ViewStateState, Ledger, Presses, Req
<1>5. ASSUME NEW r, Earlier(r, vs), Tracks(r) PROVE Earlier(r, vs')
  <2>1. \A f \in r.flights : f.stamp \in Nat
    BY <1>5 DEF Tracks, Reconcile, Flight
  <2> QED BY <1>1, <1>3, <1>4, <1>5, <2>1 DEF Earlier
<1> QED BY <1>2, <1>3, <1>5

\* The writes' own steps.
LEMMA WriteKeeps ==
    ASSUME SyncInv, WriteStep, UNCHANGED syncVars
    PROVE  SyncInv'
<1>1. [Next]_vsVars /\ adapter' = adapter
  <2>1. ASSUME NEW i \in Pressable, NEW w \in Writes, Press(i, w) PROVE adapter' = adapter
    BY <2>1 DEF Press
  <2>2. ASSUME ViewStatePump PROVE adapter' = adapter
    BY <2>2 DEF ViewStatePump
  <2>3. ASSUME NEW on \in Routes, HoldNetwork(on) PROVE adapter' = adapter
    BY <2>3 DEF HoldNetwork
  <2>4. ASSUME NEW u \in Users, SwapTokens(u) PROVE adapter' = adapter
    BY <2>4 DEF SwapTokens
  <2>5. ASSUME PublishProfile PROVE adapter' = adapter
    BY <2>5 DEF PublishProfile
  <2>6. ASSUME NEW s \in Servers, RefreshToken(s) PROVE adapter' = adapter
    BY <2>6 DEF RefreshToken
  <2>7. ASSUME NEW k \in workers, WorkerStep(k) PROVE adapter' = adapter
    BY <2>7 DEF WorkerStep, WriteOrigin, FanOut, Finish, Panic, Becomes, Post
  <2>8. Next
    BY Zenon DEF WriteStep, Next, SwitchStep
  <2>9. adapter' = adapter
    BY <2>1, <2>2, <2>3, <2>4, <2>5, <2>6, <2>7, Zenon DEF WriteStep
  <2> QED BY <2>8, <2>9
<1>2. /\ TypeInv' /\ Ordered' /\ Standing(vs') /\ Earlier(rc, vs')
  BY <1>1, WriteKeepsEarlier DEF SyncInv
<1>3. Tracks(rc) /\ Typed /\ Carried(rc, readers, rmail)
  BY DEF SyncInv
<1>4. /\ rc' = rc /\ readers' = readers /\ rmail' = rmail /\ page' = page /\ play' = play
      /\ used' = used
  BY DEF syncVars
<1>5. Typed'
  BY <1>3, <1>4 DEF Typed
<1>6. Carried(rc, readers, rmail)'
  BY <1>1, <1>3, <1>4 DEF Carried
<1> QED BY <1>2, <1>3, <1>4, <1>5, <1>6 DEF SyncInv

\* The reset drops the reads with the writes; their workers keep the rotated adapter.
LEMMA ResetKeeps ==
    ASSUME SyncInv, Reset, ResetReads
    PROVE  SyncInv'
<1>1. /\ TypeInv' /\ Ordered' /\ Standing(vs')
  <2>1. Next BY DEF Next, SwitchStep
  <2> QED BY <2>1, WriteKeepsEarlier
<1>2. /\ Tracks(rc) /\ Typed /\ Carried(rc, readers, rmail) /\ adapter \in Nat
      /\ rc.next_id \in Nat \ {0}
  BY DEF SyncInv, TypeInv, TypeOK, Tracks, Reconcile
<1>3. /\ rc' = [EmptyReconcile EXCEPT !.next_id = rc.next_id] /\ rmail' = {} /\ page' = NoPage
      /\ play' = NotPlaying /\ readers' = readers /\ used' = used /\ adapter' = adapter + 1
  BY DEF ResetReads, Reset
<1>4. /\ rc' \in Reconcile /\ rc'.flights = {} /\ rc'.dirty = {} /\ rc'.next_id = rc.next_id
  BY <1>2, <1>3, ViewStateAssumption DEF EmptyReconcile, Reconcile
<1>5. Tracks(rc')
  BY <1>4, FS_EmptySet DEF Tracks
<1>6. Typed'
  <2>1. IsFiniteSet(rmail') BY <1>3, FS_EmptySet
  <2> QED BY <1>2, <1>3, <2>1 DEF Typed, NoPage, NotPlaying
<1>7. Carried(rc, readers, rmail)'
  <2>1. \A k \in readers : k.port \in Nat BY <1>2 DEF Typed
  <2> QED BY <1>2, <1>3, <1>4, <2>1 DEF Carried
<1>8. Earlier(rc', vs')
  BY <1>4 DEF Earlier
<1> QED BY <1>1, <1>5, <1>6, <1>7, <1>8 DEF SyncInv

\* A step that leaves the writes, the flights and their workers alone.
LEMMA AsideSync ==
    ASSUME SyncInv, TypeInv', Typed', Tracks(rc'), rc'.flights = rc.flights,
           rc'.next_id = rc.next_id,
           UNCHANGED <<vs, adapter, mail, workers, log, readers, rmail>>
    PROVE  SyncInv'
<1>1. Ordered'
  <2>1. OneWriteOut' BY AsideOne DEF SyncInv, Ordered
  <2> QED BY <2>1 DEF SyncInv, Ordered, PressOrder, PerformedOnce
<1>2. Standing(vs') /\ Earlier(rc', vs')
  BY DEF SyncInv, Earlier
<1>3. Carried(rc, readers, rmail)'
  BY DEF SyncInv, Carried
<1> QED BY <1>1, <1>2, <1>3 DEF SyncInv

\* What the ledger makes of a row it patches.
LEMMA PatchType ==
    ASSUME NEW t \in Ledger, WellNumbered(t), NEW stamp, NEW row, NEW body \in BOOLEAN
    PROVE  Patch(t, stamp, row, body) \in BOOLEAN
<1> DEFINE E == Replayed(t, stamp, row, "Watched")
           top(e) == \A f \in E : f.seq <= e.seq
           D == {t.seq - e.seq : e \in E}
<1>1. \A e \in E : e \in t.entries /\ e.seq \in Nat /\ e.seq <= t.seq /\ e.edit.on \in BOOLEAN
  BY DEF Replayed, Since, Ledger, Entry, Edit, WellNumbered
<1>2. t.seq \in Nat
  BY DEF Ledger
<1> HIDE DEF E
<1>3. ASSUME E # {} PROVE \E e \in E : top(e)
  <2>1. D \in SUBSET Nat /\ D # {} BY <1>1, <1>2, <1>3
  <2>2. PICK d \in D : \A c \in D : d <= c
    <3> HIDE DEF D
    <3> QED BY <2>1, LeastNatural
  <2>3. PICK e \in E : d = t.seq - e.seq OBVIOUS
  <2>4. ASSUME NEW f \in E PROVE f.seq <= e.seq
    <3>1. t.seq - f.seq \in D OBVIOUS
    <3>2. t.seq - e.seq <= t.seq - f.seq BY <2>2, <2>3, <3>1
    <3> QED BY <1>1, <1>2, <3>2
  <2> QED BY <2>3, <2>4
<1>4. E # {} => (CHOOSE e \in E : top(e)) \in E
  BY <1>3
<1> QED BY <1>1, <1>4 DEF Patch, E

\* A page is asked for, answered, and lands.
LEMMA PageKeeps ==
    ASSUME SyncInv, PageRequest \/ PageAnswer \/ PageLand
    PROVE  SyncInv'
<1>1. /\ TypeInv /\ TypeOK /\ Typed /\ Tracks(rc) /\ Standing(vs)
  BY DEF SyncInv, TypeInv
<1>2. CASE PageRequest
  <2>1. /\ used \in [{"reads", "stops", "hints", "unstarted", "unread"} -> Nat]
        /\ used' = [used EXCEPT !.reads = @ + 1]
    BY <1>1, <1>2 DEF PageRequest, Typed
  <2>2. used' \in [{"reads", "stops", "hints", "unstarted", "unread"} -> Nat]
    BY <2>1
  <2>3. page'.state = "out" /\ UNCHANGED <<vsVars, rc, readers, rmail, play>>
    BY <1>2 DEF PageRequest
  <2>4. Typed'
    BY <1>1, <2>2, <2>3 DEF Typed
  <2>5. TypeInv'
    BY <1>1, <2>3 DEF TypeInv, TypeOK, vsVars
  <2> QED BY <1>1, <2>3, <2>4, <2>5, AsideSync DEF vsVars
<1>3. CASE PageAnswer
  <2>1. /\ page'.state = "answered" /\ page'.rows = [i \in Items |-> ServerSays(Bearer(i), i)]
        /\ UNCHANGED <<vsVars, rc, readers, rmail, play, used>>
    BY <1>3 DEF PageAnswer
  <2>2. page'.rows \in [Items -> BOOLEAN]
    BY <2>1 DEF ServerSays
  <2>3. Typed'
    BY <1>1, <2>1, <2>2 DEF Typed
  <2>4. TypeInv'
    BY <1>1, <2>1 DEF TypeInv, TypeOK, vsVars
  <2> QED BY <1>1, <2>1, <2>3, <2>4, AsideSync DEF vsVars
<1>4. CASE PageLand
  <2>1. /\ page'.state = "none"
        /\ UNCHANGED <<vs, adapter, mail, workers, token, profile, switch, truth, log,
                       seats, refused, failed, rc, readers, rmail, play, used>>
    BY <1>4 DEF PageLand, NoPage
  <2>2. Typed'
    BY <1>1, <2>1 DEF Typed
  <2>3. \A i \in Items : PatchRows(page)[i] \in BOOLEAN
    <3>1. page.rows \in [Items -> BOOLEAN] BY <1>1, <1>4 DEF Typed, PageLand
    <3>2. vs.ledger \in Ledger /\ WellNumbered(vs.ledger)
      BY <1>1 DEF TypeOK, ViewStateState, Standing
    <3>3. \A i \in Items : Patch(vs.ledger, page.stamp, i, page.rows[i]) \in BOOLEAN
      BY <3>1, <3>2, PatchType
    <3> QED BY <3>3 DEF PatchRows
  <2>4. screen' \in [Items -> BOOLEAN] /\ deck' \subseteq Items
    BY <1>1, <1>4, <2>3 DEF PageLand, TypeOK
  <2>5. TypeInv'
    BY <1>1, <2>1, <2>4 DEF TypeInv, TypeOK
  <2> QED BY <1>1, <2>1, <2>2, <2>5, AsideSync
<1> QED BY <1>2, <1>3, <1>4

\* A read that is asked for.
LEMMA HintKeeps ==
    ASSUME SyncInv, NEW i \in Items, NEW quiet \in BOOLEAN, Hint(i, quiet)
    PROVE  SyncInv'
<1>1. /\ TypeInv /\ TypeOK /\ Typed /\ Tracks(rc)
  BY DEF SyncInv, TypeInv
<1>2. /\ used \in [{"reads", "stops", "hints", "unstarted", "unread"} -> Nat]
      /\ used' = [used EXCEPT !.hints = @ + 1]
      /\ UNCHANGED <<vsVars, readers, rmail, page, play>>
  BY <1>1 DEF Hint, Typed
<1>3. used' \in [{"reads", "stops", "hints", "unstarted", "unread"} -> Nat]
  BY <1>2
<1>4. Typed'
  BY <1>1, <1>2, <1>3 DEF Typed
<1>5. TypeInv'
  BY <1>1, <1>2 DEF TypeInv, TypeOK, vsVars
<1>6. Tracks(rc') /\ rc'.flights = rc.flights /\ rc'.next_id = rc.next_id
  <2>1. CASE quiet
    BY <1>1, <2>1, AskTracks DEF Hint
  <2>2. CASE ~quiet
    BY <1>1, <2>2, EnqueueTracks DEF Hint
  <2> QED BY <2>1, <2>2
<1> QED BY <1>2, <1>4, <1>5, <1>6, AsideSync DEF vsVars

\* A playback, from its start to the landing of its stop.
LEMMA PlayKeeps ==
    ASSUME SyncInv,
           \/ \E i \in Leaves : PlayStart(i)
           \/ \E ok, ended \in BOOLEAN : PlayStop(ok, ended)
           \/ StopLanded \/ TakeLanded
    PROVE  SyncInv'
<1>1. /\ TypeInv /\ TypeOK /\ Typed /\ Tracks(rc)
  BY DEF SyncInv, TypeInv
<1>2. ASSUME NEW i \in Leaves, PlayStart(i) PROVE SyncInv'
  <2>1. /\ used \in [{"reads", "stops", "hints", "unstarted", "unread"} -> Nat]
        /\ used' = [used EXCEPT !.stops = @ + 1]
        /\ play'.state = "playing" /\ play'.item = i
        /\ UNCHANGED <<vsVars, rc, readers, rmail, page>>
    BY <1>1, <1>2 DEF PlayStart, Typed
  <2>2. used' \in [{"reads", "stops", "hints", "unstarted", "unread"} -> Nat] /\ i \in Items
    BY <2>1 DEF Leaves
  <2>3. Typed'
    BY <1>1, <2>1, <2>2 DEF Typed
  <2>4. TypeInv'
    BY <1>1, <2>1 DEF TypeInv, TypeOK, vsVars
  <2> QED BY <1>1, <2>1, <2>3, <2>4, AsideSync DEF vsVars
<1>3. ASSUME NEW ok \in BOOLEAN, NEW ended \in BOOLEAN, PlayStop(ok, ended) PROVE SyncInv'
  <2>1. /\ play.state = "playing" /\ play' = [play EXCEPT !.state = "stopped", !.ok = ok]
        /\ truth' = IF ended THEN Applied(SeatedUser, play.item, "Watched") ELSE truth
        /\ UNCHANGED <<vs, adapter, mail, workers, token, profile, switch, screen, deck, log,
                       seats, refused, failed, rc, readers, rmail, page, used>>
    BY <1>3 DEF PlayStop
  <2>2. play.item \in Items
    BY <1>1, <2>1 DEF Typed
  <2>3. play'.state = "stopped" /\ play'.item = play.item
    BY <2>1
  <2>4. Typed'
    BY <1>1, <2>1, <2>2, <2>3 DEF Typed
  <2>5. SeatedUser \in Users
    BY <1>1, LenProperties, ElementOfSeq DEF SeatedUser, TypeInv, TypeOK
  <2>6. truth' \in [Users -> [watched : [Leaves -> BOOLEAN], deck : SUBSET Items]]
    BY <1>1, <2>1, <2>5, AppliedType DEF TypeOK
  <2>7. TypeInv'
    BY <1>1, <2>1, <2>6 DEF TypeInv, TypeOK
  <2> QED BY <1>1, <2>1, <2>4, <2>7, AsideSync
<1>4. CASE StopLanded
  <2>1. /\ play.item \in Items /\ play'.state = "none"
        /\ UNCHANGED <<vsVars, readers, rmail, page, used>>
        /\ rc' = IF play.ok THEN EnqueueStop(rc, play.item, play.was_watched)
                 ELSE OwePage(rc, {play.item})
    BY <1>1, <1>4 DEF StopLanded, Typed, NotPlaying
  <2>2. Typed'
    BY <1>1, <2>1 DEF Typed
  <2>3. TypeInv'
    BY <1>1, <2>1 DEF TypeInv, TypeOK, vsVars
  <2>4. Tracks(rc') /\ rc'.flights = rc.flights /\ rc'.next_id = rc.next_id
    BY <1>1, <2>1, AskTracks
  <2> QED BY <2>1, <2>2, <2>3, <2>4, AsideSync DEF vsVars
<1>5. CASE TakeLanded
  <2>1. rc' = [rc EXCEPT !.landed = {}] /\ UNCHANGED <<vsVars, readers, rmail, page, play, used>>
    BY <1>5 DEF TakeLanded
  <2>2. rc \in Reconcile
    BY <1>1 DEF Tracks
  <2>3. /\ rc' \in Reconcile /\ rc'.flights = rc.flights /\ rc'.next_id = rc.next_id
        /\ rc'.dirty = rc.dirty /\ rc'.pending = rc.pending
        /\ rc'.pending_parents = rc.pending_parents
    BY <2>1, <2>2 DEF Reconcile
  <2>4. Tracks(rc')
    BY <1>1, <2>3, AsideTracks
  <2>5. Typed'
    BY <1>1, <2>1 DEF Typed
  <2>6. TypeInv'
    BY <1>1, <2>1 DEF TypeInv, TypeOK, vsVars
  <2> QED BY <2>1, <2>3, <2>4, <2>5, <2>6, AsideSync DEF vsVars
<1> QED BY <1>2, <1>3, <1>4, <1>5

\* A read worker answers: to the queue that sent it, or to an adapter nobody reads.
LEMMA AnswerKeeps ==
    ASSUME SyncInv, NEW k \in readers, NEW answered \in BOOLEAN, ReadAnswer(k, answered)
    PROVE  SyncInv'
<1> DEFINE rows == IF answered THEN [i \in k.keys |-> ServerSays(Bearer(i), i)] ELSE <<>>
           msg == [id |-> k.id, outcome |-> "Read", rows |-> rows]
<1>1. /\ TypeInv /\ TypeOK /\ Ordered /\ Standing(vs) /\ Typed /\ Tracks(rc)
      /\ Carried(rc, readers, rmail) /\ Earlier(rc, vs)
  BY DEF SyncInv, TypeInv
<1>2. k \in [id : Nat \ {0}, port : Nat, keys : SUBSET Items]
  BY <1>1 DEF Typed
<1>3. /\ readers' = readers \ {k}
      /\ rmail' = IF k.port # adapter THEN rmail ELSE rmail \cup {msg}
      /\ UNCHANGED <<vsVars, rc, page, play>>
  BY DEF ReadAnswer, vsVars
<1>4. Answer(msg)
  <2>1. DOMAIN rows \subseteq Items /\ \A i \in DOMAIN rows : rows[i] \in BOOLEAN
    <3>1. CASE answered BY <1>2, <3>1 DEF ServerSays
    <3>2. CASE ~answered BY <3>2
    <3> QED BY <3>1, <3>2
  <2> HIDE DEF rows
  <2> QED BY <1>2, <2>1 DEF Answer
<1>5. msg.id = k.id
  OBVIOUS
<1> HIDE DEF msg
<1>6. used' \in [{"reads", "stops", "hints", "unstarted", "unread"} -> Nat]
  <2>1. used \in [{"reads", "stops", "hints", "unstarted", "unread"} -> Nat]
    BY <1>1 DEF Typed
  <2>2. used' = used \/ used' = [used EXCEPT !.unread = @ + 1]
    BY DEF ReadAnswer
  <2> QED BY <2>1, <2>2
<1>7. IsFiniteSet(rmail') /\ \A m \in rmail' : Answer(m)
  <2>1. IsFiniteSet(rmail) /\ \A m \in rmail : Answer(m) BY <1>1 DEF Typed
  <2>2. IsFiniteSet(rmail \cup {msg}) BY <2>1, FS_AddElement
  <2> QED BY <1>3, <1>4, <2>1, <2>2
<1>8. readers' \subseteq [id : Nat \ {0}, port : Nat, keys : SUBSET Items]
  BY <1>1, <1>3 DEF Typed
<1>9. Typed'
  BY <1>1, <1>3, <1>6, <1>7, <1>8 DEF Typed
<1>10. TypeInv' /\ Ordered' /\ Standing(vs') /\ Tracks(rc') /\ Earlier(rc', vs')
  <2>1. [Next]_vsVars /\ rc' = rc BY <1>3
  <2> QED BY <1>1, <2>1, WriteKeepsEarlier
<1>11. Carried(rc, readers', rmail')
  <2>1. /\ \A l \in readers' : l \in readers /\ l # k
        /\ \A l \in readers : l \in readers' \/ l = k
    BY <1>3
  <2>2. \A m \in rmail' : m.id < rc.next_id
    BY <1>1, <1>3, <1>5 DEF Carried
  <2>3. ASSUME NEW f \in rc.flights
        PROVE  (\E l \in readers' : l.port = adapter /\ l.id = f.id)
                  # (\E m \in rmail' : m.id = f.id)
    <3>1. (\E l \in readers : l.port = adapter /\ l.id = f.id) # (\E m \in rmail : m.id = f.id)
      BY <1>1 DEF Carried
    <3>2. CASE k.port = adapter /\ k.id = f.id
      <4>1. ~ \E l \in readers' : l.port = adapter /\ l.id = f.id
        BY <1>1, <2>1, <3>2 DEF Carried
      <4>2. msg \in rmail' /\ msg.id = f.id BY <1>3, <1>5, <3>2
      <4> QED BY <4>1, <4>2
    <3>3. CASE ~(k.port = adapter /\ k.id = f.id)
      <4>1. (\E l \in readers' : l.port = adapter /\ l.id = f.id)
               <=> (\E l \in readers : l.port = adapter /\ l.id = f.id)
        BY <2>1, <3>3
      <4>2. (\E m \in rmail' : m.id = f.id) <=> (\E m \in rmail : m.id = f.id)
        BY <1>3, <1>5, <3>3
      <4> QED BY <3>1, <4>1, <4>2
    <3> QED BY <3>2, <3>3
  <2> QED BY <1>1, <2>1, <2>2, <2>3 DEF Carried
<1>12. Carried(rc, readers, rmail)'
  <2>1. adapter' = adapter /\ rc' = rc BY <1>3 DEF vsVars
  <2> QED BY <1>11, <2>1 DEF Carried
<1> QED BY <1>9, <1>10, <1>12 DEF SyncInv

\* Nothing is asked for at the start.
LEMMA SyncStart == Init => SyncInv
<1> SUFFICES ASSUME Init PROVE SyncInv
  OBVIOUS
<1>1. /\ vsInit /\ rc = EmptyReconcile /\ readers = {} /\ rmail = {} /\ page = NoPage
      /\ play = NotPlaying
      /\ used = [reads |-> 0, stops |-> 0, hints |-> 0, unstarted |-> 0, unread |-> 0]
  BY DEF Init
<1>2. TypeInv /\ Ordered /\ Standing(vs)
  BY <1>1, InitType, InitOrdered, InitLedger DEF LedgerInv
<1>3. rc \in Reconcile /\ rc.flights = {} /\ rc.dirty = {}
  BY <1>1, ViewStateAssumption DEF EmptyReconcile, Reconcile
<1>4. Tracks(rc) /\ Carried(rc, readers, rmail) /\ Earlier(rc, vs)
  BY <1>1, <1>3, FS_EmptySet DEF Tracks, Carried, Earlier
<1>5. Typed
  BY <1>1, FS_EmptySet DEF Typed, NoPage, NotPlaying
<1> QED BY <1>2, <1>4, <1>5 DEF SyncInv

\* Every step of the composition keeps the invariant.
LEMMA SyncStep == SyncInv /\ [SyncNext]_vars => SyncInv'
<1> SUFFICES ASSUME SyncInv, [SyncNext]_vars PROVE SyncInv'
  OBVIOUS
<1>1. CASE UNCHANGED vars
  <2>1. vs' = vs /\ rc' = rc /\ UNCHANGED vsVars /\ UNCHANGED syncVars
    BY <1>1 DEF vars, vsVars, syncVars
  <2>2. TypeInv'
    BY <2>1 DEF SyncInv, TypeInv, TypeOK, vsVars
  <2>3. Typed'
    BY <2>1 DEF SyncInv, Typed, syncVars
  <2> QED BY <2>1, <2>2, <2>3, AsideSync DEF vsVars, syncVars, SyncInv
<1>2. CASE WriteStep /\ UNCHANGED syncVars
  BY <1>2, WriteKeeps
<1>3. CASE Reset /\ ResetReads
  BY <1>3, ResetKeeps
<1>4. CASE PageRequest \/ PageAnswer \/ PageLand
  BY <1>4, PageKeeps
<1>5. CASE ReconcilePump
  BY <1>5, FrameStep
<1>6. ASSUME NEW k \in readers, NEW answered \in BOOLEAN, ReadAnswer(k, answered) PROVE SyncInv'
  BY <1>6, AnswerKeeps
<1>7. ASSUME NEW i \in Items, NEW quiet \in BOOLEAN, Hint(i, quiet) PROVE SyncInv'
  BY <1>7, HintKeeps
<1>8. CASE \/ \E i \in Leaves : PlayStart(i)
           \/ \E ok, ended \in BOOLEAN : PlayStop(ok, ended)
           \/ StopLanded \/ TakeLanded
  BY <1>8, PlayKeeps
<1> QED BY <1>1, <1>2, <1>3, <1>4, <1>5, <1>6, <1>7, <1>8, Zenon DEF SyncNext

\* The composition keeps the inductive invariant.
THEOREM SyncInvariant == SyncSpec => []SyncInv
BY SyncStart, SyncStep, PTL DEF SyncSpec

\* The read-back's state is what the code's types allow, in every reachable state.
THEOREM SyncTypeCorrect == SyncSpec => []SyncTypeOK
<1>1. SyncInv => SyncTypeOK
  BY DEF SyncInv, Tracks, Typed, Answer, SyncTypeOK
<1> QED BY <1>1, SyncInvariant, PTL

\* One read in flight per server, carried by one worker or one answer; what is out
\* waits dirty, and no dirty mark outlives the read that spends it.
THEOREM ReadsStayTracked == SyncSpec => []ReadsTracked
<1>1. SyncInv => ReadsTracked
  BY DEF SyncInv, Tracks, Carried, ReadsTracked
<1> QED BY <1>1, SyncInvariant, PTL

\* With every read of the composition interleaved, streams that end between two
\* writes included, the writes are still one sequence, made in the order pressed and
\* once each.
THEOREM WritesUnderReads == SyncSpec => [](OneWriteOut /\ PressOrder /\ PerformedOnce)
<1>1. SyncInv => OneWriteOut /\ PressOrder /\ PerformedOnce
  BY DEF SyncInv, Ordered
<1> QED BY <1>1, SyncInvariant, PTL

\* An unanswered press has an entry newer than every read that is out: no answer
\* publishes a row it covers.
LEMMA PressOvertakes ==
    ASSUME SyncInv, NEW i \in Items, Unanswered(i)
    PROVE  \A p \in Published : p.item # i
<1>1. /\ vs \in ViewStateState /\ Standing(vs) /\ Tracks(rc) /\ Earlier(rc, vs)
  BY DEF SyncInv, TypeInv, TypeOK
<1>2. PICK r \in Out(vs) : Propagates(r.w) /\ ~r.origin_done /\ Covers(Place(r), i)
  BY DEF Unanswered, Outstanding, Out, Place
<1>3. r \in Presses(vs) /\ r.seq \in Nat
  <2>1. r \in Req BY <1>1, OutTyped
  <2> QED BY <1>2, <2>1 DEF Presses, Req
<1>4. PICK e \in vs.ledger.entries : SameKind(e, Place(r), EditOf(r.w)) /\ r.seq <= e.seq
  BY <1>1, <1>3 DEF Standing, Backed
<1>5. e.at = Place(r) /\ e.edit.kind = "Watched" /\ e.seq \in Nat
  <2>1. e \in Entry BY <1>1 DEF ViewStateState, Ledger
  <2> QED BY <1>2, <1>4, <2>1 DEF SameKind, EditOf, Propagates, Watched, Entry
<1>6. ASSUME NEW f \in rc.flights PROVE Overtaken(f, i)
  <2>1. f.stamp \in Nat BY <1>1 DEF Tracks, Reconcile, Flight
  <2>2. f.stamp < r.seq BY <1>1, <1>3 DEF Earlier
  <2>3. f.stamp < e.seq BY <1>3, <1>4, <1>5, <2>1, <2>2
  <2>4. e \in Replayed(vs.ledger, f.stamp, i, "Watched")
    BY <1>2, <1>5, <2>3 DEF Replayed, Since
  <2> QED BY <2>4 DEF Overtaken
<1>7. ASSUME NEW m \in Answering, NEW p \in Facts(m) PROVE p.item # i
  <2>1. FlightOf(m) \in rc.flights BY DEF Answering, FlightOf
  <2>2. i \notin Rows(FlightOf(m), m) BY <1>6, <2>1 DEF Rows
  <2>3. PICK j \in Rows(FlightOf(m), m) : p = [item |-> j, on |-> m.rows[j]] BY DEF Facts
  <2> QED BY <2>2, <2>3
<1> QED BY <1>7 DEF Published

\* ... so the frame leaves that row as it is drawn.
LEMMA FrameKeepsPress ==
    ASSUME SyncInv, ReconcilePump, NEW i \in DOMAIN screen, Unanswered(i)
    PROVE  screen'[i] = screen[i]
<1>1. i \in Items
  BY DEF SyncInv, TypeInv, TypeOK
<1>2. \A p \in Published : p.item # i
  BY <1>1, PressOvertakes
<1>3. screen' = PublishFacts(screen)
  BY DEF ReconcilePump
<1> QED BY <1>2, <1>3 DEF PublishFacts

\* "A result older than a press is dropped": no read-back, of whatever age and in
\* whatever order it lands, moves a row that an unanswered press covers.
THEOREM PressOutlivesReads == SyncSpec => ReadBackKeepsPress
<1>1. SyncInv =>
         [ReconcilePump =>
             \A i \in DOMAIN screen : Unanswered(i) => screen'[i] = screen[i]]_vars
  BY FrameKeepsPress
<1> QED BY <1>1, SyncInvariant, PTL DEF ReadBackKeepsPress

------------------------------------------------------------------------------
(* What the rows draw, where no credential moves, no title has a second     *)
(* copy, presses are of films and episodes, no page is read and every read  *)
(* that was started is answered.                                            *)

\* The rows whose reads settle the row i: its leaves, whose answers name their
\* parents, and itself.
Brood(i) == LeavesOf(i) \cup {i}

\* The items a batch would take now, and all that wait for one.
Queued(r) == r.pending \cup r.pending_parents

Waiting(r) == Queued(r) \cup r.dirty

\* A read of the row i has still to leave.
Asked(v, r, p, i) ==
    \/ InDebt(v, i)
    \/ i \in Waiting(r)
    \/ p.state = "stopped" /\ p.ok /\ p.item = i

\* ServerSays, of the leaves' record T.
Says(T, i) == \A r \in LeavesOf(i) : T[r]

\* The read f brings, when it lands, what the server holds of the row i now: no press
\* overtook it, and its answer, if it has one among M, says what T says.
Fresh(t, M, T, f, i) ==
    /\ Replayed(t, f.stamp, i, "Watched") = {}
    /\ \A m \in M : m.id = f.id /\ m.outcome = "Read" =>
          i \in DOMAIN m.rows /\ m.rows[i] = Says(T, i)

\* When no read has still to leave for the row or a leaf of it, those that are out are
\* fresh, and one is out or the row S draws is the server's.
Row(v, r, p, M, S, T, i) ==
    (\A j \in Brood(i) : ~Asked(v, r, p, j)) =>
        /\ \A f \in r.flights : i \in f.keys => Fresh(v.ledger, M, T, f, i)
        /\ S[i] = Says(T, i) \/ \E j \in Brood(i) : IsOut(r, j)

\* A worker reads what its flight lists.
Matched(r, R) == \A k \in R, f \in r.flights : k.id = f.id => k.keys = f.keys

\* Only the rows of shows and seasons are read as parents.
Upper(r) == r.pending_parents \cap Leaves = {} /\ \A f \in r.flights : f.parents \cap Leaves = {}

\* A playback is of a film or an episode.
Playback == [state : {"playing", "stopped"}, item : Leaves, was_watched : BOOLEAN, ok : BOOLEAN]

\* What each answer found is drawn, as an inductive invariant.
RowsInv ==
    /\ SyncInv /\ SendInv
    /\ page = NoPage
    /\ play.state # "none" => play \in Playback
    /\ Matched(rc, readers) /\ Upper(rc)
    /\ \A i \in Items : LeavesOf(i) # {} =>
          Row(vs, rc, play, rmail, screen, truth[seats[1]].watched, i)

\* A row, its leaves and its parents: the rows that settle it are its own server's.
LEMMA BroodOwn ==
    ASSUME NEW i \in Items, NEW j \in Brood(i)
    PROVE  /\ j \in Items /\ ServerOf[j] = ServerOf[i]
           /\ j # i => j \in Leaves /\ Brood(j) = {j} /\ i \in Parents(j)
<1>1. CASE j = i
  BY <1>1
<1>2. CASE j # i
  <2>1. j \in Leaves /\ j \in Items /\ i \in {ShowOf[j], SeasonOf[j]}
    BY <1>2 DEF Brood, LeavesOf, Leaves
  <2>2. i # NoItem
    BY LibraryShape
  <2>3. i \in Parents(j)
    BY <2>1, <2>2 DEF Parents
  <2>4. Brood(j) = {j}
    BY <2>1, LeafAlone DEF Brood
  <2>5. ServerOf[i] = ServerOf[j]
    BY <2>1, <2>3, ParentsOwn
  <2> QED BY <1>2, <2>1, <2>3, <2>4, <2>5
<1> QED BY <1>1, <1>2

\* No row's parent is a leaf.
LEMMA ParentsUpper ==
    ASSUME NEW i \in Items
    PROVE  Parents(i) \cap Leaves = {}
BY DEF Parents, Leaves, IsLeaf

------------------------------------------------------------------------------
(* What waits keeps waiting until it is sent.                               *)

\* Asking for items keeps those that wait, and adds them.
LEMMA EnqueueQueued ==
    ASSUME NEW r \in Reconcile, NEW keys \in SUBSET Items
    PROVE  LET e == Enqueue(r, keys)
           IN  /\ Waiting(r) \cup keys \subseteq Waiting(e) /\ Queued(r) \subseteq Queued(e)
               /\ e.pending_parents = r.pending_parents
<1> DEFINE Q == r.quiet \ keys
           D == r.dirty \cup {i \in keys : IsOut(r, i)}
           P == r.pending \cup {i \in keys : ~IsOut(r, i)}
           e == [r EXCEPT !.quiet = Q, !.dirty = D, !.pending = P]
<1>1. Enqueue(r, keys) = e
  BY DEF Enqueue
<1>2. /\ keys \subseteq P \cup D /\ r.dirty \subseteq D /\ r.pending \subseteq P
  OBVIOUS
<1> HIDE DEF Q, D, P
<1>3. e.dirty = D /\ e.pending = P /\ e.pending_parents = r.pending_parents
  BY DEF Reconcile
<1> HIDE DEF e
<1> QED BY <1>1, <1>2, <1>3 DEF Waiting, Queued

\* So do a quiet re-read and a stop; a page that is owed changes nothing that waits.
LEMMA AskQueued ==
    ASSUME NEW r, Tracks(r), NEW i \in Items, NEW watched
    PROVE  /\ LET e == EnqueueReread(r, {i})
              IN  Waiting(r) \cup {i} \subseteq Waiting(e) /\ e.pending_parents = r.pending_parents
           /\ LET e == EnqueueStop(r, i, watched)
              IN  Waiting(r) \cup {i} \subseteq Waiting(e) /\ e.pending_parents = r.pending_parents
           /\ LET e == OwePage(r, {i})
              IN  Waiting(r) \subseteq Waiting(e) /\ e.pending_parents = r.pending_parents
<1>1. r \in Reconcile
  BY DEF Tracks
<1>2. /\ Waiting(r) \cup {i} \subseteq Waiting(EnqueueReread(r, {i}))
      /\ EnqueueReread(r, {i}).pending_parents = r.pending_parents
  <2> DEFINE fresh == {k \in {i} : ~IsOut(r, k)
                         /\ k \notin r.pending \cup r.pending_parents \cup r.dirty}
  <2>1. PICK e : e = Enqueue(r, {i})
    OBVIOUS
  <2>2. e \in Reconcile /\ Waiting(r) \cup {i} \subseteq Waiting(e)
        /\ e.pending_parents = r.pending_parents
    BY <1>1, <2>1, EnqueueTracks, EnqueueQueued DEF Tracks
  <2> DEFINE Q == e.quiet \cup fresh
             n == [e EXCEPT !.quiet = Q]
  <2>3. EnqueueReread(r, {i}) = n
    BY <2>1 DEF EnqueueReread
  <2> HIDE DEF Q
  <2>4. n.dirty = e.dirty /\ n.pending = e.pending /\ n.pending_parents = e.pending_parents
    BY <2>2 DEF Reconcile
  <2> HIDE DEF n
  <2> QED BY <2>2, <2>3, <2>4 DEF Waiting, Queued
<1>3. /\ Waiting(r) \cup {i} \subseteq Waiting(EnqueueStop(r, i, watched))
      /\ EnqueueStop(r, i, watched).pending_parents = r.pending_parents
  <2> DEFINE C == IF watched THEN r.candidates
                  ELSE {k \in r.candidates : k.item # i} \cup {[item |-> i, born |-> r.next_id]}
             n == [r EXCEPT !.candidates = C]
  <2>1. r.next_id \in Nat \ {0} /\ r.candidates \subseteq [item : Items, born : Nat \ {0}]
    BY <1>1 DEF Reconcile
  <2>2. C \in SUBSET [item : Items, born : Nat \ {0}]
    BY <2>1
  <2>3. EnqueueStop(r, i, watched) = Enqueue(n, {i})
    BY DEF EnqueueStop
  <2> HIDE DEF C
  <2>4. /\ n \in Reconcile /\ n.dirty = r.dirty /\ n.pending = r.pending
        /\ n.pending_parents = r.pending_parents
    BY <1>1, <2>2 DEF Reconcile
  <2> HIDE DEF n
  <2>5. Waiting(n) = Waiting(r)
    BY <2>4 DEF Waiting, Queued
  <2>6. {i} \in SUBSET Items OBVIOUS
  <2> QED BY <2>3, <2>4, <2>5, <2>6, EnqueueQueued
<1>4. /\ Waiting(r) \subseteq Waiting(OwePage(r, {i}))
      /\ OwePage(r, {i}).pending_parents = r.pending_parents
  <2> DEFINE L == r.landed \cup {i}
             n == [r EXCEPT !.landed = L]
  <2>1. OwePage(r, {i}) = n
    BY DEF OwePage
  <2> HIDE DEF L
  <2>2. n.dirty = r.dirty /\ n.pending = r.pending /\ n.pending_parents = r.pending_parents
    BY <1>1 DEF Reconcile
  <2> HIDE DEF n
  <2> QED BY <2>1, <2>2 DEF Waiting, Queued
<1> QED BY <1>2, <1>3, <1>4

\* A read that was never started: all it listed waits again.
LEMMA RequeueQueued ==
    ASSUME NEW r \in Reconcile, NEW f \in Flight, Own(f)
    PROVE  LET n == RequeueUnstarted(r, f)
           IN  /\ Waiting(r) \subseteq Waiting(n) /\ Queued(r) \cup f.keys \subseteq Queued(n)
               /\ n.pending_parents \subseteq r.pending_parents \cup f.parents
<1> DEFINE again == r.dirty \cap f.keys
           P     == r.pending \cup (f.keys \ f.parents)
           rest  == f.parents \ (P \cup r.pending_parents)
           F     == r.flights \ {f}
           D     == r.dirty \ again
           W     == P \cup (rest \cap again)
           U     == r.pending_parents \cup (rest \ again)
           n     == [r EXCEPT !.flights = F, !.dirty = D, !.pending = W,
                              !.pending_parents = U, !.retry_cd = RetryFrames]
<1>1. RequeueUnstarted(r, f) = n
  BY DEF RequeueUnstarted
<1>2. /\ r.pending \cup r.pending_parents \cup f.keys \subseteq W \cup U
      /\ r.dirty \subseteq W \cup U \cup D /\ U \subseteq r.pending_parents \cup f.parents
  BY DEF Own
<1> HIDE DEF F, D, W, U
<1>3. n.dirty = D /\ n.pending = W /\ n.pending_parents = U
  BY DEF Reconcile
<1> HIDE DEF n
<1> QED BY <1>1, <1>2, <1>3 DEF Waiting, Queued

\* One that was answered: what was asked for meanwhile waits, and so do the parents of
\* the leaves it brought, unless it brought them too.
LEMMA LandReadQueued ==
    ASSUME NEW r \in Reconcile, NEW f \in Flight, NEW m
    PROVE  LET n == LandRead(r, f, m)
           IN  /\ Waiting(r) \subseteq Waiting(n) /\ Queued(r) \subseteq Queued(n)
               /\ \A i \in Rows(f, m) \ f.parents : Parents(i) \subseteq f.keys \cup Queued(n)
               /\ n.pending_parents \cap Leaves \subseteq r.pending_parents
<1> DEFINE rows    == Rows(f, m)
           hush    == r.quiet \cap f.keys
           ups(i)  == Parents(i) \ (f.keys \cup r.pending \cup r.pending_parents)
           leaves  == rows \ f.parents
           again   == r.dirty \cap f.keys
           F == r.flights \ {f}
           Q == (r.quiet \ hush) \cup UNION {ups(i) : i \in leaves \cap hush}
           U == r.pending_parents \cup UNION {ups(i) : i \in leaves}
           C == {k \in r.candidates : k.born > f.id \/ k.item \notin f.keys}
           L == r.landed \cup (rows \ hush)
           D == r.dirty \ again
           W == r.pending \cup again
           n == [r EXCEPT !.flights = F, !.quiet = Q, !.pending_parents = U,
                          !.candidates = C, !.landed = L, !.dirty = D, !.pending = W]
<1>1. LandRead(r, f, m) = n
  BY DEF LandRead
<1>2. \A i \in Rows(f, m) : i \in Items
  BY DEF Rows, Flight
<1>3. /\ r.pending \subseteq W /\ r.pending_parents \subseteq U /\ r.dirty \subseteq W \cup D
  OBVIOUS
<1>4. \A i \in Rows(f, m) \ f.parents : Parents(i) \subseteq f.keys \cup W \cup U
  OBVIOUS
<1>5. \A j \in U : j \in r.pending_parents \/ \E i \in Rows(f, m) : j \in Parents(i)
  OBVIOUS
<1> HIDE DEF F, Q, U, C, L, D, W
<1>6. n.dirty = D /\ n.pending = W /\ n.pending_parents = U
  BY DEF Reconcile
<1> HIDE DEF n
<1>7. U \cap Leaves \subseteq r.pending_parents
  BY <1>2, <1>5, ParentsUpper
<1> QED BY <1>1, <1>3, <1>4, <1>6, <1>7 DEF Waiting, Queued

\* What landing the answer m leaves in the queue n.
LandedIn(m, n) ==
    IF m.outcome = "NotStarted" THEN FlightOf(m).keys \subseteq Queued(n)
    ELSE \A i \in Rows(FlightOf(m), m) \ FlightOf(m).parents :
            Parents(i) \subseteq FlightOf(m).keys \cup Queued(n)

\* Landing every answer: what waited waits, and so does what an answer asks for.
LEMMA LandAllQueued ==
    ASSUME NEW b, Tracks(rc), Upper(rc), Tracks(b), Upper(b), b.flights = rc.flights,
           IsFiniteSet(rmail)
    PROVE  LET n == FoldSet(Landing, b, Answering)
           IN  /\ Waiting(b) \subseteq Waiting(n) /\ Upper(n)
               /\ \A m \in Answering : LandedIn(m, n)
<1> DEFINE ok(t, r) == /\ Tracks(r) /\ r.flights \subseteq rc.flights /\ Upper(r)
                       /\ Waiting(b) \subseteq Waiting(r)
                       /\ \A m \in t : LandedIn(m, r)
           G == {p \in (SUBSET Answering) \X Reconcile : ok(p[1], p[2])}
<1>1. IsFiniteSet(Answering)
  BY FS_Subset DEF Answering
<1>2. \A m \in Answering : FlightOf(m) \in rc.flights
  BY DEF Answering, FlightOf
<1>3. <<{}, b>> \in G
  BY DEF Tracks
<1>4. ASSUME NEW t \in SUBSET Answering, NEW m \in Answering, NEW r \in Reconcile,
             m \notin t, <<t, r>> \in G
      PROVE  <<t \cup {m}, Landing(m, r)>> \in G
  <2>1. ok(t, r)
    <3> HIDE DEF ok
    <3> QED BY <1>4
  <2>2. PICK f \in rc.flights : f = FlightOf(m)
    BY <1>2
  <2>3. f \in Flight /\ Own(f) /\ f.parents \cap Leaves = {}
    BY DEF Tracks, Reconcile, Upper
  <2>4. \A g \in r.flights : g.server = f.server => g = f
    BY <2>1 DEF Tracks
  <2>5. PICK n : n = Landing(m, r)
    OBVIOUS
  <2>6. \/ n = RequeueUnstarted(r, f) /\ m.outcome = "NotStarted"
        \/ n = LandRead(r, f, m) /\ m.outcome # "NotStarted"
    BY <2>2, <2>5 DEF Landing
  <2>7. Tracks(n) /\ n.flights = r.flights \ {f}
    BY <2>1, <2>3, <2>4, <2>6, RequeueTracks, LandReadTracks
  <2>8. /\ Waiting(r) \subseteq Waiting(n) /\ Queued(r) \subseteq Queued(n)
        /\ n.pending_parents \cap Leaves \subseteq r.pending_parents
        /\ LandedIn(m, n)
    <3>1. CASE n = RequeueUnstarted(r, f) /\ m.outcome = "NotStarted"
      <4>1. /\ Waiting(r) \subseteq Waiting(n) /\ Queued(r) \cup f.keys \subseteq Queued(n)
            /\ n.pending_parents \subseteq r.pending_parents \cup f.parents
        BY <2>3, <3>1, RequeueQueued
      <4> QED BY <2>2, <2>3, <3>1, <4>1 DEF LandedIn
    <3>2. CASE n = LandRead(r, f, m) /\ m.outcome # "NotStarted"
      <4>1. /\ Waiting(r) \subseteq Waiting(n) /\ Queued(r) \subseteq Queued(n)
            /\ \A i \in Rows(f, m) \ f.parents : Parents(i) \subseteq f.keys \cup Queued(n)
            /\ n.pending_parents \cap Leaves \subseteq r.pending_parents
        BY <2>3, <3>2, LandReadQueued
      <4> QED BY <2>2, <3>2, <4>1 DEF LandedIn
    <3> QED BY <2>6, <3>1, <3>2
  <2>9. n \in Reconcile /\ Upper(n)
    BY <2>1, <2>7, <2>8 DEF Tracks, Upper
  <2>10. \A k \in t \cup {m} : LandedIn(k, n)
    <3>1. ASSUME NEW k, LandedIn(k, r) PROVE LandedIn(k, n)
      BY <2>8, <3>1 DEF LandedIn
    <3> QED BY <2>1, <2>8, <3>1
  <2>11. ok(t \cup {m}, n)
    BY <2>1, <2>7, <2>8, <2>9, <2>10
  <2>12. <<t \cup {m}, n>> \in G
    <3> HIDE DEF ok
    <3> QED BY <2>9, <2>11
  <2> QED BY <2>5, <2>12
<1>5. Through(G, Answering, Reconcile)
  BY DEF Through
<1>6. <<Answering, FoldSet(Landing, b, Answering)>> \in G
  <2> HIDE DEF G
  <2> QED BY <1>1, <1>3, <1>4, <1>5, LandingFold
<1>7. PICK n : n = FoldSet(Landing, b, Answering)
  OBVIOUS
<1>8. ok(Answering, n)
  <2> HIDE DEF ok
  <2> QED BY <1>6, <1>7
<1> QED BY <1>7, <1>8

\* The item i waits in n, or has left with a read that was not out in r.
Served(r, n, i) == i \in Waiting(n) \/ \E f \in n.flights \ r.flights : i \in f.keys

\* A batch takes the queued items of its server, and no others.
LEMMA SendQueued ==
    ASSUME NEW r, Tracks(r), Upper(r), NEW s \in Servers, token[s].key # 0
    PROVE  LET n == SendBatch(s, r)
           IN  Upper(n) /\ \A i \in Waiting(r) : Served(r, n, i)
<1>1. r \in Reconcile
  BY DEF Tracks
<1>2. PICK f : f = Batch(r, s)
  OBVIOUS
<1>3. f.id = r.next_id /\ f.parents \subseteq r.pending_parents
  BY <1>2 DEF Batch
<1> DEFINE P == r.pending \ f.keys
           U == r.pending_parents \ f.keys
           F == r.flights \cup {f}
           N == r.next_id + 1
           q == [r EXCEPT !.pending = P, !.pending_parents = U]
           x == [q EXCEPT !.flights = F, !.next_id = N]
<1>4. SendBatch(s, r) = x
  <2>1. q.flights = r.flights /\ q.next_id = r.next_id
    BY <1>1 DEF Reconcile
  <2>2. x = [q EXCEPT !.flights = q.flights \cup {f}, !.next_id = q.next_id + 1]
    BY <2>1
  <2> HIDE DEF x
  <2> QED BY <1>2, <2>2 DEF SendBatch
<1>5. /\ \A i \in r.pending \cup r.pending_parents : i \in P \cup U \/ i \in f.keys
      /\ U \subseteq r.pending_parents /\ F = r.flights \cup {f}
  OBVIOUS
<1>6. f \notin r.flights
  <2>1. \A g \in r.flights : g.id \in Nat /\ g.id < r.next_id
    BY <1>1 DEF Tracks, Reconcile, Flight
  <2>2. r.next_id \in Nat BY <1>1 DEF Reconcile
  <2> QED BY <1>3, <2>1, <2>2
<1> HIDE DEF P, U, F, N
<1>7. x.flights = F /\ x.dirty = r.dirty /\ x.pending = P /\ x.pending_parents = U
  BY <1>1 DEF Reconcile
<1> HIDE DEF x
<1>8. Upper(x)
  BY <1>3, <1>5, <1>7 DEF Upper
<1>9. \A i \in Waiting(r) : Served(r, x, i)
  BY <1>5, <1>6, <1>7 DEF Served, Waiting, Queued
<1> QED BY <1>4, <1>8, <1>9

\* kick loses no item: it waits on, or it has left.
LEMMA KickQueued ==
    ASSUME TypeOK, \A s \in Servers : token[s].key # 0, NEW r, Tracks(r), Upper(r), NEW may
    PROVE  LET n == KickReads(r, may)
           IN  Upper(n) /\ \A i \in Waiting(r) : Served(r, n, i)
<1>1. r \in Reconcile
  BY DEF Tracks
<1>2. CASE KickReads(r, may) = r
  BY <1>2 DEF Served
<1>3. CASE KickReads(r, may) = [r EXCEPT !.retry_cd = r.retry_cd - 1]
  <2> DEFINE n == [r EXCEPT !.retry_cd = r.retry_cd - 1]
  <2>1. n.flights = r.flights /\ n.dirty = r.dirty
        /\ n.pending = r.pending /\ n.pending_parents = r.pending_parents
    BY <1>1 DEF Reconcile
  <2> HIDE DEF n
  <2>2. Upper(n) /\ Waiting(n) = Waiting(r)
    BY <2>1 DEF Upper, Waiting, Queued
  <2>3. KickReads(r, may) = n
    BY <1>3 DEF n
  <2> QED BY <2>2, <2>3 DEF Served
<1>4. CASE KickReads(r, may) = FoldSet(SendBatch, r, KickServers(r))
  <2> DEFINE K == KickServers(r)
             ok(t, v) == /\ Tracks(v) /\ r.flights \subseteq v.flights /\ Upper(v)
                         /\ \A f \in v.flights : f \in r.flights \/ f.server \in t
                         /\ \A i \in Waiting(r) : Served(r, v, i)
             G == {p \in (SUBSET K) \X Reconcile : ok(p[1], p[2])}
  <2>1. K \subseteq Servers /\ \A s \in K : \A f \in r.flights : f.server # s
    BY DEF KickServers
  <2>2. IsFiniteSet(K)
    BY <2>1, FS_Subset, ViewSyncAssumption
  <2> HIDE DEF K
  <2>3. <<{}, r>> \in G
    BY <1>1 DEF Served
  <2>4. ASSUME NEW t \in SUBSET K, NEW s \in K, NEW v \in Reconcile, s \notin t, <<t, v>> \in G
        PROVE  <<t \cup {s}, SendBatch(s, v)>> \in G
    <3>1. ok(t, v)
      <4> HIDE DEF ok
      <4> QED BY <2>4
    <3>2. s \in Servers /\ \A f \in v.flights : f.server # s
      BY <2>1, <2>4, <3>1
    <3>3. PICK n : n = SendBatch(s, v)
      OBVIOUS
    <3>4. /\ Tracks(n) /\ v.flights \subseteq n.flights
          /\ \A f \in n.flights : f \in v.flights \/ f.server = s
      BY <3>1, <3>2, <3>3, SendTracks
    <3>5. Upper(n) /\ \A i \in Waiting(v) : Served(v, n, i)
      BY <3>1, <3>2, <3>3, SendQueued
    <3>6. ASSUME NEW i \in Waiting(r) PROVE Served(r, n, i)
      BY <3>1, <3>4, <3>5 DEF Served
    <3>7. ok(t \cup {s}, n) /\ n \in Reconcile
      BY <3>1, <3>4, <3>5, <3>6 DEF Tracks
    <3>8. <<t \cup {s}, n>> \in G
      <4> HIDE DEF ok
      <4> QED BY <3>7
    <3> QED BY <3>3, <3>8
  <2>5. Through(G, K, Reconcile)
    BY DEF Through
  <2>6. <<K, FoldSet(SendBatch, r, K)>> \in G
    <3> HIDE DEF G
    <3> QED BY <2>2, <2>3, <2>4, <2>5, SendFold
  <2>7. PICK n : n = FoldSet(SendBatch, r, K)
    OBVIOUS
  <2>8. ok(K, n)
    <3> HIDE DEF ok
    <3> QED BY <2>6, <2>7
  <2>9. KickReads(r, may) = n
    BY <1>4, <2>7 DEF K
  <2> QED BY <2>8, <2>9
<1> QED BY <1>2, <1>3, <1>4 DEF KickReads

\* The runner's workers read what the batches list, and what it answers for them is
\* that they were not started.
LEMMA LaunchMatched ==
    ASSUME Tracks(rc), Typed, Carried(rc, readers, rmail), Matched(rc, readers), NEW n, Tracks(n),
           StartReads(rc, n), \A f \in n.flights : f \in rc.flights \/ f.id >= rc.next_id
    PROVE  Matched(n, readers') /\ \A m \in rmail' : m.outcome = "NotStarted"
<1> DEFINE new == {f \in n.flights : f.id >= rc.next_id}
           run(f) == [id |-> f.id, port |-> adapter, keys |-> f.keys]
           msg(f) == [id |-> f.id, outcome |-> "NotStarted", rows |-> <<>>]
<1>1. PICK no \in SUBSET new :
          /\ readers' = readers \cup {run(f) : f \in new \ no}
          /\ rmail' = {msg(f) : f \in no}
  BY DEF StartReads
<1>2. \A f : msg(f).outcome = "NotStarted" /\ run(f).id = f.id /\ run(f).keys = f.keys
  OBVIOUS
<1>3. \A m \in rmail' : m.outcome = "NotStarted"
  <2> HIDE DEF msg
  <2> QED BY <1>1, <1>2
<1>4. /\ rc.next_id \in Nat /\ \A k \in readers : k.id \in Nat /\ k.id < rc.next_id
      /\ \A f \in n.flights : f.id \in Nat
      /\ \A f, g \in n.flights : f.id = g.id => f = g
  BY DEF Tracks, Reconcile, Flight, Typed, Carried
<1>5. ASSUME NEW k \in readers', NEW f \in n.flights, k.id = f.id PROVE k.keys = f.keys
  <2>1. CASE k \in readers
    BY <1>4, <1>5, <2>1 DEF Matched
  <2>2. ASSUME NEW g \in new, k = run(g) PROVE k.keys = f.keys
    <3> HIDE DEF run
    <3> QED BY <1>2, <1>4, <1>5, <2>2
  <2> HIDE DEF run
  <2> QED BY <1>1, <2>1, <2>2
<1> QED BY <1>3, <1>5 DEF Matched

\* A frame of the read-back: what is asked for waits or leaves, a read that was never
\* started waits or leaves again, and so do the parents of a leaf that was read.
LEMMA FrameQueue ==
    ASSUME SyncInv, SendInv, Matched(rc, readers), Upper(rc), ReconcilePump
    PROVE  /\ Upper(rc') /\ Matched(rc', readers') /\ \A m \in rmail' : m.outcome = "NotStarted"
           /\ \A f \in rc.flights : f \in rc'.flights \/ \E m \in Answering : f = FlightOf(m)
           /\ \A i \in Waiting(rc) \cup TakeReread(vs) : Served(rc, rc', i)
           /\ \A m \in Answering : m.outcome = "NotStarted" =>
                 \A i \in FlightOf(m).keys : Served(rc, rc', i)
           /\ \A m \in Answering : m.outcome # "NotStarted" =>
                 \A j \in Rows(FlightOf(m), m) \ FlightOf(m).parents : \A i \in Parents(j) :
                    i \in FlightOf(m).keys \/ Served(rc, rc', i)
<1>1. /\ TypeOK /\ Tracks(rc) /\ Typed /\ Carried(rc, readers, rmail)
      /\ IsFiniteSet(rmail) /\ rc \in Reconcile
  BY DEF SyncInv, TypeInv, Typed, Tracks
<1>2. TakeReread(vs) \in SUBSET Items
  BY <1>1 DEF TakeReread, TypeOK, ViewStateState
<1>3. PICK owed : owed = Enqueue(rc, TakeReread(vs))
  OBVIOUS
<1>4. Tracks(owed) /\ owed.flights = rc.flights /\ owed.next_id = rc.next_id
  BY <1>1, <1>2, <1>3, EnqueueTracks
<1>5. Waiting(rc) \cup TakeReread(vs) \subseteq Waiting(owed) /\ Upper(owed)
  <2>1. /\ Waiting(rc) \cup TakeReread(vs) \subseteq Waiting(owed)
        /\ owed.pending_parents = rc.pending_parents
    BY <1>1, <1>2, <1>3, EnqueueQueued
  <2> QED BY <1>4, <2>1 DEF Upper
<1>6. PICK l : l = FoldSet(Landing, owed, Answering)
  OBVIOUS
<1>7. /\ Tracks(l) /\ l.next_id = rc.next_id
      /\ l.flights = rc.flights \ {FlightOf(m) : m \in Answering}
  BY <1>1, <1>4, <1>6, LandAll
<1>8. Waiting(owed) \subseteq Waiting(l) /\ Upper(l) /\ \A m \in Answering : LandedIn(m, l)
  BY <1>1, <1>4, <1>5, <1>6, LandAllQueued
<1>9. PICK n : n = rc'
  OBVIOUS
<1>10. n = KickReads(l, MaySend) /\ StartReads(rc, n)
  BY <1>3, <1>6, <1>9 DEF ReconcilePump
<1>11. /\ Tracks(n) /\ l.flights \subseteq n.flights
       /\ \A f \in n.flights : f \in l.flights \/ f.id >= l.next_id
  BY <1>1, <1>7, <1>10, KickTracks
<1>12. Upper(n) /\ \A i \in Waiting(l) : Served(l, n, i)
  <2>1. \A s \in Servers : token[s].key # 0
    BY DEF SendInv, Steady
  <2> QED BY <1>1, <1>7, <1>8, <1>10, <2>1, KickQueued
<1>13. \A f \in n.flights : f \in rc.flights \/ f.id >= rc.next_id
  BY <1>7, <1>11
<1>14. Matched(n, readers') /\ \A m \in rmail' : m.outcome = "NotStarted"
  BY <1>1, <1>10, <1>11, <1>13, LaunchMatched
<1>15. ASSUME NEW i \in Waiting(l) PROVE Served(rc, n, i)
  <2>1. \A f \in rc.flights : f.id \in Nat /\ f.id < rc.next_id
    BY <1>1 DEF Tracks, Reconcile, Flight
  <2>2. \A f \in n.flights \ l.flights : f \notin rc.flights
    <3>1. rc.next_id \in Nat BY <1>1 DEF Reconcile
    <3> QED BY <1>7, <1>11, <2>1, <3>1
  <2> QED BY <1>12, <2>2 DEF Served
<1>16. \A i \in Queued(l) : Served(rc, n, i)
  BY <1>15 DEF Waiting
<1>17. \A f \in rc.flights : f \in n.flights \/ \E m \in Answering : f = FlightOf(m)
  BY <1>7, <1>11
<1>18. ASSUME NEW m \in Answering, m.outcome = "NotStarted", NEW i \in FlightOf(m).keys
       PROVE  Served(rc, n, i)
  BY <1>8, <1>16, <1>18 DEF LandedIn
<1>19. ASSUME NEW m \in Answering, m.outcome # "NotStarted",
              NEW j \in Rows(FlightOf(m), m) \ FlightOf(m).parents, NEW i \in Parents(j)
       PROVE  i \in FlightOf(m).keys \/ Served(rc, n, i)
  BY <1>8, <1>16, <1>19 DEF LandedIn
<1> HIDE DEF Served
<1> QED BY <1>5, <1>8, <1>9, <1>12, <1>14, <1>15, <1>17, <1>18, <1>19

------------------------------------------------------------------------------
(* Every step keeps the rows settled.                                       *)

\* A frame of the read-back hands its debts to the queue of reads, and makes none.
LEMMA FrameSend ==
    ASSUME \A i \in Items : Copies(i) = {}, SyncInv, SendInv, ReconcilePump
    PROVE  /\ SendInv' /\ Presses(vs') = Presses(vs)
           /\ vs'.want_reread = vs.want_reread \ TakeReread(vs)
           /\ vs'.ledger.entries \subseteq vs.ledger.entries
<1>1. /\ TypeInv /\ TypeOK /\ OneWriteOut /\ Serial(vs) /\ Standing(vs) /\ Tracks(rc)
      /\ vs \in ViewStateState /\ mail \in {NoMail} \cup Completion
      /\ Alone /\ Steady /\ Sendable(vs) /\ Charged(vs) /\ Placed(vs)
  BY DEF SyncInv, TypeInv, TypeOK, Ordered, OneWriteOut, SendInv
<1>2. PICK v : v = [vs EXCEPT !.want_reread = @ \ TakeReread(vs)]
  OBVIOUS
<1>3. /\ v \in ViewStateState /\ v.queue = vs.queue /\ v.sent = vs.sent
      /\ v.next_id = vs.next_id /\ v.ledger = vs.ledger
      /\ v.want_reread = vs.want_reread \ TakeReread(vs)
  BY <1>1, <1>2 DEF ViewStateState
<1>4. Serial(v)
  BY <1>1, <1>3, SameOrder
<1>5. Out(v) = Out(vs)
  BY <1>3 DEF Out
<1>6. Standing(v) /\ Presses(v) = Presses(vs)
  BY <1>1, <1>3, <1>5, SameStanding
<1>7. PICK owed : owed = Enqueue(rc, TakeReread(vs))
  OBVIOUS
<1>8. PICK ends : ends = UNION {WatchedEnds(owed, FlightOf(m), m) :
                                  m \in {n \in Answering : n.outcome = "Read"}}
  OBVIOUS
<1>9. ends \in SUBSET Items
  <2>1. \A m \in Answering : WatchedEnds(owed, FlightOf(m), m) \subseteq Items
    BY <1>1, EndsItems
  <2> QED BY <1>8, <2>1
<1>10. vs' = FoldSet(Fan, v, ends)
  BY <1>2, <1>7, <1>8 DEF ReconcilePump
<1>11. \A q \in Out(v) : Admit(q)
  BY <1>1, <1>5 DEF Sendable
<1>12. /\ vs' \in ViewStateState /\ Forward(v, vs')
       /\ vs'.ledger.entries \subseteq v.ledger.entries /\ vs'.want_reread = v.want_reread
       /\ Presses(vs') = Presses(v) /\ \A q \in Out(vs') : Admit(q)
  BY <1>1, <1>3, <1>4, <1>6, <1>9, <1>10, <1>11, FanStanding
<1>13. /\ StartJobs(vs, vs', mail)
       /\ UNCHANGED <<adapter, token, profile, switch, seats>>
  BY DEF ReconcilePump
<1>14. Alone'
  BY <1>1, <1>12, <1>13, NewWorkerAlone DEF Alone
<1>15. Steady' /\ Sendable(vs)'
  <2>1. Sendable(vs')
    BY <1>1, <1>6, <1>12 DEF Sendable, Presses
  <2> QED BY <1>1, <1>13, <2>1, SendableNext
<1>16. Charged(vs)'
  <2>1. Forward(vs, vs')
    BY <1>3, <1>12 DEF Forward, Behind
  <2>2. workers # {} => vs'.sent = vs.sent
    BY <1>1, <2>1, ForwardCharged
  <2> QED BY <1>1, <1>13, <2>2, JobsCharged
<1>17. Placed(vs)'
  <2>1. Placed(vs') BY <1>1, <1>3, <1>6, <1>12, ShrinksPlaced
  <2> QED BY <2>1 DEF Placed, Presses, Out, Place
<1>18. SendInv'
  BY <1>14, <1>15, <1>16, <1>17 DEF SendInv
<1> QED BY <1>3, <1>6, <1>12, <1>18

\* The invariant after a step, from its parts.
LEMMA RowsNext ==
    ASSUME SyncInv', SendInv', page' = NoPage, play'.state # "none" => play' \in Playback,
           Matched(rc', readers'), Upper(rc'),
           \A i \in Items : LeavesOf(i) # {} =>
              Row(vs', rc', play', rmail', screen', truth'[seats'[1]].watched, i)
    PROVE  RowsInv'
<1>1. Matched(rc, readers)' /\ Upper(rc)'
  BY DEF Matched, Upper
<1>2. \A i \in Items : LeavesOf(i) # {} =>
              Row(vs, rc, play, rmail, screen, truth[seats[1]].watched, i)'
  BY DEF Row, Asked, InDebt, Presses, Out, Waiting, Queued, Fresh, Replayed, Since, Says, IsOut
<1> QED BY <1>1, <1>2 DEF RowsInv

\* What the server says of a row follows its leaves' record.
LEMMA SaysSame ==
    ASSUME NEW i, NEW T, NEW U, \A j \in LeavesOf(i) : T[j] = U[j]
    PROVE  Says(T, i) = Says(U, i)
BY DEF Says

\* A step that sends and lands nothing keeps the rows settled if no item is forgotten,
\* what it changes of a row, its record or its entries is asked for, and what is
\* answered is what the server says.
LEMMA AsideRows ==
    ASSUME NEW i \in Items, NEW v, NEW r, NEW p, NEW M, NEW S, NEW T,
           NEW w, NEW n, NEW q, NEW N, NEW X, NEW U,
           Row(v, r, p, M, S, T, i), n.flights = r.flights,
           \A j \in Items : Asked(v, r, p, j) => Asked(w, n, q, j),
           \A j \in Items : Asked(w, n, q, j) \/ X[j] = S[j],
           \A j \in Leaves : Asked(w, n, q, j) \/ U[j] = T[j],
           \A e \in w.ledger.entries :
              \/ e \in v.ledger.entries
              \/ \A j \in Items : e.edit.kind = "Watched" /\ Covers(e.at, j) => Asked(w, n, q, j),
           \A m \in N : \/ m \in M
                        \/ \A f \in r.flights : m.id = f.id =>
                              \A j \in f.keys : j \in DOMAIN m.rows /\ m.rows[j] = Says(U, j)
    PROVE  Row(w, n, q, N, X, U, i)
<1> SUFFICES ASSUME \A j \in Brood(i) : ~Asked(w, n, q, j)
             PROVE  /\ \A f \in n.flights : i \in f.keys => Fresh(w.ledger, N, U, f, i)
                    /\ X[i] = Says(U, i) \/ \E j \in Brood(i) : IsOut(n, j)
  BY DEF Row
<1>1. i \in Brood(i) /\ LeavesOf(i) \subseteq Brood(i) /\ LeavesOf(i) \subseteq Leaves
      /\ Brood(i) \subseteq Items
  BY BroodOwn DEF Brood, LeavesOf
<1>2. \A j \in Brood(i) : ~Asked(v, r, p, j)
  BY <1>1
<1>3. /\ \A f \in r.flights : i \in f.keys => Fresh(v.ledger, M, T, f, i)
      /\ S[i] = Says(T, i) \/ \E j \in Brood(i) : IsOut(r, j)
  BY <1>2 DEF Row
<1>4. X[i] = S[i]
  BY <1>1
<1>5. Says(U, i) = Says(T, i)
  <2>1. \A j \in LeavesOf(i) : U[j] = T[j]
    BY <1>1
  <2> QED BY <2>1, SaysSame
<1>6. ASSUME NEW f \in n.flights, i \in f.keys PROVE Fresh(w.ledger, N, U, f, i)
  <2>1. f \in r.flights /\ Fresh(v.ledger, M, T, f, i)
    BY <1>3, <1>6
  <2>2. ASSUME NEW e \in Replayed(w.ledger, f.stamp, i, "Watched") PROVE FALSE
    <3>1. e \in w.ledger.entries /\ e.seq > f.stamp /\ e.edit.kind = "Watched" /\ Covers(e.at, i)
      BY DEF Replayed, Since
    <3>2. e \in v.ledger.entries
      BY <1>1, <3>1
    <3>3. e \in Replayed(v.ledger, f.stamp, i, "Watched")
      BY <3>1, <3>2 DEF Replayed, Since
    <3> QED BY <2>1, <3>3 DEF Fresh
  <2>3. ASSUME NEW m \in N, m.id = f.id, m.outcome = "Read"
        PROVE  i \in DOMAIN m.rows /\ m.rows[i] = Says(U, i)
    <3>1. CASE m \in M
      BY <1>5, <2>1, <2>3, <3>1 DEF Fresh
    <3>2. CASE m \notin M
      BY <1>6, <2>1, <2>3, <3>2
    <3> QED BY <3>1, <3>2
  <2> QED BY <2>2, <2>3 DEF Fresh
<1>7. X[i] = Says(U, i) \/ \E j \in Brood(i) : IsOut(n, j)
  BY <1>3, <1>4, <1>5 DEF IsOut
<1> QED BY <1>6, <1>7

\* What a settled row's answer publishes is what the server says.
LEMMA PublishSays ==
    ASSUME TypeOK, Tracks(rc), NEW i \in Items, NEW T,
           \A f \in rc.flights : i \in f.keys => Fresh(vs.ledger, rmail, T, f, i)
    PROVE  /\ (\E p \in Published : p.item = i) => PublishFacts(screen)[i] = Says(T, i)
           /\ (~\E p \in Published : p.item = i) => PublishFacts(screen)[i] = screen[i]
           /\ \A m \in Answering : m.outcome = "Read" /\ i \in FlightOf(m).keys =>
                 i \in Rows(FlightOf(m), m) /\ \E p \in Published : p.item = i
<1>1. DOMAIN screen = Items
  BY DEF TypeOK
<1>2. ASSUME NEW m \in Answering PROVE FlightOf(m) \in rc.flights /\ FlightOf(m).id = m.id
                                       /\ m \in rmail
  BY DEF Answering, FlightOf
<1>3. ASSUME NEW p \in Published, p.item = i PROVE p.on = Says(T, i)
  <2>1. PICK m \in Answering : p \in Facts(m)
    BY DEF Published
  <2>2. m.outcome = "Read"
    BY <2>1 DEF Facts
  <2>3. PICK j \in Rows(FlightOf(m), m) : p = [item |-> j, on |-> m.rows[j]]
    BY <2>1, <2>2 DEF Facts
  <2>4. j = i /\ p.on = m.rows[i]
    BY <1>3, <2>3
  <2>5. i \in FlightOf(m).keys
    BY <2>3, <2>4 DEF Rows
  <2> QED BY <1>2, <2>2, <2>4, <2>5 DEF Fresh
<1>4. (\E p \in Published : p.item = i) => PublishFacts(screen)[i] = Says(T, i)
  <2> SUFFICES ASSUME \E p \in Published : p.item = i PROVE PublishFacts(screen)[i] = Says(T, i)
    OBVIOUS
  <2>1. PICK c : c = CHOOSE p \in Published : p.item = i
    OBVIOUS
  <2>2. c \in Published /\ c.item = i
    BY <2>1
  <2>3. PublishFacts(screen)[i] = c.on
    BY <1>1, <2>1 DEF PublishFacts
  <2> QED BY <1>3, <2>2, <2>3
<1>5. (~\E p \in Published : p.item = i) => PublishFacts(screen)[i] = screen[i]
  BY <1>1 DEF PublishFacts
<1>6. ASSUME NEW m \in Answering, m.outcome = "Read", i \in FlightOf(m).keys
      PROVE  i \in Rows(FlightOf(m), m) /\ \E p \in Published : p.item = i
  <2>1. Fresh(vs.ledger, rmail, T, FlightOf(m), i)
    BY <1>2, <1>6
  <2>2. i \in DOMAIN m.rows /\ ~Overtaken(FlightOf(m), i)
    BY <1>2, <1>6, <2>1 DEF Fresh, Overtaken
  <2>3. i \in Rows(FlightOf(m), m)
    BY <1>6, <2>2 DEF Rows
  <2> DEFINE p == [item |-> i, on |-> m.rows[i]]
  <2>4. p \in Facts(m)
    BY <1>6, <2>3 DEF Facts
  <2>5. p \in Published /\ p.item = i
    BY <2>4 DEF Published
  <2> QED BY <2>3, <2>5
<1> QED BY <1>4, <1>5, <1>6

\* A read that just left is fresh, and one that stays out is as fresh as it was.
LEMMA FrameFresh ==
    ASSUME SyncInv, ReconcilePump, vs'.ledger.entries \subseteq vs.ledger.entries,
           \A m \in rmail' : m.outcome = "NotStarted", NEW f \in rc'.flights, NEW i, NEW T,
           f \in rc.flights => Fresh(vs.ledger, rmail, T, f, i)
    PROVE  Fresh(vs'.ledger, rmail', T, f, i)
<1>1. f \in rc.flights \/ f.stamp = vs.ledger.seq
  BY FrameReads
<1>2. vs.ledger \in Ledger /\ WellNumbered(vs.ledger)
  BY DEF SyncInv, TypeInv, TypeOK, ViewStateState, Standing
<1>3. vs.ledger.seq \in Nat /\ \A e \in vs.ledger.entries : e.seq \in Nat /\ e.seq <= vs.ledger.seq
  BY <1>2, Numbers DEF Ledger
<1>4. Replayed(vs'.ledger, f.stamp, i, "Watched") = {}
  <2>1. \A e \in Replayed(vs'.ledger, f.stamp, i, "Watched") :
           e \in Replayed(vs.ledger, f.stamp, i, "Watched")
    BY DEF Replayed, Since
  <2>2. CASE f \in rc.flights
    BY <2>1, <2>2 DEF Fresh
  <2>3. CASE f.stamp = vs.ledger.seq
    <3>1. Replayed(vs.ledger, f.stamp, i, "Watched") = {}
      BY <1>3, <2>3 DEF Replayed, Since
    <3> QED BY <2>1, <3>1
  <2> QED BY <1>1, <2>2, <2>3
<1>5. \A m \in rmail' : m.outcome # "Read"
  OBVIOUS
<1> QED BY <1>4, <1>5 DEF Fresh

\* A frame of the read-back lands, sends and hands over: each row it stops reading is
\* drawn as the server has it, or read again, or its parents are read next.
LEMMA FrameRows ==
    ASSUME \A i \in Items : Copies(i) = {}, RowsInv, ReconcilePump
    PROVE  RowsInv'
<1> DEFINE T == truth[seats[1]].watched
<1>1. /\ SyncInv /\ SendInv /\ page = NoPage /\ Matched(rc, readers) /\ Upper(rc)
      /\ play.state # "none" => play \in Playback
      /\ TypeOK /\ Tracks(rc)
  BY DEF RowsInv, SyncInv, TypeInv
<1>2. SyncInv'
  BY <1>1, FrameStep
<1>3. /\ SendInv' /\ Presses(vs') = Presses(vs)
      /\ vs'.want_reread = vs.want_reread \ TakeReread(vs)
      /\ vs'.ledger.entries \subseteq vs.ledger.entries
  BY <1>1, FrameSend
<1>4. /\ screen' = PublishFacts(screen) /\ UNCHANGED <<truth, seats, page, play>>
  BY DEF ReconcilePump
<1>5. /\ Upper(rc') /\ Matched(rc', readers') /\ \A m \in rmail' : m.outcome = "NotStarted"
      /\ \A f \in rc.flights : f \in rc'.flights \/ \E m \in Answering : f = FlightOf(m)
      /\ \A i \in Waiting(rc) \cup TakeReread(vs) : Served(rc, rc', i)
  BY <1>1, FrameQueue
<1>6. \A m \in Answering : m.outcome = "NotStarted" =>
         \A i \in FlightOf(m).keys : Served(rc, rc', i)
  BY <1>1, FrameQueue
<1>7. \A m \in Answering : m.outcome # "NotStarted" =>
         \A j \in Rows(FlightOf(m), m) \ FlightOf(m).parents : \A i \in Parents(j) :
            i \in FlightOf(m).keys \/ Served(rc, rc', i)
  BY <1>1, FrameQueue
<1>8. Tracks(rc')
  BY <1>2 DEF SyncInv
<1>9. ASSUME NEW j, Asked(vs, rc, play, j) PROVE Asked(vs', rc', play', j) \/ Served(rc, rc', j)
  <2>1. CASE InDebt(vs, j)
    <3>1. InDebt(vs', j) \/ j \in TakeReread(vs)
      BY <1>3, <2>1 DEF InDebt
    <3> QED BY <1>5, <3>1 DEF Asked
  <2>2. CASE j \in Waiting(rc)
    BY <1>5, <2>2
  <2>3. CASE play.state = "stopped" /\ play.ok /\ play.item = j
    BY <1>4, <2>3 DEF Asked
  <2> QED BY <1>9, <2>1, <2>2, <2>3 DEF Asked
<1>10. \A j : Served(rc, rc', j) =>
          Asked(vs', rc', play', j) \/ \E f \in rc'.flights \ rc.flights : j \in f.keys
  BY DEF Served, Asked
<1>11. ASSUME NEW i \in Items, LeavesOf(i) # {}
       PROVE  Row(vs', rc', play', rmail', screen', T, i)
  <2> SUFFICES ASSUME \A j \in Brood(i) : ~Asked(vs', rc', play', j)
               PROVE  /\ \A f \in rc'.flights : i \in f.keys => Fresh(vs'.ledger, rmail', T, f, i)
                      /\ screen'[i] = Says(T, i) \/ \E j \in Brood(i) : IsOut(rc', j)
    BY DEF Row
  <2> HIDE DEF T
  <2>1. i \in Brood(i)
    BY DEF Brood
  <2>2. \A j \in Brood(i) : Served(rc, rc', j) => IsOut(rc', j)
    BY <1>10 DEF IsOut
  <2>3. CASE \E j \in Brood(i) : Asked(vs, rc, play, j)
    <3>1. PICK j \in Brood(i) : Asked(vs, rc, play, j)
      BY <2>3
    <3>2. PICK g \in rc'.flights \ rc.flights : j \in g.keys
      BY <1>9, <1>10, <3>1
    <3>3. IsOut(rc', j)
      BY <3>2 DEF IsOut
    <3>4. ASSUME NEW f \in rc'.flights, i \in f.keys PROVE Fresh(vs'.ledger, rmail', T, f, i)
      <4>1. f.server = ServerOf[i] /\ g.server = ServerOf[j]
        BY <1>8, <3>2, <3>4 DEF Tracks, Own
      <4>2. f = g
        BY <1>8, <3>2, <4>1, BroodOwn DEF Tracks
      <4>3. f \notin rc.flights
        BY <3>2, <4>2
      <4> QED BY <1>1, <1>3, <1>5, <4>3, FrameFresh
    <3> QED BY <3>1, <3>3, <3>4
  <2>4. CASE \A j \in Brood(i) : ~Asked(vs, rc, play, j)
    <3>1. ASSUME NEW j \in Brood(i)
          PROVE  \A f \in rc.flights : j \in f.keys => Fresh(vs.ledger, rmail, T, f, j)
      <4>1. j \in Items /\ (j # i => j \in Leaves /\ Brood(j) = {j})
        BY BroodOwn
      <4>2. LeavesOf(j) # {} /\ \A k \in Brood(j) : ~Asked(vs, rc, play, k)
        BY <1>11, <2>4, <4>1, LeafAlone
      <4>3. Row(vs, rc, play, rmail, screen, T, j)
        BY <4>1, <4>2 DEF RowsInv, T
      <4> QED BY <4>2, <4>3 DEF Row
    <3>2. screen[i] = Says(T, i) \/ \E j \in Brood(i) : IsOut(rc, j)
      <4>1. Row(vs, rc, play, rmail, screen, T, i)
        BY <1>11 DEF RowsInv, T
      <4> QED BY <2>4, <4>1 DEF Row
    <3>3. ASSUME NEW f \in rc'.flights, i \in f.keys PROVE Fresh(vs'.ledger, rmail', T, f, i)
      <4>1. f \in rc.flights => Fresh(vs.ledger, rmail, T, f, i)
        BY <2>1, <3>1, <3>3
      <4> QED BY <1>1, <1>3, <1>5, <4>1, FrameFresh
    <3>4. \A f \in rc.flights : i \in f.keys => Fresh(vs.ledger, rmail, T, f, i)
      BY <2>1, <3>1
    <3>5. CASE \E p \in Published : p.item = i
      <4>1. screen'[i] = Says(T, i)
        BY <1>1, <1>4, <3>4, <3>5, PublishSays
      <4> QED BY <3>3, <4>1
    <3>6. CASE ~\E p \in Published : p.item = i
      <4>1. screen'[i] = screen[i]
        BY <1>1, <1>4, <3>4, <3>6, PublishSays
      <4>2. ASSUME NEW j \in Brood(i), NEW f \in rc.flights, j \in f.keys
            PROVE  \E k \in Brood(i) : IsOut(rc', k)
        <5>1. CASE f \in rc'.flights
          BY <4>2, <5>1 DEF IsOut
        <5>2. ASSUME NEW m \in Answering, f = FlightOf(m), m.outcome = "NotStarted"
              PROVE  IsOut(rc', j)
          BY <1>6, <2>2, <4>2, <5>2
        <5>3. ASSUME NEW m \in Answering, f = FlightOf(m), m.outcome # "NotStarted"
              PROVE  IsOut(rc', i)
          <6>1. m.outcome = "Read"
            BY <1>1, <5>3 DEF SyncInv, Typed, Answer, Answering
          <6>2. i \notin f.keys
            BY <1>1, <3>4, <3>6, <5>3, <6>1, PublishSays
          <6>3. j # i
            BY <4>2, <6>2
          <6>4. j \in Items /\ j \in Leaves /\ i \in Parents(j)
            BY <6>3, BroodOwn
          <6>5. j \in Rows(f, m)
            BY <1>1, <3>1, <4>2, <5>3, <6>1, <6>4, PublishSays
          <6>6. j \notin f.parents
            BY <1>1, <6>4 DEF Upper
          <6>7. Served(rc, rc', i)
            BY <1>7, <5>3, <6>2, <6>4, <6>5, <6>6
          <6> QED BY <2>1, <2>2, <6>7
        <5> QED BY <1>5, <2>1, <4>2, <5>1, <5>2, <5>3
      <4> QED BY <3>2, <3>3, <4>1, <4>2 DEF IsOut
    <3> QED BY <3>5, <3>6
  <2> QED BY <2>3, <2>4
<1>12. truth'[seats'[1]].watched = T
  BY <1>4
<1> HIDE DEF T
<1> QED BY <1>1, <1>2, <1>3, <1>4, <1>5, <1>11, <1>12, RowsNext

\* A write's step: whatever it changes is in debt.
LEMMA WriteRows ==
    ASSUME \A i \in Items : Copies(i) = {}, Pressable \subseteq Leaves, MaxSwitches = 0,
           RowsInv, WriteStep, UNCHANGED syncVars
    PROVE  RowsInv'
<1> DEFINE T == truth[seats[1]].watched
           U == truth'[seats'[1]].watched
<1>1. /\ SyncInv /\ SendInv /\ page = NoPage /\ Matched(rc, readers) /\ Upper(rc)
      /\ play.state # "none" => play \in Playback
  BY DEF RowsInv
<1>2. SyncInv'
  BY <1>1, WriteKeeps
<1>3. SendInv' /\ Debts
  <2>1. Next
    BY Zenon DEF WriteStep, Next, SwitchStep
  <2>2. TypeInv /\ Ordered /\ Standing(vs)
    BY <1>1 DEF SyncInv
  <2> QED BY <1>1, <2>1, <2>2, StepDebts
<1>4. rc' = rc /\ readers' = readers /\ rmail' = rmail /\ page' = page /\ play' = play
  BY DEF syncVars
<1>5. \A j : InDebt(vs', j) => Asked(vs', rc', play', j)
  BY DEF Asked
<1>6. \A j \in Items : Asked(vs, rc, play, j) => Asked(vs', rc', play', j)
  BY <1>3, <1>4 DEF Asked, Debts
<1>7. \A j \in Items : Asked(vs', rc', play', j) \/ screen'[j] = screen[j]
  BY <1>3, <1>5 DEF Debts
<1>8. \A j \in Leaves : Asked(vs', rc', play', j) \/ U[j] = T[j]
  BY <1>3, <1>5 DEF Debts
<1>9. ASSUME NEW e \in vs'.ledger.entries, e \notin vs.ledger.entries,
             NEW j \in Items, e.edit.kind = "Watched", Covers(e.at, j)
      PROVE  Asked(vs', rc', play', j)
  <2>1. e.at.item \in Leaves /\ InDebt(vs', e.at.item)
    BY <1>3, <1>9 DEF Debts
  <2>2. e.at \in At
    BY <1>2 DEF SyncInv, TypeInv, TypeOK, ViewStateState, Ledger, Entry
  <2>3. e.at = [item |-> e.at.item, scope |-> e.at.scope]
    BY <2>2 DEF At
  <2>4. j = e.at.item
    BY <1>9, <2>1, <2>3, LeafAlone
  <2> QED BY <1>5, <2>1, <2>4
<1> HIDE DEF T, U
<1>10. ASSUME NEW i \in Items, LeavesOf(i) # {}
       PROVE  Row(vs', rc', play', rmail', screen', U, i)
  <2>1. Row(vs, rc, play, rmail, screen, T, i)
    BY <1>10 DEF RowsInv, T
  <2>2. rc'.flights = rc.flights /\ \A m \in rmail' : m \in rmail
    BY <1>4
  <2> QED BY <1>6, <1>7, <1>8, <1>9, <2>1, <2>2, AsideRows
<1>11. \A i \in Items : LeavesOf(i) # {} =>
          Row(vs', rc', play', rmail', screen', truth'[seats'[1]].watched, i)
  BY <1>10 DEF U
<1> QED BY <1>1, <1>2, <1>3, <1>4, <1>11, RowsNext

\* A step that leaves the writes alone keeps what they rest on.
LEMMA AsideSend ==
    ASSUME SendInv, UNCHANGED <<vs, adapter, mail, workers, token, profile, switch, seats>>
    PROVE  SendInv'
<1>1. Alone' /\ Steady'
  BY DEF SendInv, Alone, Steady
<1>2. Sendable(vs)' /\ Charged(vs)' /\ Placed(vs)'
  BY DEF SendInv, Sendable, Charged, Placed, Admit, Presses, Out, Place
<1> QED BY <1>1, <1>2 DEF SendInv

\* A step that leaves the writes, what is drawn, what is out and what was answered alone
\* keeps the rows settled, if nothing that was asked for is forgotten and a record
\* changes only of what is asked for.
LEMMA AskRows ==
    ASSUME RowsInv, SyncInv', UNCHANGED <<vs, adapter, mail, workers, token, profile, switch,
                                           screen, seats, readers, rmail, page>>,
           rc'.flights = rc.flights, rc'.pending_parents = rc.pending_parents,
           play'.state # "none" => play' \in Playback,
           \A j \in Items : Asked(vs, rc, play, j) => Asked(vs, rc', play', j),
           \A j \in Leaves : \/ Asked(vs, rc', play', j)
                             \/ truth'[seats[1]].watched[j] = truth[seats[1]].watched[j]
    PROVE  RowsInv'
<1> DEFINE T == truth[seats[1]].watched
           U == truth'[seats[1]].watched
<1>1. SendInv'
  BY AsideSend DEF RowsInv
<1>2. Matched(rc', readers') /\ Upper(rc')
  BY DEF RowsInv, Matched, Upper
<1>3. \A j \in Leaves : Asked(vs, rc', play', j) \/ U[j] = T[j]
  OBVIOUS
<1> HIDE DEF T, U
<1>4. ASSUME NEW i \in Items, LeavesOf(i) # {}
      PROVE  Row(vs, rc', play', rmail, screen, U, i)
  <2>1. Row(vs, rc, play, rmail, screen, T, i)
    BY <1>4 DEF RowsInv, T
  <2> QED BY <1>3, <2>1, AsideRows
<1>5. \A i \in Items : LeavesOf(i) # {} =>
          Row(vs', rc', play', rmail', screen', truth'[seats'[1]].watched, i)
  BY <1>4 DEF U
<1>6. page' = NoPage
  BY DEF RowsInv
<1> QED BY <1>1, <1>2, <1>5, <1>6, RowsNext

\* A hint, and a playback from its start to the landing of its stop: a stop that reached
\* the server is asked for from that moment.
LEMMA PlayRows ==
    ASSUME RowsInv,
           \/ \E i \in Items, quiet \in BOOLEAN : Hint(i, quiet)
           \/ \E i \in Leaves : PlayStart(i)
           \/ \E ok, ended \in BOOLEAN : PlayStop(ok, ended)
           \/ StopLanded \/ TakeLanded
    PROVE  RowsInv'
<1>1. /\ SyncInv /\ SendInv /\ Tracks(rc) /\ rc \in Reconcile /\ TypeOK /\ TypeInv
      /\ play.state # "none" => play \in Playback
  BY DEF RowsInv, SyncInv, TypeInv, Tracks
<1>2. SyncInv'
  BY <1>1, HintKeeps, PlayKeeps
<1>3. ASSUME UNCHANGED <<vsVars, readers, rmail, page>>, rc'.flights = rc.flights,
             rc'.pending_parents = rc.pending_parents,
             play'.state # "none" => play' \in Playback,
             \A j \in Items : Asked(vs, rc, play, j) => Asked(vs, rc', play', j)
      PROVE  RowsInv'
  BY <1>2, <1>3, AskRows DEF vsVars
<1>4. ASSUME NEW i \in Items, NEW quiet \in BOOLEAN, Hint(i, quiet) PROVE RowsInv'
  <2>1. UNCHANGED <<vsVars, readers, rmail, page, play>>
    BY <1>4 DEF Hint
  <2>2. rc' = EnqueueReread(rc, {i}) \/ rc' = Enqueue(rc, {i})
    BY <1>4 DEF Hint
  <2>3. /\ rc'.flights = rc.flights /\ rc'.pending_parents = rc.pending_parents
        /\ Waiting(rc) \subseteq Waiting(rc')
    <3>1. {i} \in SUBSET Items OBVIOUS
    <3>2. CASE rc' = EnqueueReread(rc, {i})
      BY <1>1, <3>2, AskTracks, AskQueued
    <3>3. CASE rc' = Enqueue(rc, {i})
      BY <1>1, <3>1, <3>3, EnqueueTracks, EnqueueQueued
    <3> QED BY <2>2, <3>2, <3>3
  <2>4. \A j \in Items : Asked(vs, rc, play, j) => Asked(vs, rc', play', j)
    BY <2>1, <2>3 DEF Asked
  <2> QED BY <1>1, <1>3, <2>1, <2>3, <2>4
<1>5. ASSUME NEW i \in Leaves, PlayStart(i) PROVE RowsInv'
  <2>1. /\ play = NotPlaying /\ play'.state = "playing"
        /\ UNCHANGED <<vsVars, rc, readers, rmail, page>>
    BY <1>5 DEF PlayStart
  <2>3. play' \in Playback
    <3>1. SeatedUser \in Users
      BY <1>1, LenProperties, ElementOfSeq DEF SeatedUser, TypeInv, TypeOK
    <3>2. truth[SeatedUser].watched[i] \in BOOLEAN
      BY <1>1, <3>1 DEF TypeOK
    <3> QED BY <1>5, <3>2 DEF PlayStart, Playback
  <2>2. \A j \in Items : Asked(vs, rc, play, j) => Asked(vs, rc', play', j)
    BY <2>1 DEF Asked, NotPlaying
  <2> QED BY <1>3, <2>1, <2>2, <2>3
<1>6. ASSUME NEW ok \in BOOLEAN, NEW ended \in BOOLEAN, PlayStop(ok, ended) PROVE RowsInv'
  <2>1. /\ play.state = "playing" /\ play' = [play EXCEPT !.state = "stopped", !.ok = ok]
        /\ ended => ok
        /\ truth' = IF ended THEN Applied(SeatedUser, play.item, "Watched") ELSE truth
        /\ UNCHANGED <<vs, adapter, mail, workers, token, profile, switch, screen,
                       seats, rc, readers, rmail, page>>
    BY <1>6 DEF PlayStop
  <2>2. play.item \in Leaves
    BY <1>1, <2>1 DEF Playback
  <2>3. play'.state = "stopped" /\ play'.item = play.item /\ play'.ok = ok
        /\ play' \in Playback
    BY <1>1, <2>1 DEF Playback
  <2>4. SeatedUser = seats[1] /\ seats[1] \in Users
    <3>1. SeatedUser = seats[1]
      BY <1>1 DEF SeatedUser, SendInv, Steady
    <3>2. Len(seats) # 0 /\ seats \in Seq(Users)
      BY <1>1 DEF TypeInv, TypeOK
    <3> QED BY <3>1, <3>2
  <2>5. ASSUME NEW j \in Leaves
        PROVE  \/ Asked(vs, rc', play', j)
               \/ truth'[seats[1]].watched[j] = truth[seats[1]].watched[j]
    <3>1. CASE ~ended
      BY <2>1, <3>1
    <3>2. CASE ended /\ j = play.item
      BY <2>1, <2>3, <3>2 DEF Asked
    <3>3. CASE ended /\ j # play.item
      <4>1. truth' = Applied(seats[1], play.item, "Watched")
        BY <2>1, <2>4, <3>3
      <4>2. "Watched" \in AllWrites
        BY DEF AllWrites
      <4> QED BY <1>1, <2>2, <2>4, <3>3, <4>1, <4>2, AppliedLeaf
    <3> QED BY <3>1, <3>2, <3>3
  <2>6. \A j \in Items : Asked(vs, rc, play, j) => Asked(vs, rc', play', j)
    BY <2>1 DEF Asked
  <2> QED BY <1>2, <2>1, <2>2, <2>3, <2>5, <2>6, AskRows
<1>7. CASE StopLanded
  <2>1. /\ play.state = "stopped" /\ play'.state = "none"
        /\ UNCHANGED <<vsVars, readers, rmail, page>>
        /\ rc' = IF play.ok THEN EnqueueStop(rc, play.item, play.was_watched)
                 ELSE OwePage(rc, {play.item})
    BY <1>7 DEF StopLanded, NotPlaying
  <2>2. play.item \in Items
    BY <1>1, <2>1 DEF Leaves, Playback
  <2>3. /\ rc'.flights = rc.flights /\ rc'.pending_parents = rc.pending_parents
        /\ Waiting(rc) \subseteq Waiting(rc') /\ (play.ok => play.item \in Waiting(rc'))
    <3>1. CASE play.ok
      <4>1. rc' = EnqueueStop(rc, play.item, play.was_watched) BY <2>1, <3>1
      <4> QED BY <1>1, <2>2, <4>1, AskTracks, AskQueued
    <3>2. CASE ~play.ok
      <4>1. rc' = OwePage(rc, {play.item}) BY <2>1, <3>2
      <4> QED BY <1>1, <2>2, <3>2, <4>1, AskTracks, AskQueued
    <3> QED BY <3>1, <3>2
  <2>4. \A j \in Items : Asked(vs, rc, play, j) => Asked(vs, rc', play', j)
    BY <2>3 DEF Asked
  <2> QED BY <1>3, <2>1, <2>3, <2>4
<1>8. CASE TakeLanded
  <2>1. rc' = [rc EXCEPT !.landed = {}] /\ UNCHANGED <<vsVars, readers, rmail, page, play>>
    BY <1>8 DEF TakeLanded
  <2>2. /\ rc'.flights = rc.flights /\ rc'.dirty = rc.dirty /\ rc'.pending = rc.pending
        /\ rc'.pending_parents = rc.pending_parents
    BY <1>1, <2>1 DEF Reconcile
  <2>3. \A j \in Items : Asked(vs, rc, play, j) => Asked(vs, rc', play', j)
    BY <2>1, <2>2 DEF Asked, Waiting, Queued
  <2> QED BY <1>1, <1>3, <2>1, <2>2, <2>3
<1> QED BY <1>4, <1>5, <1>6, <1>7, <1>8

\* A worker's answer brings every row of its flight as the server holds it.
LEMMA AnswerRows ==
    ASSUME MaxUnread = 0, RowsInv, NEW k \in readers, NEW answered \in BOOLEAN,
           ReadAnswer(k, answered)
    PROVE  RowsInv'
<1> DEFINE T == truth[seats[1]].watched
           rows == [i \in k.keys |-> ServerSays(Bearer(i), i)]
           msg == [id |-> k.id, outcome |-> "Read", rows |-> rows]
<1>1. /\ SyncInv /\ SendInv /\ page = NoPage /\ Matched(rc, readers) /\ Upper(rc)
      /\ play.state # "none" => play \in Playback
      /\ Typed /\ Tracks(rc) /\ Steady
  BY DEF RowsInv, SyncInv, SendInv
<1>2. SyncInv'
  BY <1>1, AnswerKeeps
<1>3. answered
  <2>1. used.unread \in Nat
    BY <1>1 DEF Typed
  <2>2. answered \/ used.unread < MaxUnread
    BY DEF ReadAnswer
  <2> QED BY <2>1, <2>2
<1>4. /\ readers' = readers \ {k} /\ \A m \in rmail' : m \in rmail \/ m = msg
      /\ UNCHANGED <<vs, adapter, mail, workers, token, profile, switch, screen, truth,
                     seats, rc, page, play>>
  BY <1>3 DEF ReadAnswer
<1>5. k.keys \subseteq Items
  BY <1>1 DEF Typed
<1>6. \A j \in k.keys : j \in DOMAIN rows /\ rows[j] = Says(T, j)
  <2>1. \A j \in k.keys : Bearer(j) = seats[1]
    BY <1>1, <1>5, ViewStateAssumption DEF Bearer, Steady
  <2> QED BY <2>1 DEF ServerSays, Says
<1>7. msg.id = k.id /\ msg.rows = rows
  OBVIOUS
<1> HIDE DEF T, rows, msg
<1>8. \A f \in rc.flights : msg.id = f.id =>
         \A j \in f.keys : j \in DOMAIN msg.rows /\ msg.rows[j] = Says(T, j)
  BY <1>1, <1>6, <1>7 DEF Matched
<1>9. SendInv' /\ Matched(rc', readers') /\ Upper(rc')
  BY <1>1, <1>4, AsideSend DEF Matched
<1>10. ASSUME NEW i \in Items, LeavesOf(i) # {}
       PROVE  Row(vs, rc, play, rmail', screen, T, i)
  <2>1. Row(vs, rc, play, rmail, screen, T, i)
    BY <1>10 DEF RowsInv, T
  <2>2. \A m \in rmail' : \/ m \in rmail
                          \/ \A f \in rc.flights : m.id = f.id =>
                                \A j \in f.keys : j \in DOMAIN m.rows /\ m.rows[j] = Says(T, j)
    BY <1>4, <1>8
  <2> QED BY <2>1, <2>2, AsideRows
<1>11. \A i \in Items : LeavesOf(i) # {} =>
          Row(vs', rc', play', rmail', screen', truth'[seats'[1]].watched, i)
  BY <1>4, <1>10 DEF T
<1> QED BY <1>1, <1>2, <1>4, <1>9, <1>11, RowsNext

\* No row is drawn watched at the start, and none is.
LEMMA RowsStart == Init => RowsInv
<1> SUFFICES ASSUME Init PROVE RowsInv
  OBVIOUS
<1>1. /\ vsInit /\ rc = EmptyReconcile /\ readers = {} /\ rmail = {} /\ page = NoPage
      /\ play = NotPlaying
  BY DEF Init
<1>2. SyncInv /\ SendInv
  BY <1>1, SyncStart, InitOwed DEF OwedInv
<1>3. rc.flights = {} /\ rc.pending_parents = {}
  BY <1>1 DEF EmptyReconcile
<1>4. seats[1] \in Users
  <2>1. Len(seats) # 0 /\ seats \in Seq(Users)
    BY <1>2 DEF SyncInv, TypeInv, TypeOK
  <2> QED BY <2>1
<1>5. truth[seats[1]].watched = [i \in Leaves |-> FALSE] /\ screen = [i \in Items |-> FALSE]
  BY <1>1, <1>4 DEF vsInit
<1>6. ASSUME NEW i \in Items, LeavesOf(i) # {}
      PROVE  Row(vs, rc, play, rmail, screen, truth[seats[1]].watched, i)
  <2>1. screen[i] = Says(truth[seats[1]].watched, i)
    <3>1. Says(truth[seats[1]].watched, i) = FALSE
      BY <1>5, <1>6 DEF Says, LeavesOf
    <3> QED BY <1>5, <3>1
  <2> QED BY <1>3, <2>1 DEF Row
<1> QED BY <1>1, <1>2, <1>3, <1>6 DEF RowsInv, Matched, Upper, NotPlaying

\* Every step keeps the rows settled.
LEMMA RowsStep ==
    ASSUME \A i \in Items : Copies(i) = {}, Pressable \subseteq Leaves,
           MaxSwitches = 0, MaxReads = 0, MaxUnread = 0, RowsInv, [SyncNext]_vars
    PROVE  RowsInv'
<1>1. /\ SyncInv /\ page = NoPage /\ switch = "seated" /\ Typed
  BY DEF RowsInv, SyncInv, SendInv, Steady
<1>2. CASE UNCHANGED vars
  <2>1. SyncInv'
    BY <1>1, <1>2, SyncStep
  <2>2. /\ UNCHANGED <<vs, adapter, mail, workers, token, profile, switch, screen, truth,
                       seats, rc, readers, rmail, page, play>>
    BY <1>2 DEF vars, vsVars, syncVars
  <2>3. play.state # "none" => play \in Playback
    BY DEF RowsInv
  <2> QED BY <2>1, <2>2, <2>3, AskRows
<1>3. CASE WriteStep /\ UNCHANGED syncVars
  BY <1>3, WriteRows
<1>4. ~Reset
  BY <1>1 DEF Reset
<1>5. ~PageRequest /\ ~PageAnswer /\ ~PageLand
  <2>1. used.reads \in Nat
    BY <1>1 DEF Typed
  <2>2. ~PageRequest
    BY <2>1 DEF PageRequest
  <2>3. page.state = "none"
    BY <1>1 DEF NoPage
  <2> QED BY <2>2, <2>3 DEF PageAnswer, PageLand
<1>6. CASE ReconcilePump
  BY <1>6, FrameRows
<1>7. ASSUME NEW k \in readers, NEW answered \in BOOLEAN, ReadAnswer(k, answered) PROVE RowsInv'
  BY <1>7, AnswerRows
<1>8. CASE \/ \E i \in Items, quiet \in BOOLEAN : Hint(i, quiet)
           \/ \E i \in Leaves : PlayStart(i)
           \/ \E ok, ended \in BOOLEAN : PlayStop(ok, ended)
           \/ StopLanded \/ TakeLanded
  BY <1>8, PlayRows
<1> QED BY <1>2, <1>3, <1>4, <1>5, <1>6, <1>7, <1>8, Zenon DEF SyncNext

\* When everything is quiet nothing is asked for and nothing is out: a settled row
\* draws what its server says.
LEMMA QuietRows ==
    ASSUME RowsInv, Quiet, NEW i \in Items, LeavesOf(i) # {}
    PROVE  screen[i] = ServerSays(SeatedUser, i)
<1>1. Row(vs, rc, play, rmail, screen, truth[seats[1]].watched, i)
  BY DEF RowsInv
<1>2. Presses(vs) = {}
  <2>1. vs.queue = <<>> /\ vs.sent = NoReq
    BY DEF Quiet, Settled, Busy
  <2>2. DOMAIN vs.queue = {}
    BY <2>1
  <2>3. Out(vs) = {}
    BY <2>1, <2>2 DEF Out
  <2> QED BY <2>3 DEF Presses
<1>3. vs.want_reread = {} /\ Waiting(rc) = {} /\ rc.flights = {} /\ play.state = "none"
  BY DEF Quiet, Waiting, Queued, NotPlaying
<1>4. \A j : ~Asked(vs, rc, play, j)
  BY <1>2, <1>3 DEF Asked, InDebt
<1>5. screen[i] = Says(truth[seats[1]].watched, i)
  BY <1>1, <1>3, <1>4 DEF Row, IsOut
<1>6. SeatedUser = seats[1]
  BY DEF SeatedUser, RowsInv, SendInv, Steady
<1> QED BY <1>5, <1>6 DEF Says, ServerSays

\* The read-back settles what the press only assumed: whatever reads and writes
\* overtook one another, through refused launches, refused writes, lost answers of
\* writes, panics and playbacks, once everything is quiet every film and episode is
\* drawn as its server has it.  Where no title has a second copy, presses are of films
\* and episodes, no credential moves, every read that was started is answered and no
\* page is read (a page slower than a write whose answer is lost is not told of it).
THEOREM RowsAgree ==
    ASSUME \A i \in Items : Copies(i) = {}, Pressable \subseteq Leaves,
           MaxSwitches = 0, MaxReads = 0, MaxUnread = 0
    PROVE  SyncSpec => []ScreenAgrees
<1>1. RowsInv /\ [SyncNext]_vars => RowsInv'
  BY RowsStep
<1>2. RowsInv => ScreenAgrees
  <2>1. \A i \in Leaves : i \in Items /\ LeavesOf(i) # {}
    BY LeafAlone
  <2> QED BY <2>1, QuietRows DEF ScreenAgrees
<1> QED BY <1>1, <1>2, RowsStart, PTL DEF SyncSpec

\* ... and so is every season and show that has an episode: no press edits them, but
\* the answer of each leaf names its parents, which are read in one more batch.
THEOREM ParentRowsAgree ==
    ASSUME \A i \in Items : Copies(i) = {}, Pressable \subseteq Leaves,
           MaxSwitches = 0, MaxReads = 0, MaxUnread = 0, \A i \in Items : LeavesOf(i) # {}
    PROVE  SyncSpec => []ParentsAgree
<1>1. RowsInv /\ [SyncNext]_vars => RowsInv'
  BY RowsStep
<1>2. RowsInv => ParentsAgree
  BY QuietRows DEF ParentsAgree
<1> QED BY <1>1, <1>2, RowsStart, PTL DEF SyncSpec
==============================================================================
