------------------------ MODULE CompletionPort_proof ------------------------
(* What is proved of CompletionPort.  PortIsWhole: every promise is in exactly *)
(* one place until it is kept, and a cancel strikes no socket that is open.    *)
(* KeysAreBound: a completion carries the key of the socket its operation was  *)
(* asked for, whatever became of the descriptor.                               *)
EXTENDS MCCompletionPort, SumTheorems, FiniteSetTheorems, TLAPS
-----------------------------------------------------------------------------
(* Counting *)

One(b) == IF b THEN 1 ELSE 0

LEMMA OneIs == ASSUME NEW b PROVE One(b) \in {0, 1} /\ (b => One(b) = 1) /\ (~b => One(b) = 0)
BY DEF One

\* The elements of a sequence after its k-th that belong to x.
Ahead(s, k, x) == Cardinality({n \in k + 1 .. Len(s) : s[n].op = x})

LEMMA TimesAhead ==
  ASSUME NEW S, NEW s \in Seq(S), NEW x
  PROVE  /\ Times(s, x) \in Nat
         /\ Ahead(s, 0, x) = Times(s, x) /\ Ahead(s, Len(s), x) = 0
         /\ Times(s, x) = 0 => \A n \in DOMAIN s : s[n].op # x
<1>1. DOMAIN s = 1 .. Len(s) /\ Len(s) \in Nat
  OBVIOUS
<1>2. IsFiniteSet(1 .. Len(s))
  BY <1>1, FS_Interval
<1>3. IsFiniteSet({n \in DOMAIN s : s[n].op = x})
  BY <1>1, <1>2, FS_Subset
<1>4. Times(s, x) \in Nat
  BY <1>3, FS_CardinalityType DEF Times
<1>5. Ahead(s, 0, x) = Times(s, x)
  BY <1>1 DEF Ahead, Times
<1>6. {n \in Len(s) + 1 .. Len(s) : s[n].op = x} = {}
  BY <1>1
<1>7. Ahead(s, Len(s), x) = 0
  BY <1>6, FS_EmptySet DEF Ahead
<1>8. Times(s, x) = 0 => {n \in DOMAIN s : s[n].op = x} = {}
  BY <1>3, FS_EmptySet DEF Times
<1> QED BY <1>4, <1>5, <1>7, <1>8

LEMMA AheadStep ==
  ASSUME NEW S, NEW s \in Seq(S), NEW k \in 0 .. Len(s) - 1, NEW x
  PROVE  /\ Ahead(s, k, x) = Ahead(s, k + 1, x) + One(s[k + 1].op = x)
         /\ Ahead(s, k + 1, x) \in Nat
<1> DEFINE A == {n \in k + 1 .. Len(s) : s[n].op = x}
           B == {n \in k + 2 .. Len(s) : s[n].op = x}
<1>1. IsFiniteSet(B) /\ Cardinality(B) \in Nat
  <2>1. IsFiniteSet(k + 2 .. Len(s))
    BY FS_Interval
  <2>2. IsFiniteSet(B)
    BY <2>1, FS_Subset
  <2> QED BY <2>2, FS_CardinalityType
<1>2. Ahead(s, k, x) = Cardinality(A) /\ Ahead(s, k + 1, x) = Cardinality(B)
  <2>1. (k + 1) + 1 = k + 2
    OBVIOUS
  <2> QED BY <2>1 DEF Ahead
<1>3. CASE s[k + 1].op = x
  <2>1. A = B \cup {k + 1} /\ k + 1 \notin B
    BY <1>3
  <2>2. Cardinality(A) = Cardinality(B) + 1
    <3> HIDE DEF A, B
    <3> QED BY <1>1, <2>1, FS_AddElement
  <2> HIDE DEF A, B
  <2> QED BY <1>1, <1>2, <1>3, <2>2 DEF One
<1>4. CASE s[k + 1].op # x
  <2>1. A = B
    BY <1>4
  <2> HIDE DEF A, B
  <2> QED BY <1>1, <1>2, <1>4, <2>1 DEF One
<1> QED BY <1>3, <1>4

LEMMA TimesEmpty == \A x : Times(<<>>, x) = 0
<1> SUFFICES ASSUME NEW x PROVE Times(<<>>, x) = 0
  OBVIOUS
<1>1. {n \in DOMAIN <<>> : <<>>[n].op = x} = {}
  OBVIOUS
<1> QED BY <1>1, FS_EmptySet DEF Times

LEMMA TimesAppend ==
  ASSUME NEW S, NEW s \in Seq(S), NEW e \in S, NEW x
  PROVE  Times(Append(s, e), x) = Times(s, x) + One(e.op = x)
<1> DEFINE A == {n \in DOMAIN s : s[n].op = x}
           B == {n \in DOMAIN Append(s, e) : Append(s, e)[n].op = x}
<1>1. DOMAIN s = 1 .. Len(s) /\ Len(s) \in Nat /\ DOMAIN Append(s, e) = 1 .. Len(s) + 1
      /\ Append(s, e)[Len(s) + 1] = e /\ \A n \in 1 .. Len(s) : Append(s, e)[n] = s[n]
  OBVIOUS
<1>2. IsFiniteSet(A) /\ Cardinality(A) \in Nat
  <2>1. IsFiniteSet(1 .. Len(s))
    BY <1>1, FS_Interval
  <2>2. IsFiniteSet(A)
    BY <1>1, <2>1, FS_Subset
  <2> QED BY <2>2, FS_CardinalityType
<1>3. CASE e.op = x
  <2>1. B = A \cup {Len(s) + 1} /\ Len(s) + 1 \notin A
    BY <1>1, <1>3
  <2>2. Cardinality(B) = Cardinality(A) + 1
    <3> HIDE DEF A, B
    <3> QED BY <1>2, <2>1, FS_AddElement
  <2> QED BY <1>3, <2>2 DEF Times, One
<1>4. CASE e.op # x
  <2>1. B = A
    BY <1>1, <1>4
  <2>2. One(e.op = x) = 0
    BY <1>4, OneIs
  <2>3. Cardinality(B) = Cardinality(A) + 0
    <3> HIDE DEF A, B
    <3> QED BY <1>2, <2>1
  <2> QED BY <2>2, <2>3 DEF Times
<1> QED BY <1>3, <1>4

\* A set of places moved along has as many.
LEMMA Shifted ==
  ASSUME NEW A, IsFiniteSet(A), A \in SUBSET Nat, NEW m \in Nat
  PROVE  /\ IsFiniteSet({n + m : n \in A})
         /\ Cardinality({n + m : n \in A}) = Cardinality(A)
<1> DEFINE B == {n + m : n \in A}
           f == [n \in A |-> n + m]
<1>1. f \in Bijection(A, B)
  BY DEF Bijection, Injection, Surjection, IsInjective
<1>2. ExistsBijection(A, B)
  BY <1>1 DEF ExistsBijection
<1> HIDE DEF B, f
<1>3. IsFiniteSet(B) /\ Cardinality(B) = Cardinality(A)
  BY <1>2, FS_Bijection
<1> QED BY <1>3 DEF B

LEMMA TimesConcat ==
  ASSUME NEW S, NEW s \in Seq(S), NEW t \in Seq(S), NEW x
  PROVE  Times(s \o t, x) = Times(s, x) + Times(t, x)
<1> DEFINE A == {n \in DOMAIN s : s[n].op = x}
           B == {n \in DOMAIN t : t[n].op = x}
           C == {n + Len(s) : n \in B}
<1>1. /\ DOMAIN s = 1 .. Len(s) /\ Len(s) \in Nat /\ DOMAIN t = 1 .. Len(t) /\ Len(t) \in Nat
      /\ DOMAIN (s \o t) = 1 .. Len(s) + Len(t)
      /\ \A n \in 1 .. Len(s) : (s \o t)[n] = s[n]
      /\ \A n \in 1 .. Len(t) : (s \o t)[n + Len(s)] = t[n]
  OBVIOUS
<1>2. IsFiniteSet(A) /\ IsFiniteSet(B) /\ B \in SUBSET Nat
  <2>1. IsFiniteSet(1 .. Len(s)) /\ IsFiniteSet(1 .. Len(t))
    BY <1>1, FS_Interval
  <2> QED BY <1>1, <2>1, FS_Subset
<1>3. IsFiniteSet(C) /\ Cardinality(C) = Cardinality(B)
  <2> HIDE DEF B
  <2> QED BY <1>1, <1>2, Shifted
<1>4. {n \in DOMAIN (s \o t) : (s \o t)[n].op = x} = A \cup C
  <2>1. ASSUME NEW n \in 1 .. Len(s) + Len(t), (s \o t)[n].op = x PROVE n \in A \cup C
    <3>1. CASE n \in 1 .. Len(s)
      BY <1>1, <2>1, <3>1
    <3>2. CASE n \notin 1 .. Len(s)
      <4>1. n - Len(s) \in 1 .. Len(t) /\ n = (n - Len(s)) + Len(s)
        BY <1>1, <3>2
      <4>2. n - Len(s) \in B
        BY <1>1, <2>1, <4>1
      <4> HIDE DEF B
      <4> QED BY <4>1, <4>2
    <3> QED BY <3>1, <3>2
  <2>2. ASSUME NEW n \in A \cup C
        PROVE  n \in 1 .. Len(s) + Len(t) /\ (s \o t)[n].op = x
    BY <1>1
  <2> QED BY <1>1, <2>1, <2>2
<1>5. A \cap C = {}
  BY <1>1
<1>6. Cardinality(A \cup C) = Cardinality(A) + Cardinality(C) - Cardinality(A \cap C)
  <2> HIDE DEF A, C
  <2> QED BY <1>2, <1>3, FS_Union
<1>7. Cardinality(A \cap C) = 0 /\ Cardinality(A) \in Nat /\ Cardinality(B) \in Nat
  BY <1>2, <1>5, FS_EmptySet, FS_CardinalityType
<1>8. Times(s \o t, x) = Cardinality(A \cup C) /\ Times(s, x) = Cardinality(A) /\ Times(t, x) = Cardinality(B)
  BY <1>4 DEF Times
<1> HIDE DEF A, B, C
<1> QED BY <1>3, <1>6, <1>7, <1>8

LEMMA TimesTail ==
  ASSUME NEW S, NEW s \in Seq(S), s # <<>>, NEW x
  PROVE  /\ Times(s, x) = Times(Tail(s), x) + One(Head(s).op = x)
         /\ Tail(s) \in Seq(S) /\ Head(s) \in S
<1>1. Tail(s) \in Seq(S) /\ Head(s) \in S /\ <<Head(s)>> \in Seq(S) /\ s = <<Head(s)>> \o Tail(s)
  OBVIOUS
<1>2. Times(s, x) = Times(<<Head(s)>>, x) + Times(Tail(s), x)
  <2>1. PICK a, b : a = <<Head(s)>> /\ b = Tail(s)
    OBVIOUS
  <2>2. a \in Seq(S) /\ b \in Seq(S) /\ s = a \o b
    BY <1>1, <2>1
  <2>3. Times(a \o b, x) = Times(a, x) + Times(b, x)
    BY <2>2, TimesConcat
  <2> QED BY <2>1, <2>2, <2>3
<1>3. Times(<<Head(s)>>, x) = One(Head(s).op = x)
  <2>1. PICK z, h : z = <<>> /\ h = Head(s)
    OBVIOUS
  <2>2. z \in Seq(S) /\ h \in S /\ <<h>> = Append(z, h)
    BY <1>1, <2>1
  <2>4. Times(Append(z, h), x) = Times(z, x) + One(h.op = x)
    BY <2>2, TimesAppend
  <2>5. Times(<<Head(s)>>, x) = Times(<<>>, x) + One(Head(s).op = x)
    BY <2>1, <2>2, <2>4
  <2>3. One(Head(s).op = x) \in {0, 1}
    BY OneIs
  <2> QED BY <2>5, <2>3, TimesEmpty
<1>4. Times(Tail(s), x) \in Nat /\ One(Head(s).op = x) \in {0, 1}
  BY <1>1, TimesAhead, OneIs
<1> QED BY <1>1, <1>2, <1>3, <1>4
-----------------------------------------------------------------------------
(* The two loops of the code are folds, unfolded one element at a time *)

\* What io_uring takes of what was prepared, and what a thread may queue.
Requests == UNION {[kind : {"io"}, op : Op, fd : Fd, file : {None}],
                   [kind : {"cancel"}, op : {None}, fd : Fd, file : File]}
Prepares == Requests \cup {Poll}
Waiting == [kind : {"post"}, op : Op \cup Packet, fd : Fd \cup {None}, file : {None}]
Queued == Requests \cup Waiting

LEMMA LastOf == ASSUME NEW k \in Nat, k > 0 PROVE Max(1 .. k) = k
<1>1. k \in 1 .. k /\ \A y \in 1 .. k : k >= y
  OBVIOUS
<1>2. ASSUME NEW z \in 1 .. k, \A y \in 1 .. k : z >= y PROVE z = k
  BY <1>1, <1>2
<1> QED BY <1>1, <1>2 DEF Max

LEMMA LastIn == ASSUME NEW n \in Nat, NEW T \in SUBSET (1 .. n), T # {} PROVE Max(T) \in T
<1> DEFINE rank == [i \in T |-> 0 - i]
<1>1. IsFiniteSet(T) /\ \A i \in T : rank[i] \in Int
  <2>1. IsFiniteSet(1 .. n)
    BY FS_Interval
  <2>2. IsFiniteSet(T)
    BY <2>1, FS_Subset
  <2>3. \A i \in T : rank[i] \in Int
    OBVIOUS
  <2> QED BY <2>2, <2>3
<1>2. \E a \in T : \A b \in T : rank[a] <= rank[b]
  <2> HIDE DEF rank
  <2> QED BY <1>1, LeastRank
<1>3. \E a \in T : \A b \in T : a >= b
  BY <1>2
<1> QED BY <1>3 DEF Max

SubmittedBy(g, r) ==
  g = [T \in SUBSET DOMAIN r.sq |->
         IF T = {} THEN [r EXCEPT !.sq = <<>>] ELSE Accept(g[T \ {Max(T)}], r.sq[Max(T)])]

LEMMA SubmittedIs == ASSUME NEW r PROVE Submitted(r) = (CHOOSE g : SubmittedBy(g, r))[DOMAIN r.sq]
BY Zenon DEF Submitted, FoldLeft, MapThenFoldSet, SubmittedBy

\* What the ring is once its first k entries have reached the kernel is in
\* Holds[k]; X is a set that no entry leads out of.
LEMMA SubmittedKeeps ==
  ASSUME NEW r, r.sq \in Seq(Prepares), NEW X, [r EXCEPT !.sq = <<>>] \in X,
         \A a \in X, e \in Prepares : Accept(a, e) \in X,
         NEW Holds, [r EXCEPT !.sq = <<>>] \in Holds[0],
         \A k \in 0 .. Len(r.sq) - 1 : \A a \in Holds[k] : Accept(a, r.sq[k + 1]) \in Holds[k + 1]
  PROVE  Submitted(r) \in Holds[Len(r.sq)]
<1>1. PICK s, n, base : s = r.sq /\ n = Len(s) /\ base = [r EXCEPT !.sq = <<>>]
  OBVIOUS
<1>2. n \in Nat /\ DOMAIN s = 1 .. n /\ \A i \in 1 .. n : s[i] \in Prepares
  BY <1>1
<1> DEFINE step == [i \in 1 .. n |-> [a \in X |-> Accept(a, s[i])]]
           pick == [T \in SUBSET (1 .. n) |-> Max(T)]
<1>3. step \in [1 .. n -> [X -> X]] /\ base \in X /\ IsFiniteSet(1 .. n)
  <2>1. \A i \in 1 .. n, a \in X : Accept(a, s[i]) \in X
    BY <1>2
  <2>2. step \in [1 .. n -> [X -> X]]
    BY <2>1
  <2>3. IsFiniteSet(1 .. n)
    <3>1. n \in Nat
      BY <1>2
    <3> QED BY ONLY <3>1, FS_Interval
  <2> HIDE DEF step
  <2> QED BY <1>1, <2>2, <2>3
<1>4. \A T \in SUBSET (1 .. n) : T # {} => pick[T] \in T /\ pick[T] = Max(T)
  BY <1>2, LastIn
<1>5. PICK f \in [SUBSET (1 .. n) -> X] : Folds(f, base, step, pick, 1 .. n)
  <2>1. \A T \in SUBSET (1 .. n) : T # {} => pick[T] \in T
    BY <1>4
  <2>2. PICK D : D = 1 .. n
    OBVIOUS
  <2> HIDE DEF step, pick
  <2>3. step \in [D -> [X -> X]] /\ IsFiniteSet(D) /\ \A T \in SUBSET D : T # {} => pick[T] \in T
    BY <1>3, <2>1, <2>2
  <2>4. FoldsIn(X, base, step, pick, D) # {}
    BY <1>3, <2>3, FoldExists
  <2> QED BY <2>2, <2>4 DEF FoldsIn
<1>6. SubmittedBy(f, r)
  <2>1. ASSUME NEW T \in SUBSET (1 .. n)
        PROVE  f[T] = IF T = {} THEN base ELSE Accept(f[T \ {Max(T)}], s[Max(T)])
    <3>1. f[T] = IF T = {} THEN base ELSE step[pick[T]][f[T \ {pick[T]}]]
      <4> HIDE DEF step, pick
      <4> QED BY <1>5, <2>1, Zenon DEF Folds
    <3>2. T # {} => f[T \ {pick[T]}] \in X /\ pick[T] \in 1 .. n
      BY <1>4, <1>5
    <3>3. T # {} => step[pick[T]][f[T \ {pick[T]}]] = Accept(f[T \ {pick[T]}], s[pick[T]])
      <4> HIDE DEF pick
      <4> QED BY <3>2
    <3>4. T # {} => pick[T] = Max(T)
      BY <1>4
    <3> HIDE DEF step, pick
    <3> QED BY <3>1, <3>3, <3>4
  <2>2. f = [T \in SUBSET (1 .. n) |-> f[T]]
    BY <1>5
  <2>3. [T \in SUBSET (1 .. n) |-> f[T]]
          = [T \in SUBSET (1 .. n) |->
               IF T = {} THEN base ELSE Accept(f[T \ {Max(T)}], s[Max(T)])]
    BY <2>1, Zenon
  <2> HIDE DEF step, pick
  <2> QED BY <1>1, <1>2, <2>2, <2>3 DEF SubmittedBy
<1> HIDE DEF step, pick
<1>7. PICK g : SubmittedBy(g, r) /\ Submitted(r) = g[1 .. n]
  BY <1>1, <1>2, <1>6, SubmittedIs
<1>8. ASSUME NEW T \in SUBSET (1 .. n)
      PROVE  g[T] = IF T = {} THEN base ELSE Accept(g[T \ {Max(T)}], s[Max(T)])
  <2>1. g = [U \in SUBSET (1 .. n) |->
               IF U = {} THEN base ELSE Accept(g[U \ {Max(U)}], s[Max(U)])]
    BY <1>1, <1>2, <1>7, Zenon DEF SubmittedBy
  <2> QED BY <2>1, Zenon
<1> DEFINE Good == {k \in 0 .. n : g[1 .. k] \in Holds[k]}
<1>9. 0 \in Good
  <2>1. 1 .. 0 = {} /\ 1 .. 0 \in SUBSET (1 .. n)
    OBVIOUS
  <2>2. g[1 .. 0] = base
    BY <2>1, <1>8
  <2> QED BY <1>1, <1>2, <2>2
<1>10. ASSUME NEW k \in 0 .. n - 1, k \in Good PROVE k + 1 \in Good
  <2>1. k \in Nat /\ k + 1 \in 1 .. n /\ k + 1 \in 1 .. k + 1 /\ k + 1 > 0 /\ k + 1 \in 0 .. n
    BY <1>2
  <2>2. /\ 1 .. k + 1 \in SUBSET (1 .. n) /\ 1 .. k + 1 # {}
        /\ (1 .. k + 1) \ {k + 1} = 1 .. k
    <3>1. 1 .. k + 1 \in SUBSET (1 .. n)
      BY <1>2, <2>1
    <3>2. (1 .. k + 1) \ {k + 1} = 1 .. k
      BY <2>1
    <3> QED BY <2>1, <3>1, <3>2
  <2>3. Max(1 .. k + 1) = k + 1
    BY <2>1, LastOf
  <2>4. g[1 .. k + 1] = Accept(g[1 .. k], s[k + 1])
    BY <2>2, <2>3, <1>8
  <2>5. g[1 .. k] \in Holds[k]
    BY <1>10
  <2> QED BY <1>1, <2>1, <2>4, <2>5
<1>11. \A k \in 0 .. n : k \in Good
  <2> HIDE DEF Good
  <2> QED BY <1>2, <1>9, <1>10, NumberInduction
<1> QED BY <1>1, <1>2, <1>7, <1>11

\* What the pump has once it took the first k elements of the queue: the packets
\* that wait, the requests that found no entry, and the ring.
NoneTaken == [ring |-> ring, posts |-> <<>>, failed |-> <<>>, some |-> FALSE]
Takes(A, e) == UNION {SubmitQitem(v, e) : v \in A}
TakenBy(g) ==
  g = [T \in SUBSET DOMAIN queue |->
         IF T = {} THEN {NoneTaken} ELSE Takes(g[T \ {Max(T)}], queue[Max(T)])]

LEMMA SubmitAllIs == SubmitAll = (CHOOSE g : TakenBy(g))[DOMAIN queue]
BY Zenon DEF SubmitAll, FoldLeft, MapThenFoldSet, Takes, TakenBy, NoneTaken

LEMMA SubmitAllKeeps ==
  ASSUME queue \in Seq(Queued), NEW X, NoneTaken \in X,
         \A v \in X, e \in Queued : SubmitQitem(v, e) \in SUBSET X,
         NEW Holds, NoneTaken \in Holds[0],
         \A k \in 0 .. Len(queue) - 1 : \A v \in Holds[k] :
           SubmitQitem(v, queue[k + 1]) \in SUBSET Holds[k + 1]
  PROVE  SubmitAll \in SUBSET Holds[Len(queue)]
<1>1. PICK s, n, base : s = queue /\ n = Len(s) /\ base = {NoneTaken}
  OBVIOUS
<1>2. n \in Nat /\ DOMAIN s = 1 .. n /\ \A i \in 1 .. n : s[i] \in Queued
  BY <1>1
<1> DEFINE step == [i \in 1 .. n |-> [A \in SUBSET X |-> Takes(A, s[i])]]
           pick == [T \in SUBSET (1 .. n) |-> Max(T)]
<1>3. step \in [1 .. n -> [SUBSET X -> SUBSET X]] /\ base \in SUBSET X /\ IsFiniteSet(1 .. n)
  <2>1. \A i \in 1 .. n, A \in SUBSET X : Takes(A, s[i]) \in SUBSET X
    BY <1>2 DEF Takes
  <2>2. step \in [1 .. n -> [SUBSET X -> SUBSET X]]
    BY <2>1
  <2>3. IsFiniteSet(1 .. n)
    <3>1. n \in Nat
      BY <1>2
    <3> QED BY ONLY <3>1, FS_Interval
  <2> HIDE DEF step
  <2> QED BY <1>1, <2>2, <2>3
<1>4. \A T \in SUBSET (1 .. n) : T # {} => pick[T] \in T /\ pick[T] = Max(T)
  BY <1>2, LastIn
<1>5. PICK f \in [SUBSET (1 .. n) -> SUBSET X] : Folds(f, base, step, pick, 1 .. n)
  <2>1. \A T \in SUBSET (1 .. n) : T # {} => pick[T] \in T
    BY <1>4
  <2>2. PICK D : D = 1 .. n
    OBVIOUS
  <2> HIDE DEF step, pick
  <2>3. step \in [D -> [SUBSET X -> SUBSET X]] /\ IsFiniteSet(D) /\ \A T \in SUBSET D : T # {} => pick[T] \in T
    BY <1>3, <2>1, <2>2
  <2>4. FoldsIn(SUBSET X, base, step, pick, D) # {}
    BY <1>3, <2>3, FoldExists
  <2> QED BY <2>2, <2>4 DEF FoldsIn
<1>6. TakenBy(f)
  <2>1. ASSUME NEW T \in SUBSET (1 .. n)
        PROVE  f[T] = IF T = {} THEN base ELSE Takes(f[T \ {Max(T)}], s[Max(T)])
    <3>1. f[T] = IF T = {} THEN base ELSE step[pick[T]][f[T \ {pick[T]}]]
      <4> HIDE DEF step, pick
      <4> QED BY <1>5, <2>1, Zenon DEF Folds
    <3>2. T # {} => f[T \ {pick[T]}] \in SUBSET X /\ pick[T] \in 1 .. n
      BY <1>4, <1>5
    <3>3. T # {} => step[pick[T]][f[T \ {pick[T]}]] = Takes(f[T \ {pick[T]}], s[pick[T]])
      <4> HIDE DEF pick
      <4> QED BY <3>2
    <3>4. T # {} => pick[T] = Max(T)
      BY <1>4
    <3> HIDE DEF step, pick
    <3> QED BY <3>1, <3>3, <3>4
  <2>2. f = [T \in SUBSET (1 .. n) |-> f[T]]
    BY <1>5
  <2>3. [T \in SUBSET (1 .. n) |-> f[T]]
          = [T \in SUBSET (1 .. n) |->
               IF T = {} THEN base ELSE Takes(f[T \ {Max(T)}], s[Max(T)])]
    BY <2>1, Zenon
  <2> HIDE DEF step, pick
  <2> QED BY <1>1, <1>2, <2>2, <2>3 DEF TakenBy
<1> HIDE DEF step, pick
<1>7. PICK g : TakenBy(g) /\ SubmitAll = g[1 .. n]
  BY <1>1, <1>2, <1>6, SubmitAllIs
<1>8. ASSUME NEW T \in SUBSET (1 .. n)
      PROVE  g[T] = IF T = {} THEN base ELSE Takes(g[T \ {Max(T)}], s[Max(T)])
  <2>1. g = [U \in SUBSET (1 .. n) |->
               IF U = {} THEN base ELSE Takes(g[U \ {Max(U)}], s[Max(U)])]
    BY <1>1, <1>2, <1>7, Zenon DEF TakenBy
  <2> QED BY <2>1, Zenon
<1> DEFINE Good == {k \in 0 .. n : g[1 .. k] \in SUBSET Holds[k]}
<1>9. 0 \in Good
  <2>1. 1 .. 0 = {} /\ 1 .. 0 \in SUBSET (1 .. n)
    OBVIOUS
  <2>2. g[1 .. 0] = base
    BY <2>1, <1>8
  <2> QED BY <1>1, <1>2, <2>2
<1>10. ASSUME NEW k \in 0 .. n - 1, k \in Good PROVE k + 1 \in Good
  <2>1. k \in Nat /\ k + 1 \in 1 .. n /\ k + 1 \in 1 .. k + 1 /\ k + 1 > 0 /\ k + 1 \in 0 .. n
    BY <1>2
  <2>2. /\ 1 .. k + 1 \in SUBSET (1 .. n) /\ 1 .. k + 1 # {}
        /\ (1 .. k + 1) \ {k + 1} = 1 .. k
    <3>1. 1 .. k + 1 \in SUBSET (1 .. n)
      BY <1>2, <2>1
    <3>2. (1 .. k + 1) \ {k + 1} = 1 .. k
      BY <2>1
    <3> QED BY <2>1, <3>1, <3>2
  <2>3. Max(1 .. k + 1) = k + 1
    BY <2>1, LastOf
  <2>4. g[1 .. k + 1] = Takes(g[1 .. k], s[k + 1])
    BY <2>2, <2>3, <1>8
  <2>5. g[1 .. k] \in SUBSET Holds[k]
    BY <1>10
  <2>6. \A v \in Holds[k] : SubmitQitem(v, s[k + 1]) \in SUBSET Holds[k + 1]
    BY <1>1
  <2>7. g[1 .. k + 1] \in SUBSET Holds[k + 1]
    BY <2>4, <2>5, <2>6 DEF Takes
  <2> QED BY <2>1, <2>7
<1>11. \A k \in 0 .. n : k \in Good
  <2> HIDE DEF Good
  <2> QED BY <1>2, <1>9, <1>10, NumberInduction
<1>12. g[1 .. n] \in SUBSET Holds[n]
  <2>1. n \in 0 .. n
    BY <1>2
  <2>2. n \in Good
    <3> HIDE DEF Good
    <3> QED BY <2>1, <1>11
  <2> QED BY <2>2
<1> QED BY <1>1, <1>7, <1>12
-----------------------------------------------------------------------------
(* What is said of the ring, for the operations W as they stand and the set D *)
(* of the sockets that are closed or being closed                             *)

RingSet ==
  [sq : Seq(Prepares), flush : BOOLEAN, armed : BOOLEAN, dups : SUBSET File,
   inflight : [Op -> File \cup {None}], cq : Seq(Cqes), polled : BOOLEAN, signalled : BOOLEAN]

\* An operation's descriptor stands for its socket until that is closed.
Placed(D, W) ==
  /\ file \in [Fd -> File \cup {None}] /\ D \in SUBSET File
  /\ \A o \in Op : W[o].on # None => W[o].on \in D \/ file[W[o].fd] = W[o].on

EntryFits(e, D, W) ==
  /\ e.kind = "io" => e.fd = W[e.op].fd /\ W[e.op].on # None
  /\ e.kind = "cancel" => e.file \in D

\* An operation in flight is on its own socket, unless that is closed and the
\* number was given to another; what was aborted had its socket closed.
RingFits(r, D, W) ==
  /\ \A n \in DOMAIN r.sq : /\ EntryFits(r.sq[n], D, W)
                            /\ r.sq[n].kind = "cancel" => r.sq[n].file \in r.dups
  /\ \A o \in Op : r.inflight[o] # None => r.inflight[o] = W[o].on \/ W[o].on \in D
  /\ \A n \in DOMAIN r.cq : r.cq[n].how = "aborted" => W[r.cq[n].op].on \in D

\* How many times the ring and the kernel have x.
InRing(r, x) == Times(r.sq, x) + Times(r.cq, x) + One(x \in Op /\ r.inflight[x] # None)

RingOK(r, D, W) ==
  /\ r \in RingSet /\ Len(r.sq) <= Slots
  /\ RingFits(r, D, W)
  /\ \A o \in Op : InRing(r, o) <= 1

LEMMA PrepareIs ==
  ASSUME NEW e \in Prepares
  PROVE  \/ e.kind = "io" /\ e.op \in Op /\ e.fd \in Fd /\ e.file = None
         \/ e.kind = "cancel" /\ e.op = None /\ e.fd \in Fd /\ e.file \in File
         \/ e.kind = "poll" /\ e.op = None /\ e.file = None
BY DEF Prepares, Requests, Poll, Item

LEMMA CqeIs ==
  ASSUME NEW c \in Cqes
  PROVE  \/ c.how \in {"failed", "aborted"} /\ c.op \in Op
         \/ c.how = "moved" /\ c.op \in Op /\ c.n \in 1 .. Parts
         \/ c.how \in {"wake", "wakeLast", "cancelled"} /\ c.op = None
BY DEF Cqes

LEMMA RingNumbers ==
  ASSUME NEW r \in RingSet, NEW x
  PROVE  /\ Times(r.sq, x) \in Nat /\ Times(r.cq, x) \in Nat /\ InRing(r, x) \in Nat
         /\ One(x \in Op /\ r.inflight[x] # None) \in {0, 1}
<1>1. r.sq \in Seq(Prepares) /\ r.cq \in Seq(Cqes)
  BY DEF RingSet
<1>2. Times(r.sq, x) \in Nat /\ Times(r.cq, x) \in Nat
  BY <1>1, TimesAhead
<1>3. One(x \in Op /\ r.inflight[x] # None) \in {0, 1}
  BY OneIs
<1> QED BY <1>2, <1>3 DEF InRing

\* The elements of a set, each once.
LEMMA SeqOfSet ==
  ASSUME NEW S, IsFiniteSet(S)
  PROVE  /\ SetToSeq(S) \in Seq(S)
         /\ \A m, n \in DOMAIN SetToSeq(S) : SetToSeq(S)[m] = SetToSeq(S)[n] => m = n
         /\ \A a \in S : \E n \in DOMAIN SetToSeq(S) : SetToSeq(S)[n] = a
<1>1. PICK n : n = Cardinality(S)
  OBVIOUS
<1>2. n \in Nat /\ IsFiniteSet(1 .. n) /\ Cardinality(1 .. n) = n /\ ExistsBijection(1 .. n, S)
  BY <1>1, FS_CardinalityType, FS_Interval
<1>3. \E f \in [1 .. n -> S] : IsInjective(f)
  BY <1>2 DEF ExistsBijection, Bijection, Injection
<1>4. SetToSeq(S) \in [1 .. n -> S] /\ IsInjective(SetToSeq(S))
  BY <1>1, <1>3 DEF SetToSeq
<1>5. SetToSeq(S) \in Surjection(1 .. n, S)
  <2>1. SetToSeq(S) \in Injection(1 .. n, S)
    BY <1>4 DEF Injection
  <2> QED BY <1>1, <1>2, <2>1, FS_Injection
<1>6. SetToSeq(S) \in Seq(S)
  BY <1>2, <1>4
<1> QED BY <1>4, <1>5, <1>6 DEF IsInjective, Surjection

LEMMA AbortsAre ==
  ASSUME NEW hit \in SUBSET Op, NEW q, q = SetToSeq({Cqe("aborted", o, 0) : o \in hit})
  PROVE  /\ q \in Seq(Cqes)
         /\ \A n \in DOMAIN q : q[n].how = "aborted" /\ q[n].op \in hit
         /\ \A x : Times(q, x) = One(x \in hit)
<1> DEFINE S == {Cqe("aborted", o, 0) : o \in hit}
<1>1. IsFiniteSet(S)
  <2> DEFINE f == [o \in hit |-> Cqe("aborted", o, 0)]
  <2>1. IsFiniteSet(hit)
    BY PortAssumption, FS_Subset
  <2>2. f \in Surjection(hit, S)
    BY DEF Surjection
  <2> HIDE DEF f, S
  <2> QED BY <2>1, <2>2, FS_Surjection
<1>2. /\ q \in Seq(S)
      /\ \A m, n \in DOMAIN q : q[m] = q[n] => m = n
      /\ \A a \in S : \E n \in DOMAIN q : q[n] = a
  <2> HIDE DEF S
  <2>1. q = SetToSeq(S)
    BY DEF S
  <2>2. PICK T : T = S
    OBVIOUS
  <2>3. /\ SetToSeq(T) \in Seq(T)
        /\ \A m, n \in DOMAIN SetToSeq(T) : SetToSeq(T)[m] = SetToSeq(T)[n] => m = n
        /\ \A a \in T : \E n \in DOMAIN SetToSeq(T) : SetToSeq(T)[n] = a
    BY <1>1, <2>2, SeqOfSet
  <2>4. q = SetToSeq(T)
    BY <2>1, <2>2
  <2>5. /\ q \in Seq(T)
        /\ \A m, n \in DOMAIN q : q[m] = q[n] => m = n
        /\ \A a \in T : \E n \in DOMAIN q : q[n] = a
    BY ONLY <2>3, <2>4, Zenon
  <2> QED BY ONLY <2>2, <2>5, Zenon
<1>3. \A n \in DOMAIN q : q[n] \in S
  <2> HIDE DEF S
  <2> QED BY <1>2
<1>4. \A n \in DOMAIN q : \E o \in hit : q[n] = Cqe("aborted", o, 0)
  BY <1>3
<1>5. \A n \in DOMAIN q : q[n].how = "aborted" /\ q[n].op \in hit /\ q[n] = Cqe("aborted", q[n].op, 0)
  <2> TAKE n \in DOMAIN q
  <2>1. PICK o \in hit : q[n] = Cqe("aborted", o, 0)
    BY <1>4
  <2>2. q[n].how = "aborted" /\ q[n].op = o
    BY <2>1 DEF Cqe
  <2> QED BY <2>1, <2>2
<1>6. q \in Seq(Cqes)
  <2>1. S \in SUBSET Cqes
    BY DEF Cqes, Cqe
  <2>2. \A n \in DOMAIN q : q[n] \in Cqes
    BY <1>3, <2>1
  <2> HIDE DEF S
  <2> QED BY <1>2, <2>2
<1>7. ASSUME NEW x PROVE Times(q, x) = One(x \in hit)
  <2>1. CASE x \in hit
    <3>1. PICK m \in DOMAIN q : q[m] = Cqe("aborted", x, 0)
      BY <1>2, <2>1
    <3>2. \A n \in DOMAIN q : q[n].op = x <=> n = m
      BY <1>2, <1>5, <3>1 DEF Cqe
    <3>3. {n \in DOMAIN q : q[n].op = x} = {m}
      BY <3>2
    <3> QED BY <2>1, <3>3, FS_Singleton, OneIs DEF Times
  <2>2. CASE x \notin hit
    <3>1. {n \in DOMAIN q : q[n].op = x} = {}
      BY <1>5, <2>2
    <3> QED BY <2>2, <3>1, FS_EmptySet, OneIs DEF Times
  <2> QED BY <2>1, <2>2
<1> QED BY <1>5, <1>6, <1>7
-----------------------------------------------------------------------------
(* One entry reaches the kernel *)

\* x is an operation or a packet.
Named == Op \cup Packet

LEMMA NamedIs == None \notin Named /\ (\A x \in Named : x \in Op <=> x \notin Packet)
BY PortAssumption DEF Named

\* What the kernel may become by one entry: entries, dups and flags stay, and
\* the entry's own operation is there once more.
Took1(r, q, e) ==
  /\ q.sq = r.sq /\ q.dups = r.dups
  /\ \A x \in Named : InRing(q, x) = InRing(r, x) + One(e.op = x)

\* A wake is no operation's.
LEMMA Signalled ==
  ASSUME NEW r \in RingSet, NEW how \in {"wake", "wakeLast"}, NEW q, q = Signal(r, how)
  PROVE  /\ q \in RingSet /\ q.sq = r.sq /\ q.dups = r.dups /\ q.inflight = r.inflight
         /\ \A x \in Named : InRing(q, x) = InRing(r, x)
         /\ \A n \in DOMAIN q.cq : q.cq[n].how = "aborted" => n \in DOMAIN r.cq /\ q.cq[n] = r.cq[n]
<1> DEFINE c == Cqe(how, None, 0)
<1>1. r.cq \in Seq(Cqes) /\ c \in Cqes /\ c.op = None /\ c.how = how
  BY DEF RingSet, Cqes, Cqe
<1>2. CASE q = r
  BY <1>2
<1>3. CASE q # r
  <2>1. q = [r EXCEPT !.cq = Append(@, c), !.polled = how = "wake"]
    BY <1>3 DEF Signal
  <2>2. q.cq = Append(r.cq, c) /\ q.sq = r.sq /\ q.dups = r.dups /\ q.inflight = r.inflight
    BY <2>1 DEF RingSet
  <2>3. Append(r.cq, c) \in Seq(Cqes) /\ (how = "wake") \in BOOLEAN
    <3> HIDE DEF c
    <3> QED BY <1>1
  <2>4. q \in RingSet
    <3> HIDE DEF c
    <3> QED BY <2>1, <2>3 DEF RingSet
  <2>5. ASSUME NEW x \in Named PROVE InRing(q, x) = InRing(r, x)
    <3>1. Times(q.cq, x) = Times(r.cq, x) + One(c.op = x)
      <4> HIDE DEF c
      <4> QED BY <1>1, <2>2, TimesAppend
    <3>2. One(c.op = x) = 0
      BY <1>1, NamedIs, OneIs
    <3> HIDE DEF c
    <3> QED BY <2>2, <3>1, <3>2, RingNumbers DEF InRing
  <2>6. ASSUME NEW n \in DOMAIN q.cq, q.cq[n].how = "aborted"
        PROVE  n \in DOMAIN r.cq /\ q.cq[n] = r.cq[n]
    <3>1. c.how # "aborted"
      BY <1>1
    <3> HIDE DEF c
    <3> QED BY <1>1, <2>2, <2>6, <3>1
  <2> HIDE DEF c
  <2> QED BY <2>2, <2>4, <2>5, <2>6
<1> QED BY <1>2, <1>3

LEMMA AcceptPoll ==
  ASSUME NEW r \in RingSet, NEW D, NEW W, NEW e \in Prepares, e.kind = "poll", RingFits(r, D, W),
         NEW q, q = Accept(r, e)
  PROVE  Took1(r, q, e) /\ RingFits(q, D, W)
<1>1. e.op = None
  BY PrepareIs
<1> DEFINE p == [r EXCEPT !.polled = TRUE]
<1>2. q = Signal(p, "wake")
  BY DEF Accept
<1>3. p \in RingSet /\ p.sq = r.sq /\ p.dups = r.dups /\ p.inflight = r.inflight /\ p.cq = r.cq
  BY DEF RingSet
<1>4. \A x \in Named : InRing(p, x) = InRing(r, x)
  BY <1>3 DEF InRing
<1> HIDE DEF p
<1>5. PICK how \in {"wake", "wakeLast"} : how = "wake"
  OBVIOUS
<1>6. /\ q \in RingSet /\ q.sq = p.sq /\ q.dups = p.dups /\ q.inflight = p.inflight
      /\ \A x \in Named : InRing(q, x) = InRing(p, x)
      /\ \A n \in DOMAIN q.cq : q.cq[n].how = "aborted" => n \in DOMAIN p.cq /\ q.cq[n] = p.cq[n]
  BY <1>2, <1>3, <1>5, Signalled
<1>7. \A x \in Named : One(e.op = x) = 0
  BY <1>1, NamedIs, OneIs
<1>8. Took1(r, q, e)
  <2>1. \A x \in Named : InRing(r, x) \in Nat
    BY RingNumbers
  <2> QED BY <1>3, <1>4, <1>6, <1>7, <2>1 DEF Took1
<1>9. RingFits(q, D, W)
  BY <1>3, <1>6 DEF RingFits
<1> QED BY <1>8, <1>9

LEMMA AcceptNoFile ==
  ASSUME NEW r \in RingSet, NEW D, NEW W, NEW e \in Prepares, e.kind = "io", file[e.fd] = None,
         RingFits(r, D, W), NEW q, q = Accept(r, e)
  PROVE  Took1(r, q, e) /\ RingFits(q, D, W)
<1>1. e.op \in Op
  BY PrepareIs
<1> DEFINE c == Cqe("failed", e.op, 0)
<1>2. q = [r EXCEPT !.cq = Append(@, c)]
  BY DEF Accept
<1>3. r.cq \in Seq(Cqes) /\ c \in Cqes /\ c.op = e.op /\ c.how = "failed"
  BY <1>1 DEF RingSet, Cqes, Cqe
<1>4. q.cq = Append(r.cq, c) /\ q.sq = r.sq /\ q.dups = r.dups /\ q.inflight = r.inflight
  BY <1>2 DEF RingSet
<1>6. c.how # "aborted"
  BY <1>3
<1> HIDE DEF c
<1>7. \A x \in Named : InRing(q, x) = InRing(r, x) + One(e.op = x)
  <2> TAKE x \in Named
  <2>1. Times(q.cq, x) = Times(r.cq, x) + One(e.op = x)
    BY <1>3, <1>4, TimesAppend
  <2>2. One(e.op = x) \in {0, 1}
    BY OneIs
  <2> QED BY <1>4, <2>1, <2>2, RingNumbers DEF InRing
<1>8. RingFits(q, D, W)
  BY <1>3, <1>4, <1>6 DEF RingFits
<1> QED BY <1>4, <1>7, <1>8 DEF Took1

LEMMA AcceptInFlight ==
  ASSUME NEW r \in RingSet, NEW D, NEW W, NEW e \in Prepares, e.kind = "io", file[e.fd] # None,
         RingFits(r, D, W), Placed(D, W), EntryFits(e, D, W), InRing(r, e.op) = 0,
         NEW q, q = Accept(r, e)
  PROVE  Took1(r, q, e) /\ RingFits(q, D, W)
<1>1. e.op \in Op /\ e.fd \in Fd
  BY PrepareIs
<1>2. q = [r EXCEPT !.inflight[e.op] = file[e.fd]]
  BY DEF Accept
<1>3. /\ q.cq = r.cq /\ q.sq = r.sq /\ q.dups = r.dups
      /\ q.inflight = [r.inflight EXCEPT ![e.op] = file[e.fd]]
      /\ r.inflight \in [Op -> File \cup {None}]
  BY <1>2 DEF RingSet
<1>6. r.inflight[e.op] = None
  <2>1. PICK o : o = e.op
    OBVIOUS
  <2>2. One(o \in Op /\ r.inflight[o] # None) = 0
    BY <2>1, RingNumbers DEF InRing
  <2> QED BY <1>1, <2>1, <2>2 DEF One
<1>7. \A x \in Named : InRing(q, x) = InRing(r, x) + One(e.op = x)
  <2> TAKE x \in Named
  <2>1. CASE x = e.op
    <3>1. One(x \in Op /\ q.inflight[x] # None) = 1 /\ One(x \in Op /\ r.inflight[x] # None) = 0
          /\ One(e.op = x) = 1
      BY <1>1, <1>3, <1>6, <2>1, OneIs
    <3> QED BY <1>3, <3>1, RingNumbers DEF InRing
  <2>2. CASE x # e.op
    <3>1. One(e.op = x) = 0
      BY <2>2, OneIs
    <3>2. (x \in Op /\ q.inflight[x] # None) <=> (x \in Op /\ r.inflight[x] # None)
      BY <1>3, <2>2
    <3>3. One(x \in Op /\ q.inflight[x] # None) = One(x \in Op /\ r.inflight[x] # None)
      BY <3>2 DEF One
    <3> QED BY <1>3, <3>1, <3>3, RingNumbers DEF InRing
  <2> QED BY <2>1, <2>2
<1>8. file[e.fd] = W[e.op].on \/ W[e.op].on \in D
  BY <1>1 DEF Placed, EntryFits
<1>9. RingFits(q, D, W)
  BY <1>3, <1>8 DEF RingFits
<1> QED BY <1>3, <1>7, <1>9 DEF Took1

LEMMA AcceptCancel ==
  ASSUME NEW r \in RingSet, NEW D, NEW W, NEW e \in Prepares, e.kind = "cancel",
         RingFits(r, D, W), EntryFits(e, D, W), NEW q, q = Accept(r, e)
  PROVE  Took1(r, q, e) /\ RingFits(q, D, W)
<1>1. e.op = None /\ e.file \in D
  BY PrepareIs DEF EntryFits
<1> DEFINE hit == {o \in Op : r.inflight[o] # None /\ r.inflight[o] = e.file}
           aborts == SetToSeq({Cqe("aborted", o, 0) : o \in hit})
           c == Cqe("cancelled", None, 0)
<1>2. q = [r EXCEPT !.inflight = [o \in Op |-> IF o \in hit THEN None ELSE @[o]],
                    !.cq = @ \o aborts \o <<c>>]
  BY DEF Accept, Matched
<1>3. r.cq \in Seq(Cqes) /\ r.inflight \in [Op -> File \cup {None}] /\ c \in Cqes
      /\ c.op = None /\ c.how = "cancelled"
  BY DEF RingSet, Cqes, Cqe
<1>4. /\ aborts \in Seq(Cqes)
      /\ \A n \in DOMAIN aborts : aborts[n].how = "aborted" /\ aborts[n].op \in hit
      /\ \A x : Times(aborts, x) = One(x \in hit)
  <2>1. hit \in SUBSET Op
    OBVIOUS
  <2> HIDE DEF hit
  <2> QED BY <2>1, AbortsAre
<1>5. /\ q.sq = r.sq /\ q.dups = r.dups /\ q.cq = r.cq \o aborts \o <<c>>
      /\ q.inflight = [o \in Op |-> IF o \in hit THEN None ELSE r.inflight[o]]
  <2> HIDE DEF hit, aborts, c
  <2> QED BY <1>2 DEF RingSet
<1>6. PICK k : k = c
  OBVIOUS
<1>7. \A o \in hit : o \in Op /\ W[o].on \in D /\ r.inflight[o] # None
  BY <1>1 DEF RingFits
<1> HIDE DEF hit, aborts, c
<1>8. q.cq = Append(r.cq \o aborts, k) /\ q.cq \in Seq(Cqes) /\ r.cq \o aborts \in Seq(Cqes)
  <2>1. r.cq \o aborts \in Seq(Cqes)
    BY <1>3, <1>4
  <2> QED BY <1>3, <1>5, <1>6, <2>1
<1>10. \A x \in Named : InRing(q, x) = InRing(r, x) + One(e.op = x)
  <2> TAKE x \in Named
  <2>1. One(e.op = x) = 0 /\ One(k.op = x) = 0
    BY <1>1, <1>3, <1>6, NamedIs, OneIs
  <2>2. Times(q.cq, x) = Times(r.cq \o aborts, x) + One(k.op = x)
    <3>1. PICK z : z = r.cq \o aborts
      OBVIOUS
    <3>2. z \in Seq(Cqes) /\ k \in Cqes /\ q.cq = Append(z, k)
      BY <1>3, <1>6, <1>8, <3>1
    <3>3. Times(Append(z, k), x) = Times(z, x) + One(k.op = x)
      BY <3>2, TimesAppend
    <3> QED BY <3>1, <3>2, <3>3
  <2>3. Times(r.cq \o aborts, x) = Times(r.cq, x) + One(x \in hit)
    BY <1>3, <1>4, TimesConcat
  <2>4. One(x \in Op /\ r.inflight[x] # None)
          = One(x \in Op /\ q.inflight[x] # None) + One(x \in hit)
    <3>1. CASE x \in hit
      BY <1>5, <1>7, <3>1 DEF One
    <3>2. CASE x \notin hit
      <4>1. (x \in Op /\ q.inflight[x] # None) <=> (x \in Op /\ r.inflight[x] # None)
        BY <1>5, <3>2
      <4>2. One(x \in Op /\ q.inflight[x] # None) = One(x \in Op /\ r.inflight[x] # None)
        BY <4>1 DEF One
      <4>3. One(x \in hit) = 0
        BY <3>2 DEF One
      <4> QED BY <4>2, <4>3, RingNumbers
    <3> QED BY <3>1, <3>2
  <2>5. One(x \in hit) \in {0, 1} /\ One(x \in Op /\ q.inflight[x] # None) \in {0, 1}
    BY OneIs
  <2> QED BY <1>5, <2>1, <2>2, <2>3, <2>4, <2>5, RingNumbers DEF InRing
<1>11. RingFits(q, D, W)
  <2>1. \A o \in Op : q.inflight[o] # None => q.inflight[o] = r.inflight[o]
    BY <1>5
  <2>2. ASSUME NEW n \in DOMAIN q.cq, q.cq[n].how = "aborted" PROVE W[q.cq[n].op].on \in D
    <3>1. k.how # "aborted"
      BY <1>3, <1>6
    <3>2. n \in DOMAIN (r.cq \o aborts) /\ q.cq[n] = (r.cq \o aborts)[n]
      BY <1>8, <2>2, <3>1
    <3>3. CASE n \in DOMAIN r.cq
      <4>1. (r.cq \o aborts)[n] = r.cq[n]
        BY <1>3, <1>4, <3>3
      <4> QED BY <2>2, <3>2, <3>3, <4>1 DEF RingFits
    <3>4. CASE n \notin DOMAIN r.cq
      <4>1. n - Len(r.cq) \in DOMAIN aborts /\ (r.cq \o aborts)[n] = aborts[n - Len(r.cq)]
        BY <1>3, <1>4, <3>2, <3>4
      <4> QED BY <1>4, <1>7, <3>2, <4>1
    <3> QED BY <3>3, <3>4
  <2> QED BY <1>5, <2>1, <2>2 DEF RingFits
<1> QED BY <1>5, <1>10, <1>11 DEF Took1

LEMMA AcceptType ==
  ASSUME NEW r \in RingSet, file \in [Fd -> File \cup {None}], NEW e \in Prepares
  PROVE  Accept(r, e) \in RingSet
<1>1. CASE e.kind = "poll"
  <2>1. [r EXCEPT !.polled = TRUE] \in RingSet
    BY DEF RingSet
  <2>2. Accept(r, e) = Signal([r EXCEPT !.polled = TRUE], "wake")
    BY <1>1 DEF Accept
  <2>3. PICK how \in {"wake", "wakeLast"} : how = "wake"
    OBVIOUS
  <2> QED BY <2>1, <2>2, <2>3, Signalled
<1>2. CASE e.kind = "io" /\ file[e.fd] = None
  <2> DEFINE c == Cqe("failed", e.op, 0)
  <2>1. c \in Cqes /\ r.cq \in Seq(Cqes)
    BY <1>2, PrepareIs DEF Cqes, Cqe, RingSet
  <2>2. Accept(r, e) = [r EXCEPT !.cq = Append(@, c)]
    BY <1>2 DEF Accept
  <2> HIDE DEF c
  <2>3. Append(r.cq, c) \in Seq(Cqes)
    BY <2>1
  <2> QED BY <2>2, <2>3 DEF RingSet
<1>3. CASE e.kind = "io" /\ file[e.fd] # None
  <2>1. Accept(r, e) = [r EXCEPT !.inflight[e.op] = file[e.fd]]
    BY <1>3 DEF Accept
  <2>2. file[e.fd] \in File \cup {None}
    BY <1>3, PrepareIs
  <2>3. [r.inflight EXCEPT ![e.op] = file[e.fd]] \in [Op -> File \cup {None}]
    BY <2>2 DEF RingSet
  <2> QED BY <2>1, <2>3 DEF RingSet
<1>4. CASE e.kind = "cancel"
  <2> DEFINE hit == {o \in Op : r.inflight[o] # None /\ r.inflight[o] = e.file}
             aborts == SetToSeq({Cqe("aborted", o, 0) : o \in hit})
             c == Cqe("cancelled", None, 0)
  <2>1. Accept(r, e) = [r EXCEPT !.inflight = [o \in Op |-> IF o \in hit THEN None ELSE @[o]],
                                 !.cq = @ \o aborts \o <<c>>]
    BY <1>4 DEF Accept, Matched
  <2>2. r.cq \in Seq(Cqes) /\ r.inflight \in [Op -> File \cup {None}] /\ c \in Cqes
    BY DEF RingSet, Cqes, Cqe
  <2>3. aborts \in Seq(Cqes)
    <3>1. hit \in SUBSET Op
      OBVIOUS
    <3> HIDE DEF hit
    <3> QED BY <3>1, AbortsAre
  <2> HIDE DEF hit, aborts, c
  <2>4. r.cq \o aborts \o <<c>> \in Seq(Cqes)
    <3>1. r.cq \o aborts \in Seq(Cqes) /\ <<c>> \in Seq(Cqes)
      BY <2>2, <2>3
    <3> QED BY <3>1
  <2>5. [o \in Op |-> IF o \in hit THEN None ELSE r.inflight[o]] \in [Op -> File \cup {None}]
    BY <2>2
  <2> QED BY <2>1, <2>4, <2>5 DEF RingSet
<1> QED BY <1>1, <1>2, <1>3, <1>4, PrepareIs

LEMMA Accepted ==
  ASSUME NEW r \in RingSet, NEW D, NEW W, NEW e \in Prepares,
         RingFits(r, D, W), Placed(D, W), EntryFits(e, D, W), e.op # None => InRing(r, e.op) = 0,
         NEW q, q = Accept(r, e)
  PROVE  q \in RingSet /\ Took1(r, q, e) /\ RingFits(q, D, W)
<1>0. q \in RingSet
  BY AcceptType DEF Placed
<1>1. CASE e.kind = "poll"
  BY <1>0, <1>1, AcceptPoll
<1>2. CASE e.kind = "cancel"
  BY <1>0, <1>2, AcceptCancel
<1>3. CASE e.kind = "io" /\ file[e.fd] = None
  BY <1>0, <1>3, AcceptNoFile
<1>4. CASE e.kind = "io" /\ file[e.fd] # None
  <2>1. e.op # None
    BY <1>4, PrepareIs, PortAssumption
  <2> QED BY <1>0, <1>4, <2>1, AcceptInFlight
<1> QED BY <1>1, <1>2, <1>3, <1>4, PrepareIs
-----------------------------------------------------------------------------
(* Submissions keep what the ring has, refused or not *)

SameIn(q, r) == \A x \in Named : InRing(q, x) = InRing(r, x)

\* With something kept out of the ring, so many are kept.
LEMMA StillOnce ==
  ASSUME NEW r, NEW q, SameIn(q, r), \A o \in Op : InRing(r, o) <= 1
  PROVE  \A o \in Op : InRing(q, o) <= 1
BY DEF SameIn, Named

LEMMA SubmittedOK ==
  ASSUME NEW r, NEW D, NEW W, RingOK(r, D, W), Placed(D, W), NEW q, q = Submitted(r)
  PROVE  RingOK(q, D, W) /\ q.sq = <<>> /\ q.dups = r.dups /\ SameIn(q, r)
<1>1. /\ r \in RingSet /\ r.sq \in Seq(Prepares) /\ RingFits(r, D, W)
      /\ \A o \in Op : InRing(r, o) <= 1
  BY DEF RingOK, RingSet
<1>2. PICK base : base = [r EXCEPT !.sq = <<>>]
  OBVIOUS
<1>3. /\ base \in RingSet /\ base.sq = <<>> /\ base.dups = r.dups
      /\ base.cq = r.cq /\ base.inflight = r.inflight
  <2>1. <<>> \in Seq(Prepares)
    OBVIOUS
  <2> QED BY <1>1, <1>2, <2>1 DEF RingSet
<1> DEFINE Good(a, k) == /\ a.sq = <<>> /\ a.dups = r.dups /\ RingFits(a, D, W)
                         /\ \A x \in Named : InRing(a, x) + Ahead(r.sq, k, x) = InRing(r, x)
           Holds == [k \in 0 .. Len(r.sq) |-> {a \in RingSet : Good(a, k)}]
<1>4. Good(base, 0)
  <2>1. RingFits(base, D, W)
    <3>1. DOMAIN base.sq = {}
      BY <1>3
    <3> QED BY <1>1, <1>3, <3>1 DEF RingFits
  <2>2. ASSUME NEW x \in Named PROVE InRing(base, x) + Ahead(r.sq, 0, x) = InRing(r, x)
    <3>1. Times(base.sq, x) = 0 /\ Ahead(r.sq, 0, x) = Times(r.sq, x)
      BY <1>1, <1>3, TimesEmpty, TimesAhead
    <3>2. InRing(base, x) = 0 + Times(r.cq, x) + One(x \in Op /\ r.inflight[x] # None)
      BY <1>3, <3>1 DEF InRing
    <3>3. /\ Times(r.sq, x) \in Nat /\ Times(r.cq, x) \in Nat
          /\ One(x \in Op /\ r.inflight[x] # None) \in {0, 1}
      BY <1>1, RingNumbers
    <3> QED BY <3>1, <3>2, <3>3 DEF InRing
  <2> QED BY <1>3, <2>1, <2>2
<1>5. ASSUME NEW k \in 0 .. Len(r.sq) - 1, NEW a \in RingSet, Good(a, k)
      PROVE  Accept(a, r.sq[k + 1]) \in RingSet /\ Good(Accept(a, r.sq[k + 1]), k + 1)
  <2>1. PICK e, b : e = r.sq[k + 1] /\ b = Accept(a, e)
    OBVIOUS
  <2>2. k + 1 \in DOMAIN r.sq /\ e \in Prepares
    BY <1>1, <2>1
  <2>3. EntryFits(e, D, W)
    BY <1>1, <2>1, <2>2 DEF RingFits
  <2>4. ASSUME NEW x \in Named
        PROVE  /\ Ahead(r.sq, k, x) = Ahead(r.sq, k + 1, x) + One(e.op = x)
               /\ Ahead(r.sq, k + 1, x) \in Nat /\ One(e.op = x) \in {0, 1}
               /\ InRing(a, x) \in Nat
               /\ InRing(a, x) + Ahead(r.sq, k, x) = InRing(r, x)
    <3>1. /\ Ahead(r.sq, k, x) = Ahead(r.sq, k + 1, x) + One(r.sq[k + 1].op = x)
          /\ Ahead(r.sq, k + 1, x) \in Nat
      BY <1>1, AheadStep
    <3>2. One(e.op = x) \in {0, 1}
      BY OneIs
    <3>3. InRing(a, x) \in Nat
      BY RingNumbers
    <3>4. InRing(a, x) + Ahead(r.sq, k, x) = InRing(r, x)
      BY <1>5
    <3> QED BY <2>1, <3>1, <3>2, <3>3, <3>4
  <2>5. e.op # None => InRing(a, e.op) = 0
    <3> SUFFICES ASSUME e.op # None PROVE InRing(a, e.op) = 0
      OBVIOUS
    <3>1. PICK o \in Op : o = e.op
      BY <2>2, PrepareIs
    <3>2. One(e.op = o) = 1 /\ InRing(r, o) <= 1 /\ o \in Named
      BY <1>1, <3>1, OneIs DEF Named
    <3>3. InRing(a, o) = 0
      BY <2>4, <3>2
    <3> QED BY <3>1, <3>3
  <2>6. b \in RingSet /\ Took1(a, b, e) /\ RingFits(b, D, W)
    BY <1>5, <2>1, <2>2, <2>3, <2>5, Accepted
  <2>7. \A x \in Named : InRing(b, x) + Ahead(r.sq, k + 1, x) = InRing(r, x)
    BY <2>4, <2>6 DEF Took1
  <2>8. b.sq = <<>> /\ b.dups = r.dups
    BY <1>5, <2>6 DEF Took1
  <2> QED BY <2>1, <2>6, <2>7, <2>8
<1>6. \A a \in RingSet, e \in Prepares : Accept(a, e) \in RingSet
  BY AcceptType DEF Placed
<1>7. Submitted(r) \in Holds[Len(r.sq)]
  <2>1. Len(r.sq) \in Nat
    BY <1>1
  <2> HIDE DEF Good
  <2>2. base \in Holds[0]
    BY <1>3, <1>4, <2>1
  <2>3. \A k \in 0 .. Len(r.sq) - 1 : \A a \in Holds[k] : Accept(a, r.sq[k + 1]) \in Holds[k + 1]
    BY <1>5, <2>1
  <2> HIDE DEF Holds
  <2>4. [r EXCEPT !.sq = <<>>] \in RingSet /\ [r EXCEPT !.sq = <<>>] \in Holds[0]
    BY <1>2, <1>3, <2>2
  <2> QED BY <1>1, <1>6, <2>3, <2>4, SubmittedKeeps
<1>8. q \in RingSet /\ Good(q, Len(r.sq))
  <2>1. Len(r.sq) \in 0 .. Len(r.sq)
    BY <1>1
  <2> HIDE DEF Good
  <2> QED BY <1>7, <2>1
<1>9. SameIn(q, r)
  <2>1. \A x \in Named : Ahead(r.sq, Len(r.sq), x) = 0 /\ InRing(q, x) \in Nat
    BY <1>1, <1>8, TimesAhead, RingNumbers
  <2> QED BY <1>8, <2>1 DEF SameIn
<1>10. Len(q.sq) <= Slots
  BY <1>8, PortAssumption
<1>11. \A o \in Op : InRing(q, o) <= 1
  BY <1>1, <1>9, StillOnce
<1> QED BY <1>8, <1>9, <1>10, <1>11 DEF RingOK

\* The flags of the plumbing, and dups while nothing is prepared, are free.
LEMMA Flagged ==
  ASSUME NEW r, NEW D, NEW W, RingOK(r, D, W), NEW q \in RingSet,
         q.sq = r.sq, q.cq = r.cq, q.inflight = r.inflight, q.dups = r.dups \/ q.sq = <<>>
  PROVE  RingOK(q, D, W) /\ SameIn(q, r)
<1>1. \A x : InRing(q, x) = InRing(r, x)
  BY DEF InRing
<1>2. RingFits(q, D, W)
  <2>1. q.sq = <<>> => DOMAIN q.sq = {}
    OBVIOUS
  <2> QED BY <2>1 DEF RingFits, RingOK
<1> QED BY <1>1, <1>2 DEF RingOK, SameIn

LEMMA RefusedOK ==
  ASSUME NEW r, NEW D, NEW W, RingOK(r, D, W), NEW q \in RefusedOf(r)
  PROVE  RingOK(q, D, W) /\ SameIn(q, r)
<1>1. q = [r EXCEPT !.flush = TRUE] /\ r \in RingSet
  BY DEF RefusedOf, Refused, RingOK
<1>2. q \in RingSet /\ q.sq = r.sq /\ q.cq = r.cq /\ q.inflight = r.inflight /\ q.dups = r.dups
  BY <1>1 DEF RingSet
<1> QED BY <1>2, Flagged

LEMMA SameTrans ==
  ASSUME NEW r, NEW q, NEW p, SameIn(q, r), SameIn(p, q)
  PROVE  SameIn(p, r)
BY DEF SameIn

LEMMA RingSubmitOK ==
  ASSUME NEW r, NEW D, NEW W, RingOK(r, D, W), Placed(D, W), NEW q \in RingSubmit(r)
  PROVE  RingOK(q, D, W) /\ SameIn(q, r)
<1>1. CASE q \in RefusedOf(r)
  BY <1>1, RefusedOK
<1>2. CASE q = [Submitted(r) EXCEPT !.flush = FALSE, !.dups = {}]
  <2>1. PICK p : p = Submitted(r)
    OBVIOUS
  <2>2. RingOK(p, D, W) /\ p.sq = <<>> /\ SameIn(p, r) /\ p \in RingSet
    BY <2>1, SubmittedOK DEF RingOK
  <2>3. q \in RingSet /\ q.sq = p.sq /\ q.cq = p.cq /\ q.inflight = p.inflight
    BY <1>2, <2>1, <2>2 DEF RingSet
  <2>4. RingOK(q, D, W) /\ SameIn(q, p)
    BY <2>2, <2>3, Flagged
  <2> QED BY <2>2, <2>4, SameTrans
<1> QED BY <1>1, <1>2 DEF RingSubmit

LEMMA GetSqeOK ==
  ASSUME NEW r, NEW D, NEW W, RingOK(r, D, W), Placed(D, W), NEW q \in GetSqe(r)
  PROVE  RingOK(q, D, W) /\ SameIn(q, r)
<1>1. SameIn(r, r)
  BY DEF SameIn
<1>2. q = r \/ q \in RefusedOf(r) \/ q = Submitted(r)
  BY DEF GetSqe
<1> QED BY <1>1, <1>2, RefusedOK, SubmittedOK

\* An entry is prepared: its operation is in the ring once more.
LEMMA PreparedOK ==
  ASSUME NEW r, NEW D, NEW W, RingOK(r, D, W), HasRoom(r), NEW e \in Prepares,
         EntryFits(e, D, W), e.op # None => InRing(r, e.op) = 0, NEW q, q = Prepared(r, e)
  PROVE  /\ RingOK(q, D, W)
         /\ \A x \in Named : InRing(q, x) = InRing(r, x) + One(e.op = x)
<1>1. r \in RingSet /\ r.sq \in Seq(Prepares) /\ r.dups \in SUBSET File /\ RingFits(r, D, W)
      /\ \A o \in Op : InRing(r, o) <= 1
  BY DEF RingOK, RingSet
<1>2. e.file \in File \cup {None}
  BY PrepareIs
<1>3. Append(r.sq, e) \in Seq(Prepares) /\ r.dups \cup ({e.file} \ {None}) \in SUBSET File
      /\ Len(Append(r.sq, e)) = Len(r.sq) + 1 /\ Len(r.sq) \in Nat
  BY <1>1, <1>2
<1>4. /\ q.sq = Append(r.sq, e) /\ q.dups = r.dups \cup ({e.file} \ {None})
      /\ q.cq = r.cq /\ q.inflight = r.inflight /\ q \in RingSet
  BY <1>1, <1>3 DEF Prepared, RingSet
<1>5. Len(q.sq) <= Slots
  BY <1>3, <1>4, PortAssumption DEF HasRoom
<1>6. ASSUME NEW x \in Named PROVE InRing(q, x) = InRing(r, x) + One(e.op = x)
  <2>1. Times(q.sq, x) = Times(r.sq, x) + One(e.op = x) /\ One(e.op = x) \in {0, 1}
    BY <1>1, <1>4, TimesAppend, OneIs
  <2> QED BY <1>1, <1>4, <2>1, RingNumbers DEF InRing
<1>7. RingFits(q, D, W)
  <2>1. ASSUME NEW n \in DOMAIN q.sq
        PROVE  EntryFits(q.sq[n], D, W) /\ (q.sq[n].kind = "cancel" => q.sq[n].file \in q.dups)
    <3>1. CASE n \in DOMAIN r.sq
      <4>1. q.sq[n] = r.sq[n]
        BY <1>1, <1>4, <3>1
      <4> QED BY <1>1, <1>4, <3>1, <4>1 DEF RingFits
    <3>2. CASE n \notin DOMAIN r.sq
      <4>1. q.sq[n] = e
        BY <1>1, <1>3, <1>4, <3>2
      <4>2. e.kind = "cancel" => e.file \in q.dups
        BY <1>4, PrepareIs, PortAssumption DEF File
      <4> QED BY <4>1, <4>2
    <3> QED BY <3>1, <3>2
  <2> QED BY <1>1, <1>4, <2>1 DEF RingFits
<1>8. ASSUME NEW o \in Op PROVE InRing(q, o) <= 1
  <2>1. o \in Named /\ InRing(r, o) \in Nat
    BY <1>1, RingNumbers DEF Named
  <2>2. CASE e.op = o
    <3>1. One(e.op = o) = 1 /\ InRing(r, o) = 0
      BY <2>2, NamedIs, OneIs, PortAssumption
    <3> QED BY <1>6, <2>1, <3>1
  <2>3. CASE e.op # o
    <3>1. One(e.op = o) = 0
      BY <2>3, OneIs
    <3> QED BY <1>1, <1>6, <2>1, <3>1
  <2> QED BY <2>2, <2>3
<1> QED BY <1>4, <1>5, <1>6, <1>7, <1>8 DEF RingOK

\* submit_now
LEMMA SubmitNowOK ==
  ASSUME NEW r, NEW D, NEW W, RingOK(r, D, W), Placed(D, W), NEW e \in Prepares,
         NEW s \in SubmitNow(r, e),
         s.ok => EntryFits(e, D, W) /\ (e.op # None => InRing(r, e.op) = 0)
  PROVE  /\ s.ok \in BOOLEAN /\ RingOK(s.ring, D, W)
         /\ s.ok => \A x \in Named : InRing(s.ring, x) = InRing(r, x) + One(e.op = x)
         /\ ~s.ok => SameIn(s.ring, r)
<1>1. PICK g \in GetSqe(r) :
        \/ HasRoom(g) /\ \E q \in RingSubmit(Prepared(g, e)) : s = [ring |-> q, ok |-> TRUE]
        \/ ~HasRoom(g) /\ s = [ring |-> g, ok |-> FALSE]
  BY DEF SubmitNow
<1>2. RingOK(g, D, W) /\ SameIn(g, r)
  BY GetSqeOK
<1>3. CASE ~HasRoom(g)
  <2>1. s.ring = g /\ s.ok = FALSE
    BY <1>1, <1>3
  <2> QED BY <1>2, <2>1
<1>4. CASE HasRoom(g)
  <2>1. PICK q \in RingSubmit(Prepared(g, e)) : s = [ring |-> q, ok |-> TRUE]
    BY <1>1, <1>4
  <2>2. s.ok /\ s.ring = q
    BY <2>1
  <2>3. e.op # None => InRing(g, e.op) = 0
    <3>1. e.op # None => e.op \in Named
      BY PrepareIs DEF Named
    <3> QED BY <1>2, <2>2, <3>1 DEF SameIn
  <2>4. PICK p : p = Prepared(g, e)
    OBVIOUS
  <2>5. RingOK(p, D, W) /\ \A x \in Named : InRing(p, x) = InRing(g, x) + One(e.op = x)
    BY <1>2, <1>4, <2>2, <2>3, <2>4, PreparedOK
  <2>6. RingOK(q, D, W) /\ SameIn(q, p)
    BY <2>1, <2>4, <2>5, RingSubmitOK
  <2> QED BY <1>2, <2>2, <2>5, <2>6 DEF SameIn
<1> QED BY <1>3, <1>4

LEMMA ArmOK ==
  ASSUME NEW r, NEW D, NEW W, RingOK(r, D, W), Placed(D, W), NEW q \in ArmEventfd(r)
  PROVE  RingOK(q, D, W) /\ SameIn(q, r)
<1>1. PICK s \in SubmitNow(r, Poll) : q = [s.ring EXCEPT !.armed = s.ok]
  BY DEF ArmEventfd
<1>2. PICK e : e = Poll
  OBVIOUS
<1>3. e \in Prepares /\ e.op = None /\ EntryFits(e, D, W)
  BY <1>2 DEF Prepares, Poll, Item, EntryFits
<1>4. /\ s.ok \in BOOLEAN /\ RingOK(s.ring, D, W)
      /\ s.ok => \A x \in Named : InRing(s.ring, x) = InRing(r, x) + One(e.op = x)
      /\ ~s.ok => SameIn(s.ring, r)
  BY <1>1, <1>2, <1>3, SubmitNowOK
<1>5. SameIn(s.ring, r)
  <2>1. \A x \in Named : One(e.op = x) = 0 /\ InRing(r, x) \in Nat
    BY <1>3, NamedIs, OneIs, RingNumbers DEF RingOK
  <2> QED BY <1>4, <2>1 DEF SameIn
<1>6. q \in RingSet /\ q.sq = s.ring.sq /\ q.cq = s.ring.cq /\ q.inflight = s.ring.inflight
      /\ q.dups = s.ring.dups
  BY <1>1, <1>4 DEF RingOK, RingSet
<1>7. RingOK(q, D, W) /\ SameIn(q, s.ring)
  BY <1>4, <1>6, Flagged
<1> QED BY <1>5, <1>7, SameTrans
-----------------------------------------------------------------------------
(* The queue is drained *)

Pieces == [ring : RingSet, posts : Seq(Waiting), failed : Seq(Waiting), some : BOOLEAN]

\* How many times the pump has x while it drains.
Held(v, x) == Times(v.posts, x) + Times(v.failed, x) + InRing(v.ring, x)

LEMMA QueuedIs ==
  ASSUME NEW e \in Queued
  PROVE  \/ e \in Prepares /\ e.kind = "io" /\ e.op \in Op /\ e.fd \in Fd /\ e.file = None
         \/ e \in Prepares /\ e.kind = "cancel" /\ e.op = None /\ e.fd \in Fd /\ e.file \in File
         \/ e \in Waiting /\ e.kind = "post" /\ e.op \in Named
BY DEF Queued, Prepares, Requests, Waiting, Named

LEMMA FailureIs ==
  ASSUME NEW e \in Queued, e.kind # "post"
  PROVE  \/ e.op = None /\ Failure(e) = <<>>
         \/ \E f \in Waiting : f.op = e.op /\ e.op \in Op /\ Failure(e) = <<f>>
<1>1. CASE e.op = None
  BY <1>1 DEF Failure
<1>2. CASE e.op # None
  <2>1. e.kind = "io" /\ e.op \in Op /\ e.fd \in Fd /\ e.file = None /\ e \in Requests
    BY <1>2, QueuedIs DEF Queued, Waiting
  <2>2. [e EXCEPT !.kind = "post"] \in Waiting /\ [e EXCEPT !.kind = "post"].op = e.op
    BY <2>1 DEF Requests, Waiting
  <2> QED BY <1>2, <2>1, <2>2 DEF Failure
<1> QED BY <1>1, <1>2

LEMMA SubmittedType ==
  ASSUME NEW r \in RingSet, file \in [Fd -> File \cup {None}]
  PROVE  Submitted(r) \in RingSet
<1>1. r.sq \in Seq(Prepares) /\ Len(r.sq) \in Nat /\ [r EXCEPT !.sq = <<>>] \in RingSet
  <2>1. <<>> \in Seq(Prepares)
    OBVIOUS
  <2>2. [r EXCEPT !.sq = <<>>] \in RingSet
    BY <2>1 DEF RingSet
  <2>3. r.sq \in Seq(Prepares)
    BY DEF RingSet
  <2> QED BY <2>2, <2>3
<1> DEFINE Holds == [k \in 0 .. Len(r.sq) |-> RingSet]
<1>2. \A a \in RingSet, e \in Prepares : Accept(a, e) \in RingSet
  BY AcceptType
<1>3. /\ [r EXCEPT !.sq = <<>>] \in Holds[0] /\ Holds[Len(r.sq)] = RingSet
      /\ \A k \in 0 .. Len(r.sq) - 1 : \A a \in Holds[k] : Accept(a, r.sq[k + 1]) \in Holds[k + 1]
  <2>1. \A k \in 0 .. Len(r.sq) - 1 : r.sq[k + 1] \in Prepares /\ k + 1 \in 0 .. Len(r.sq)
    BY <1>1
  <2> QED BY <1>1, <1>2, <2>1
<1> HIDE DEF Holds
<1> QED BY <1>1, <1>2, <1>3, SubmittedKeeps

\* An element of the queue is a packet that waits, a prepared entry, or a request
\* that failed for want of one.
LEMMA QitemCases ==
  ASSUME NEW v \in Pieces, NEW e \in Queued, NEW u \in SubmitQitem(v, e)
  PROVE  \/ e.kind = "post" /\ u = [v EXCEPT !.posts = Append(@, e)]
         \/ /\ e.kind # "post"
            /\ \E g \in GetSqe(v.ring) :
                 \/ HasRoom(g) /\ u = [v EXCEPT !.ring = Prepared(g, e), !.some = TRUE]
                 \/ ~HasRoom(g) /\ u = [v EXCEPT !.ring = g, !.failed = @ \o Failure(e)]
BY DEF SubmitQitem

LEMMA QitemType ==
  ASSUME file \in [Fd -> File \cup {None}], NEW v \in Pieces, NEW e \in Queued,
         NEW u \in SubmitQitem(v, e)
  PROVE  u \in Pieces
<1>1. v.ring \in RingSet /\ v.posts \in Seq(Waiting) /\ v.failed \in Seq(Waiting)
  BY DEF Pieces
<1>2. CASE e.kind = "post"
  <2>1. e \in Waiting /\ u = [v EXCEPT !.posts = Append(@, e)]
    BY <1>2, QueuedIs, QitemCases
  <2>2. Append(v.posts, e) \in Seq(Waiting)
    BY <1>1, <2>1
  <2> QED BY <2>1, <2>2 DEF Pieces
<1>3. CASE e.kind # "post"
  <2>1. PICK g \in GetSqe(v.ring) :
                 \/ HasRoom(g) /\ u = [v EXCEPT !.ring = Prepared(g, e), !.some = TRUE]
                 \/ ~HasRoom(g) /\ u = [v EXCEPT !.ring = g, !.failed = @ \o Failure(e)]
    BY <1>3, QitemCases
  <2>2. g \in RingSet
    <3>1. Submitted(v.ring) \in RingSet
      BY <1>1, SubmittedType
    <3>2. [v.ring EXCEPT !.flush = TRUE] \in RingSet
      BY <1>1 DEF RingSet
    <3> QED BY <1>1, <3>1, <3>2 DEF GetSqe, RefusedOf, Refused
  <2>3. CASE u = [v EXCEPT !.ring = Prepared(g, e), !.some = TRUE]
    <3>1. e \in Prepares /\ e.file \in File \cup {None}
      BY <1>3, QueuedIs
    <3>2. Append(g.sq, e) \in Seq(Prepares) /\ g.dups \cup ({e.file} \ {None}) \in SUBSET File
      BY <2>2, <3>1 DEF RingSet
    <3>3. Prepared(g, e) \in RingSet
      BY <2>2, <3>2 DEF Prepared, RingSet
    <3> QED BY <2>3, <3>3 DEF Pieces
  <2>4. CASE u = [v EXCEPT !.ring = g, !.failed = @ \o Failure(e)]
    <3>1. Failure(e) \in Seq(Waiting)
      <4>1. Failure(e) = <<>> \/ \E f \in Waiting : Failure(e) = <<f>>
        BY <1>3, FailureIs
      <4>2. <<>> \in Seq(Waiting) /\ \A f \in Waiting : <<f>> \in Seq(Waiting)
        OBVIOUS
      <4> QED BY <4>1, <4>2
    <3>2. v.failed \o Failure(e) \in Seq(Waiting)
      BY <1>1, <3>1
    <3> QED BY <2>2, <2>4, <3>2 DEF Pieces
  <2> QED BY <2>1, <2>3, <2>4
<1> QED BY <1>2, <1>3

LEMMA QitemOK ==
  ASSUME NEW D, NEW W, Placed(D, W), NEW v \in Pieces, RingOK(v.ring, D, W), NEW e \in Queued,
         EntryFits(e, D, W), e.op \in Op => InRing(v.ring, e.op) = 0,
         NEW u \in SubmitQitem(v, e)
  PROVE  /\ RingOK(u.ring, D, W)
         /\ \A x \in Named : Held(u, x) = Held(v, x) + One(e.op = x)
<1>1. v.ring \in RingSet /\ v.posts \in Seq(Waiting) /\ v.failed \in Seq(Waiting)
  BY DEF Pieces
<1>2. ASSUME NEW x \in Named
      PROVE  /\ One(e.op = x) \in {0, 1} /\ Times(v.posts, x) \in Nat /\ Times(v.failed, x) \in Nat
             /\ InRing(v.ring, x) \in Nat
  BY <1>1, OneIs, TimesAhead, RingNumbers
<1>3. CASE e.kind = "post"
  <2>1. e \in Waiting /\ u = [v EXCEPT !.posts = Append(@, e)]
    BY <1>3, QueuedIs, QitemCases
  <2>2. u.posts = Append(v.posts, e) /\ u.failed = v.failed /\ u.ring = v.ring
    BY <2>1 DEF Pieces
  <2>3. \A x \in Named : Times(u.posts, x) = Times(v.posts, x) + One(e.op = x)
    BY <1>1, <2>1, <2>2, TimesAppend
  <2> QED BY <1>2, <2>2, <2>3 DEF Held
<1>4. CASE e.kind # "post"
  <2>1. PICK g \in GetSqe(v.ring) :
                 \/ HasRoom(g) /\ u = [v EXCEPT !.ring = Prepared(g, e), !.some = TRUE]
                 \/ ~HasRoom(g) /\ u = [v EXCEPT !.ring = g, !.failed = @ \o Failure(e)]
    BY <1>4, QitemCases
  <2>2. RingOK(g, D, W) /\ SameIn(g, v.ring)
    BY GetSqeOK
  <2>3. CASE HasRoom(g)
    <3>1. u.ring = Prepared(g, e) /\ u.posts = v.posts /\ u.failed = v.failed
      BY <2>1, <2>3 DEF Pieces
    <3>2. e \in Prepares /\ (e.op # None => e.op \in Op /\ e.op \in Named)
      BY <1>4, QueuedIs DEF Named
    <3>3. e.op # None => InRing(g, e.op) = 0
      BY <2>2, <3>2 DEF SameIn
    <3>4. /\ RingOK(u.ring, D, W)
          /\ \A x \in Named : InRing(u.ring, x) = InRing(g, x) + One(e.op = x)
      BY <2>2, <2>3, <3>1, <3>2, <3>3, PreparedOK
    <3> QED BY <1>2, <2>2, <3>1, <3>4 DEF Held, SameIn
  <2>4. CASE ~HasRoom(g)
    <3>1. u.ring = g /\ u.posts = v.posts /\ u.failed = v.failed \o Failure(e)
      BY <2>1, <2>4 DEF Pieces
    <3>2. \A x \in Named : Times(u.failed, x) = Times(v.failed, x) + One(e.op = x)
      <4> TAKE x \in Named
      <4>1. CASE e.op = None /\ Failure(e) = <<>>
        <5>1. u.failed = v.failed
          BY <1>1, <3>1, <4>1
        <5>2. One(e.op = x) = 0
          BY <4>1, NamedIs, OneIs
        <5> QED BY <1>2, <5>1, <5>2
      <4>2. CASE \E f \in Waiting : f.op = e.op /\ e.op \in Op /\ Failure(e) = <<f>>
        <5>1. PICK f \in Waiting : f.op = e.op /\ Failure(e) = <<f>>
          BY <4>2
        <5>2. u.failed = Append(v.failed, f)
          BY <1>1, <3>1, <5>1
        <5> QED BY <1>1, <5>1, <5>2, TimesAppend
      <4> QED BY <1>4, <4>1, <4>2, FailureIs
    <3> QED BY <1>2, <2>2, <3>1, <3>2 DEF Held, SameIn
  <2> QED BY <2>3, <2>4
<1> QED BY <1>3, <1>4

LEMMA SubmitAllOK ==
  ASSUME NEW D, NEW W, Placed(D, W), RingOK(ring, D, W), queue \in Seq(Queued),
         \A n \in DOMAIN queue : EntryFits(queue[n], D, W),
         \A o \in Op : Times(queue, o) + InRing(ring, o) <= 1,
         NEW v \in SubmitAll
  PROVE  /\ v \in Pieces /\ RingOK(v.ring, D, W)
         /\ \A x \in Named : Held(v, x) = Times(queue, x) + InRing(ring, x)
<1>1. ring \in RingSet /\ Len(queue) \in Nat /\ file \in [Fd -> File \cup {None}]
  BY DEF RingOK, Placed
<1> DEFINE Good(u, k) ==
             /\ RingOK(u.ring, D, W)
             /\ \A x \in Named :
                  Held(u, x) + Ahead(queue, k, x) = Times(queue, x) + InRing(ring, x)
           Holds == [k \in 0 .. Len(queue) |-> {u \in Pieces : Good(u, k)}]
<1>2. PICK z : z = NoneTaken
  OBVIOUS
<1>3. z \in Pieces /\ z.ring = ring /\ z.posts = <<>> /\ z.failed = <<>>
  <2>1. <<>> \in Seq(Waiting)
    OBVIOUS
  <2> QED BY <1>1, <1>2, <2>1 DEF Pieces, NoneTaken
<1>4. Good(z, 0)
  <2>1. ASSUME NEW x \in Named
        PROVE  Held(z, x) + Ahead(queue, 0, x) = Times(queue, x) + InRing(ring, x)
    <3>1. Held(z, x) = 0 + 0 + InRing(ring, x) /\ Ahead(queue, 0, x) = Times(queue, x)
      BY <1>3, TimesEmpty, TimesAhead DEF Held
    <3>2. InRing(ring, x) \in Nat /\ Times(queue, x) \in Nat
      BY <1>1, RingNumbers, TimesAhead
    <3> QED BY <3>1, <3>2
  <2> QED BY <1>3, <2>1
<1>5. ASSUME NEW k \in 0 .. Len(queue) - 1, NEW a \in Pieces, Good(a, k),
             NEW u \in SubmitQitem(a, queue[k + 1])
      PROVE  u \in Pieces /\ Good(u, k + 1)
  <2>1. PICK e : e = queue[k + 1]
    OBVIOUS
  <2>2. k + 1 \in DOMAIN queue /\ e \in Queued /\ EntryFits(e, D, W)
    BY <2>1
  <2>3. ASSUME NEW x \in Named
        PROVE  /\ Ahead(queue, k, x) = Ahead(queue, k + 1, x) + One(e.op = x)
               /\ Ahead(queue, k + 1, x) \in Nat /\ One(e.op = x) \in {0, 1}
               /\ InRing(a.ring, x) \in Nat /\ Held(a, x) \in Nat /\ InRing(a.ring, x) <= Held(a, x)
               /\ Held(a, x) + Ahead(queue, k, x) = Times(queue, x) + InRing(ring, x)
    <3>1. /\ Ahead(queue, k, x) = Ahead(queue, k + 1, x) + One(queue[k + 1].op = x)
          /\ Ahead(queue, k + 1, x) \in Nat
      BY AheadStep
    <3>2. One(e.op = x) \in {0, 1}
      BY OneIs
    <3>3. InRing(a.ring, x) \in Nat /\ Times(a.posts, x) \in Nat /\ Times(a.failed, x) \in Nat
      BY RingNumbers, TimesAhead DEF Pieces
    <3>4. Held(a, x) + Ahead(queue, k, x) = Times(queue, x) + InRing(ring, x)
      BY <1>5
    <3>5. Held(a, x) \in Nat /\ InRing(a.ring, x) <= Held(a, x)
      BY <3>3 DEF Held
    <3> QED BY <2>1, <3>1, <3>2, <3>3, <3>4, <3>5
  <2>4. e.op \in Op => InRing(a.ring, e.op) = 0
    <3> SUFFICES ASSUME e.op \in Op PROVE InRing(a.ring, e.op) = 0
      OBVIOUS
    <3>1. PICK o \in Op : o = e.op
      OBVIOUS
    <3>2. One(e.op = o) = 1 /\ Times(queue, o) + InRing(ring, o) <= 1 /\ o \in Named
      BY <3>1, OneIs DEF Named
    <3>3. InRing(a.ring, o) = 0
      BY <2>3, <3>2
    <3> QED BY <3>1, <3>3
  <2>5. u \in Pieces
    BY <1>1, <2>1, <2>2, <1>5, QitemType
  <2>6. RingOK(u.ring, D, W) /\ \A x \in Named : Held(u, x) = Held(a, x) + One(e.op = x)
    <3>1. RingOK(a.ring, D, W) /\ u \in SubmitQitem(a, e)
      BY <1>5, <2>1
    <3> QED BY <2>2, <2>4, <3>1, QitemOK
  <2>7. \A x \in Named : Held(u, x) + Ahead(queue, k + 1, x) = Times(queue, x) + InRing(ring, x)
    BY <2>3, <2>6
  <2> QED BY <2>5, <2>6, <2>7
<1>6. \A a \in Pieces, e \in Queued : SubmitQitem(a, e) \in SUBSET Pieces
  BY <1>1, QitemType
<1>7. v \in Holds[Len(queue)]
  <2> HIDE DEF Good
  <2>1. NoneTaken \in Pieces /\ NoneTaken \in Holds[0]
    BY <1>1, <1>2, <1>3, <1>4
  <2>2. \A k \in 0 .. Len(queue) - 1 : \A a \in Holds[k] :
          SubmitQitem(a, queue[k + 1]) \in SUBSET Holds[k + 1]
    BY <1>1, <1>5
  <2> HIDE DEF Holds
  <2>3. SubmitAll \in SUBSET Holds[Len(queue)]
    BY <1>6, <2>1, <2>2, SubmitAllKeeps
  <2> QED BY <2>3
<1>8. v \in Pieces /\ Good(v, Len(queue))
  <2>1. Len(queue) \in 0 .. Len(queue)
    BY <1>1
  <2> HIDE DEF Good
  <2> QED BY <1>7, <2>1
<1>9. ASSUME NEW x \in Named PROVE Held(v, x) = Times(queue, x) + InRing(ring, x)
  <2>1. Ahead(queue, Len(queue), x) = 0
    BY TimesAhead
  <2>2. Held(v, x) \in Nat
    <3>1. Times(v.posts, x) \in Nat /\ Times(v.failed, x) \in Nat /\ InRing(v.ring, x) \in Nat
      BY <1>8, TimesAhead, RingNumbers DEF Pieces
    <3> QED BY <3>1 DEF Held
  <2>3. Held(v, x) + Ahead(queue, Len(queue), x) = Times(queue, x) + InRing(ring, x)
    BY <1>8
  <2> QED BY <2>1, <2>2, <2>3
<1> QED BY <1>8, <1>9
-----------------------------------------------------------------------------
(* The whole port: everything that is asked for, queued, prepared, in the     *)
(* kernel or completed                                                        *)

\* How many calls are about to push x.
InCalls(C, x) == Cardinality({c \in Caller : C[c].item.op = x})
InAll(C, q, r, x) == InCalls(C, x) + Times(q, x) + InRing(r, x)

CallRec == [pc : {"idle", "push", "wake", "close"}, item : Queued \cup {NoItem},
            closing : Fd \cup {None}]
CallFits(k, D, W) ==
  IF k.pc = "push" THEN k.item \in Queued /\ EntryFits(k.item, D, W) ELSE k.item = NoItem
CallsFit(C, D, W) == C \in [Caller -> CallRec] /\ \A c \in Caller : CallFits(C[c], D, W)
QueueFits(q, D, W) == q \in Seq(Queued) /\ \A n \in DOMAIN q : EntryFits(q[n], D, W)
Fitted(C, q, r, D, W) == CallsFit(C, D, W) /\ QueueFits(q, D, W) /\ RingOK(r, D, W)

LEMMA AllNumbers ==
  ASSUME NEW C, NEW q, NEW r, NEW D, NEW W, Fitted(C, q, r, D, W), NEW x
  PROVE  InCalls(C, x) \in Nat /\ Times(q, x) \in Nat /\ InRing(r, x) \in Nat
<1>1. IsFiniteSet({c \in Caller : C[c].item.op = x})
  BY PortAssumption, FS_Subset
<1>2. InCalls(C, x) \in Nat
  BY <1>1, FS_CardinalityType DEF InCalls
<1>3. Times(q, x) \in Nat
  BY TimesAhead DEF Fitted, QueueFits
<1>4. InRing(r, x) \in Nat
  BY RingNumbers DEF Fitted, RingOK
<1> QED BY <1>2, <1>3, <1>4

\* What is nowhere is in no call, no queue and no ring.
LEMMA NowhereIs ==
  ASSUME NEW C, NEW q, NEW r, NEW D, NEW W, Fitted(C, q, r, D, W), NEW x \in Op,
         InAll(C, q, r, x) = 0
  PROVE  /\ \A c \in Caller : C[c].item.op # x
         /\ \A n \in DOMAIN q : q[n].op # x
         /\ \A n \in DOMAIN r.sq : r.sq[n].op # x
         /\ \A n \in DOMAIN r.cq : r.cq[n].op # x
         /\ r.inflight[x] = None
<1>1. r \in RingSet /\ r.sq \in Seq(Prepares) /\ r.cq \in Seq(Cqes) /\ q \in Seq(Queued)
  BY DEF Fitted, QueueFits, RingOK, RingSet
<1>2. InCalls(C, x) = 0 /\ Times(q, x) = 0 /\ InRing(r, x) = 0
  BY AllNumbers DEF InAll
<1>3. Times(r.sq, x) = 0 /\ Times(r.cq, x) = 0 /\ One(x \in Op /\ r.inflight[x] # None) = 0
  BY <1>1, <1>2, RingNumbers DEF InRing
<1>4. IsFiniteSet({c \in Caller : C[c].item.op = x})
  BY PortAssumption, FS_Subset
<1>5. {c \in Caller : C[c].item.op = x} = {}
  BY <1>2, <1>4, FS_EmptySet DEF InCalls
<1>6. r.inflight[x] = None
  BY <1>3 DEF One
<1>7. /\ \A n \in DOMAIN q : q[n].op # x
      /\ \A n \in DOMAIN r.sq : r.sq[n].op # x
      /\ \A n \in DOMAIN r.cq : r.cq[n].op # x
  BY <1>1, <1>2, <1>3, TimesAhead
<1> QED BY <1>5, <1>6, <1>7

\* What is said of the places rests on the descriptors and sockets of the
\* operations that are in one.
LEMMA FittedTo ==
  ASSUME NEW C, NEW q, NEW r, NEW D, NEW W, Fitted(C, q, r, D, W), NEW V,
         \A o \in Op : InAll(C, q, r, o) = 0 \/ (V[o].fd = W[o].fd /\ V[o].on = W[o].on)
  PROVE  Fitted(C, q, r, D, V)
<1>1. \A e : EntryFits(e, D, W) /\ (e.kind = "io" => V[e.op].fd = W[e.op].fd /\ V[e.op].on = W[e.op].on)
        => EntryFits(e, D, V)
  BY DEF EntryFits
<1>2. r.sq \in Seq(Prepares) /\ r.cq \in Seq(Cqes) /\ q \in Seq(Queued) /\ C \in [Caller -> CallRec]
  BY DEF Fitted, QueueFits, CallsFit, RingOK, RingSet
<1>3. CallsFit(C, D, V)
  <2>1. ASSUME NEW c \in Caller, C[c].pc = "push" PROVE EntryFits(C[c].item, D, V)
    <3>1. C[c].item \in Queued /\ EntryFits(C[c].item, D, W)
      BY <2>1 DEF Fitted, CallsFit, CallFits
    <3>2. ASSUME C[c].item.kind = "io" PROVE C[c].item.op \in Op
      BY <3>1, <3>2, QueuedIs
    <3> QED BY <1>1, <3>1, <3>2, NowhereIs
  <2> QED BY <2>1 DEF Fitted, CallsFit, CallFits
<1>4. QueueFits(q, D, V)
  <2>1. ASSUME NEW n \in DOMAIN q PROVE EntryFits(q[n], D, V)
    <3>1. q[n] \in Queued /\ EntryFits(q[n], D, W)
      BY <1>2 DEF Fitted, QueueFits
    <3>2. ASSUME q[n].kind = "io" PROVE q[n].op \in Op
      BY <3>1, <3>2, QueuedIs
    <3> QED BY <1>1, <3>1, <3>2, NowhereIs
  <2> QED BY <1>2, <2>1 DEF QueueFits
<1>5. RingFits(r, D, V)
  <2>1. ASSUME NEW n \in DOMAIN r.sq PROVE EntryFits(r.sq[n], D, V)
    <3>1. r.sq[n] \in Prepares /\ EntryFits(r.sq[n], D, W)
      BY <1>2 DEF Fitted, RingOK, RingFits
    <3>2. ASSUME r.sq[n].kind = "io" PROVE r.sq[n].op \in Op
      BY <3>1, <3>2, PrepareIs
    <3> QED BY <1>1, <3>1, <3>2, NowhereIs
  <2>2. ASSUME NEW o \in Op, r.inflight[o] # None PROVE r.inflight[o] = V[o].on \/ V[o].on \in D
    BY <2>2, NowhereIs DEF Fitted, RingOK, RingFits
  <2>3. ASSUME NEW n \in DOMAIN r.cq, r.cq[n].how = "aborted" PROVE V[r.cq[n].op].on \in D
    <3>1. r.cq[n].op \in Op
      BY <1>2, <2>3, CqeIs
    <3> QED BY <2>3, <3>1, NowhereIs DEF Fitted, RingOK, RingFits
  <2> QED BY <2>1, <2>2, <2>3 DEF Fitted, RingOK, RingFits
<1> QED BY <1>3, <1>4, <1>5 DEF Fitted, RingOK

\* And on the sockets that are closed, which stay so.
LEMMA FittedGrows ==
  ASSUME NEW C, NEW q, NEW r, NEW D, NEW W, Fitted(C, q, r, D, W), NEW E, D \in SUBSET E
  PROVE  Fitted(C, q, r, E, W)
<1>1. \A e : EntryFits(e, D, W) => EntryFits(e, E, W)
  BY DEF EntryFits
<1>2. CallsFit(C, E, W) /\ QueueFits(q, E, W)
  BY <1>1 DEF Fitted, CallsFit, CallFits, QueueFits
<1>3. RingFits(r, E, W)
  BY <1>1 DEF Fitted, RingOK, RingFits
<1> QED BY <1>2, <1>3 DEF Fitted, RingOK

LEMMA InCallsSet ==
  ASSUME NEW C, NEW c \in Caller, NEW k, NEW B, NEW x,
         B[c] = k, \A e \in Caller \ {c} : B[e] = C[e]
  PROVE  /\ InCalls(C, x) \in Nat /\ InCalls(B, x) \in Nat
         /\ InCalls(B, x) + One(C[c].item.op = x) = InCalls(C, x) + One(k.item.op = x)
<1> DEFINE S(F) == {e \in Caller : F[e].item.op = x}
           R == {e \in Caller \ {c} : C[e].item.op = x}
<1>1. IsFiniteSet(R) /\ IsFiniteSet(S(C)) /\ IsFiniteSet(S(B))
  BY PortAssumption, FS_Subset
<1>2. B[c] = k /\ \A e \in Caller \ {c} : B[e] = C[e]
  OBVIOUS
<1>3. Cardinality(R) \in Nat /\ c \notin R
  <2>1. c \notin R
    OBVIOUS
  <2> HIDE DEF R
  <2> QED BY <1>1, <2>1, FS_CardinalityType
<1>4. Cardinality(S(C)) = Cardinality(R) + One(C[c].item.op = x)
  <2>1. CASE C[c].item.op = x
    <3>1. S(C) = R \cup {c}
      BY <2>1
    <3> HIDE DEF R, S
    <3> QED BY <1>1, <1>3, <2>1, <3>1, FS_AddElement DEF One
  <2>2. CASE C[c].item.op # x
    <3>1. S(C) = R
      BY <2>2
    <3> HIDE DEF R, S
    <3> QED BY <1>3, <2>2, <3>1 DEF One
  <2> QED BY <2>1, <2>2
<1>5. Cardinality(S(B)) = Cardinality(R) + One(k.item.op = x)
  <2>1. CASE k.item.op = x
    <3>1. S(B) = R \cup {c}
      BY <1>2, <2>1
    <3> HIDE DEF R, S
    <3> QED BY <1>1, <1>3, <2>1, <3>1, FS_AddElement DEF One
  <2>2. CASE k.item.op # x
    <3>1. S(B) = R
      BY <1>2, <2>2
    <3> HIDE DEF R, S
    <3> QED BY <1>3, <2>2, <3>1 DEF One
  <2> QED BY <2>1, <2>2
<1>6. One(C[c].item.op = x) \in {0, 1} /\ One(k.item.op = x) \in {0, 1}
  BY OneIs
<1>7. InCalls(C, x) = Cardinality(S(C)) /\ InCalls(B, x) = Cardinality(S(B))
  BY DEF InCalls
<1> HIDE DEF S, R
<1> QED BY <1>3, <1>4, <1>5, <1>6, <1>7

\* The first completion is taken off the ring.
LEMMA RestOK ==
  ASSUME NEW D, NEW W, RingOK(ring, D, W), ring.cq # <<>>, NEW c, c = Head(ring.cq)
  PROVE  /\ c \in Cqes /\ RingOK(Rest, D, W)
         /\ \A x : InRing(ring, x) = InRing(Rest, x) + One(c.op = x)
<1>1. ring \in RingSet /\ ring.cq \in Seq(Cqes)
  BY DEF RingOK, RingSet
<1>2. PICK r : r = Rest
  OBVIOUS
<1>3. Tail(ring.cq) \in Seq(Cqes) /\ Head(ring.cq) \in Cqes
      /\ Len(Tail(ring.cq)) = Len(ring.cq) - 1 /\ Len(ring.cq) \in Nat
      /\ \A n \in 1 .. Len(ring.cq) - 1 : Tail(ring.cq)[n] = ring.cq[n + 1]
  BY <1>1
<1>4. r \in RingSet /\ r.cq = Tail(ring.cq) /\ r.sq = ring.sq /\ r.dups = ring.dups
      /\ r.inflight = ring.inflight
  BY <1>1, <1>2, <1>3 DEF Rest, RingSet
<1>5. ASSUME NEW x PROVE InRing(ring, x) = InRing(r, x) + One(c.op = x)
  <2>1. Times(ring.cq, x) = Times(Tail(ring.cq), x) + One(Head(ring.cq).op = x)
    BY <1>1, TimesTail
  <2>2. One(c.op = x) \in {0, 1}
    BY OneIs
  <2>3. Times(ring.sq, x) \in Nat /\ Times(r.cq, x) \in Nat
        /\ One(x \in Op /\ ring.inflight[x] # None) \in {0, 1}
    BY <1>1, <1>4, RingNumbers
  <2> QED BY <1>4, <2>1, <2>2, <2>3 DEF InRing
<1>6. RingFits(r, D, W)
  <2>1. ASSUME NEW n \in DOMAIN r.cq PROVE n + 1 \in DOMAIN ring.cq /\ r.cq[n] = ring.cq[n + 1]
    BY <1>1, <1>3, <1>4
  <2>2. \A n \in DOMAIN r.cq : r.cq[n].how = "aborted" => W[r.cq[n].op].on \in D
    BY <2>1 DEF RingOK, RingFits
  <2> QED BY <1>4, <2>2 DEF RingOK, RingFits
<1>7. \A o \in Op : InRing(r, o) <= 1
  <2> TAKE o \in Op
  <2>1. InRing(ring, o) <= 1 /\ One(c.op = o) \in {0, 1} /\ InRing(r, o) \in Nat
    BY <1>4, OneIs, RingNumbers DEF RingOK
  <2> QED BY <1>5, <2>1
<1> QED BY <1>2, <1>3, <1>4, <1>5, <1>6, <1>7 DEF RingOK
-----------------------------------------------------------------------------
(* Descriptors and keys *)

\* The tables of descriptors, and what threads are closing.
TableShape ==
  /\ file \in [Fd -> File \cup {None}] /\ assoc \in [Fd -> File \cup {None}]
  /\ opened \in Nat
CallShape ==
  /\ call = [c \in Caller |-> call[c]]
  /\ \A c \in Caller :
       /\ "closing" \in DOMAIN call[c]
       /\ call[c].closing \in Fd \cup {None}

\* A descriptor being closed is still open, has lost its key, and is closed by
\* one thread; any other has the key of the socket it stands for.
OneCloser ==
  \A c, e \in Caller : call[c].closing = call[e].closing /\ call[c].closing # None => c = e
StillOpen ==
  \A c \in Caller : call[c].closing # None =>
    file[call[c].closing] # None /\ assoc[call[c].closing] = None
Associated == \A d \in Fd : ~Closing(d) => assoc[d] = file[d]

\* The key of an operation is that of its socket.
OvShape ==
  /\ ov = [o \in Op |-> ov[o]]
  /\ \A o \in Op : {"key", "on"} \subseteq DOMAIN ov[o]
Bound == \A o \in Op : ov[o].key = ov[o].on

Tables == TableShape /\ CallShape /\ OneCloser /\ StillOpen /\ Associated
Ovs == OvShape /\ Bound
KInv == Tables /\ Ovs /\ KeyBound
-----------------------------------------------------------------------------
LEMMA InitKInv == Init => KInv
  <1> SUFFICES ASSUME Init PROVE KInv
    OBVIOUS
  <1>1. Tables
    BY DEF Init, Tables, TableShape, CallShape, OneCloser, StillOpen, Associated, Idle,
           Closing, File
  <1>2. Ovs
    BY DEF Init, Ovs, OvShape, Bound, FreeOv
  <1>3. KeyBound
    BY PortAssumption DEF Init, KeyBound, NoPacket
  <1> QED
    BY <1>1, <1>2, <1>3 DEF KInv

\* Steps that touch neither a descriptor nor a call keep what is said of them.
LEMMA TablesStay ==
  ASSUME Tables, UNCHANGED <<table, call>>
  PROVE  Tables'
  BY DEF Tables, TableShape, CallShape, OneCloser, StillOpen, Associated, table, Closing

\* So do steps of a call that is not one of close's own.
LEMMA TablesStayInCall ==
  ASSUME Tables, UNCHANGED table, NEW c \in Caller, NEW r,
         call' = [call EXCEPT ![c] = r],
         "closing" \in DOMAIN r,
         r.closing = call[c].closing
  PROVE  Tables'
  <1>1. \A e \in Caller : call'[e].closing = call[e].closing
    BY DEF Tables, CallShape
  <1>2. CallShape'
    BY <1>1 DEF Tables, CallShape
  <1> QED
    BY <1>1, <1>2 DEF Tables, TableShape, OneCloser, StillOpen, Associated, table, Closing

LEMMA OvsStay ==
  ASSUME Ovs, UNCHANGED ov
  PROVE  Ovs'
  BY DEF Ovs, OvShape, Bound

\* The length written so far is no part of it.
LEMMA OvsWritten ==
  ASSUME Ovs, NEW o, NEW n, ov' = [ov EXCEPT ![o].done = n]
  PROVE  Ovs'
  BY DEF Ovs, OvShape, Bound

\* An operation is given the key of the socket it is asked for.
LEMMA OvsAsked ==
  ASSUME Tables, Ovs, NEW o \in Op, NEW d \in Fd, MayAsk(o, d),
         ov' = [ov EXCEPT ![o] = Asked(o, d)]
  PROVE  Ovs'
  <1>1. assoc[d] = file[d]
    BY DEF Tables, Associated, MayAsk
  <1> QED
    BY <1>1 DEF Ovs, OvShape, Bound, Asked

\* The packet that answers an operation has the operation's key.
LEMMA Answers ==
  ASSUME Ovs, NEW x, NEW how, Answer(x, how)
  PROVE  Ovs' /\ KeyBound'
  <1>1. Ovs'
    BY DEF Ovs, OvShape, Bound, Answer, FreeOv
  <1>2. KeyBound'
    BY DEF Ovs, Bound, Answer, Key, KeyBound
  <1> QED
    BY <1>1, <1>2

LEMMA HandsBack ==
  ASSUME Ovs, NEW item, HandBack(item)
  PROVE  Ovs' /\ KeyBound'
  <1>1. CASE item.op \in Op
    BY <1>1, Answers DEF HandBack
  <1>2. CASE item.op \notin Op
    BY <1>2, OvsStay DEF HandBack, NoPacket, KeyBound
  <1> QED
    BY <1>1, <1>2

LEMMA KeyStays ==
  ASSUME KeyBound, UNCHANGED packet
  PROVE  KeyBound'
  BY DEF KeyBound
-----------------------------------------------------------------------------
\* The steps of descriptors.
LEMMA OpenStep == Tables /\ Open => Tables'
  <1> SUFFICES ASSUME Tables, Open PROVE Tables'
    OBVIOUS
  <1>1. PICK d \in Fd : /\ file[d] = None
                        /\ file' = [file EXCEPT ![d] = opened + 1]
                        /\ assoc' = [assoc EXCEPT ![d] = opened + 1]
    BY DEF Open
  <1>2. opened \in Nat /\ opened + 1 \in File /\ opened' = opened + 1 /\ call' = call
    BY PortAssumption DEF Open, Tables, TableShape, File
  <1>3. \A c \in Caller : call[c].closing # None => call[c].closing # d
    BY <1>1 DEF Tables, StillOpen
  <1>4. TableShape' /\ CallShape' /\ OneCloser'
    BY <1>1, <1>2 DEF Tables, TableShape, CallShape, OneCloser
  <1>5. StillOpen'
    BY <1>1, <1>2, <1>3 DEF Tables, StillOpen, TableShape, CallShape
  <1>6. Associated'
    BY <1>1, <1>2 DEF Tables, Associated, TableShape, Closing
  <1> QED
    BY <1>4, <1>5, <1>6 DEF Tables

LEMMA CloseStep ==
  ASSUME Tables, NEW c \in Caller, NEW d \in Fd, Close(c, d)
  PROVE  Tables'
  <1>1. d # None /\ call[c].closing = None
    BY PortAssumption DEF Close, Idle
  <1>2. /\ file' = file /\ opened' = opened
        /\ assoc' = [assoc EXCEPT ![d] = None]
        /\ call'[c].closing = d
        /\ \A e \in Caller : e # c => call'[e] = call[e]
    BY DEF Close, Tables, CallShape
  <1>3. TableShape'
    BY <1>2 DEF Tables, TableShape
  <1>4. CallShape'
    BY <1>2 DEF Close, Tables, CallShape
  <1>5. \A e \in Caller : call[e].closing # d
    BY DEF Close, Closing
  <1>6. OneCloser'
    BY <1>1, <1>2, <1>5 DEF Tables, OneCloser
  <1>7. StillOpen'
    BY <1>1, <1>2, <1>5 DEF Tables, StillOpen, TableShape, CallShape, Close
  <1>8. Associated'
    <2> SUFFICES ASSUME NEW x \in Fd, ~Closing(x)' PROVE assoc'[x] = file'[x]
      BY DEF Associated
    <2>1. x # d /\ ~Closing(x)
      BY <1>1, <1>2, PortAssumption DEF Closing
    <2> QED
      BY <2>1, <1>2 DEF Tables, Associated, TableShape
  <1> QED
    BY <1>3, <1>4, <1>6, <1>7, <1>8 DEF Tables

LEMMA CloseFdStep ==
  ASSUME Tables, NEW c \in Caller, CloseFd(c)
  PROVE  Tables'
  <1> DEFINE d == call[c].closing
  <1>1. /\ file' = [file EXCEPT ![d] = None] /\ assoc' = assoc /\ opened' = opened
        /\ call' = [call EXCEPT ![c] = Idle]
    BY DEF CloseFd
  <1>2. /\ call'[c].closing = None
        /\ \A e \in Caller : e # c => call'[e] = call[e]
    BY <1>1 DEF Tables, CallShape, Idle
  <1>3. TableShape'
    BY <1>1 DEF Tables, TableShape
  <1>4. CallShape'
    BY <1>1, <1>2 DEF Tables, CallShape, Idle
  <1>5. OneCloser'
    BY <1>2 DEF Tables, OneCloser
  <1>6. StillOpen'
    BY <1>1, <1>2 DEF Tables, StillOpen, OneCloser, TableShape, CallShape
  <1>7. Associated'
    <2> SUFFICES ASSUME NEW x \in Fd, ~Closing(x)' PROVE assoc'[x] = file'[x]
      BY DEF Associated
    <2>1. CASE x = d
      BY <2>1, <1>1, PortAssumption DEF Tables, StillOpen, TableShape
    <2>2. CASE x # d
      <3>1. ~Closing(x)
        BY <2>2, <1>2 DEF Closing
      <3> QED
        BY <3>1, <2>2, <1>1 DEF Tables, Associated, TableShape
    <2> QED
      BY <2>1, <2>2
  <1> QED
    BY <1>3, <1>4, <1>5, <1>6, <1>7 DEF Tables

LEMMA PumpCloseStep ==
  ASSUME Tables, NEW d \in Fd, PumpClose(d)
  PROVE  Tables'
  <1>1. /\ file' = [file EXCEPT ![d] = None] /\ assoc' = [assoc EXCEPT ![d] = None]
        /\ opened' = opened /\ call' = call
        /\ \A c \in Caller : call[c].closing # d
    BY DEF PumpClose, Closing
  <1>2. TableShape' /\ CallShape' /\ OneCloser'
    BY <1>1 DEF Tables, TableShape, CallShape, OneCloser
  <1>3. StillOpen'
    BY <1>1 DEF Tables, StillOpen, TableShape, CallShape
  <1>4. Associated'
    BY <1>1 DEF Tables, Associated, TableShape, Closing
  <1> QED
    BY <1>2, <1>3, <1>4 DEF Tables
-----------------------------------------------------------------------------
LEMMA NextKInv == KInv /\ [Next]_vars => KInv'
  <1> SUFFICES ASSUME Tables, Ovs, KeyBound, [Next]_vars PROVE KInv'
    BY DEF KInv
  <1>1. CASE GetCall
    <2>1. KeyBound'
      BY <1>1, PortAssumption DEF GetCall, KeyBound, NoPacket
    <2> QED
      BY <1>1, <2>1, TablesStay, OvsStay DEF GetCall, KInv
  <1>2. CASE Flush \/ Arm \/ Timeout \/ TakeWake \/ TakeLastWake \/ TakeCancel
    <2>1. UNCHANGED <<table, call, ov, packet>>
      BY <1>2 DEF Flush, Arm, Timeout, TakeWake, TakeLastWake, TakeCancel, Again
    <2> QED
      BY <2>1, TablesStay, OvsStay, KeyStays DEF KInv
  <1>3. CASE Drain
    <2>1. UNCHANGED <<table, call>>
      BY <1>3 DEF Drain
    <2>2. UNCHANGED <<ov, packet>> \/ \E item : HandBack(item)
      BY <1>3 DEF Drain
    <2>3. Ovs' /\ KeyBound'
      BY <2>2, OvsStay, KeyStays, HandsBack
    <2> QED
      BY <2>1, <2>3, TablesStay DEF KInv
  <1>4. CASE TakeFailed \/ TakeDone
    <2>1. UNCHANGED <<table, call>> /\ \E x, how : Answer(x, how)
      BY <1>4 DEF TakeFailed, TakeDone
    <2> QED
      BY <2>1, TablesStay, Answers DEF KInv
  <1>5. CASE TakeShort
    <2>1. UNCHANGED <<table, call>>
      BY <1>5 DEF TakeShort
    <2> DEFINE c == Head(ring.cq)
    <2>2. CASE Answer(c.op, "failed")
      BY <2>1, <2>2, TablesStay, Answers DEF KInv
    <2>3. CASE ov' = [ov EXCEPT ![c.op].done = @ + c.n] /\ UNCHANGED packet
      <3>1. Ovs'
        BY <2>3, OvsWritten
      <3> QED
        BY <3>1, <2>1, <2>3, TablesStay, KeyStays DEF KInv
    <2> QED
      BY <1>5, <2>2, <2>3 DEF TakeShort
  <1>6. CASE Open
    BY <1>6, OpenStep, OvsStay, KeyStays DEF Open, KInv
  <1>7. ASSUME NEW o \in Op, Complete(o) PROVE KInv'
    <2>1. UNCHANGED <<table, call, packet>>
      BY <1>7 DEF Complete
    <2>2. Ovs'
      BY <1>7 DEF Complete, Ovs, OvShape, Bound
    <2> QED
      BY <2>1, <2>2, TablesStay, KeyStays DEF KInv
  <1>8. ASSUME NEW d \in Fd, PumpClose(d) PROVE KInv'
    BY <1>8, PumpCloseStep, OvsStay, KeyStays DEF PumpClose, KInv
  <1>9. ASSUME NEW d \in Fd, NEW o \in Op, PumpAsk(o, d) PROVE KInv'
    <2>1. UNCHANGED <<table, call, packet>> /\ MayAsk(o, d)
      BY <1>9 DEF PumpAsk
    <2>2. ov' = ov \/ ov' = [ov EXCEPT ![o] = Asked(o, d)]
      BY <1>9 DEF PumpAsk
    <2>3. Ovs'
      BY <2>1, <2>2, OvsStay, OvsAsked
    <2> QED
      BY <2>1, <2>3, TablesStay, KeyStays DEF KInv
  <1>10. ASSUME NEW c \in Caller, NEW d \in Fd, NEW o \in Op, Ask(c, o, d) PROVE KInv'
    <2> DEFINE r == [call[c] EXCEPT !.pc = "push", !.item = Item("io", o, d, None)]
    <2>1. call' = [call EXCEPT ![c] = r] /\ UNCHANGED table
      BY <1>10 DEF Ask
    <2>2. "closing" \in DOMAIN r
      BY DEF Tables, CallShape
    <2>3. r.closing = call[c].closing
      BY DEF Tables, CallShape
    <2> HIDE DEF r
    <2>4. Tables'
      BY <2>1, <2>2, <2>3, TablesStayInCall
    <2>5. Ovs'
      BY <1>10, OvsAsked DEF Ask
    <2> QED
      BY <1>10, <2>4, <2>5, KeyStays DEF Ask, KInv
  <1>11. ASSUME NEW c \in Caller, NEW p \in Packet, Post(c, p) PROVE KInv'
    <2> DEFINE r == [call[c] EXCEPT !.pc = "push", !.item = Item("post", p, None, None)]
    <2>1. call' = [call EXCEPT ![c] = r] /\ UNCHANGED table
      BY <1>11 DEF Post
    <2>2. "closing" \in DOMAIN r
      BY DEF Tables, CallShape
    <2>3. r.closing = call[c].closing
      BY DEF Tables, CallShape
    <2> HIDE DEF r
    <2>4. Tables'
      BY <2>1, <2>2, <2>3, TablesStayInCall
    <2> QED
      BY <1>11, <2>4, OvsStay, KeyStays DEF Post, KInv
  <1>12. ASSUME NEW c \in Caller, NEW d \in Fd, Close(c, d) PROVE KInv'
    BY <1>12, CloseStep, OvsStay, KeyStays DEF Close, KInv
  <1>13. ASSUME NEW c \in Caller, Push(c) \/ Wake(c) PROVE KInv'
    <2>1. UNCHANGED <<table, ov, packet>>
      BY <1>13 DEF Push, Wake
    <2>2. Tables'
      <3>1. CASE Push(c)
        <4> DEFINE r == [call[c] EXCEPT !.pc = "wake", !.item = NoItem]
        <4>1. call' = [call EXCEPT ![c] = r] /\ UNCHANGED table
          BY <3>1 DEF Push
        <4>2. "closing" \in DOMAIN r
          BY DEF Tables, CallShape
        <4>3. r.closing = call[c].closing
          BY DEF Tables, CallShape
        <4> HIDE DEF r
        <4> QED
          BY <4>1, <4>2, <4>3, TablesStayInCall
      <3>2. CASE Wake(c)
        BY <3>2, TablesStayInCall DEF Wake, Tables, CallShape, Idle
      <3> QED
        BY <1>13, <3>1, <3>2
    <2> QED
      BY <2>1, <2>2, OvsStay, KeyStays DEF KInv
  <1>14. ASSUME NEW c \in Caller, CloseFd(c) PROVE KInv'
    BY <1>14, CloseFdStep, OvsStay, KeyStays DEF CloseFd, KInv
  <1>15. CASE UNCHANGED vars
    BY <1>15, TablesStay, OvsStay, KeyStays DEF vars, KInv
  <1> QED
    BY <1>1, <1>2, <1>3, <1>4, <1>5, <1>6, <1>7, <1>8, <1>9, <1>10, <1>11, <1>12, <1>13,
       <1>14, <1>15 DEF Next, PumpStep, CallStep

\* A completion carries the key of the socket its operation was asked for, also
\* when that socket is closed and its number has a new key by then (OVERLAPPED's
\* _p2p_key, bound in submit_rw_ring, read in GetQueuedCompletionStatus).
THEOREM KeysAreBound == Spec => []KeyBound
  <1>1. Init => KInv
    BY InitKInv
  <1>2. KInv /\ [Next]_vars => KInv'
    BY NextKInv
  <1>3. KInv => KeyBound
    BY DEF KInv
  <1> QED
    BY <1>1, <1>2, <1>3, PTL DEF Spec
-----------------------------------------------------------------------------
(* The invariant *)

\* The sockets that are closed, or that a thread is closing.
Gone == {f \in 1 .. opened : \A d \in Fd : file[d] = f => Closing(d)}

\* A socket has one descriptor, and was opened.
FilesOnce ==
  /\ opened <= Files
  /\ \A d \in Fd : file[d] # None => file[d] <= opened
  /\ \A d, e \in Fd : file[d] = file[e] /\ file[d] # None => d = e

OvSet == [pending : BOOLEAN, fd : Fd \cup {None}, key : File \cup {None}, done : 0 .. Parts,
          on : File \cup {None}]
Outside ==
  /\ ov \in [Op -> OvSet]
  /\ post \in [Packet -> {"unposted", "pending", "taken"}]
  /\ pump \in [pc : {"out", "top", "arm", "drain", "wait"}, owner : BOOLEAN]
  /\ packet \in [op : Op \cup Packet \cup {None}, key : File \cup {None},
                 how : {"none", "ok", "failed", "aborted", "posted"}, on : File \cup {None}]

\* An operation asked for has its socket and its descriptor.
PendingOn == \A o \in Op : /\ ov[o].pending => ov[o].on # None
                           /\ ov[o].on # None => ov[o].fd \in Fd

\* What is promised is in one place, and nothing else is in any.
Promised(x) == IF x \in Op THEN ov[x].pending ELSE post[x] = "pending"
Counted == \A x \in Named : InAll(call, queue, ring, x) = One(Promised(x))

WInv ==
  /\ Tables /\ FilesOnce /\ Outside /\ PendingOn /\ Counted
  /\ Placed(Gone, ov) /\ Fitted(call, queue, ring, Gone, ov)

LEMMA GoneIs ==
  ASSUME Tables, FilesOnce
  PROVE  Gone \in SUBSET File /\ file \in [Fd -> File \cup {None}]
BY PortAssumption DEF Gone, Tables, TableShape, FilesOnce, File

\* Steps that leave the tables and the calls alone.
LEMMA TablesLeft ==
  ASSUME WInv, UNCHANGED <<table, call>>
  PROVE  Tables' /\ FilesOnce' /\ Gone' = Gone
<1>1. UNCHANGED <<file, opened, assoc, call>>
  BY DEF table
<1>2. Tables'
  BY TablesStay DEF WInv
<1>3. FilesOnce' /\ Gone' = Gone
  BY <1>1 DEF WInv, FilesOnce, Gone, Closing
<1> QED BY <1>2, <1>3

\* Steps of the ring alone, and of the pump's place.
LEMMA RingStep ==
  ASSUME WInv, UNCHANGED <<table, ov, post, queue, call>>,
         RingOK(ring', Gone, ov), SameIn(ring', ring),
         Outside'
  PROVE  WInv'
<1>1. UNCHANGED <<file, opened, assoc, ov, post, queue, call>>
  BY DEF table
<1>2. Tables' /\ FilesOnce' /\ Gone' = Gone
  BY TablesLeft
<1>3. Placed(Gone, ov)' /\ Fitted(call, queue, ring, Gone, ov)'
  BY <1>1, <1>2 DEF WInv, Placed, Fitted
<1>4. PendingOn'
  BY <1>1 DEF WInv, PendingOn
<1>5. Counted'
  <2>1. ASSUME NEW x \in Named PROVE InAll(call', queue', ring', x) = One(Promised(x)')
    <3>1. InAll(call', queue', ring', x) = InAll(call, queue, ring, x)
      BY <1>1 DEF InAll, SameIn
    <3>2. Promised(x)' = Promised(x)
      BY <1>1 DEF Promised
    <3> QED BY <3>1, <3>2 DEF WInv, Counted
  <2> QED BY <2>1 DEF Counted
<1> QED BY <1>2, <1>3, <1>4, <1>5 DEF WInv

LEMMA OutsideGoto ==
  ASSUME Outside, NEW there \in {"out", "top", "arm", "drain", "wait"}, Goto(there),
         UNCHANGED <<ov, post, packet>>
  PROVE  Outside'
BY DEF Outside, Goto

LEMMA Rings ==
  ASSUME WInv
  PROVE  /\ Placed(Gone, ov) /\ RingOK(ring, Gone, ov) /\ ring \in RingSet /\ SameIn(ring, ring)
         /\ Outside
BY DEF WInv, Fitted, RingOK, SameIn

LEMMA GetCallStep == ASSUME WInv, GetCall PROVE WInv'
<1>1. RingOK(ring', Gone, ov) /\ SameIn(ring', ring)
  <2>1. ring' = ring \/ ring' \in ArmEventfd(ring)
    BY DEF GetCall
  <2> QED BY <2>1, Rings, ArmOK
<1>2. Outside'
  BY Rings DEF GetCall, Outside, NoPacket
<1> QED BY <1>1, <1>2, RingStep DEF GetCall

LEMMA PumpWaits ==
  ASSUME WInv, Flush \/ Arm \/ Timeout PROVE WInv'
<1>1. PICK there \in {"out", "top", "arm", "drain", "wait"} : Goto(there)
  BY DEF Flush, Arm, Timeout
<1>2. /\ UNCHANGED <<table, ov, post, queue, call, packet>>
      /\ ring' = ring \/ ring' \in RingSubmit(ring) \/ ring' \in ArmEventfd(ring)
  BY DEF Flush, Arm, Timeout
<1>3. RingOK(ring', Gone, ov) /\ SameIn(ring', ring)
  BY <1>2, Rings, ArmOK, RingSubmitOK
<1>4. Outside'
  BY <1>1, <1>2, Rings, OutsideGoto
<1> QED BY <1>2, <1>3, <1>4, RingStep

\* Completions that belong to no operation.
LEMMA TakesOwn ==
  ASSUME WInv, TakeWake \/ TakeLastWake \/ TakeCancel PROVE WInv'
<1>1. PICK c : c = Head(ring.cq)
  OBVIOUS
<1>2. /\ ring.cq # <<>> /\ c.how \in {"wake", "wakeLast", "cancelled"} /\ Goto("top")
      /\ UNCHANGED <<table, ov, post, queue, call, packet>>
      /\ ring' = Rested \/ ring' \in ArmEventfd(Rested) \/ ring' = Rest
  BY <1>1 DEF TakeWake, TakeLastWake, TakeCancel, Took, Again, Rearmed
<1>3. /\ c \in Cqes /\ RingOK(Rest, Gone, ov)
      /\ \A x : InRing(ring, x) = InRing(Rest, x) + One(c.op = x)
  BY <1>1, <1>2, Rings, RestOK
<1>4. SameIn(Rest, ring)
  <2>1. c.op = None
    BY <1>2, <1>3, CqeIs
  <2>2. \A x \in Named : One(c.op = x) = 0 /\ InRing(Rest, x) \in Nat
    BY <1>3, <2>1, NamedIs, OneIs, RingNumbers DEF RingOK
  <2> QED BY <1>3, <2>2 DEF SameIn
<1>5. RingOK(Rested, Gone, ov) /\ SameIn(Rested, Rest)
  <2>1. PICK p, q : p = Rest /\ q = Rested
    OBVIOUS
  <2>2. p \in RingSet /\ q = [p EXCEPT !.signalled = FALSE]
    BY <1>3, <2>1 DEF RingOK, Rested
  <2>3. /\ q \in RingSet /\ q.sq = p.sq /\ q.cq = p.cq /\ q.inflight = p.inflight
        /\ q.dups = p.dups
    BY <2>2 DEF RingSet
  <2>4. RingOK(q, Gone, ov) /\ SameIn(q, p)
    BY <1>3, <2>1, <2>3, Flagged
  <2> QED BY <2>1, <2>4
<1>6. SameIn(Rested, ring)
  BY <1>4, <1>5, SameTrans
<1>7. RingOK(ring', Gone, ov) /\ SameIn(ring', ring)
  <2>1. CASE ring' \in ArmEventfd(Rested)
    <3>1. RingOK(ring', Gone, ov) /\ SameIn(ring', Rested)
      BY <1>5, <2>1, Rings, ArmOK
    <3> QED BY <1>6, <3>1, SameTrans
  <2> QED BY <1>2, <1>3, <1>4, <1>5, <1>6, <2>1
<1>8. PICK there \in {"out", "top", "arm", "drain", "wait"} : there = "top"
  OBVIOUS
<1>9. Outside'
  BY <1>2, <1>8, Rings, OutsideGoto
<1> QED BY <1>2, <1>7, <1>9, RingStep

\* The kernel moves an operation from what is in flight to what is completed.
LEMMA CompleteStep == ASSUME WInv, NEW o \in Op, Complete(o) PROVE WInv'
<1>1. UNCHANGED <<table, ov, post, queue, call, pump, packet>> /\ ring.inflight[o] # None
  BY DEF Complete
<1>2. PICK c \in Cqes : /\ c.op = o /\ c.how # "aborted"
                        /\ ring' = [ring EXCEPT !.inflight[o] = None, !.cq = Append(@, c)]
  <2>1. ov[o].done \in 0 .. Parts
    BY Rings DEF Outside, OvSet
  <2>2. ASSUME NEW n \in 1 .. IF o \in Writes THEN Parts - ov[o].done ELSE 1
        PROVE  /\ Cqe("moved", o, n) \in Cqes /\ Cqe("moved", o, n).op = o
               /\ Cqe("moved", o, n).how # "aborted"
    <3>1. n \in 1 .. Parts
      BY <2>1, PortAssumption
    <3> QED BY <3>1 DEF Cqe, Cqes
  <2>3. /\ Cqe("failed", o, 0) \in Cqes /\ Cqe("failed", o, 0).op = o
        /\ Cqe("failed", o, 0).how # "aborted"
    BY DEF Cqe, Cqes
  <2> QED BY <2>2, <2>3 DEF Complete
<1>3. PICK r : r = ring
  OBVIOUS
<1>4. /\ r \in RingSet /\ RingOK(r, Gone, ov) /\ r.cq \in Seq(Cqes)
      /\ r.inflight \in [Op -> File \cup {None}] /\ r.inflight[o] # None
  BY <1>1, <1>3, Rings DEF RingSet
<1>5. /\ ring'.sq = r.sq /\ ring'.dups = r.dups /\ ring'.cq = Append(r.cq, c)
      /\ ring'.inflight = [r.inflight EXCEPT ![o] = None]
      /\ ring' \in RingSet
  <2>1. Append(r.cq, c) \in Seq(Cqes) /\ [r.inflight EXCEPT ![o] = None] \in [Op -> File \cup {None}]
    BY <1>4
  <2> QED BY <1>2, <1>3, <1>4, <2>1 DEF RingSet
<1>6. ASSUME NEW x \in Named PROVE InRing(ring', x) = InRing(r, x)
  <2>1. Times(ring'.cq, x) = Times(r.cq, x) + One(c.op = x)
    BY <1>4, <1>5, TimesAppend
  <2>2. One(x \in Op /\ ring'.inflight[x] # None) + One(c.op = x) = One(x \in Op /\ r.inflight[x] # None)
    <3>1. CASE x = o
      BY <1>2, <1>4, <1>5, <3>1 DEF One
    <3>2. CASE x # o
      <4>1. (x \in Op /\ ring'.inflight[x] # None) <=> (x \in Op /\ r.inflight[x] # None)
        BY <1>4, <1>5, <3>2
      <4>2. One(x \in Op /\ ring'.inflight[x] # None) = One(x \in Op /\ r.inflight[x] # None)
        BY <4>1 DEF One
      <4>3. One(c.op = x) = 0 /\ One(x \in Op /\ r.inflight[x] # None) \in {0, 1}
        BY <1>2, <3>2 DEF One
      <4> QED BY <4>2, <4>3
    <3> QED BY <3>1, <3>2
  <2>3. /\ Times(r.sq, x) \in Nat /\ Times(r.cq, x) \in Nat /\ One(c.op = x) \in {0, 1}
        /\ One(x \in Op /\ ring'.inflight[x] # None) \in {0, 1}
    BY <1>4, RingNumbers, OneIs
  <2> QED BY <1>5, <2>1, <2>2, <2>3 DEF InRing
<1>7. SameIn(ring', ring)
  BY <1>3, <1>6 DEF SameIn
<1>8. RingOK(ring', Gone, ov)
  <2>1. \A p \in Op : ring'.inflight[p] # None => ring'.inflight[p] = r.inflight[p]
    BY <1>4, <1>5
  <2>2. \A n \in DOMAIN ring'.cq : ring'.cq[n].how = "aborted" => n \in DOMAIN r.cq /\ ring'.cq[n] = r.cq[n]
    BY <1>2, <1>4, <1>5
  <2>3. RingFits(ring', Gone, ov)
    BY <1>4, <1>5, <2>1, <2>2 DEF RingOK, RingFits
  <2>4. \A p \in Op : InRing(ring', p) <= 1
    BY <1>4, <1>6 DEF RingOK, Named
  <2> QED BY <1>4, <1>5, <2>3, <2>4 DEF RingOK
<1>9. Outside'
  BY <1>1, Rings DEF Outside
<1> QED BY <1>1, <1>7, <1>8, <1>9, RingStep
-----------------------------------------------------------------------------
(* Packets are handed back *)

LEMMA PromisedIs ==
  ASSUME WInv, NEW x \in Named
  PROVE  InAll(call, queue, ring, x) = One(Promised(x)) /\ InAll(call, queue, ring, x) \in {0, 1}
BY OneIs DEF WInv, Counted

LEMMA AnswerStep ==
  ASSUME WInv, UNCHANGED <<table, call>>, NEW o \in Op, NEW how \in {"ok", "failed", "aborted"},
         Answer(o, how), Fitted(call, queue', ring', Gone, ov),
         \A x \in Named : InAll(call, queue, ring, x) = InAll(call, queue', ring', x) + One(o = x)
  PROVE  WInv'
<1>1. Tables' /\ FilesOnce' /\ Gone' = Gone
  BY TablesLeft
<1>2. /\ packet' = [op |-> o, how |-> how, key |-> ov[o].key, on |-> ov[o].on]
      /\ ov' = [ov EXCEPT ![o] = FreeOv]
      /\ pump' = [pump EXCEPT !.pc = "out"]
      /\ UNCHANGED <<post, file, call>>
  BY DEF Answer, Key, Goto, table
<1>3. ov \in [Op -> OvSet] /\ Outside
  BY Rings DEF Outside
<1>4. ov' \in [Op -> OvSet] /\ ov'[o] = FreeOv /\ \A p \in Op : p # o => ov'[p] = ov[p]
  <2>1. FreeOv \in OvSet
    BY PortAssumption DEF FreeOv, OvSet
  <2> QED BY <1>2, <1>3, <2>1
<1>5. Outside'
  BY <1>2, <1>3, <1>4 DEF Outside, OvSet
<1>6. PendingOn'
  <2>1. ~ov'[o].pending /\ ov'[o].on = None
    BY <1>4 DEF FreeOv
  <2> QED BY <1>4, <2>1 DEF WInv, PendingOn
<1>7. ASSUME NEW x \in Named PROVE InAll(call, queue', ring', x) \in Nat
  BY AllNumbers DEF InAll
<1>8. InAll(call, queue', ring', o) = 0
  <2>1. o \in Named /\ One(o = o) = 1
    BY DEF Named, One
  <2>2. InAll(call, queue, ring, o) \in {0, 1}
    BY <2>1, PromisedIs
  <2>3. InAll(call, queue', ring', o) \in Nat
    BY <2>1, <1>7
  <2> QED BY <2>1, <2>2, <2>3
<1>9. Fitted(call, queue', ring', Gone, ov')
  <2>1. PICK q, r, V : q = queue' /\ r = ring' /\ V = ov'
    OBVIOUS
  <2>2. Fitted(call, q, r, Gone, ov)
    BY <2>1
  <2>3. \A p \in Op : InAll(call, q, r, p) = 0 \/ (V[p].fd = ov[p].fd /\ V[p].on = ov[p].on)
    <3> TAKE p \in Op
    <3>1. CASE p = o
      BY <1>8, <2>1, <3>1
    <3>2. CASE p # o
      BY <1>4, <2>1, <3>2
    <3> QED BY <3>1, <3>2
  <2>4. Fitted(call, q, r, Gone, V)
    BY <2>2, <2>3, FittedTo
  <2> QED BY <2>1, <2>4
<1>10. Placed(Gone, ov)'
  <2>1. ov'[o].on = None
    BY <1>4 DEF FreeOv
  <2> QED BY <1>1, <1>2, <1>4, <2>1, Rings DEF Placed
<1>11. Counted'
  <2>1. ASSUME NEW x \in Named PROVE InAll(call, queue', ring', x) = One(Promised(x)')
    <3>1. CASE x = o
      <4>1. ~Promised(x)'
        BY <1>4, <3>1 DEF Promised, FreeOv
      <4> QED BY <1>8, <3>1, <4>1 DEF One
    <3>2. CASE x # o
      <4>1. Promised(x)' = Promised(x)
        BY <1>2, <1>4, <3>2 DEF Promised
      <4>2. One(o = x) = 0
        BY <3>2 DEF One
      <4> QED BY <4>1, <4>2, <1>7, PromisedIs
    <3> QED BY <3>1, <3>2
  <2> QED BY <1>2, <2>1 DEF Counted
<1> QED BY <1>1, <1>2, <1>5, <1>6, <1>9, <1>10, <1>11 DEF WInv

\* What is left when the first completion is an operation's.
LEMMA RestAll ==
  ASSUME WInv, ring.cq # <<>>, NEW c, c = Head(ring.cq)
  PROVE  /\ c \in Cqes /\ Fitted(call, queue, Rest, Gone, ov)
         /\ \A x : /\ InAll(call, queue, ring, x) = InAll(call, queue, Rest, x) + One(c.op = x)
                   /\ InAll(call, queue, Rest, x) \in Nat /\ One(c.op = x) \in {0, 1}
<1>1. /\ c \in Cqes /\ RingOK(Rest, Gone, ov)
      /\ \A x : InRing(ring, x) = InRing(Rest, x) + One(c.op = x)
  BY Rings, RestOK
<1>2. Fitted(call, queue, Rest, Gone, ov)
  BY <1>1 DEF WInv, Fitted
<1>3. ASSUME NEW x
      PROVE  /\ InAll(call, queue, ring, x) = InAll(call, queue, Rest, x) + One(c.op = x)
             /\ InAll(call, queue, Rest, x) \in Nat /\ One(c.op = x) \in {0, 1}
  <2>1. InCalls(call, x) \in Nat /\ Times(queue, x) \in Nat /\ InRing(Rest, x) \in Nat
    BY <1>2, AllNumbers
  <2>2. One(c.op = x) \in {0, 1} /\ InRing(ring, x) = InRing(Rest, x) + One(c.op = x)
    BY <1>1, OneIs
  <2> QED BY <2>1, <2>2 DEF InAll
<1> QED BY <1>1, <1>2, <1>3

LEMMA TakeAnswer ==
  ASSUME WInv, TakeFailed \/ TakeDone PROVE WInv'
<1>1. PICK c : c = Head(ring.cq)
  OBVIOUS
<1>2. PICK how \in {"ok", "failed", "aborted"} : Answer(c.op, how)
  <2>1. CASE TakeFailed
    BY <1>1, <2>1 DEF TakeFailed, Took
  <2>2. CASE TakeDone
    BY <1>1, <2>2 DEF TakeDone
  <2> QED BY <2>1, <2>2
<1>3. /\ ring.cq # <<>> /\ c.how \in {"failed", "aborted", "moved"} /\ ring' = Rest
      /\ UNCHANGED <<table, queue, call>>
  BY <1>1 DEF TakeFailed, TakeDone, Took
<1>4. /\ c \in Cqes /\ Fitted(call, queue, Rest, Gone, ov)
      /\ \A x : InAll(call, queue, ring, x) = InAll(call, queue, Rest, x) + One(c.op = x)
  BY <1>1, <1>3, RestAll
<1>5. PICK o \in Op : o = c.op
  BY <1>3, <1>4, CqeIs
<1>6. /\ Answer(o, how) /\ Fitted(call, queue', ring', Gone, ov)
      /\ \A x \in Named : InAll(call, queue, ring, x) = InAll(call, queue', ring', x) + One(o = x)
  BY <1>2, <1>3, <1>4, <1>5
<1> QED BY <1>3, <1>6, AnswerStep

\* An operation keeps its descriptor and socket, and stays promised.
LEMMA OnwardStep ==
  ASSUME WInv, UNCHANGED <<table, call, queue, post, packet>>, NEW o \in Op, NEW n \in 0 .. Parts,
         ov' = [ov EXCEPT ![o].done = n], Goto("top"),
         Fitted(call, queue, ring', Gone, ov),
         \A x \in Named : InAll(call, queue, ring', x) = InAll(call, queue, ring, x)
  PROVE  WInv'
<1>1. Tables' /\ FilesOnce' /\ Gone' = Gone
  BY TablesLeft
<1>2. ov \in [Op -> OvSet] /\ Outside /\ UNCHANGED <<file, post, queue, call>>
  BY Rings DEF Outside, table
<1>3. /\ ov' \in [Op -> OvSet]
      /\ \A p \in Op : ov'[p].pending = ov[p].pending /\ ov'[p].fd = ov[p].fd /\ ov'[p].on = ov[p].on
  BY <1>2 DEF OvSet
<1>4. Outside'
  BY <1>2, <1>3 DEF Outside, Goto
<1>5. PendingOn' /\ Placed(Gone, ov)'
  BY <1>1, <1>2, <1>3 DEF WInv, PendingOn, Placed
<1>6. Fitted(call, queue, ring', Gone, ov')
  BY <1>3, FittedTo
<1>7. Counted'
  <2>1. ASSUME NEW x \in Named PROVE InAll(call', queue', ring', x) = One(Promised(x)')
    <3>1. Promised(x)' = Promised(x)
      BY <1>2, <1>3 DEF Promised
    <3> QED BY <1>2, <3>1, PromisedIs
  <2> QED BY <2>1 DEF Counted
<1> QED BY <1>1, <1>2, <1>4, <1>5, <1>6, <1>7 DEF WInv

LEMMA TakeShortStep == ASSUME WInv, TakeShort PROVE WInv'
<1>1. PICK c : c = Head(ring.cq)
  OBVIOUS
<1>2. /\ ring.cq # <<>> /\ c.how = "moved" /\ ~IsAll(c)
      /\ UNCHANGED <<table, queue, call>>
  BY <1>1 DEF TakeShort, Took
<1>3. /\ c \in Cqes /\ Fitted(call, queue, Rest, Gone, ov)
      /\ \A x : /\ InAll(call, queue, ring, x) = InAll(call, queue, Rest, x) + One(c.op = x)
                /\ InAll(call, queue, Rest, x) \in Nat
  BY <1>1, <1>2, RestAll
<1>4. PICK o \in Op : o = c.op
  BY <1>2, <1>3, CqeIs
<1>5. InAll(call, queue, Rest, o) = 0 /\ Promised(o)
  <2>1. o \in Named /\ One(c.op = o) = 1
    BY <1>4 DEF Named, One
  <2>2. InAll(call, queue, ring, o) = One(Promised(o)) /\ InAll(call, queue, ring, o) \in {0, 1}
    BY <2>1, PromisedIs
  <2>3. InAll(call, queue, Rest, o) = 0 /\ One(Promised(o)) = 1
    BY <1>3, <2>1, <2>2
  <2> QED BY <2>3 DEF One
<1>6. ov[o].pending /\ ov[o].fd \in Fd /\ ov[o].on # None
  <2>1. ov[o].pending
    BY <1>5 DEF Promised
  <2>2. PendingOn
    BY DEF WInv
  <2> QED BY <2>1, <2>2 DEF PendingOn
<1>7. PICK e : e = Item("io", o, ov[o].fd, None)
  OBVIOUS
<1>8. e \in Prepares /\ EntryFits(e, Gone, ov) /\ e.op = o
  BY <1>6, <1>7 DEF Prepares, Requests, Item, EntryFits
<1>9. InRing(Rest, o) = 0 /\ RingOK(Rest, Gone, ov)
  BY <1>3, <1>5, AllNumbers DEF InAll, Fitted
<1>10. PICK s \in SubmitNow(Rest, e) :
         /\ ring' = s.ring
         /\ IF s.ok THEN Goto("top") /\ ov' = [ov EXCEPT ![o].done = @ + c.n]
                                     /\ UNCHANGED <<post, packet>>
                    ELSE Answer(o, "failed")
  BY <1>1, <1>4, <1>7 DEF TakeShort
<1>11. /\ RingOK(s.ring, Gone, ov)
       /\ s.ok => \A x \in Named : InRing(s.ring, x) = InRing(Rest, x) + One(e.op = x)
       /\ ~s.ok => SameIn(s.ring, Rest)
  BY <1>8, <1>9, Rings, SubmitNowOK
<1>12. Fitted(call, queue, ring', Gone, ov)
  BY <1>3, <1>10, <1>11 DEF Fitted
<1>13. ASSUME NEW x \in Named
       PROVE  /\ InCalls(call, x) \in Nat /\ Times(queue, x) \in Nat
              /\ InRing(Rest, x) \in Nat /\ One(o = x) \in {0, 1}
              /\ InAll(call, queue, ring, x) = InAll(call, queue, Rest, x) + One(o = x)
  BY <1>3, <1>4, AllNumbers, OneIs
<1>14. CASE s.ok
  <2>1. \A x \in Named : InAll(call, queue, ring', x) = InAll(call, queue, ring, x)
    BY <1>8, <1>10, <1>11, <1>13, <1>14 DEF InAll
  <2>2. PICK n : n = ov[o].done + c.n
    OBVIOUS
  <2>3. n \in 0 .. Parts
    <3>1. ov[o].done \in 0 .. Parts /\ c.n \in 1 .. Parts
      BY <1>2, <1>3, Rings, CqeIs DEF Outside, OvSet
    <3>2. n < Parts
      BY <1>2, <1>4, <2>2, <3>1, PortAssumption DEF IsAll
    <3> QED BY <2>2, <3>1, <3>2, PortAssumption
  <2>4. ov' = [ov EXCEPT ![o].done = n] /\ Goto("top") /\ UNCHANGED <<post, packet>>
    BY <1>10, <1>14, <2>2
  <2> QED BY <1>2, <1>12, <2>1, <2>3, <2>4, OnwardStep
<1>15. CASE ~s.ok
  <2>1. \A x \in Named : InAll(call, queue, ring, x) = InAll(call, queue', ring', x) + One(o = x)
    BY <1>2, <1>10, <1>11, <1>13, <1>15 DEF InAll, SameIn
  <2>2. PICK how \in {"ok", "failed", "aborted"} : how = "failed"
    OBVIOUS
  <2>3. Answer(o, how) /\ Fitted(call, queue', ring', Gone, ov)
    BY <1>2, <1>10, <1>12, <1>15, <2>2
  <2> QED BY <1>2, <2>1, <2>3, AnswerStep
<1> QED BY <1>14, <1>15
-----------------------------------------------------------------------------
(* The queue is drained *)

\* What is promised moves between the places.
LEMMA MovedStep ==
  ASSUME WInv, UNCHANGED <<table, ov, post, call>>, Outside', Fitted(call, queue', ring', Gone, ov),
         \A x \in Named : InAll(call, queue', ring', x) = InAll(call, queue, ring, x)
  PROVE  WInv'
<1>1. UNCHANGED <<file, opened, assoc, ov, post, call>>
  BY DEF table
<1>2. Tables' /\ FilesOnce' /\ Gone' = Gone
  BY TablesLeft
<1>3. Placed(Gone, ov)' /\ PendingOn'
  BY <1>1, <1>2 DEF WInv, Placed, PendingOn
<1>4. Fitted(call, queue, ring, Gone, ov)'
  BY <1>1, <1>2
<1>5. Counted'
  <2>1. ASSUME NEW x \in Named PROVE InAll(call', queue', ring', x) = One(Promised(x)')
    <3>1. Promised(x)' = Promised(x)
      BY <1>1 DEF Promised
    <3> QED BY <1>1, <3>1 DEF WInv, Counted
  <2> QED BY <2>1 DEF Counted
<1> QED BY <1>2, <1>3, <1>4, <1>5 DEF WInv

LEMMA WaitingFits ==
  ASSUME NEW q \in Seq(Waiting), NEW D, NEW W
  PROVE  QueueFits(q, D, W)
<1>1. q \in Seq(Queued)
  <2>1. \A n \in 1 .. Len(q) : q[n] \in Queued
    BY DEF Queued
  <2> QED BY <2>1
<1>2. \A n \in DOMAIN q : q[n].kind = "post"
  <2>1. \A n \in DOMAIN q : q[n] \in Waiting
    OBVIOUS
  <2> QED BY <2>1 DEF Waiting
<1> QED BY <1>1, <1>2 DEF QueueFits, EntryFits

\* A posted packet is handed back.
LEMMA PostedStep ==
  ASSUME WInv, UNCHANGED <<table, call, ov>>, NEW p \in Packet,
         packet' = [NoPacket EXCEPT !.op = p, !.how = "posted"],
         post' = [post EXCEPT ![p] = "taken"], Goto("out"),
         Fitted(call, queue', ring', Gone, ov),
         \A x \in Named : InAll(call, queue, ring, x) = InAll(call, queue', ring', x) + One(p = x)
  PROVE  WInv'
<1>1. Tables' /\ FilesOnce' /\ Gone' = Gone
  BY TablesLeft
<1>2. UNCHANGED <<file, call, ov>> /\ Outside
  BY Rings DEF table
<1>3. Outside'
  <2>1. post' \in [Packet -> {"unposted", "pending", "taken"}]
    BY <1>2 DEF Outside
  <2>2. packet' \in [op : Op \cup Packet \cup {None}, key : File \cup {None},
                 how : {"none", "ok", "failed", "aborted", "posted"}, on : File \cup {None}]
    BY DEF NoPacket
  <2>3. pump' \in [pc : {"out", "top", "arm", "drain", "wait"}, owner : BOOLEAN]
    BY <1>2 DEF Outside, Goto
  <2> QED BY <1>2, <2>1, <2>2, <2>3 DEF Outside
<1>4. Placed(Gone, ov)' /\ PendingOn' /\ Fitted(call, queue, ring, Gone, ov)'
  BY <1>1, <1>2 DEF WInv, Placed, PendingOn
<1>5. Counted'
  <2>1. ASSUME NEW x \in Named PROVE InAll(call, queue', ring', x) = One(Promised(x)')
    <3>1. InAll(call, queue', ring', x) \in Nat
      BY AllNumbers DEF InAll
    <3>2. InAll(call, queue, ring, x) = One(Promised(x)) /\ InAll(call, queue, ring, x) \in {0, 1}
      BY PromisedIs
    <3>3. CASE x = p
      <4>1. x \notin Op /\ post'[p] = "taken"
        BY <1>2, <3>3, PortAssumption DEF Outside
      <4>2. ~Promised(x)' /\ One(p = x) = 1
        BY <3>3, <4>1 DEF Promised, One
      <4> QED BY <3>1, <3>2, <4>2 DEF One
    <3>4. CASE x # p
      <4>1. Promised(x)' = Promised(x)
        <5>1. x \in Packet => post'[x] = post[x]
          BY <1>2, <3>4 DEF Outside
        <5> QED BY <1>2, <5>1 DEF Promised, Named
      <4>2. One(p = x) = 0
        BY <3>4 DEF One
      <4> QED BY <3>1, <3>2, <4>1, <4>2
    <3> QED BY <3>3, <3>4
  <2> QED BY <1>2, <2>1 DEF Counted
<1> QED BY <1>1, <1>3, <1>4, <1>5 DEF WInv

LEMMA DrainStep == ASSUME WInv, Drain PROVE WInv'
<1>1. PICK v \in SubmitAll :
        /\ ring' \in IF v.some THEN RingSubmit(v.ring) ELSE {v.ring}
        /\ IF v.posts \o v.failed = <<>>
             THEN queue' = <<>> /\ Goto("wait") /\ UNCHANGED <<ov, post, packet>>
             ELSE queue' = Tail(v.posts \o v.failed) /\ HandBack(Head(v.posts \o v.failed))
  BY DEF Drain
<1>2. UNCHANGED <<table, call>>
  BY DEF Drain
<1>3. ASSUME NEW x PROVE /\ InCalls(call, x) \in Nat /\ Times(queue, x) \in Nat
                         /\ InRing(ring, x) \in Nat
  BY AllNumbers DEF WInv
<1>4. \A o \in Op : Times(queue, o) + InRing(ring, o) <= 1
  <2> TAKE o \in Op
  <2>1. InAll(call, queue, ring, o) \in {0, 1}
    BY PromisedIs DEF Named
  <2> QED BY <1>3, <2>1 DEF InAll
<1>5. /\ v \in Pieces /\ RingOK(v.ring, Gone, ov)
      /\ \A x \in Named : Held(v, x) = Times(queue, x) + InRing(ring, x)
  <2>1. queue \in Seq(Queued) /\ \A n \in DOMAIN queue : EntryFits(queue[n], Gone, ov)
    BY DEF WInv, Fitted, QueueFits
  <2> QED BY <1>4, <2>1, Rings, SubmitAllOK
<1>6. RingOK(ring', Gone, ov) /\ SameIn(ring', v.ring)
  <2>1. ring' = v.ring \/ ring' \in RingSubmit(v.ring)
    BY <1>1
  <2> QED BY <1>5, <2>1, Rings, RingSubmitOK DEF SameIn
<1>7. PICK back : back = v.posts \o v.failed
  OBVIOUS
<1>8. v.posts \in Seq(Waiting) /\ v.failed \in Seq(Waiting) /\ back \in Seq(Waiting)
  BY <1>5, <1>7 DEF Pieces
<1>9. ASSUME NEW x \in Named
      PROVE  /\ Times(back, x) \in Nat /\ InRing(ring', x) \in Nat
             /\ Times(back, x) + InRing(ring', x) = Times(queue, x) + InRing(ring, x)
  <2>1. Times(back, x) = Times(v.posts, x) + Times(v.failed, x)
    BY <1>7, <1>8, TimesConcat
  <2>2. InRing(ring', x) = InRing(v.ring, x) /\ InRing(v.ring, x) \in Nat
    BY <1>5, <1>6, RingNumbers DEF SameIn, RingOK
  <2>3. Times(v.posts, x) \in Nat /\ Times(v.failed, x) \in Nat
    BY <1>8, TimesAhead
  <2>4. Times(v.posts, x) + Times(v.failed, x) + InRing(v.ring, x) = Times(queue, x) + InRing(ring, x)
    BY <1>5 DEF Held
  <2> QED BY <2>1, <2>2, <2>3, <2>4
<1>10. CASE back = <<>>
  <2>1. queue' = <<>> /\ Goto("wait") /\ UNCHANGED <<ov, post, packet>>
    BY <1>1, <1>7, <1>10
  <2>2. PICK there \in {"out", "top", "arm", "drain", "wait"} : there = "wait"
    OBVIOUS
  <2>3. Outside'
    BY <2>1, <2>2, Rings, OutsideGoto
  <2>4. PICK z : z = <<>>
    OBVIOUS
  <2>5. queue' = z /\ QueueFits(z, Gone, ov)
    <3>1. z \in Seq(Waiting)
      BY <2>4
    <3> QED BY <2>1, <2>4, <3>1, WaitingFits
  <2>6. Fitted(call, queue', ring', Gone, ov)
    BY <1>6, <2>5 DEF Fitted, WInv
  <2>7. ASSUME NEW x \in Named PROVE InAll(call, queue', ring', x) = InAll(call, queue, ring, x)
    <3>1. Times(queue', x) = Times(back, x)
      BY <1>10, <2>1
    <3> QED BY <1>3, <1>9, <3>1 DEF InAll
  <2> QED BY <1>2, <2>1, <2>3, <2>6, <2>7, MovedStep
<1>11. CASE back # <<>>
  <2>1. PICK h, t : h = Head(back) /\ t = Tail(back)
    OBVIOUS
  <2>2. queue' = t /\ HandBack(h)
    BY <1>1, <1>7, <1>11, <2>1
  <2>3. t \in Seq(Waiting) /\ h \in Waiting
    BY <1>8, <1>11, <2>1
  <2>4. Fitted(call, queue', ring', Gone, ov)
    BY <1>6, <2>2, <2>3, WaitingFits DEF Fitted, WInv
  <2>5. ASSUME NEW x \in Named
        PROVE  InAll(call, queue, ring, x) = InAll(call, queue', ring', x) + One(h.op = x)
    <3>1. Times(back, x) = Times(t, x) + One(h.op = x)
      BY <1>8, <1>11, <2>1, TimesTail
    <3>2. Times(t, x) \in Nat /\ One(h.op = x) \in {0, 1}
      BY <2>3, TimesAhead, OneIs
    <3> QED BY <1>3, <1>9, <2>2, <3>1, <3>2 DEF InAll
  <2>6. CASE h.op \in Op
    <3>1. PICK o \in Op, how \in {"ok", "failed", "aborted"} : o = h.op /\ how = "failed"
      BY <2>6
    <3>2. Answer(o, how)
      BY <2>2, <3>1 DEF HandBack
    <3>3. \A x \in Named : InAll(call, queue, ring, x) = InAll(call, queue', ring', x) + One(o = x)
      BY <2>5, <3>1
    <3> QED BY <1>2, <2>4, <3>2, <3>3, AnswerStep
  <2>7. CASE h.op \notin Op
    <3>1. PICK p \in Packet : p = h.op
      BY <2>3, <2>7 DEF Waiting
    <3>2. /\ packet' = [NoPacket EXCEPT !.op = p, !.how = "posted"]
          /\ post' = [post EXCEPT ![p] = "taken"] /\ Goto("out") /\ UNCHANGED ov
      BY <2>2, <2>7, <3>1 DEF HandBack
    <3>3. \A x \in Named : InAll(call, queue, ring, x) = InAll(call, queue', ring', x) + One(p = x)
      BY <2>5, <3>1
    <3> QED BY <1>2, <2>4, <3>2, <3>3, PostedStep
  <2> QED BY <2>6, <2>7
<1> QED BY <1>10, <1>11
-----------------------------------------------------------------------------
(* Calls from other threads *)

\* A thread's call moves on, and closes no other descriptor than before.
LEMMA CallMoves ==
  ASSUME WInv, UNCHANGED table, NEW c \in Caller, NEW k \in CallRec,
         call' = [call EXCEPT ![c] = k], k.closing = call[c].closing,
         Outside', PendingOn', Placed(Gone, ov'),
         CallFits(k, Gone, ov'), Fitted(call, queue', ring', Gone, ov'),
         \A x \in Named :
           Times(queue', x) + InRing(ring', x) + One(k.item.op = x) + One(Promised(x))
             = Times(queue, x) + InRing(ring, x) + One(call[c].item.op = x) + One(Promised(x)')
  PROVE  WInv'
<1>1. UNCHANGED <<file, opened>> /\ call \in [Caller -> CallRec] /\ "closing" \in DOMAIN k
  BY DEF table, WInv, Fitted, CallsFit, CallRec
<1>2. \A e \in Caller : call'[e].closing = call[e].closing
  BY <1>1
<1>3. Tables' /\ FilesOnce' /\ Gone' = Gone
  <2>1. Tables'
    BY <1>1, TablesStayInCall DEF WInv
  <2>2. FilesOnce'
    BY <1>1 DEF WInv, FilesOnce
  <2>3. \A d : Closing(d)' <=> Closing(d)
    BY <1>2 DEF Closing
  <2>4. Gone' = Gone
    BY <1>1, <2>3 DEF Gone
  <2> QED BY <2>1, <2>2, <2>4
<1>4. Placed(Gone, ov)'
  BY <1>1, <1>3 DEF Placed
<1>5. Fitted(call, queue, ring, Gone, ov)'
  <2>1. CallsFit(call', Gone, ov')
    <3>1. call' \in [Caller -> CallRec]
      BY <1>1
    <3>2. \A e \in Caller : CallFits(call'[e], Gone, ov')
      <4> TAKE e \in Caller
      <4>1. CASE e = c
        <5>1. call'[e] = k
          BY <1>1, <4>1
        <5> QED BY <5>1
      <4>2. CASE e # c
        <5>1. call'[e] = call[e] /\ CallFits(call[e], Gone, ov')
          BY <1>1, <4>2 DEF Fitted, CallsFit
        <5> QED BY <5>1
      <4> QED BY <4>1, <4>2
    <3> QED BY <3>1, <3>2 DEF CallsFit
  <2> QED BY <1>3, <2>1 DEF Fitted
<1>6. Counted'
  <2>1. ASSUME NEW x \in Named PROVE InAll(call', queue', ring', x) = One(Promised(x)')
    <3>1. /\ InCalls(call, x) \in Nat /\ InCalls(call', x) \in Nat
          /\ InCalls(call', x) + One(call[c].item.op = x) = InCalls(call, x) + One(k.item.op = x)
      <4>1. PICK B : B = call'
        OBVIOUS
      <4>2. B[c] = k /\ \A e \in Caller \ {c} : B[e] = call[e]
        BY <1>1, <4>1
      <4>3. /\ InCalls(call, x) \in Nat /\ InCalls(B, x) \in Nat
            /\ InCalls(B, x) + One(call[c].item.op = x) = InCalls(call, x) + One(k.item.op = x)
        BY <4>2, InCallsSet
      <4> QED BY <4>1, <4>3
    <3>2. Times(queue', x) \in Nat /\ InRing(ring', x) \in Nat
      BY AllNumbers
    <3>3. Times(queue, x) \in Nat /\ InRing(ring, x) \in Nat
      BY AllNumbers DEF WInv
    <3>4. /\ One(call[c].item.op = x) \in {0, 1} /\ One(k.item.op = x) \in {0, 1}
          /\ One(Promised(x)) \in {0, 1} /\ One(Promised(x)') \in {0, 1}
      BY OneIs
    <3>5. InCalls(call, x) + Times(queue, x) + InRing(ring, x) = One(Promised(x))
      BY DEF WInv, Counted, InAll
    <3> QED BY <3>1, <3>2, <3>3, <3>4, <3>5 DEF InAll
  <2> QED BY <2>1 DEF Counted
<1> QED BY <1>3, <1>4, <1>5, <1>6 DEF WInv

\* An operation is asked for on an open socket.
LEMMA AskedOK ==
  ASSUME WInv, NEW o \in Op, NEW d \in Fd, MayAsk(o, d),
         NEW V, V[o] = Asked(o, d), \A p \in Op \ {o} : V[p] = ov[p]
  PROVE  /\ Asked(o, d) \in OvSet /\ Placed(Gone, V) /\ Fitted(call, queue, ring, Gone, V)
         /\ \A p \in Op : /\ V[p].pending => V[p].on # None
                          /\ V[p].on # None => V[p].fd \in Fd
         /\ V[o].pending /\ ~ov[o].pending /\ V[o].fd = d /\ V[o].on # None
<1>1. Asked(o, d) \in OvSet
  BY PortAssumption DEF WInv, Tables, TableShape, Asked, OvSet
<1>2. ov \in [Op -> OvSet] /\ ~ov[o].pending /\ file[d] # None
  BY Rings DEF Outside, MayAsk
<1>4. V[o].pending /\ V[o].fd = d /\ V[o].on = file[d]
  BY DEF Asked
<1>5. Placed(Gone, V)
  BY <1>4, Rings DEF Placed
<1>6. InAll(call, queue, ring, o) = 0
  <2>1. ~Promised(o) /\ o \in Named
    BY <1>2 DEF Promised, Named
  <2> QED BY <2>1, PromisedIs DEF One
<1>7. \A p \in Op : InAll(call, queue, ring, p) = 0 \/ (V[p].fd = ov[p].fd /\ V[p].on = ov[p].on)
  BY <1>6
<1>8. Fitted(call, queue, ring, Gone, V)
  BY <1>7, FittedTo DEF WInv
<1>9. \A p \in Op : /\ V[p].pending => V[p].on # None
                    /\ V[p].on # None => V[p].fd \in Fd
  <2> TAKE p \in Op
  <2>1. PendingOn
    BY DEF WInv
  <2>2. CASE p = o
    BY <1>2, <1>4, <2>2
  <2>3. CASE p # o
    BY <2>1, <2>3 DEF PendingOn
  <2> QED BY <2>2, <2>3
<1> QED BY <1>1, <1>2, <1>4, <1>5, <1>8, <1>9

\* A thread that is not in a call, and what it is about to push.
LEMMA IdleCall ==
  ASSUME NEW i \in Queued, NEW k, k = [Idle EXCEPT !.pc = "push", !.item = i]
  PROVE  /\ k \in CallRec /\ k.closing = Idle.closing /\ k.pc = "push" /\ k.item = i
         /\ Idle.item.op = None
<1>1. k = [pc |-> "push", item |-> i, closing |-> None] /\ Idle.closing = None
  BY DEF Idle
<1>2. Idle.item.op = None
  BY DEF Idle, NoItem, Item
<1> QED BY <1>1, <1>2 DEF CallRec

LEMMA AskStep ==
  ASSUME WInv, NEW c \in Caller, NEW o \in Op, NEW d \in Fd, Ask(c, o, d)
  PROVE  WInv'
<1>1. PICK i : i = Item("io", o, d, None)
  OBVIOUS
<1>2. PICK k : k = [call[c] EXCEPT !.pc = "push", !.item = i]
  OBVIOUS
<1>3. PICK V : V = [ov EXCEPT ![o] = Asked(o, d)]
  OBVIOUS
<1>4. /\ call[c] = Idle /\ MayAsk(o, d) /\ ov' = V /\ call' = [call EXCEPT ![c] = k]
      /\ UNCHANGED <<table, post, queue, ring, pump, packet>>
  BY <1>1, <1>2, <1>3 DEF Ask
<1>5. /\ V \in [Op -> OvSet] /\ Placed(Gone, V) /\ Fitted(call, queue, ring, Gone, V)
      /\ \A p \in Op : /\ V[p].pending => V[p].on # None
                       /\ V[p].on # None => V[p].fd \in Fd
      /\ V[o].pending /\ ~ov[o].pending /\ V[o].fd = d /\ V[o].on # None
      /\ \A p \in Op \ {o} : V[p] = ov[p]
  <2>1. MayAsk(o, d) /\ ov \in [Op -> OvSet]
    BY <1>4, Rings DEF Outside
  <2>2. V[o] = Asked(o, d) /\ \A p \in Op \ {o} : V[p] = ov[p]
    BY <1>3, <2>1
  <2>3. /\ Asked(o, d) \in OvSet /\ Placed(Gone, V) /\ Fitted(call, queue, ring, Gone, V)
        /\ \A p \in Op : /\ V[p].pending => V[p].on # None
                         /\ V[p].on # None => V[p].fd \in Fd
        /\ V[o].pending /\ ~ov[o].pending /\ V[o].fd = d /\ V[o].on # None
    BY <2>1, <2>2, AskedOK
  <2>4. V \in [Op -> OvSet]
    BY <1>3, <2>1, <2>3
  <2> QED BY <2>2, <2>3, <2>4
<1>6. i \in Queued /\ i.op = o /\ EntryFits(i, Gone, V)
  BY <1>1, <1>5 DEF Item, Queued, Requests, EntryFits
<1>7. /\ k \in CallRec /\ k.closing = call[c].closing /\ k.pc = "push" /\ k.item = i
      /\ call[c].item.op = None
  <2>1. k = [Idle EXCEPT !.pc = "push", !.item = i]
    BY <1>2, <1>4
  <2>2. /\ k \in CallRec /\ k.closing = Idle.closing /\ k.pc = "push" /\ k.item = i
        /\ Idle.item.op = None
    BY <1>6, <2>1, IdleCall
  <2> QED BY <1>4, <2>2
<1>8. CallFits(k, Gone, V)
  BY <1>6, <1>7 DEF CallFits
<1>9. Outside' /\ PendingOn'
  BY <1>4, <1>5, Rings DEF Outside, PendingOn
<1>10. ASSUME NEW x \in Named
       PROVE Times(queue', x) + InRing(ring', x) + One(k.item.op = x) + One(Promised(x))
             = Times(queue, x) + InRing(ring, x) + One(call[c].item.op = x) + One(Promised(x)')
  <2>1. One(call[c].item.op = x) = 0
    BY <1>7, NamedIs DEF One
  <2>2. One(o = x) + One(Promised(x)) = One(Promised(x)')
    <3>1. CASE x = o
      BY <1>4, <1>5, <3>1 DEF Promised, One
    <3>2. CASE x # o
      <4>1. Promised(x)' <=> Promised(x)
        BY <1>4, <1>5, <3>2 DEF Promised
      <4> QED BY <3>2, <4>1 DEF One
    <3> QED BY <3>1, <3>2
  <2>3. Times(queue, x) \in Nat /\ InRing(ring, x) \in Nat
    BY AllNumbers DEF WInv
  <2>4. One(o = x) \in {0, 1} /\ One(Promised(x)) \in {0, 1} /\ One(Promised(x)') \in {0, 1}
        /\ k.item.op = o /\ queue' = queue /\ ring' = ring
    BY <1>4, <1>6, <1>7, OneIs
  <2> QED BY <2>1, <2>2, <2>3, <2>4
<1> QED BY <1>4, <1>5, <1>7, <1>8, <1>9, <1>10, CallMoves

LEMMA PostStep ==
  ASSUME WInv, NEW c \in Caller, NEW p \in Packet, Post(c, p)
  PROVE  WInv'
<1>1. PICK i : i = Item("post", p, None, None)
  OBVIOUS
<1>2. PICK k : k = [call[c] EXCEPT !.pc = "push", !.item = i]
  OBVIOUS
<1>4. /\ call[c] = Idle /\ post[p] = "unposted" /\ post' = [post EXCEPT ![p] = "pending"]
      /\ call' = [call EXCEPT ![c] = k]
      /\ UNCHANGED <<table, ov, queue, ring, pump, packet>>
  BY <1>1, <1>2 DEF Post
<1>6. i \in Queued /\ i.op = p /\ EntryFits(i, Gone, ov)
  BY <1>1 DEF Item, Queued, Waiting, EntryFits
<1>7. /\ k \in CallRec /\ k.closing = call[c].closing /\ k.pc = "push" /\ k.item = i
      /\ call[c].item.op = None
  <2>1. k = [Idle EXCEPT !.pc = "push", !.item = i]
    BY <1>2, <1>4
  <2>2. /\ k \in CallRec /\ k.closing = Idle.closing /\ k.pc = "push" /\ k.item = i
        /\ Idle.item.op = None
    BY <1>6, <2>1, IdleCall
  <2> QED BY <1>4, <2>2
<1>8. CallFits(k, Gone, ov')
  BY <1>4, <1>6, <1>7 DEF CallFits
<1>9. Outside' /\ PendingOn' /\ Placed(Gone, ov') /\ Fitted(call, queue', ring', Gone, ov')
  <2>1. post' \in [Packet -> {"unposted", "pending", "taken"}]
    BY <1>4, Rings DEF Outside
  <2> QED BY <1>4, <2>1, Rings DEF Outside, WInv, PendingOn
<1>10. ASSUME NEW x \in Named
       PROVE Times(queue', x) + InRing(ring', x) + One(k.item.op = x) + One(Promised(x))
             = Times(queue, x) + InRing(ring, x) + One(call[c].item.op = x) + One(Promised(x)')
  <2>1. One(call[c].item.op = x) = 0
    BY <1>7, NamedIs DEF One
  <2>2. One(p = x) + One(Promised(x)) = One(Promised(x)')
    <3>1. CASE x = p
      <4>1. ~Promised(x) /\ Promised(x)'
        BY <1>4, <3>1, Rings, PortAssumption DEF Promised, Outside
      <4> QED BY <3>1, <4>1 DEF One
    <3>2. CASE x # p
      <4>1. Promised(x)' <=> Promised(x)
        <5>1. x \in Packet => post'[x] = post[x]
          BY <1>4, <3>2, Rings DEF Outside
        <5> QED BY <1>4, <5>1 DEF Promised, Named
      <4> QED BY <3>2, <4>1 DEF One
    <3> QED BY <3>1, <3>2
  <2>3. Times(queue, x) \in Nat /\ InRing(ring, x) \in Nat
    BY AllNumbers DEF WInv
  <2>4. One(p = x) \in {0, 1} /\ One(Promised(x)) \in {0, 1} /\ One(Promised(x)') \in {0, 1}
        /\ k.item.op = p /\ queue' = queue /\ ring' = ring
    BY <1>4, <1>6, <1>7, OneIs
  <2> QED BY <2>1, <2>2, <2>3, <2>4
<1> QED BY <1>4, <1>7, <1>8, <1>9, <1>10, CallMoves

LEMMA PushStep == ASSUME WInv, NEW c \in Caller, Push(c) PROVE WInv'
<1>1. PICK i : i = call[c].item
  OBVIOUS
<1>2. PICK k : k = [call[c] EXCEPT !.pc = "wake", !.item = NoItem]
  OBVIOUS
<1>3. /\ call[c].pc = "push" /\ queue' = Append(queue, i) /\ call' = [call EXCEPT ![c] = k]
      /\ UNCHANGED <<table, ov, post, ring, pump, packet>>
  BY <1>1, <1>2 DEF Push
<1>4. /\ call[c] \in CallRec /\ i \in Queued /\ EntryFits(i, Gone, ov)
      /\ queue \in Seq(Queued) /\ \A n \in DOMAIN queue : EntryFits(queue[n], Gone, ov)
  BY <1>1, <1>3 DEF WInv, Fitted, CallsFit, CallFits, QueueFits
<1>5. k \in CallRec /\ k.closing = call[c].closing /\ k.pc = "wake" /\ k.item = NoItem
  BY <1>2, <1>4 DEF CallRec
<1>6. CallFits(k, Gone, ov')
  BY <1>5 DEF CallFits
<1>7. QueueFits(queue', Gone, ov)
  <2>1. /\ queue' \in Seq(Queued) /\ DOMAIN queue' = 1 .. Len(queue) + 1
        /\ DOMAIN queue = 1 .. Len(queue) /\ Len(queue) \in Nat
        /\ queue'[Len(queue) + 1] = i /\ \A n \in 1 .. Len(queue) : queue'[n] = queue[n]
    BY <1>3, <1>4
  <2>2. \A n \in 1 .. Len(queue) + 1 : n \in 1 .. Len(queue) \/ n = Len(queue) + 1
    BY <2>1
  <2>3. \A n \in DOMAIN queue' : EntryFits(queue'[n], Gone, ov)
    BY <1>4, <2>1, <2>2
  <2> QED BY <2>1, <2>3 DEF QueueFits
<1>8. Outside' /\ PendingOn' /\ Placed(Gone, ov') /\ Fitted(call, queue', ring', Gone, ov')
  BY <1>3, <1>7, Rings DEF Outside, WInv, PendingOn, Fitted
<1>9. ASSUME NEW x \in Named
      PROVE Times(queue', x) + InRing(ring', x) + One(k.item.op = x) + One(Promised(x))
            = Times(queue, x) + InRing(ring, x) + One(call[c].item.op = x) + One(Promised(x)')
  <2>1. Times(queue', x) = Times(queue, x) + One(i.op = x)
    BY <1>3, <1>4, TimesAppend
  <2>2. Promised(x)' = Promised(x)
    BY <1>3 DEF Promised
  <2>3. One(k.item.op = x) = 0
    BY <1>5, NamedIs DEF One, NoItem, Item
  <2>4. Times(queue, x) \in Nat /\ InRing(ring, x) \in Nat
    BY AllNumbers DEF WInv
  <2>5. One(i.op = x) \in {0, 1} /\ One(Promised(x)) \in {0, 1}
    BY OneIs
  <2> QED BY <1>1, <1>3, <2>1, <2>2, <2>3, <2>4, <2>5
<1> QED BY <1>3, <1>5, <1>6, <1>8, <1>9, CallMoves

LEMMA WakeStep == ASSUME WInv, NEW c \in Caller, Wake(c) PROVE WInv'
<1>1. PICK k : k = IF call[c].closing = None THEN Idle ELSE [call[c] EXCEPT !.pc = "close"]
  OBVIOUS
<1>2. PICK how \in {"wake", "wakeLast"} : ring' = Signal([ring EXCEPT !.signalled = TRUE], how)
  BY DEF Wake
<1>3. /\ call[c].pc = "wake" /\ call' = [call EXCEPT ![c] = k]
      /\ UNCHANGED <<table, ov, post, queue, pump, packet>>
  BY <1>1 DEF Wake
<1>4. call[c] \in CallRec /\ call[c].item = NoItem
  BY <1>3 DEF WInv, Fitted, CallsFit, CallFits
<1>5. k \in CallRec /\ k.closing = call[c].closing /\ k.pc # "push" /\ k.item = NoItem
  BY <1>1, <1>4 DEF CallRec, Idle
<1>6. CallFits(k, Gone, ov')
  BY <1>5 DEF CallFits
<1>7. RingOK(ring', Gone, ov) /\ SameIn(ring', ring)
  <2>1. PICK q : q = [ring EXCEPT !.signalled = TRUE]
    OBVIOUS
  <2>2. q \in RingSet /\ q.sq = ring.sq /\ q.cq = ring.cq /\ q.inflight = ring.inflight
        /\ q.dups = ring.dups
    BY <2>1, Rings DEF RingSet
  <2>3. RingOK(q, Gone, ov) /\ SameIn(q, ring)
    BY <2>2, Rings, Flagged
  <2>4. /\ ring' \in RingSet /\ ring'.sq = q.sq /\ ring'.dups = q.dups /\ ring'.inflight = q.inflight
        /\ \A x \in Named : InRing(ring', x) = InRing(q, x)
        /\ \A n \in DOMAIN ring'.cq :
             ring'.cq[n].how = "aborted" => n \in DOMAIN q.cq /\ ring'.cq[n] = q.cq[n]
    <3>1. PICK p : p = ring'
      OBVIOUS
    <3>2. p = Signal(q, how)
      BY <1>2, <2>1, <3>1
    <3>3. /\ p \in RingSet /\ p.sq = q.sq /\ p.dups = q.dups /\ p.inflight = q.inflight
          /\ \A x \in Named : InRing(p, x) = InRing(q, x)
          /\ \A n \in DOMAIN p.cq :
               p.cq[n].how = "aborted" => n \in DOMAIN q.cq /\ p.cq[n] = q.cq[n]
      BY <2>2, <3>2, Signalled
    <3> QED BY <3>1, <3>3
  <2>5. RingFits(ring', Gone, ov)
    BY <2>3, <2>4 DEF RingOK, RingFits
  <2>6. \A o \in Op : InRing(ring', o) <= 1
    BY <2>3, <2>4 DEF RingOK, Named
  <2>7. SameIn(ring', q)
    BY <2>4 DEF SameIn
  <2>8. RingOK(ring', Gone, ov)
    BY <2>3, <2>4, <2>5, <2>6 DEF RingOK
  <2> QED BY <2>3, <2>7, <2>8, SameTrans
<1>8. Outside' /\ PendingOn' /\ Placed(Gone, ov') /\ Fitted(call, queue', ring', Gone, ov')
  BY <1>3, <1>7, Rings DEF Outside, WInv, PendingOn, Fitted
<1>9. ASSUME NEW x \in Named
      PROVE Times(queue', x) + InRing(ring', x) + One(k.item.op = x) + One(Promised(x))
            = Times(queue, x) + InRing(ring, x) + One(call[c].item.op = x) + One(Promised(x)')
  <2>1. Promised(x)' = Promised(x)
    BY <1>3 DEF Promised
  <2> QED BY <1>3, <1>4, <1>5, <1>7, <2>1 DEF SameIn
<1> QED BY <1>3, <1>5, <1>6, <1>8, <1>9, CallMoves
-----------------------------------------------------------------------------
(* The pump's own calls, and descriptors *)

LEMMA PumpAskStep ==
  ASSUME WInv, NEW o \in Op, NEW d \in Fd, PumpAsk(o, d)
  PROVE  WInv'
<1>1. PICK V, e : V = [ov EXCEPT ![o] = Asked(o, d)] /\ e = Item("io", o, d, None)
  OBVIOUS
<1>2. PICK s \in SubmitNow(ring, e) : ring' = s.ring /\ ov' = IF s.ok THEN V ELSE ov
  BY <1>1 DEF PumpAsk
<1>3. MayAsk(o, d) /\ UNCHANGED <<table, post, queue, call, pump, packet>>
  BY DEF PumpAsk
<1>4. ov \in [Op -> OvSet] /\ V[o] = Asked(o, d) /\ \A p \in Op \ {o} : V[p] = ov[p]
  BY <1>1, Rings DEF Outside
<1>5. /\ Asked(o, d) \in OvSet /\ Placed(Gone, V) /\ Fitted(call, queue, ring, Gone, V)
      /\ \A p \in Op : /\ V[p].pending => V[p].on # None
                       /\ V[p].on # None => V[p].fd \in Fd
      /\ V[o].pending /\ ~ov[o].pending /\ V[o].fd = d /\ V[o].on # None
  BY <1>3, <1>4, AskedOK
<1>6. V \in [Op -> OvSet]
  BY <1>1, <1>4, <1>5
<1>7. e \in Prepares /\ e.op = o /\ EntryFits(e, Gone, V)
  BY <1>1, <1>5 DEF Item, Prepares, Requests, EntryFits
<1>8. ASSUME NEW x PROVE /\ InCalls(call, x) \in Nat /\ Times(queue, x) \in Nat
                         /\ InRing(ring, x) \in Nat
  BY AllNumbers DEF WInv
<1>9. o \in Named /\ InAll(call, queue, ring, o) = 0 /\ InRing(ring, o) = 0
  <2>1. o \in Named /\ ~Promised(o)
    BY <1>5 DEF Promised, Named
  <2>2. InAll(call, queue, ring, o) = 0
    BY <2>1, PromisedIs DEF One
  <2> QED BY <1>8, <2>1, <2>2 DEF InAll
<1>10. CASE s.ok
  <2>1. RingOK(ring, Gone, V)
    BY <1>5 DEF Fitted
  <2>2. RingOK(ring', Gone, V) /\ \A x \in Named : InRing(ring', x) = InRing(ring, x) + One(e.op = x)
    BY <1>2, <1>5, <1>7, <1>9, <1>10, <2>1, SubmitNowOK
  <2>3. Tables' /\ FilesOnce' /\ Gone' = Gone /\ UNCHANGED <<file, post, queue, call, pump, packet>>
    BY <1>3, TablesLeft DEF table
  <2>4. ov' = V
    BY <1>2, <1>10
  <2>5. Fitted(call, queue, ring, Gone, ov)'
    BY <1>5, <2>2, <2>3, <2>4 DEF Fitted
  <2>6. Placed(Gone, ov)' /\ PendingOn' /\ Outside'
    BY <1>5, <1>6, <2>3, <2>4, Rings DEF Placed, PendingOn, Outside
  <2>7. Counted'
    <3>1. ASSUME NEW x \in Named PROVE InAll(call', queue', ring', x) = One(Promised(x)')
      <4>1. InAll(call, queue, ring, x) = One(Promised(x))
        BY PromisedIs
      <4>2. InAll(call', queue', ring', x) = InAll(call, queue, ring, x) + One(o = x)
        <5>1. InRing(ring', x) = InRing(ring, x) + One(o = x) /\ One(o = x) \in {0, 1}
          BY <1>7, <2>2, OneIs
        <5> QED BY <1>8, <2>3, <5>1 DEF InAll
      <4>3. CASE x = o
        <5>1. Promised(x)' /\ One(o = x) = 1
          BY <1>5, <2>4, <4>3 DEF Promised, One
        <5> QED BY <1>9, <4>2, <4>3, <5>1 DEF One
      <4>4. CASE x # o
        <5>1. Promised(x)' = Promised(x)
          BY <1>4, <2>3, <2>4, <4>4 DEF Promised
        <5>2. One(o = x) = 0 /\ One(Promised(x)) \in {0, 1}
          BY <4>4, OneIs DEF One
        <5> QED BY <4>1, <4>2, <5>1, <5>2
      <4> QED BY <4>3, <4>4
    <3> QED BY <3>1 DEF Counted
  <2> QED BY <2>3, <2>5, <2>6, <2>7 DEF WInv
<1>11. CASE ~s.ok
  <2>1. UNCHANGED ov
    BY <1>2, <1>11
  <2>2. RingOK(ring', Gone, ov) /\ SameIn(ring', ring)
    BY <1>2, <1>7, <1>11, Rings, SubmitNowOK
  <2>3. Outside'
    BY <1>3, <2>1, Rings DEF Outside
  <2> QED BY <1>3, <2>1, <2>2, <2>3, RingStep
<1> QED BY <1>10, <1>11

LEMMA OpenedStep == ASSUME WInv, Open PROVE WInv'
<1>1. PICK d \in Fd : file[d] = None /\ file' = [file EXCEPT ![d] = opened + 1]
  BY DEF Open
<1>2. /\ opened < Files /\ opened' = opened + 1
      /\ UNCHANGED <<ov, post, queue, call, ring, pump, packet>>
  BY DEF Open
<1>3. /\ Tables' /\ file \in [Fd -> File \cup {None}] /\ opened \in Nat
      /\ \A f \in Fd : file[f] # None => file[f] \in 1 .. opened
  BY OpenStep, PortAssumption DEF WInv, Tables, TableShape, FilesOnce, File
<1>4. \A f : Closing(f)' <=> Closing(f)
  BY <1>2 DEF Closing
<1>5. ~Closing(d)
  BY <1>1, PortAssumption DEF WInv, Tables, StillOpen, Closing
<1>6. FilesOnce'
  <2>1. opened + 1 # None /\ opened + 1 \in Nat /\ opened + 1 <= Files
    BY <1>2, <1>3, PortAssumption
  <2>2. \A e \in Fd : file'[e] = IF e = d THEN opened + 1 ELSE file[e]
    BY <1>1, <1>3
  <2>3. \A e \in Fd : file'[e] # None => file'[e] <= opened'
    BY <1>2, <1>3, <2>1, <2>2
  <2>4. ASSUME NEW a \in Fd, NEW b \in Fd, file'[a] = file'[b], file'[a] # None PROVE a = b
    <3>1. CASE a # d /\ b # d
      BY <2>2, <2>4, <3>1 DEF WInv, FilesOnce
    <3>2. CASE a = d /\ b # d
      BY <1>3, <2>1, <2>2, <2>4, <3>2
    <3>3. CASE a # d /\ b = d
      BY <1>3, <2>1, <2>2, <2>4, <3>3
    <3> QED BY <3>1, <3>2, <3>3
  <2> QED BY <1>2, <2>1, <2>3, <2>4 DEF FilesOnce
<1>7. Gone' = Gone
  <2>1. ASSUME NEW f \in 1 .. opened
        PROVE  (\A e \in Fd : file'[e] = f => Closing(e)) <=> (\A e \in Fd : file[e] = f => Closing(e))
    <3>1. f # opened + 1 /\ f # None
      BY <1>2, <1>3, PortAssumption
    <3>2. \A e \in Fd : file'[e] = f <=> file[e] = f
      BY <1>1, <1>3, <3>1
    <3> QED BY <3>2
  <2>2. ~(\A e \in Fd : file'[e] = opened + 1 => Closing(e))
    BY <1>1, <1>3, <1>5
  <2>3. \A f : f \in 1 .. opened + 1 <=> f \in 1 .. opened \/ f = opened + 1
    BY <1>3
  <2>4. \A f : f \in Gone' <=> f \in Gone
    BY <1>2, <1>4, <2>1, <2>2, <2>3 DEF Gone
  <2> QED BY <2>4
<1>8. Placed(Gone, ov)'
  <2>1. file' \in [Fd -> File \cup {None}]
    BY <1>3 DEF Tables, TableShape
  <2>2. ASSUME NEW o \in Op, ov[o].on # None PROVE ov[o].on \in Gone \/ file'[ov[o].fd] = ov[o].on
    <3>1. ov[o].fd \in Fd
      BY <2>2 DEF WInv, PendingOn
    <3>2. ov[o].on \in Gone \/ file[ov[o].fd] = ov[o].on
      BY <2>2, Rings DEF Placed
    <3> QED BY <1>1, <1>3, <2>2, <3>1, <3>2
  <2> QED BY <1>2, <1>7, <2>1, <2>2, Rings DEF Placed
<1>9. Fitted(call, queue, ring, Gone, ov)' /\ PendingOn' /\ Outside'
  BY <1>2, <1>7 DEF WInv, PendingOn, Outside
<1>10. Counted'
  BY <1>2 DEF WInv, Counted, Promised
<1> QED BY <1>3, <1>6, <1>8, <1>9, <1>10 DEF WInv

\* The sockets of F that are closed, or whose descriptor is in shut.
GoneOf(G, F, shut) == G = {f \in 1 .. opened : \A e \in Fd : F[e] = f => e \in shut}

\* A socket whose only descriptor is being closed is as good as closed.
LEMMA ShutIs ==
  ASSUME WInv, NEW d \in Fd, file[d] # None, NEW F \in [Fd -> File \cup {None}], NEW shut,
         \A e \in Fd \ {d} : F[e] = file[e], F[d] = None \/ (F[d] = file[d] /\ d \in shut),
         \A e \in Fd \ {d} : Closing(e) => e \in shut,
         NEW G, GoneOf(G, F, shut)
  PROVE  /\ Gone \cup {file[d]} \in SUBSET G /\ G \in SUBSET File
         /\ opened <= Files
         /\ \A e \in Fd : F[e] # None => F[e] <= opened
         /\ \A a, b \in Fd : F[a] = F[b] /\ F[a] # None => a = b
         /\ \A o \in Op : ov[o].on # None => ov[o].on \in G \/ F[ov[o].fd] = ov[o].on
<1>1. /\ file \in [Fd -> File \cup {None}] /\ opened \in Nat /\ FilesOnce /\ Files \in Nat
      /\ None \notin File
  BY PortAssumption DEF WInv, Tables, TableShape, File
<1>11. \A f \in 1 .. opened : (\A e \in Fd : F[e] = f => e \in shut) => f \in G
  BY DEF GoneOf
<1>12. \A f \in G : f \in 1 .. opened /\ \A e \in Fd : F[e] = f => e \in shut
  BY DEF GoneOf
<1>2. \A e \in Fd : F[e] # None => F[e] = file[e]
  OBVIOUS
<1>3. \A e \in Fd : e # d => F[e] = file[e]
  OBVIOUS
<1>5. G \in SUBSET File
  BY <1>1, <1>12 DEF FilesOnce, File
<1>6. file[d] \in G
  <2>1. file[d] \in 1 .. opened
    BY <1>1 DEF FilesOnce, File
  <2>2. ASSUME NEW e \in Fd, F[e] = file[d] PROVE e \in shut
    <3>1. file[e] = file[d] /\ e = d
      BY <1>1, <1>2, <2>2 DEF FilesOnce
    <3> QED BY <2>2, <3>1
  <2> QED BY <1>11, <2>1, <2>2
<1>7. ASSUME NEW f \in Gone PROVE f \in G
  <2>1. f \in 1 .. opened /\ \A e \in Fd : file[e] = f => Closing(e)
    BY DEF Gone
  <2>2. ASSUME NEW e \in Fd, F[e] = f PROVE e \in shut
    <3>1. file[e] = f /\ Closing(e)
      <4>1. f # None
        BY <1>1, <2>1 DEF FilesOnce, File
      <4> QED BY <1>2, <2>1, <2>2, <4>1
    <3>2. CASE e = d
      <4>1. file[d] = f
        BY <3>1, <3>2
      <4> QED BY <1>6, <1>12, <2>2, <4>1
    <3>3. CASE e # d
      BY <3>1, <3>3
    <3> QED BY <3>2, <3>3
  <2> QED BY <1>11, <2>1, <2>2
<1>8. \A e \in Fd : F[e] # None => F[e] <= opened
  BY <1>1, <1>2 DEF FilesOnce
<1>9. \A a, b \in Fd : F[a] = F[b] /\ F[a] # None => a = b
  BY <1>1, <1>2 DEF FilesOnce
<1>10. ASSUME NEW o \in Op, ov[o].on # None PROVE ov[o].on \in G \/ F[ov[o].fd] = ov[o].on
  <2>1. ov[o].fd \in Fd
    BY <1>10 DEF WInv, PendingOn
  <2>2. ov[o].on \in Gone \/ file[ov[o].fd] = ov[o].on
    BY <1>10, Rings DEF Placed
  <2> QED BY <1>3, <1>6, <1>7, <2>1, <2>2
<1> QED BY <1>1, <1>5, <1>6, <1>7, <1>8, <1>9, <1>10 DEF FilesOnce

LEMMA ClosingStep ==
  ASSUME WInv, NEW c \in Caller, NEW d \in Fd, Close(c, d)
  PROVE  WInv'
<1>1. PICK i : i = Item("cancel", None, d, file[d])
  OBVIOUS
<1>2. PICK k : k = [pc |-> "push", item |-> i, closing |-> d]
  OBVIOUS
<1>3. /\ call[c] = Idle /\ file[d] # None /\ call' = [call EXCEPT ![c] = k]
      /\ UNCHANGED <<file, opened, ov, post, queue, ring, pump, packet>>
  BY <1>1, <1>2 DEF Close
<1>4. /\ call \in [Caller -> CallRec] /\ file \in [Fd -> File \cup {None}] /\ Tables'
      /\ Idle.closing = None /\ Idle.item.op = None /\ d # None
  BY CloseStep, PortAssumption DEF WInv, Fitted, CallsFit, Tables, TableShape, Idle, NoItem, Item
<1>5. Closing(d)' /\ \A e \in Fd : Closing(e) => Closing(e)'
  <2>1. k.closing = d /\ call'[c] = k /\ \A b \in Caller \ {c} : call'[b] = call[b]
    BY <1>2, <1>3, <1>4
  <2>2. Closing(d)'
    BY <2>1 DEF Closing
  <2>3. ASSUME NEW e \in Fd, Closing(e) PROVE Closing(e)'
    <3>1. PICK b \in Caller : call[b].closing = e
      BY <2>3 DEF Closing
    <3>2. b # c
      BY <1>3, <1>4, <3>1, PortAssumption
    <3> QED BY <2>1, <3>1, <3>2 DEF Closing
  <2> QED BY <2>2, <2>3
<1>6. PICK shut : shut = {e \in Fd : Closing(e)'}
  OBVIOUS
<1>7. PICK G : G = {f \in 1 .. opened : \A e \in Fd : file[e] = f => e \in shut}
  OBVIOUS
<1>8. Gone' = G
  BY <1>3, <1>6, <1>7 DEF Gone
<1>9. /\ Gone \cup {file[d]} \in SUBSET G /\ G \in SUBSET File
      /\ opened <= Files
      /\ \A e \in Fd : file[e] # None => file[e] <= opened
      /\ \A a, b \in Fd : file[a] = file[b] /\ file[a] # None => a = b
      /\ \A o \in Op : ov[o].on # None => ov[o].on \in G \/ file[ov[o].fd] = ov[o].on
  <2>1. d \in shut /\ \A e \in Fd \ {d} : Closing(e) => e \in shut
    BY <1>5, <1>6
  <2>2. PICK F : F = file
    OBVIOUS
  <2>3. GoneOf(G, F, shut)
    BY <1>7, <2>2 DEF GoneOf
  <2>4. F \in [Fd -> File \cup {None}] /\ F[d] = file[d] /\ \A e \in Fd \ {d} : F[e] = file[e]
    BY <1>4, <2>2
  <2>5. /\ Gone \cup {file[d]} \in SUBSET G /\ G \in SUBSET File
        /\ opened <= Files
        /\ \A e \in Fd : F[e] # None => F[e] <= opened
        /\ \A a, b \in Fd : F[a] = F[b] /\ F[a] # None => a = b
        /\ \A o \in Op : ov[o].on # None => ov[o].on \in G \/ F[ov[o].fd] = ov[o].on
    BY <1>3, <2>1, <2>3, <2>4, ShutIs, SMTT(40)
  <2> QED BY <2>2, <2>5
<1>10. FilesOnce' /\ Placed(Gone, ov)'
  BY <1>3, <1>4, <1>8, <1>9 DEF FilesOnce, Placed
<1>11. i \in Queued /\ i.op = None /\ EntryFits(i, G, ov)
  <2>1. file[d] \in File
    BY <1>3, <1>4
  <2> QED BY <1>1, <1>9, <2>1 DEF Item, Queued, Requests, EntryFits
<1>12. k \in CallRec /\ CallFits(k, G, ov) /\ k.item.op = None
  BY <1>2, <1>11 DEF CallRec, CallFits
<1>13. Fitted(call, queue, ring, G, ov)
  BY <1>9, FittedGrows DEF WInv
<1>14. Fitted(call, queue, ring, Gone, ov)'
  <2>1. call' \in [Caller -> CallRec] /\ call'[c] = k /\ \A b \in Caller \ {c} : call'[b] = call[b]
    BY <1>3, <1>4, <1>12
  <2>2. CallsFit(call', G, ov)
    BY <1>12, <1>13, <2>1 DEF CallsFit, Fitted
  <2> QED BY <1>3, <1>8, <1>13, <2>2 DEF Fitted
<1>15. Counted'
  <2>1. ASSUME NEW x \in Named PROVE InAll(call', queue', ring', x) = One(Promised(x)')
    <3>1. Promised(x)' = Promised(x)
      BY <1>3 DEF Promised
    <3>2. InCalls(call', x) = InCalls(call, x)
      <4>1. PICK B : B = call'
        OBVIOUS
      <4>2. B[c] = k /\ \A e \in Caller \ {c} : B[e] = call[e]
        BY <1>3, <1>4, <4>1
      <4>3. /\ InCalls(call, x) \in Nat /\ InCalls(B, x) \in Nat
            /\ InCalls(B, x) + One(call[c].item.op = x) = InCalls(call, x) + One(k.item.op = x)
        BY <4>2, InCallsSet
      <4>4. One(call[c].item.op = x) = 0 /\ One(k.item.op = x) = 0
        BY <1>3, <1>4, <1>12, NamedIs DEF One
      <4> QED BY <4>1, <4>3, <4>4
    <3> QED BY <1>3, <3>1, <3>2 DEF WInv, Counted, InAll
  <2> QED BY <2>1 DEF Counted
<1>16. PendingOn' /\ Outside'
  BY <1>3, Rings DEF WInv, PendingOn, Outside
<1> QED BY <1>4, <1>10, <1>14, <1>15, <1>16 DEF WInv
\* close(2), once the hook is done.
LEMMA ClosedStep ==
  ASSUME WInv, NEW c \in Caller, CloseFd(c)
  PROVE  WInv'
<1>1. PICK d : d = call[c].closing
  OBVIOUS
<1>2. /\ call[c].pc = "close" /\ file' = [file EXCEPT ![d] = None]
      /\ call' = [call EXCEPT ![c] = Idle]
      /\ UNCHANGED <<opened, assoc, ov, post, queue, ring, pump, packet>>
  BY <1>1 DEF CloseFd
<1>3. /\ call \in [Caller -> CallRec] /\ file \in [Fd -> File \cup {None}] /\ Tables'
      /\ CallFits(call[c], Gone, ov) /\ None \notin Fd
  BY CloseFdStep, PortAssumption DEF WInv, Fitted, CallsFit, Tables, TableShape
<1>4. /\ call'[c] = Idle /\ \A b \in Caller \ {c} : call'[b] = call[b]
      /\ call[c].item = NoItem /\ d \in Fd \cup {None}
  BY <1>1, <1>2, <1>3 DEF CallFits, CallRec
<1>5. Idle \in CallRec /\ Idle.pc = "idle" /\ Idle.item = NoItem /\ Idle.closing = None
      /\ NoItem.op = None
  BY DEF Idle, CallRec, NoItem, Item
<1>6. \A e \in Fd \ {d} : Closing(e) => Closing(e)'
  <2>1. ASSUME NEW e \in Fd \ {d}, Closing(e) PROVE Closing(e)'
    <3>1. PICK b \in Caller : call[b].closing = e
      BY <2>1 DEF Closing
    <3>2. b # c
      BY <1>1, <3>1
    <3> QED BY <1>4, <3>1, <3>2 DEF Closing
  <2> QED BY <2>1
<1>7. PICK shut, F, G : shut = {e \in Fd : Closing(e)'} /\ F = file' /\ G = Gone'
  OBVIOUS
<1>8. /\ Gone \in SUBSET G /\ G \in SUBSET File
      /\ opened <= Files
      /\ \A e \in Fd : F[e] # None => F[e] <= opened
      /\ \A a, b \in Fd : F[a] = F[b] /\ F[a] # None => a = b
      /\ \A o \in Op : ov[o].on # None => ov[o].on \in G \/ F[ov[o].fd] = ov[o].on
  <2>1. CASE d \in Fd
    <3>1. file[d] # None
      BY <1>1, <1>3, <2>1 DEF WInv, Tables, StillOpen
    <3>2. /\ F \in [Fd -> File \cup {None}] /\ F[d] = None
          /\ \A e \in Fd \ {d} : F[e] = file[e]
      BY <1>2, <1>3, <1>7, <2>1
    <3>3. \A e \in Fd \ {d} : Closing(e) => e \in shut
      BY <1>6, <1>7
    <3>4. GoneOf(G, F, shut)
      BY <1>2, <1>7 DEF GoneOf, Gone
    <3>5. /\ Gone \cup {file[d]} \in SUBSET G /\ G \in SUBSET File
          /\ opened <= Files
          /\ \A e \in Fd : F[e] # None => F[e] <= opened
          /\ \A a, b \in Fd : F[a] = F[b] /\ F[a] # None => a = b
          /\ \A o \in Op : ov[o].on # None => ov[o].on \in G \/ F[ov[o].fd] = ov[o].on
      BY <2>1, <3>1, <3>2, <3>3, <3>4, ShutIs, SMTT(40)
    <3> QED BY <3>5
  <2>2. CASE d = None
    <3>1. file' = file
      BY <1>2, <1>3, <2>2
    <3>2. \A e \in Fd : Closing(e)' <=> Closing(e)
      <4> TAKE e \in Fd
      <4>1. call[c].closing # e /\ call'[c].closing # e
        BY <1>1, <1>3, <1>4, <1>5, <2>2
      <4> QED BY <1>4, <4>1 DEF Closing
    <3>3. Gone' = Gone
      BY <1>2, <3>1, <3>2 DEF Gone
    <3> QED BY <1>7, <3>1, <3>3, Rings DEF WInv, FilesOnce, Placed
  <2> QED BY <1>4, <2>1, <2>2
<1>9. FilesOnce' /\ Placed(Gone, ov)'
  <2>1. file' \in [Fd -> File \cup {None}]
    BY <1>3 DEF Tables, TableShape
  <2> QED BY <1>2, <1>7, <1>8, <2>1 DEF FilesOnce, Placed
<1>10. Fitted(call, queue, ring, G, ov)
  BY <1>8, FittedGrows DEF WInv
<1>11. Fitted(call, queue, ring, Gone, ov)'
  <2>1. call' \in [Caller -> CallRec]
    BY <1>2, <1>3, <1>5
  <2>2. CallsFit(call', G, ov)
    <3>1. CallFits(Idle, G, ov)
      BY <1>5 DEF CallFits
    <3> QED BY <1>4, <1>10, <2>1, <3>1 DEF CallsFit, Fitted
  <2> QED BY <1>2, <1>7, <1>10, <2>2 DEF Fitted
<1>12. Counted'
  <2>1. ASSUME NEW x \in Named PROVE InAll(call', queue', ring', x) = One(Promised(x)')
    <3>1. Promised(x)' = Promised(x)
      BY <1>2 DEF Promised
    <3>2. InCalls(call', x) = InCalls(call, x)
      <4>1. PICK B, k : B = call' /\ k = Idle
        OBVIOUS
      <4>2. B[c] = k /\ \A e \in Caller \ {c} : B[e] = call[e]
        BY <1>4, <4>1
      <4>3. /\ InCalls(call, x) \in Nat /\ InCalls(B, x) \in Nat
            /\ InCalls(B, x) + One(call[c].item.op = x) = InCalls(call, x) + One(k.item.op = x)
        BY <4>2, InCallsSet
      <4>4. call[c].item = k.item
        BY <1>4, <1>5, <4>1
      <4>5. One(k.item.op = x) \in {0, 1}
        BY OneIs
      <4> QED BY <4>1, <4>3, <4>4, <4>5
    <3> QED BY <1>2, <3>1, <3>2 DEF WInv, Counted, InAll
  <2> QED BY <2>1 DEF Counted
<1>13. PendingOn' /\ Outside'
  BY <1>2, Rings DEF WInv, PendingOn, Outside
<1> QED BY <1>3, <1>9, <1>11, <1>12, <1>13 DEF WInv

\* The pump closes a descriptor itself.
LEMMA PumpClosedStep ==
  ASSUME WInv, NEW d \in Fd, PumpClose(d)
  PROVE  WInv'
<1>1. PICK e : e = Item("cancel", None, d, file[d])
  OBVIOUS
<1>2. PICK s \in SubmitNow(ring, e) : ring' = s.ring
  BY <1>1 DEF PumpClose
<1>3. /\ file[d] # None /\ file' = [file EXCEPT ![d] = None]
      /\ UNCHANGED <<opened, ov, post, queue, call, pump, packet>>
  BY DEF PumpClose
<1>4. /\ file \in [Fd -> File \cup {None}] /\ Tables'
      /\ \A f : Closing(f)' <=> Closing(f)
  BY <1>3, PumpCloseStep DEF WInv, Tables, TableShape, Closing
<1>5. PICK shut, F, G : shut = {f \in Fd : Closing(f)} /\ F = file' /\ G = Gone'
  OBVIOUS
<1>6. /\ Gone \cup {file[d]} \in SUBSET G /\ G \in SUBSET File
      /\ opened <= Files
      /\ \A f \in Fd : F[f] # None => F[f] <= opened
      /\ \A a, b \in Fd : F[a] = F[b] /\ F[a] # None => a = b
      /\ \A o \in Op : ov[o].on # None => ov[o].on \in G \/ F[ov[o].fd] = ov[o].on
  <2>1. /\ F \in [Fd -> File \cup {None}] /\ F[d] = None
        /\ \A f \in Fd \ {d} : F[f] = file[f]
    BY <1>3, <1>4, <1>5
  <2>2. \A f \in Fd \ {d} : Closing(f) => f \in shut
    BY <1>5
  <2>3. GoneOf(G, F, shut)
    BY <1>3, <1>4, <1>5 DEF GoneOf, Gone
  <2> QED BY <1>3, <2>1, <2>2, <2>3, ShutIs, SMTT(40)
<1>7. FilesOnce' /\ Placed(Gone, ov)'
  <2>1. file' \in [Fd -> File \cup {None}]
    BY <1>4 DEF Tables, TableShape
  <2> QED BY <1>3, <1>5, <1>6, <2>1 DEF FilesOnce, Placed
<1>8. Fitted(call, queue, ring, G, ov) /\ Placed(G, ov)
  <2>1. Fitted(call, queue, ring, G, ov)
    BY <1>6, FittedGrows DEF WInv
  <2> QED BY <1>6, <2>1, Rings DEF Placed
<1>9. e \in Prepares /\ e.op = None /\ EntryFits(e, G, ov)
  <2>1. file[d] \in File
    BY <1>3, <1>4
  <2> QED BY <1>1, <1>6, <2>1 DEF Item, Prepares, Requests, EntryFits
<1>10. RingOK(ring', G, ov) /\ \A x \in Named : InRing(ring', x) = InRing(ring, x)
  <2>1. RingOK(ring, G, ov)
    BY <1>8 DEF Fitted
  <2>2. /\ s.ok \in BOOLEAN /\ RingOK(s.ring, G, ov)
        /\ s.ok => \A x \in Named : InRing(s.ring, x) = InRing(ring, x) + One(e.op = x)
        /\ ~s.ok => SameIn(s.ring, ring)
    BY <1>8, <1>9, <2>1, SubmitNowOK
  <2>3. \A x \in Named : One(e.op = x) = 0 /\ InRing(ring, x) \in Nat
    BY <1>9, NamedIs, Rings, RingNumbers DEF One
  <2> QED BY <1>2, <2>2, <2>3 DEF SameIn
<1>11. Fitted(call, queue, ring, Gone, ov)'
  BY <1>3, <1>5, <1>8, <1>10 DEF Fitted
<1>12. Counted'
  <2>1. ASSUME NEW x \in Named PROVE InAll(call', queue', ring', x) = One(Promised(x)')
    <3>1. Promised(x)' = Promised(x)
      BY <1>3 DEF Promised
    <3> QED BY <1>3, <1>10, <3>1 DEF WInv, Counted, InAll
  <2> QED BY <2>1 DEF Counted
<1>13. PendingOn' /\ Outside'
  BY <1>3, Rings DEF WInv, PendingOn, Outside
<1> QED BY <1>4, <1>7, <1>11, <1>12, <1>13 DEF WInv
-----------------------------------------------------------------------------
(* The invariant holds, and is what the port must keep *)

LEMMA InitWInv == Init => WInv
<1> SUFFICES ASSUME Init PROVE WInv
  OBVIOUS
<1>1. Tables
  BY InitKInv DEF KInv
<1>2. FilesOnce /\ Gone = {}
  <2>1. opened = 0 /\ file = [d \in Fd |-> None]
    BY DEF Init
  <2>2. Gone = {}
    BY <2>1 DEF Gone
  <2> QED BY <2>1, <2>2, PortAssumption DEF FilesOnce
<1>3. Outside
  BY PortAssumption DEF Init, Outside, OvSet, FreeOv, NoPacket
<1>4. PendingOn /\ Placed(Gone, ov)
  BY <1>2 DEF Init, PendingOn, Placed, FreeOv
<1>5. PICK z : z = <<>>
  OBVIOUS
<1>6. /\ z \in Seq(Prepares) /\ z \in Seq(Cqes) /\ z \in Seq(Queued) /\ z \in Seq(Waiting)
      /\ Len(z) = 0 /\ DOMAIN z = {} /\ \A x : Times(z, x) = 0
  BY <1>5, TimesEmpty
<1>7. ring.sq = z /\ ring.cq = z /\ ring.inflight = [o \in Op |-> None] /\ ring.dups = {}
      /\ ring \in RingSet /\ queue = z
  BY <1>5, <1>6 DEF Init, FreshRing, RingSet
<1>8. \A x : InRing(ring, x) = 0
  <2> TAKE x
  <2>1. One(x \in Op /\ ring.inflight[x] # None) = 0
    BY <1>7 DEF One
  <2> QED BY <1>6, <1>7, <2>1 DEF InRing
<1>9. RingOK(ring, Gone, ov)
  BY <1>6, <1>7, <1>8, PortAssumption DEF RingOK, RingFits
<1>10. CallsFit(call, Gone, ov) /\ \A x \in Named : InCalls(call, x) = 0
  <2>1. call = [c \in Caller |-> Idle]
    BY DEF Init
  <2>2. Idle \in CallRec /\ Idle.pc = "idle" /\ Idle.item = NoItem /\ NoItem.op = None
    BY DEF Idle, CallRec, NoItem, Item
  <2>3. CallsFit(call, Gone, ov)
    BY <2>1, <2>2 DEF CallsFit, CallFits
  <2>4. ASSUME NEW x \in Named PROVE InCalls(call, x) = 0
    <3>1. {c \in Caller : call[c].item.op = x} = {}
      BY <2>1, <2>2, NamedIs
    <3> QED BY <3>1, FS_EmptySet DEF InCalls
  <2> QED BY <2>3, <2>4
<1>11. Fitted(call, queue, ring, Gone, ov)
  BY <1>6, <1>7, <1>9, <1>10 DEF Fitted, QueueFits
<1>12. Counted
  <2>1. ASSUME NEW x \in Named PROVE InAll(call, queue, ring, x) = One(Promised(x))
    <3>1. ~Promised(x)
      BY DEF Init, Promised, FreeOv, Named
    <3>2. One(Promised(x)) = 0
      BY <3>1 DEF One
    <3> QED BY <1>6, <1>7, <1>8, <1>10, <3>2 DEF InAll
  <2> QED BY <2>1 DEF Counted
<1> QED BY <1>1, <1>2, <1>3, <1>4, <1>11, <1>12 DEF WInv

LEMMA NextWInv == WInv /\ [Next]_vars => WInv'
<1> SUFFICES ASSUME WInv, [Next]_vars PROVE WInv'
  OBVIOUS
<1>1. CASE GetCall
  BY <1>1, GetCallStep
<1>2. CASE Flush \/ Arm \/ Timeout
  BY <1>2, PumpWaits
<1>3. CASE Drain
  BY <1>3, DrainStep
<1>4. CASE TakeWake \/ TakeLastWake \/ TakeCancel
  BY <1>4, TakesOwn
<1>5. CASE TakeFailed \/ TakeDone
  BY <1>5, TakeAnswer
<1>6. CASE TakeShort
  BY <1>6, TakeShortStep
<1>7. CASE Open
  BY <1>7, OpenedStep
<1>8. ASSUME NEW o \in Op, Complete(o) PROVE WInv'
  BY <1>8, CompleteStep
<1>9. ASSUME NEW d \in Fd, PumpClose(d) PROVE WInv'
  BY <1>9, PumpClosedStep
<1>10. ASSUME NEW d \in Fd, NEW o \in Op, PumpAsk(o, d) PROVE WInv'
  BY <1>10, PumpAskStep
<1>11. ASSUME NEW c \in Caller, NEW d \in Fd, NEW o \in Op, Ask(c, o, d) PROVE WInv'
  BY <1>11, AskStep
<1>12. ASSUME NEW c \in Caller, NEW p \in Packet, Post(c, p) PROVE WInv'
  BY <1>12, PostStep
<1>13. ASSUME NEW c \in Caller, NEW d \in Fd, Close(c, d) PROVE WInv'
  BY <1>13, ClosingStep
<1>14. ASSUME NEW c \in Caller, Push(c) PROVE WInv'
  BY <1>14, PushStep
<1>15. ASSUME NEW c \in Caller, Wake(c) PROVE WInv'
  BY <1>15, WakeStep
<1>16. ASSUME NEW c \in Caller, CloseFd(c) PROVE WInv'
  BY <1>16, ClosedStep
<1>17. CASE UNCHANGED vars
  <2>1. UNCHANGED <<table, ov, post, queue, call, ring, pump, packet>>
    BY <1>17 DEF vars
  <2>2. RingOK(ring', Gone, ov) /\ SameIn(ring', ring) /\ Outside'
    BY <2>1, Rings DEF Outside
  <2> QED BY <2>1, <2>2, RingStep
<1> QED
  BY <1>1, <1>2, <1>3, <1>4, <1>5, <1>6, <1>7, <1>8, <1>9, <1>10, <1>11, <1>12, <1>13,
     <1>14, <1>15, <1>16, <1>17 DEF Next, PumpStep, CallStep

LEMMA WholeIs == WInv => PortWhole
<1> SUFFICES ASSUME WInv PROVE PortWhole
  OBVIOUS
<1>1. /\ RingOK(ring, Gone, ov) /\ ring \in RingSet /\ queue \in Seq(Queued)
      /\ call \in [Caller -> CallRec]
  BY Rings DEF WInv, Fitted, QueueFits, CallsFit
<1>2. Queued \in SUBSET Entries /\ Prepares \in SUBSET Entries /\ NoItem \in Entries
  BY DEF Queued, Prepares, Requests, Waiting, Entries
<1>3. TypeOK
  <2>1. queue \in Seq(Entries)
    BY <1>1, <1>2
  <2>2. call \in [Caller -> [pc : {"idle", "push", "wake", "close"}, item : Entries,
                          closing : Fd \cup {None}]]
    BY <1>1, <1>2 DEF CallRec
  <2>3. ring \in [sq : Seq(Entries), flush : BOOLEAN, armed : BOOLEAN, dups : SUBSET File,
               inflight : [Op -> File \cup {None}], cq : Seq(Cqes),
               polled : BOOLEAN, signalled : BOOLEAN]
    <3>1. ring.sq \in Seq(Prepares)
      BY <1>1 DEF RingSet
    <3>2. ring.sq \in Seq(Entries)
      BY <1>2, <3>1
    <3> QED BY <1>1, <3>2 DEF RingSet
  <2>4. Len(ring.sq) <= Slots
    BY <1>1 DEF RingOK
  <2>5. /\ file \in [Fd -> File \cup {None}] /\ opened \in 0 .. Files
        /\ assoc \in [Fd -> File \cup {None}]
    BY PortAssumption DEF WInv, Tables, TableShape, FilesOnce
  <2>6. Outside
    BY Rings
  <2> QED BY <2>1, <2>2, <2>3, <2>4, <2>5, <2>6 DEF TypeOK, Outside, OvSet
<1>4. OnePlace
  <2>1. ASSUME NEW x \in Named PROVE Places(x) = IF Promised(x) THEN 1 ELSE 0
    <3>1. Places(x) = InAll(call, queue, ring, x)
      <4>1. /\ InCalls(call, x) \in Nat /\ Times(queue, x) \in Nat
            /\ Times(ring.sq, x) \in Nat /\ Times(ring.cq, x) \in Nat
            /\ One(x \in Op /\ ring.inflight[x] # None) \in {0, 1}
        BY <1>1, AllNumbers, RingNumbers DEF WInv
      <4>2. Places(x) = InCalls(call, x) + Times(queue, x) + Times(ring.sq, x)
                          + Times(ring.cq, x) + One(x \in Op /\ ring.inflight[x] # None)
        BY DEF Places, InCalls, One
      <4>3. PICK a, b, m, n, i : /\ a = InCalls(call, x) /\ b = Times(queue, x)
                                 /\ m = Times(ring.sq, x) /\ n = Times(ring.cq, x)
                                 /\ i = One(x \in Op /\ ring.inflight[x] # None)
        OBVIOUS
      <4>4. a + b + m + n + i = (a + b) + (m + n + i)
        BY <4>1, <4>3
      <4>5. InAll(call, queue, ring, x) = (a + b) + (m + n + i)
        BY <4>3 DEF InAll, InRing
      <4> QED BY <4>2, <4>3, <4>4, <4>5
    <3> QED BY <3>1, PromisedIs DEF One
  <2>2. \A o \in Op : Places(o) = IF ov[o].pending THEN 1 ELSE 0
    <3> TAKE o \in Op
    <3>1. o \in Named /\ (Promised(o) <=> ov[o].pending)
      BY DEF Named, Promised
    <3> QED BY <2>1, <3>1
  <2>3. \A p \in Packet : Places(p) = IF post[p] = "pending" THEN 1 ELSE 0
    <3> TAKE p \in Packet
    <3>1. p \in Named /\ (Promised(p) <=> post[p] = "pending")
      BY PortAssumption DEF Named, Promised
    <3> QED BY <2>1, <3>1
  <2> QED BY <2>2, <2>3 DEF OnePlace
<1>5. CancelKeepsFile
  BY <1>1 DEF CancelKeepsFile, RingOK, RingFits
<1>6. OwnAborts
  <2>1. ASSUME NEW n \in DOMAIN ring.cq, ring.cq[n].how = "aborted"
        PROVE  ~IsOpen(ov[ring.cq[n].op].on)
    <3>1. ov[ring.cq[n].op].on \in Gone
      BY <1>1, <2>1 DEF RingOK, RingFits
    <3> QED BY <3>1 DEF Gone, IsOpen
  <2> QED BY <2>1 DEF OwnAborts
<1> QED BY <1>3, <1>4, <1>5, <1>6 DEF PortWhole

\* Every operation and packet that was promised is in exactly one place - in a
\* call, in the queue, prepared, in the kernel or completed - and nothing else is in
\* any, through refused submissions, full submission queues and short writes; a
\* cancel not yet in the kernel keeps its file open, and what it aborts belonged to
\* a socket that is closed (submit_pending, drain_queue, get_sqe and the dup of
\* p2p_iocp_on_close_fd).
THEOREM PortIsWhole == Spec => []PortWhole
<1>1. Init => WInv
  BY InitWInv
<1>2. WInv /\ [Next]_vars => WInv'
  BY NextWInv
<1>3. WInv => PortWhole
  BY WholeIs
<1> QED BY <1>1, <1>2, <1>3, PTL DEF Spec
=============================================================================
