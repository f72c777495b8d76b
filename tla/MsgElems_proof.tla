---------------------------- MODULE MsgElems_proof ----------------------------
(***************************************************************************)
(* Proofs about MsgElems, for an arena of any size and any number of slots *)
(* in a block.  At every moment there are a list of elements L, a chain of *)
(* blocks B and a row of elements E that the state holds (Held), and the   *)
(* caller's walk has handed out the part of L behind its position          *)
(* (WalkIs).  A call changes the three as its lemma in ElemCalls_proof     *)
(* says, the renumbering after it renames all three alike, and the values  *)
(* at L and at E are the two sequences of ElemSeq.                         *)
(***************************************************************************)
EXTENDS ElemCalls_proof

-----------------------------------------------------------------------------
(* Sequences: one element removed, and one put in. *)

Joined(R, A, D) == /\ Len(R) = Len(A) + Len(D) /\ R = [k \in 1 .. Len(A) + Len(D) |-> R[k]]
                   /\ \A k \in 1 .. Len(A) : R[k] = A[k]
                   /\ \A k \in 1 .. Len(D) : R[Len(A) + k] = D[k]

LEMMA JoinedIs ==
  ASSUME NEW S, NEW A \in Seq(S), NEW D \in Seq(S), NEW R, R = A \o D
  PROVE  R \in Seq(S) /\ Joined(R, A, D)
<1>1. Len(A) \in Nat /\ Len(D) \in Nat
  OBVIOUS
<1>2. R \in Seq(S)
  OBVIOUS
<1>3. Len(R) = Len(A) + Len(D)
  OBVIOUS
<1>4. \A k \in 1 .. Len(A) : R[k] = A[k]
  OBVIOUS
<1>5. \A k \in 1 .. Len(D) : R[Len(A) + k] = D[k]
  OBVIOUS
<1>6. R = [k \in 1 .. Len(A) + Len(D) |-> R[k]]
  <2> PICK n : n = Len(R)
    OBVIOUS
  <2>1. R = [k \in 1 .. n |-> R[k]]
    BY ONLY <1>2, n = Len(R)
  <2> QED BY ONLY <1>3, <2>1, n = Len(R)
<1> QED BY <1>2, <1>3, <1>4, <1>5, <1>6 DEF Joined

Part(D, q, i, d) == Len(D) = d /\ \A k \in 1 .. d : D[k] = q[(i - 1) + k]

LEMMA PartIs ==
  ASSUME NEW S, NEW q \in Seq(S), NEW i \in Nat, NEW d \in Nat, 1 <= i, (i - 1) + d <= Len(q),
         NEW D, D = SubSeq(q, i, (i - 1) + d)
  PROVE  D \in Seq(S) /\ Part(D, q, i, d)
<1> PICK n \in Nat : n = Len(q)
  OBVIOUS
<1> PICK j : j = (i - 1) + d
  OBVIOUS
<1>1. j \in Nat /\ j <= n
  OBVIOUS
<1>2. D \in Seq(S)
  BY <1>1
<1>3. Len(D) = d
  BY <1>1
<1>4. \A k \in 1 .. d : D[k] = q[(i - 1) + k]
  BY <1>1
<1> QED BY <1>2, <1>3, <1>4 DEF Part

LEMMA RemoveAtIs ==
  ASSUME NEW S, NEW q \in Seq(S), NEW i \in 1 .. Len(q)
  PROVE  Seqs!RemoveAt(q, i) = Cut(q, i)
<1> PICK n \in Nat : n = Len(q)
  OBVIOUS
<1> PICK a, d, b : a = i - 1 /\ d = n - i /\ b = i + 1
  OBVIOUS
<1>0. a \in Nat /\ d \in Nat /\ b \in Nat /\ (1 - 1) + a = i - 1 /\ (b - 1) + d = n /\ b - 1 = i /\ n - 1 = a + d
      /\ i \in Nat /\ 1 <= b
  OBVIOUS
<1> PICK A, D : A = SubSeq(q, 1, (1 - 1) + a) /\ D = SubSeq(q, b, (b - 1) + d)
  OBVIOUS
<1>1. A \in Seq(S) /\ Len(A) = a /\ \A k \in 1 .. a : A[k] = q[k]
  <2>1. q \in Seq(S) /\ 1 \in Nat /\ a \in Nat /\ 1 <= 1 /\ (1 - 1) + a <= Len(q)
    BY <1>0
  <2>2. A \in Seq(S) /\ Part(A, q, 1, a)
    BY ONLY <2>1, A = SubSeq(q, 1, (1 - 1) + a), PartIs
  <2> QED BY <1>0, <2>2 DEF Part
<1>2. D \in Seq(S) /\ Len(D) = d /\ \A k \in 1 .. d : D[k] = q[i + k]
  <2>1. q \in Seq(S) /\ (b - 1) + d <= Len(q)
    BY <1>0
  <2>2. D \in Seq(S) /\ Part(D, q, b, d)
    BY ONLY <1>0, <2>1, D = SubSeq(q, b, (b - 1) + d), PartIs
  <2> QED BY <1>0, <2>2 DEF Part
<1> PICK R : R = A \o D
  OBVIOUS
<1>3. Joined(R, A, D)
  BY ONLY <1>1, <1>2, R = A \o D, JoinedIs
<1>4. ASSUME NEW k \in 1 .. n - 1 PROVE R[k] = IF k < i THEN q[k] ELSE q[k + 1]
  <2>1. CASE k < i
    <3>1. k \in 1 .. a
      BY <1>0, <2>1
    <3> QED BY <1>1, <1>3, <2>1, <3>1 DEF Joined
  <2>2. CASE ~ (k < i)
    <3> PICK e : e = k - a
      OBVIOUS
    <3>1. e \in 1 .. d /\ a + e = k /\ i + e = k + 1
      BY <1>0, <2>2
    <3>2. R[a + e] = D[e]
      BY ONLY <1>1, <1>2, <1>3, <3>1 DEF Joined
    <3>3. D[e] = q[i + e]
      BY ONLY <1>2, <3>1
    <3> QED BY ONLY <2>2, <3>1, <3>2, <3>3
  <2> QED BY <2>1, <2>2
<1>5. R = [k \in 1 .. n - 1 |-> R[k]]
  BY <1>0, <1>1, <1>2, <1>3 DEF Joined
<1>6. R = Cut(q, i)
  BY ONLY <1>4, <1>5, n = Len(q) DEF Cut
<1> QED BY <1>0, <1>6 DEF Seqs!RemoveAt

LEMMA InsertAtIs ==
  ASSUME NEW S, NEW q \in Seq(S), NEW n \in 0 .. Len(q), NEW v \in S
  PROVE  Seqs!InsertAt(q, n + 1, v) = Ins(q, n, v)
<1> PICK N \in Nat : N = Len(q)
  OBVIOUS
<1> PICK d, b : d = N - n /\ b = n + 1
  OBVIOUS
<1>0. n \in Nat /\ d \in Nat /\ b \in Nat /\ (1 - 1) + n = (n + 1) - 1 /\ (b - 1) + d = N /\ b - 1 = n /\ N = n + d /\ 1 <= b
  OBVIOUS
<1> PICK A, D : A = SubSeq(q, 1, (1 - 1) + n) /\ D = SubSeq(q, b, (b - 1) + d)
  OBVIOUS
<1>1. A \in Seq(S) /\ Len(A) = n /\ \A k \in 1 .. n : A[k] = q[k]
  <2>1. q \in Seq(S) /\ 1 \in Nat /\ n \in Nat /\ 1 <= 1 /\ (1 - 1) + n <= Len(q)
    BY <1>0
  <2>2. A \in Seq(S) /\ Part(A, q, 1, n)
    BY ONLY <2>1, A = SubSeq(q, 1, (1 - 1) + n), PartIs
  <2> QED BY <1>0, <2>2 DEF Part
<1>2. D \in Seq(S) /\ Len(D) = d /\ \A k \in 1 .. d : D[k] = q[n + k]
  <2>1. q \in Seq(S) /\ (b - 1) + d <= Len(q)
    BY <1>0
  <2>2. D \in Seq(S) /\ Part(D, q, b, d)
    BY ONLY <1>0, <2>1, D = SubSeq(q, b, (b - 1) + d), PartIs
  <2> QED BY <1>0, <2>2 DEF Part
<1> PICK H : H = A \o <<v>>
  OBVIOUS
<1>3. H \in Seq(S) /\ Len(H) = n + 1 /\ H[n + 1] = v /\ \A k \in 1 .. n : H[k] = q[k]
  BY <1>0, <1>1
<1> PICK R : R = H \o D
  OBVIOUS
<1>4. Joined(R, H, D)
  BY ONLY <1>2, <1>3, R = H \o D, JoinedIs
<1>5. ASSUME NEW k \in 1 .. N + 1 PROVE R[k] = IF k <= n THEN q[k] ELSE IF k = n + 1 THEN v ELSE q[k - 1]
  <2>0. \A e \in 1 .. n + 1 : R[e] = H[e]
    BY <1>3, <1>4 DEF Joined
  <2>1. CASE k <= n
    <3>1. k \in 1 .. n /\ k \in 1 .. n + 1
      BY <1>0, <2>1
    <3> QED BY <1>3, <2>0, <2>1, <3>1
  <2>2. CASE k = n + 1
    <3>1. ~ (k <= n) /\ k \in 1 .. n + 1
      BY <1>0, <2>2
    <3> QED BY <1>3, <2>0, <2>2, <3>1
  <2>3. CASE k > n + 1
    <3> PICK e : e = k - (n + 1)
      OBVIOUS
    <3>1. ~ (k <= n) /\ k # n + 1 /\ e \in 1 .. d /\ n + e = k - 1 /\ (n + 1) + e = k
      BY <1>0, <2>3
    <3>2. R[(n + 1) + e] = D[e]
      BY ONLY <1>2, <1>3, <1>4, <3>1 DEF Joined
    <3>3. D[e] = q[n + e]
      BY ONLY <1>2, <3>1
    <3> QED BY ONLY <3>1, <3>2, <3>3
  <2>4. k <= n \/ k = n + 1 \/ k > n + 1
    BY ONLY <1>0, k \in 1 .. N + 1
  <2> QED BY ONLY <2>1, <2>2, <2>3, <2>4
<1>6. R = [k \in 1 .. N + 1 |-> R[k]]
  <2>1. Len(H) + Len(D) = N + 1
    BY ONLY <1>0, <1>2, <1>3, N \in Nat
  <2> QED BY <1>4, <2>1 DEF Joined
<1>7. R = Ins(q, n, v)
  BY ONLY <1>5, <1>6, N = Len(q) DEF Ins
<1> QED BY <1>0, <1>7 DEF Seqs!InsertAt

-----------------------------------------------------------------------------
(* The caller's walk. *)

\* What the walk handed out, and where it stands: from the first on, or from the last.
Ahead(w, L) == /\ Len(w.seen) <= Len(L) /\ \A i \in 1 .. Len(w.seen) : w.seen[i] = L[i]
               /\ w.pos = IF Len(w.seen) = Len(L) THEN Nil ELSE L[Len(w.seen) + 1]
Behind(w, L) == /\ Len(w.seen) <= Len(L) /\ \A i \in 1 .. Len(w.seen) : w.seen[i] = L[Len(L) + 1 - i]
                /\ w.pos = IF Len(w.seen) = Len(L) THEN Nil ELSE L[Len(L) - Len(w.seen)]
WalkIs(w, L) == /\ w \in ElemWalks
                /\ w.on = TRUE /\ w.back = FALSE => Ahead(w, L)
                /\ w.on = TRUE /\ w.back = TRUE => Behind(w, L)

LEMMA NoWalkHolds ==
  ASSUME NEW L
  PROVE  WalkIs(NoWalk, L)
BY NoWalkIs DEF WalkIs, NoWalk

LEMMA WalkTypes ==
  ASSUME NEW w \in ElemWalks
  PROVE  w.on \in BOOLEAN /\ w.back \in BOOLEAN /\ w.pos \in ElemPlace /\ w.seen \in Seq(ElemPlace)
         /\ Len(w.seen) \in Nat
BY DEF ElemWalks

LEMMA WalkPut ==
  ASSUME NEW w \in ElemWalks, NEW p \in ElemPlace, NEW q \in Seq(ElemPlace), NEW x, x = [w EXCEPT !.pos = p, !.seen = q]
  PROVE  x \in ElemWalks /\ x.on = w.on /\ x.back = w.back /\ x.pos = p /\ x.seen = q
BY DEF ElemWalks

LEMMA WalkTail ==
  ASSUME NEW w, NEW L \in Seq(ElemAddr), WalkIs(w, L), w.on = TRUE => (w.back = FALSE /\ w.pos # Nil),
         NEW a \in ElemAddr
  PROVE  WalkIs(w, Append(L, a))
<1> PICK K, n : K = Append(L, a) /\ n = Len(L)
  OBVIOUS
<1>1. n \in Nat /\ Len(K) = n + 1 /\ K[n + 1] = a /\ \A i \in 1 .. n : K[i] = L[i]
  OBVIOUS
<1>2. w \in ElemWalks
  BY DEF WalkIs
<1> PICK q, k : q = w.seen /\ k = Len(w.seen)
  OBVIOUS
<1>3. k \in Nat
  BY <1>2, WalkTypes
<1>4. CASE w.on = TRUE
  <2>1. w.back = FALSE /\ w.pos # Nil /\ Ahead(w, L)
    BY <1>4 DEF WalkIs
  <2>2. k <= n /\ (\A i \in 1 .. k : q[i] = L[i]) /\ k # n /\ w.pos = L[k + 1]
    BY <2>1 DEF Ahead
  <2>3. \A i \in 1 .. k : i \in 1 .. n
    BY <1>1, <1>3, <2>2
  <2>4. k + 1 \in 1 .. n /\ k <= n + 1 /\ k # n + 1
    BY <1>1, <1>3, <2>2
  <2>5. Ahead(w, K)
    BY <1>1, <2>2, <2>3, <2>4 DEF Ahead
  <2> QED BY <1>2, <2>1, <2>5 DEF WalkIs
<1>5. CASE w.on # TRUE
  BY <1>2, <1>5 DEF WalkIs
<1> QED BY <1>4, <1>5

LEMMA WalkHead ==
  ASSUME NEW w, NEW L \in Seq(ElemAddr), WalkIs(w, L), w.on = TRUE => (w.back = TRUE /\ w.pos # Nil),
         NEW a \in ElemAddr
  PROVE  WalkIs(w, <<a>> \o L)
<1> PICK K, n : K = <<a>> \o L /\ n = Len(L)
  OBVIOUS
<1>1. n \in Nat /\ Len(K) = n + 1 /\ \A i \in 1 .. n : K[i + 1] = L[i]
  OBVIOUS
<1>2. w \in ElemWalks
  BY DEF WalkIs
<1> PICK q, k : q = w.seen /\ k = Len(w.seen)
  OBVIOUS
<1>3. k \in Nat
  BY <1>2, WalkTypes
<1>4. CASE w.on = TRUE
  <2>1. w.back = TRUE /\ w.pos # Nil /\ Behind(w, L)
    BY <1>4 DEF WalkIs
  <2>2. k <= n /\ (\A i \in 1 .. k : q[i] = L[n + 1 - i]) /\ k # n /\ w.pos = L[n - k]
    BY <2>1 DEF Behind
  <2>3. \A i \in 1 .. k : n + 1 - i \in 1 .. n /\ (n + 1 - i) + 1 = (n + 1) + 1 - i
    BY <1>1, <1>3, <2>2
  <2>4. n - k \in 1 .. n /\ (n - k) + 1 = (n + 1) - k /\ k <= n + 1 /\ k # n + 1
    BY <1>1, <1>3, <2>2
  <2>5. Behind(w, K)
    <3>1. \A i \in 1 .. k : q[i] = K[(n + 1) + 1 - i]
      BY <1>1, <2>2, <2>3
    <3>2. w.pos = K[(n + 1) - k]
      BY <1>1, <2>2, <2>4
    <3> QED BY <1>1, <2>4, <3>1, <3>2 DEF Behind
  <2> QED BY <1>2, <2>1, <2>5 DEF WalkIs
<1>5. CASE w.on # TRUE
  BY <1>2, <1>5 DEF WalkIs
<1> QED BY <1>4, <1>5

\* An element handed out is dropped: the walk forgets it, and stands where it stood.
LEMMA WalkCut ==
  ASSUME NEW w, NEW L \in Seq(ElemAddr), Once(L), WalkIs(w, L), NEW i \in 1 .. Len(w.seen),
         NEW j \in 1 .. Len(L), w.seen[i] = L[j], NEW x, x = [w EXCEPT !.seen = Seqs!RemoveAt(w.seen, i)]
  PROVE  WalkIs(x, Cut(L, j))
<1> PICK n, q, k : n = Len(L) /\ q = w.seen /\ k = Len(w.seen)
  OBVIOUS
<1>1. w \in ElemWalks /\ q \in Seq(ElemPlace) /\ k \in Nat /\ k = Len(q) /\ n \in Nat
  BY WalkTypes DEF WalkIs
<1> PICK r, K : r = Cut(q, i) /\ K = Cut(L, j)
  OBVIOUS
<1>2. r \in Seq(ElemPlace) /\ Len(r) = k - 1 /\ \A e \in 1 .. k - 1 : r[e] = IF e < i THEN q[e] ELSE q[e + 1]
  <2>1. r \in Seq(ElemPlace) /\ CutAre(r, q, i)
    BY ONLY <1>1, i \in 1 .. Len(w.seen), q = w.seen, r = Cut(q, i), CutFacts
  <2> QED BY ONLY <1>1, <2>1 DEF CutAre
<1>3. Len(K) = n - 1 /\ \A e \in 1 .. n - 1 : K[e] = IF e < j THEN L[e] ELSE L[e + 1]
  <2>1. K \in Seq(ElemAddr) /\ CutAre(K, L, j)
    BY ONLY L \in Seq(ElemAddr), j \in 1 .. Len(L), K = Cut(L, j), CutFacts
  <2> QED BY ONLY <1>1, <2>1, n = Len(L) DEF CutAre
<1>4. x \in ElemWalks /\ x.on = w.on /\ x.back = w.back /\ x.pos = w.pos /\ x.seen = r
  <2>1. Seqs!RemoveAt(q, i) = r
    BY <1>1, RemoveAtIs
  <2>2. x = [w EXCEPT !.seen = r]
    BY <2>1
  <2> QED BY ONLY <1>1, <1>2, <2>2 DEF ElemWalks
<1>5. \A e, f \in 1 .. n : L[e] = L[f] => e = f
  BY DEF Once
<1>6. CASE w.on = TRUE /\ w.back = FALSE
  <2>1. k <= n /\ (\A e \in 1 .. k : q[e] = L[e]) /\ w.pos = IF k = n THEN Nil ELSE L[k + 1]
    BY <1>6 DEF WalkIs, Ahead
  <2>2. i = j
    <3>1. i \in 1 .. n /\ j \in 1 .. n /\ L[i] = L[j]
      BY <1>1, <2>1
    <3> QED BY <1>5, <3>1
  <2>3. ASSUME NEW e \in 1 .. k - 1 PROVE r[e] = K[e]
    <3>1. e \in 1 .. n - 1 /\ e \in 1 .. k /\ e + 1 \in 1 .. k
      BY <1>1, <2>1
    <3> QED BY <1>2, <1>3, <2>1, <2>2, <3>1
  <2>4. w.pos = IF k - 1 = n - 1 THEN Nil ELSE K[(k - 1) + 1]
    <3>1. CASE k = n
      <4>1. k - 1 = n - 1
        BY <3>1
      <4> QED BY <2>1, <3>1, <4>1
    <3>2. CASE k # n
      <4>1. k - 1 # n - 1 /\ (k - 1) + 1 = k /\ k \in 1 .. n - 1 /\ ~ (k < j)
        BY <1>1, <2>1, <2>2, <3>2
      <4>2. K[k] = L[k + 1]
        BY <1>3, <4>1
      <4> QED BY <2>1, <3>2, <4>1, <4>2
    <3> QED BY <3>1, <3>2
  <2>5. k - 1 <= n - 1
    BY <1>1, <2>1
  <2>6. Ahead(x, K)
    BY ONLY <1>2, <1>3, <1>4, <2>3, <2>4, <2>5 DEF Ahead
  <2> QED BY <1>4, <1>6, <2>6 DEF WalkIs
<1>7. CASE w.on = TRUE /\ w.back = TRUE
  <2>1. k <= n /\ (\A e \in 1 .. k : q[e] = L[n + 1 - e]) /\ w.pos = IF k = n THEN Nil ELSE L[n - k]
    BY <1>7 DEF WalkIs, Behind
  <2>2. n + 1 - i = j
    <3>1. n + 1 - i \in 1 .. n /\ j \in 1 .. n /\ L[n + 1 - i] = L[j]
      BY <1>1, <2>1
    <3> QED BY <1>5, <3>1
  <2>3. ASSUME NEW e \in 1 .. k - 1 PROVE r[e] = K[(n - 1) + 1 - e]
    <3> PICK f : f = (n - 1) + 1 - e
      OBVIOUS
    <3>0. i \in 1 .. k
      BY <1>1
    <3>1. f \in 1 .. n - 1 /\ e \in 1 .. k /\ e + 1 \in 1 .. k /\ n + 1 - e = f + 1 /\ n + 1 - (e + 1) = f
      BY ONLY <1>1, <2>1, <3>0, e \in 1 .. k - 1, f = (n - 1) + 1 - e
    <3>4. e < i <=> ~ (f < j)
      BY ONLY <1>1, <2>2, <3>0, e \in 1 .. k - 1, f = (n - 1) + 1 - e
    <3>5. q[e] = L[f + 1] /\ q[e + 1] = L[f]
      BY ONLY <2>1, <3>1
    <3>2. CASE e < i
      BY ONLY <1>2, <1>3, <3>1, <3>4, <3>5, <3>2, e \in 1 .. k - 1, f = (n - 1) + 1 - e
    <3>3. CASE ~ (e < i)
      BY ONLY <1>2, <1>3, <3>1, <3>4, <3>5, <3>3, e \in 1 .. k - 1, f = (n - 1) + 1 - e
    <3> QED BY <3>2, <3>3
  <2>4. w.pos = IF k - 1 = n - 1 THEN Nil ELSE K[(n - 1) - (k - 1)]
    <3>1. CASE k = n
      <4>1. k - 1 = n - 1
        BY <3>1
      <4> QED BY <2>1, <3>1, <4>1
    <3>2. CASE k # n
      <4>1. k - 1 # n - 1 /\ (n - 1) - (k - 1) = n - k /\ n - k \in 1 .. n - 1 /\ n - k < j
        BY <1>1, <2>1, <2>2, <3>2
      <4>2. K[n - k] = L[n - k]
        BY <1>3, <4>1
      <4> QED BY <2>1, <3>2, <4>1, <4>2
    <3> QED BY <3>1, <3>2
  <2>5. k - 1 <= n - 1
    BY <1>1, <2>1
  <2>6. Behind(x, K)
    BY ONLY <1>2, <1>3, <1>4, <2>3, <2>4, <2>5 DEF Behind
  <2> QED BY <1>4, <1>7, <2>6 DEF WalkIs
<1>8. CASE w.on # TRUE
  BY <1>4, <1>8 DEF WalkIs
<1>9. w.back \in BOOLEAN
  BY <1>1, WalkTypes
<1> QED BY <1>6, <1>7, <1>8, <1>9

\* The walk goes on: the element it stands at is handed out, and it stands at the next.
LEMMA WalkForth ==
  ASSUME NEW w, NEW s, NEW L, ListIs(s, L), WalkIs(w, L), w.on = TRUE, w.back = FALSE, w.pos # Nil,
         NEW p, p = s.m[w.pos].next, NEW x, x = [w EXCEPT !.pos = p, !.seen = Append(w.seen, w.pos)]
  PROVE  WalkIs(x, L)
<1> PICK n, q, k, a : n = Len(L) /\ q = w.seen /\ k = Len(w.seen) /\ a = w.pos
  OBVIOUS
<1>1. w \in ElemWalks /\ q \in Seq(ElemPlace) /\ k \in Nat /\ k = Len(q) /\ a \in ElemPlace
  BY WalkTypes DEF WalkIs
<1>2. L \in Seq(ElemAddr) /\ n \in Nat
  BY DEF ListIs
<1>3. k <= n /\ (\A i \in 1 .. k : q[i] = L[i]) /\ a = IF k = n THEN Nil ELSE L[k + 1]
  BY DEF WalkIs, Ahead
<1>4. k + 1 \in 1 .. n /\ a = L[k + 1]
  BY <1>1, <1>2, <1>3
<1>5. p = IF k + 1 = n THEN Nil ELSE L[(k + 1) + 1]
  <2> PICK j : j = k + 1
    OBVIOUS
  <2>1. \A i \in 1 .. n : s.m[L[i]].next = IF i = n THEN Nil ELSE L[i + 1]
    BY DEF ListIs, Linked
  <2>2. j \in 1 .. n /\ p = s.m[L[j]].next
    BY <1>4
  <2>3. p = IF j = n THEN Nil ELSE L[j + 1]
    BY ONLY <2>1, <2>2
  <2> QED BY ONLY <2>3, j = k + 1
<1>6. p \in ElemPlace
  BY <1>2, <1>4, <1>5, PlaceFacts
<1> PICK r : r = Append(q, a)
  OBVIOUS
<1>7. r \in Seq(ElemPlace) /\ Len(r) = k + 1 /\ r[k + 1] = a /\ \A i \in 1 .. k : r[i] = q[i]
  BY <1>1
<1>8. x \in ElemWalks /\ x.on = w.on /\ x.back = w.back /\ x.pos = p /\ x.seen = r
  <2>1. x = [w EXCEPT !.pos = p, !.seen = r]
    OBVIOUS
  <2>2. w \in ElemWalks /\ p \in ElemPlace /\ r \in Seq(ElemPlace)
    BY <1>1, <1>6, <1>7
  <2> QED BY ONLY <2>1, <2>2 DEF ElemWalks
<1>9. \A i \in 1 .. k + 1 : r[i] = L[i]
  <2>1. \A i \in 1 .. k + 1 : i \in 1 .. k \/ i = k + 1
    BY <1>1
  <2> QED BY <1>3, <1>4, <1>7, <2>1
<1>10. Ahead(x, L)
  <2>1. k + 1 <= n
    BY <1>4
  <2> QED BY ONLY <1>5, <1>7, <1>8, <1>9, <2>1, n = Len(L) DEF Ahead
<1> QED BY <1>8, <1>10 DEF WalkIs

LEMMA WalkBack ==
  ASSUME NEW w, NEW s, NEW L, ListIs(s, L), WalkIs(w, L), w.on = TRUE, w.back = TRUE, w.pos # Nil,
         NEW p, p = s.m[w.pos].prev, NEW x, x = [w EXCEPT !.pos = p, !.seen = Append(w.seen, w.pos)]
  PROVE  WalkIs(x, L)
<1> PICK n, q, k, a : n = Len(L) /\ q = w.seen /\ k = Len(w.seen) /\ a = w.pos
  OBVIOUS
<1>1. w \in ElemWalks /\ q \in Seq(ElemPlace) /\ k \in Nat /\ k = Len(q) /\ a \in ElemPlace
  BY WalkTypes DEF WalkIs
<1>2. L \in Seq(ElemAddr) /\ n \in Nat
  BY DEF ListIs
<1>3. k <= n /\ (\A i \in 1 .. k : q[i] = L[n + 1 - i]) /\ a = IF k = n THEN Nil ELSE L[n - k]
  BY DEF WalkIs, Behind
<1> PICK j : j = n - k
  OBVIOUS
<1>4. j \in 1 .. n /\ a = L[j] /\ k + 1 <= n /\ (j = 1 <=> k + 1 = n) /\ j - 1 = n - (k + 1) /\ n + 1 - (k + 1) = j
  BY <1>1, <1>2, <1>3
<1>5. p = IF j = 1 THEN Nil ELSE L[j - 1]
  <2>1. \A i \in 1 .. n : s.m[L[i]].prev = IF i = 1 THEN Nil ELSE L[i - 1]
    BY DEF ListIs, Linked
  <2>2. j \in 1 .. n /\ p = s.m[L[j]].prev
    BY <1>4
  <2> QED BY ONLY <2>1, <2>2
<1>6. p \in ElemPlace
  BY <1>2, <1>4, <1>5, PlaceFacts
<1> PICK r : r = Append(q, a)
  OBVIOUS
<1>7. r \in Seq(ElemPlace) /\ Len(r) = k + 1 /\ r[k + 1] = a /\ \A i \in 1 .. k : r[i] = q[i]
  BY <1>1
<1>8. x \in ElemWalks /\ x.on = w.on /\ x.back = w.back /\ x.pos = p /\ x.seen = r
  <2>1. x = [w EXCEPT !.pos = p, !.seen = r]
    OBVIOUS
  <2>2. w \in ElemWalks /\ p \in ElemPlace /\ r \in Seq(ElemPlace)
    BY <1>1, <1>6, <1>7
  <2> QED BY ONLY <2>1, <2>2 DEF ElemWalks
<1>9. \A i \in 1 .. k + 1 : r[i] = L[n + 1 - i]
  <2>1. \A i \in 1 .. k + 1 : i \in 1 .. k \/ i = k + 1
    BY <1>1
  <2>2. ASSUME NEW i \in 1 .. k PROVE r[i] = L[n + 1 - i]
    BY ONLY <1>3, <1>7, i \in 1 .. k
  <2>3. ASSUME NEW i, i = k + 1 PROVE r[i] = L[n + 1 - i]
    <3>1. n + 1 - i = j
      BY <1>4, <2>3
    <3> QED BY ONLY <1>4, <1>7, <2>3, <3>1
  <2> QED BY ONLY <2>1, <2>2, <2>3
<1>10. Behind(x, L)
  <2>1. p = IF k + 1 = n THEN Nil ELSE L[n - (k + 1)]
    BY <1>4, <1>5
  <2>2. k + 1 <= n
    BY <1>4
  <2> QED BY ONLY <1>7, <1>8, <1>9, <2>1, <2>2, n = Len(L) DEF Behind
<1> QED BY <1>8, <1>10 DEF WalkIs

LEMMA WalkStarts ==
  ASSUME NEW s, AsElem(s), NEW L, ListIs(s, L), s.l.n > 0, NEW back \in BOOLEAN,
         NEW p, p = (IF back THEN s.l.last ELSE s.l.first),
         NEW x, x = [on |-> TRUE, back |-> back, pos |-> p, seen |-> <<>>]
  PROVE  WalkIs(x, L)
<1> PICK n \in Nat : n = Len(L)
  BY DEF ListIs
<1>1. n # 0 /\ s.l.first = L[1] /\ s.l.last = L[n] /\ p \in ElemPlace
  BY EndsAre DEF ListIs, Ended
<1>2. x \in ElemWalks /\ x.on = TRUE /\ x.back = back /\ x.pos = p /\ x.seen = <<>> /\ Len(x.seen) = 0
  <2>1. <<>> \in Seq(ElemPlace)
    OBVIOUS
  <2> QED BY <1>1, <2>1 DEF ElemWalks
<1>3. \A i \in 1 .. 0 : FALSE
  OBVIOUS
<1>4. CASE back
  <2>1. p = IF 0 = n THEN Nil ELSE L[n - 0]
    BY <1>1, <1>4
  <2>2. Behind(x, L)
    BY <1>2, <1>3, <2>1 DEF Behind
  <2> QED BY <1>2, <1>4, <2>2 DEF WalkIs
<1>5. CASE ~ back
  <2>1. p = IF 0 = n THEN Nil ELSE L[0 + 1]
    BY <1>1, <1>5
  <2>2. Ahead(x, L)
    BY <1>2, <1>3, <2>1 DEF Ahead
  <2> QED BY <1>2, <1>5, <2>2 DEF WalkIs
<1> QED BY <1>4, <1>5

\* A walk that came to its end has handed out the whole list.
LEMMA WalkEnds ==
  ASSUME NEW w, NEW L \in Seq(ElemAddr), WalkIs(w, L), w.on = TRUE, w.pos = Nil
  PROVE  w.seen = IF w.back THEN Seqs!Reverse(L) ELSE L
<1> PICK n, q, k : n = Len(L) /\ q = w.seen /\ k = Len(w.seen)
  OBVIOUS
<1>1. w \in ElemWalks /\ q \in Seq(ElemPlace) /\ k \in Nat /\ k = Len(q) /\ n \in Nat /\ w.back \in BOOLEAN
  BY WalkTypes DEF WalkIs
<1>2. \A i \in 1 .. n : L[i] # Nil
  BY PlaceFacts
<1>3. CASE w.back = FALSE
  <2>1. k <= n /\ (\A i \in 1 .. k : q[i] = L[i]) /\ w.pos = IF k = n THEN Nil ELSE L[k + 1]
    BY <1>3 DEF WalkIs, Ahead
  <2>2. k = n
    <3>1. k # n => k + 1 \in 1 .. n
      BY <1>1, <2>1
    <3> QED BY <1>2, <2>1, <3>1
  <2>3. q = [i \in 1 .. n |-> q[i]] /\ L = [i \in 1 .. n |-> L[i]]
    <3>1. n = Len(q)
      BY <1>1, <2>2
    <3>2. q = [i \in 1 .. n |-> q[i]]
      BY ONLY <1>1, <3>1
    <3>3. L = [i \in 1 .. n |-> L[i]]
      BY ONLY L \in Seq(ElemAddr), n = Len(L)
    <3> QED BY <3>2, <3>3
  <2>4. q = L
    BY <2>1, <2>2, <2>3
  <2> QED BY <1>3, <2>4
<1>4. CASE w.back = TRUE
  <2>1. k <= n /\ (\A i \in 1 .. k : q[i] = L[n + 1 - i]) /\ w.pos = IF k = n THEN Nil ELSE L[n - k]
    BY <1>4 DEF WalkIs, Behind
  <2>2. k = n
    <3>1. k # n => n - k \in 1 .. n
      BY <1>1, <2>1
    <3> QED BY <1>2, <2>1, <3>1
  <2>3. q = [i \in 1 .. n |-> q[i]]
    <3>1. n = Len(q)
      BY <1>1, <2>2
    <3> QED BY ONLY <1>1, <3>1
  <2>4. \A i \in 1 .. n : q[i] = L[(n - i) + 1]
    <3>1. \A i \in 1 .. n : n + 1 - i = (n - i) + 1
      BY <1>1
    <3> QED BY <2>1, <2>2, <3>1
  <2>5. q = [i \in 1 .. n |-> L[(n - i) + 1]]
    BY ONLY <2>3, <2>4
  <2>6. q = Seqs!Reverse(L)
    BY <2>5 DEF Seqs!Reverse
  <2> QED BY <1>4, <2>6
<1> QED BY <1>1, <1>3, <1>4

-----------------------------------------------------------------------------
(* The list's addresses, and the values of the two. *)

Chained(f, m, l) == f = [i \in 1 .. l.n |-> IF i = 1 THEN l.first ELSE m[f[i - 1]].next]

LEMMA ChainIs ==
  ASSUME NEW s, NEW L, ListIs(s, L)
  PROVE  ChainOf(s.m, s.l) = L
<1> PICK n \in Nat : n = Len(L)
  BY DEF ListIs
<1> PICK m, l : m = s.m /\ l = s.l
  OBVIOUS
<1>1. L = [i \in 1 .. n |-> L[i]] /\ l.n = n
  BY DEF ListIs, Ended
<1>2. \A i \in 1 .. n : m[L[i]].next = IF i = n THEN Nil ELSE L[i + 1]
  BY DEF ListIs, Linked
<1>3. n # 0 => l.first = L[1]
  BY DEF ListIs, Ended
<1>4. \A i \in 1 .. n : L[i] = IF i = 1 THEN l.first ELSE m[L[i - 1]].next
  <2> SUFFICES ASSUME NEW i \in 1 .. n PROVE L[i] = IF i = 1 THEN l.first ELSE m[L[i - 1]].next
    OBVIOUS
  <2>1. CASE i = 1
    <3>1. n # 0
      BY <2>1
    <3> QED BY <1>3, <2>1, <3>1
  <2>2. CASE i # 1
    <3> PICK j : j = i - 1
      OBVIOUS
    <3>1. j \in 1 .. n /\ j # n /\ j + 1 = i
      BY <2>2
    <3> QED BY ONLY <1>2, <2>2, <3>1, j = i - 1
  <2> QED BY <2>1, <2>2
<1>5. Chained(L, m, l)
  BY <1>1, <1>4 DEF Chained
<1>6. ASSUME NEW f, Chained(f, m, l) PROVE f = L
  <2>1. f = [i \in 1 .. n |-> IF i = 1 THEN l.first ELSE m[f[i - 1]].next]
    BY <1>1, <1>6 DEF Chained
  <2>2. f = [i \in 1 .. n |-> f[i]] /\ \A i \in 1 .. n : f[i] = IF i = 1 THEN l.first ELSE m[f[i - 1]].next
    BY <2>1
  <2> DEFINE g == [k \in 0 .. n |-> IF k = 0 THEN Nil ELSE f[k]]
             D == [k \in 0 .. n |-> IF k = 0 THEN {Nil} ELSE {L[k]}]
  <2>3. n \in Nat /\ g[0] \in D[0]
    OBVIOUS
  <2>4. ASSUME NEW k \in 1 .. n, g[k - 1] \in D[k - 1] PROVE g[k] \in D[k]
    <3>0. k - 1 \in 0 .. n /\ k \in 0 .. n /\ k # 0
      OBVIOUS
    <3>1. CASE k = 1
      <4>1. f[k] = l.first /\ L[k] = l.first
        BY <1>4, <2>2, <3>1
      <4> QED BY <3>0, <4>1
    <3>2. CASE k # 1
      <4>1. f[k - 1] = L[k - 1]
        <5> PICK j : j = k - 1
          OBVIOUS
        <5>1. j \in 0 .. n /\ j # 0 /\ g[j] \in D[j]
          BY <2>4, <3>0, <3>2
        <5>2. f[j] = L[j]
          BY ONLY <5>1
        <5> QED BY <5>2
      <4>2. f[k] = L[k]
        <5>1. f[k] = m[f[k - 1]].next
          BY ONLY <2>2, <3>2, k \in 1 .. n
        <5>2. L[k] = m[L[k - 1]].next
          BY ONLY <1>4, <3>2, k \in 1 .. n
        <5> QED BY ONLY <4>1, <5>1, <5>2
      <4> QED BY <3>0, <4>2
    <3> QED BY <3>1, <3>2
  <2> HIDE DEF g, D
  <2>5. \A k \in 0 .. n : g[k] \in D[k]
    BY ONLY <2>3, <2>4, LoopStays
  <2>6. \A k \in 1 .. n : f[k] = L[k]
    <3>1. \A k \in 1 .. n : k \in 0 .. n /\ k # 0
      OBVIOUS
    <3> QED BY ONLY <2>5, <3>1 DEF g, D
  <2> QED BY ONLY <1>1, <2>2, <2>6
<1>7. ChainOf(m, l) = CHOOSE f : Chained(f, m, l)
  BY Zenon DEF ChainOf, Chained
<1> QED BY <1>5, <1>6, <1>7

LEMMA ListValsAre ==
  ASSUME NEW s, NEW L, ListIs(s, L)
  PROVE  [i \in 1 .. s.l.n |-> s.m[ChainOf(s.m, s.l)[i]].val] = ValsOf(s.m, L)
<1>1. ChainOf(s.m, s.l) = L /\ s.l.n = Len(L)
  BY ChainIs DEF ListIs, Ended
<1> QED BY <1>1 DEF ValsOf

\* Every slot the vector counts has its element.
LEMMA SlotsAre ==
  ASSUME NEW s, NEW B, NEW E, AsElem(s), VectIs(s, B, E)
  PROVE  /\ s.n = Len(E) /\ Len(E) \in Nat
         /\ \A i \in 0 .. s.n - 1 : i + 1 \in 1 .. Len(E) /\ GetSlot(s.m, i) = E[i + 1]
<1> PICK n \in Nat : n = Len(E) /\ s.n = n
  BY DEF VectIs, Elems
<1>1. Extended(s.m, B) /\ Arena(s.m) /\ \A i \in 1 .. n : Names(s.m, B, i - 1, E[i])
  BY DEF VectIs, AsElem
<1>2. ASSUME NEW i \in 0 .. n - 1 PROVE i + 1 \in 1 .. n /\ GetSlot(s.m, i) = E[i + 1]
  <2> PICK j, x : j = i + 1 /\ x = E[j]
    OBVIOUS
  <2>1. j \in 1 .. n /\ j - 1 = i /\ i \in Nat
    OBVIOUS
  <2>2. Names(s.m, B, i, x)
    BY <1>1, <2>1
  <2> QED BY <1>1, <2>1, <2>2, GetSlotIs
<1> QED BY <1>2

LEMMA VectValsAre ==
  ASSUME NEW s, NEW B, NEW E, AsElem(s), VectIs(s, B, E)
  PROVE  [i \in 1 .. s.n |-> s.m[GetSlot(s.m, i - 1)].val] = ValsOf(s.m, E)
<1>1. s.n = Len(E) /\ Len(E) \in Nat
  BY SlotsAre
<1>2. \A i \in 1 .. Len(E) : GetSlot(s.m, i - 1) = E[i]
  <2> SUFFICES ASSUME NEW i \in 1 .. Len(E) PROVE GetSlot(s.m, i - 1) = E[i]
    OBVIOUS
  <2> PICK j : j = i - 1
    OBVIOUS
  <2>1. j \in 0 .. s.n - 1 /\ j + 1 = i
    BY <1>1
  <2> QED BY <2>1, SlotsAre
<1> QED BY <1>1, <1>2 DEF ValsOf

\* Where the wrapper goes, it finds an element, or nothing.
LEMMA ElemAtIs ==
  ASSUME NEW s, NEW L, NEW B, NEW E, Held(s, L, B, E), NEW n \in Int, n < Len(E), NEW t, t = ElemAt(s, n)
  PROVE  Held(t, L, B, E) /\ t.m = s.m /\ t.w = s.w /\ t.ok = s.ok
<1>1. AsElem(s) /\ ListIs(s, L) /\ VectIs(s, B, E) /\ Disjoint(L, E)
  BY HeldFacts
<1> PICK c : c = IF n < 0 THEN Nil ELSE GetSlot(s.m, n)
  OBVIOUS
<1>2. c \in ElemPlace /\ Stands(c, E)
  <2>1. CASE n < 0
    BY <2>1, PlaceFacts DEF Stands
  <2>2. CASE ~ (n < 0)
    <3> PICK j : j = n + 1
      OBVIOUS
    <3>1. s.n = Len(E) /\ Len(E) \in Nat /\ E \in Seq(ElemAddr)
      BY <1>1, SlotsAre, HeldFacts
    <3>2. n \in 0 .. s.n - 1
      BY <2>2, <3>1
    <3>3. c = E[j] /\ j \in 1 .. Len(E)
      BY <1>1, <2>2, <3>2, SlotsAre
    <3> QED BY <3>1, <3>3 DEF Stands, ElemPlace
  <2> QED BY <2>1, <2>2
<1>3. t = [s EXCEPT !.c = c]
  BY DEF ElemAt
<1>4. AsElem(t) /\ t.m = s.m /\ t.l = s.l /\ t.n = s.n /\ t.c = c /\ t.w = s.w /\ t.ok = s.ok
  BY ONLY <1>1, <1>2, <1>3 DEF AsElem, ElemState
<1>5. ListIs(t, L) /\ VectIs(t, B, E)
  BY ONLY <1>1, <1>4 DEF ListIs, VectIs
<1> QED BY <1>1, <1>2, <1>4, <1>5 DEF Held

-----------------------------------------------------------------------------
(* The renumbering: every block keeps what it says, under the new numbers. *)

Renames(to) == /\ to \in [ElemPlace -> ElemPlace] /\ to[Nil] = Nil
               /\ \A a \in ElemAddr : to[a] \in ElemAddr
               /\ \A a, b \in ElemPlace : to[a] = to[b] => a = b
Image(to, q) == [i \in 1 .. Len(q) |-> to[q[i]]]

SameBlock(to, read, b, d) ==
  /\ d.is = b.is /\ d.val = b.val /\ d.prev = to[b.prev] /\ d.next = to[b.next] /\ d.extra = to[b.extra]
  /\ \A i \in Slot : b.slots[i] \in read => d.slots[i] = to[b.slots[i]]
Moves(s, t, to, read) ==
  /\ AsElem(t) /\ \A a \in ElemPlace : SameBlock(to, read, s.m[a], t.m[to[a]])
  /\ t.l.first = to[s.l.first] /\ t.l.last = to[s.l.last] /\ t.l.n = s.l.n
  /\ t.n = s.n /\ t.c = to[s.c] /\ t.ok = s.ok
  /\ t.w = [s.w EXCEPT !.pos = to[s.w.pos], !.seen = Image(to, s.w.seen)]

LEMMA ImageIs ==
  ASSUME NEW to, Renames(to), NEW q \in Seq(ElemPlace), NEW r, r = Image(to, q)
  PROVE  /\ r \in Seq(ElemPlace) /\ Len(r) = Len(q) /\ \A i \in 1 .. Len(q) : r[i] = to[q[i]]
         /\ Once(q) => Once(r)
<1> PICK n \in Nat : n = Len(q)
  OBVIOUS
<1>1. r = [i \in 1 .. n |-> to[q[i]]]
  BY DEF Image
<1>2. \A i \in 1 .. n : q[i] \in ElemPlace /\ to[q[i]] \in ElemPlace
  BY DEF Renames
<1>3. r \in Seq(ElemPlace) /\ Len(r) = n /\ \A i \in 1 .. n : r[i] = to[q[i]]
  BY ONLY <1>1, <1>2, n \in Nat
<1>4. ASSUME Once(q) PROVE Once(r)
  <2>1. \A i, j \in 1 .. n : r[i] = r[j] => i = j
    BY <1>2, <1>3, <1>4 DEF Once, Renames
  <2> QED BY <1>3, <2>1 DEF Once
<1> QED BY <1>3, <1>4

LEMMA ImageAddr ==
  ASSUME NEW to, Renames(to), NEW q \in Seq(ElemAddr), NEW r, r = Image(to, q)
  PROVE  r \in Seq(ElemAddr) /\ Len(r) = Len(q) /\ \A i \in 1 .. Len(q) : r[i] = to[q[i]]
<1> PICK n \in Nat : n = Len(q)
  OBVIOUS
<1>1. r = [i \in 1 .. n |-> to[q[i]]]
  BY DEF Image
<1>2. \A i \in 1 .. n : q[i] \in ElemAddr /\ to[q[i]] \in ElemAddr
  BY DEF Renames
<1> QED BY ONLY <1>1, <1>2, n \in Nat, n = Len(q)

LEMMA AddrPlaces == \A q \in Seq(ElemAddr) : q \in Seq(ElemPlace)
BY DEF ElemPlace

LEMMA ListMoves ==
  ASSUME NEW s, NEW L, ListIs(s, L), NEW t, NEW to, NEW read, Renames(to), Moves(s, t, to, read),
         NEW K, K = Image(to, L)
  PROVE  ListIs(t, K) /\ ValsOf(t.m, K) = ValsOf(s.m, L)
<1> PICK n \in Nat : n = Len(L)
  BY DEF ListIs
<1>1. L \in Seq(ElemAddr) /\ L \in Seq(ElemPlace) /\ Once(L)
  BY AddrPlaces DEF ListIs
<1>2. K \in Seq(ElemAddr) /\ Len(K) = n /\ \A i \in 1 .. n : K[i] = to[L[i]]
  BY <1>1, ImageAddr
<1>3. Once(K)
  BY <1>1, ImageIs
<1>4. to[Nil] = Nil
  BY DEF Renames
<1>5. \A i \in 1 .. n : SameBlock(to, read, s.m[L[i]], t.m[K[i]])
  <2>1. \A i \in 1 .. n : L[i] \in ElemPlace
    BY <1>1
  <2> QED BY <1>2, <2>1 DEF Moves
<1>6. \A i \in 1 .. n : /\ s.m[L[i]].is = "elem" /\ s.m[L[i]].prev = (IF i = 1 THEN Nil ELSE L[i - 1])
                        /\ s.m[L[i]].next = (IF i = n THEN Nil ELSE L[i + 1])
  BY DEF ListIs, Linked
<1>7. \A i \in 1 .. n : /\ t.m[K[i]].is = "elem" /\ t.m[K[i]].prev = (IF i = 1 THEN Nil ELSE K[i - 1])
                        /\ t.m[K[i]].next = (IF i = n THEN Nil ELSE K[i + 1])
  <2> SUFFICES ASSUME NEW i \in 1 .. n
               PROVE  /\ t.m[K[i]].is = "elem" /\ t.m[K[i]].prev = (IF i = 1 THEN Nil ELSE K[i - 1])
                      /\ t.m[K[i]].next = (IF i = n THEN Nil ELSE K[i + 1])
    OBVIOUS
  <2>1. t.m[K[i]].is = "elem" /\ t.m[K[i]].prev = to[s.m[L[i]].prev] /\ t.m[K[i]].next = to[s.m[L[i]].next]
    BY <1>5, <1>6 DEF SameBlock
  <2>2. i # 1 => i - 1 \in 1 .. n /\ K[i - 1] = to[L[i - 1]]
    BY <1>2
  <2>3. i # n => i + 1 \in 1 .. n /\ K[i + 1] = to[L[i + 1]]
    BY <1>2
  <2> QED BY <1>4, <1>6, <2>1, <2>2, <2>3
<1>8. Linked(t.m, K)
  BY <1>2, <1>7 DEF Linked
<1>9. Ended(t.l, K)
  <2>1. s.l.n = n /\ s.l.first = (IF n = 0 THEN Nil ELSE L[1]) /\ s.l.last = (IF n = 0 THEN Nil ELSE L[n])
    BY DEF ListIs, Ended
  <2>2. n # 0 => 1 \in 1 .. n /\ n \in 1 .. n
    OBVIOUS
  <2>3. t.l.n = n /\ t.l.first = to[s.l.first] /\ t.l.last = to[s.l.last]
    BY <2>1 DEF Moves
  <2> QED BY <1>2, <1>4, <2>1, <2>2, <2>3 DEF Ended
<1>10. \A i \in 1 .. n : t.m[K[i]].val = s.m[L[i]].val
  BY <1>5 DEF SameBlock
<1> QED BY <1>2, <1>3, <1>8, <1>9, <1>10 DEF ListIs, ValsOf

LEMMA VectMoves ==
  ASSUME NEW s, NEW B, NEW E, VectIs(s, B, E), NEW t, NEW to, NEW read, Renames(to), Moves(s, t, to, read),
         \A i \in 1 .. Len(E) : E[i] \in read, NEW C, C = Image(to, B), NEW F, F = Image(to, E)
  PROVE  VectIs(t, C, F) /\ ValsOf(t.m, F) = ValsOf(s.m, E)
<1> PICK n, k : n = Len(E) /\ k = Len(B)
  OBVIOUS
<1>1. E \in Seq(ElemAddr) /\ E \in Seq(ElemPlace) /\ Once(E) /\ n \in Nat /\ s.n = n
      /\ \A i \in 1 .. n : s.m[E[i]].is = "elem"
  BY AddrPlaces DEF VectIs, Elems
<1>2. B \in Seq(ElemPlace) /\ Once(B) /\ k >= 1 /\ k \in Nat /\ B[1] = Nil
      /\ (\A i \in 2 .. k : s.m[B[i]].is = "cont")
      /\ \A i \in 1 .. k : s.m[B[i]].extra = IF i = k THEN Nil ELSE B[i + 1]
  BY DEF VectIs, Extended
<1>3. F \in Seq(ElemAddr) /\ Len(F) = n /\ \A i \in 1 .. n : F[i] = to[E[i]]
  BY <1>1, ImageAddr
<1>4. C \in Seq(ElemPlace) /\ Len(C) = k /\ \A i \in 1 .. k : C[i] = to[B[i]]
  BY <1>2, ImageIs
<1>5. Once(F) /\ Once(C)
  BY <1>1, <1>2, ImageIs
<1>6. to[Nil] = Nil
  BY DEF Renames
<1>7. \A i \in 1 .. n : SameBlock(to, read, s.m[E[i]], t.m[F[i]])
  <2>1. \A i \in 1 .. n : E[i] \in ElemPlace
    BY <1>1
  <2> QED BY <1>3, <2>1 DEF Moves
<1>8. \A i \in 1 .. k : SameBlock(to, read, s.m[B[i]], t.m[C[i]])
  <2>1. \A i \in 1 .. k : B[i] \in ElemPlace
    BY <1>2
  <2> QED BY <1>4, <2>1 DEF Moves
<1>9. Elems(t.m, F)
  BY <1>1, <1>3, <1>5, <1>7 DEF Elems, SameBlock
<1>10. \A i \in 1 .. k : t.m[C[i]].extra = IF i = k THEN Nil ELSE C[i + 1]
  <2> SUFFICES ASSUME NEW i \in 1 .. k PROVE t.m[C[i]].extra = IF i = k THEN Nil ELSE C[i + 1]
    OBVIOUS
  <2>1. t.m[C[i]].extra = to[s.m[B[i]].extra]
    BY <1>8 DEF SameBlock
  <2>2. i # k => i + 1 \in 1 .. k /\ C[i + 1] = to[B[i + 1]]
    BY <1>2, <1>4
  <2> QED BY <1>2, <1>6, <2>1, <2>2
<1>11. \A i \in 2 .. k : t.m[C[i]].is = "cont"
  <2>1. \A i \in 2 .. k : i \in 1 .. k
    BY <1>2
  <2> QED BY <1>2, <1>8, <2>1 DEF SameBlock
<1>12. C[1] = Nil
  <2>1. 1 \in 1 .. k
    BY <1>2
  <2> QED BY <1>2, <1>4, <1>6, <2>1
<1>13. Extended(t.m, C)
  BY <1>2, <1>4, <1>5, <1>10, <1>11, <1>12 DEF Extended
<1>14. ASSUME NEW i \in 1 .. n PROVE Names(t.m, C, i - 1, F[i])
  <2> PICK p, q : p = (i - 1) \div MaxInline /\ q = (i - 1) % MaxInline
    OBVIOUS
  <2>1. p \in Nat /\ q \in Slot
    <3>1. i - 1 \in Nat
      OBVIOUS
    <3> QED BY <3>1, SlotFacts
  <2>2. p < k /\ s.m[B[p + 1]].slots[q] = E[i]
    BY DEF VectIs, Names
  <2>3. p + 1 \in 1 .. k
    BY <1>2, <2>1, <2>2
  <2>4. t.m[C[p + 1]].slots[q] = F[i]
    <3> PICK j : j = p + 1
      OBVIOUS
    <3>1. SameBlock(to, read, s.m[B[j]], t.m[C[j]]) /\ s.m[B[j]].slots[q] = E[i]
      BY <1>8, <2>2, <2>3
    <3>2. E[i] \in read /\ F[i] = to[E[i]]
      BY <1>1, <1>3
    <3>3. t.m[C[j]].slots[q] = F[i]
      BY ONLY <2>1, <3>1, <3>2 DEF SameBlock
    <3> QED BY <3>3
  <2> QED BY <1>4, <2>2, <2>4 DEF Names
<1>15. t.n = n
  BY <1>1 DEF Moves
<1>16. ValsOf(t.m, F) = ValsOf(s.m, E)
  BY <1>3, <1>7 DEF ValsOf, SameBlock
<1> QED BY <1>3, <1>9, <1>13, <1>14, <1>15, <1>16 DEF VectIs

LEMMA MovesHold ==
  ASSUME NEW s, NEW L, NEW B, NEW E, Held(s, L, B, E), WalkIs(s.w, L),
         NEW t, NEW to, NEW read, Renames(to), Moves(s, t, to, read), \A i \in 1 .. Len(E) : E[i] \in read,
         NEW K, K = Image(to, L), NEW C, C = Image(to, B), NEW F, F = Image(to, E)
  PROVE  /\ Held(t, K, C, F) /\ WalkIs(t.w, K) /\ t.ok = s.ok
         /\ ValsOf(t.m, K) = ValsOf(s.m, L) /\ ValsOf(t.m, F) = ValsOf(s.m, E)
<1>1. AsElem(s) /\ ListIs(s, L) /\ VectIs(s, B, E) /\ Disjoint(L, E) /\ Stands(s.c, E)
      /\ L \in Seq(ElemAddr) /\ E \in Seq(ElemAddr)
      /\ (\A i \in 1 .. Len(L) : L[i] \in ElemPlace) /\ (\A i \in 1 .. Len(E) : E[i] \in ElemPlace)
  BY HeldFacts
<1>2. ListIs(t, K) /\ ValsOf(t.m, K) = ValsOf(s.m, L)
  BY <1>1, ListMoves
<1>3. VectIs(t, C, F) /\ ValsOf(t.m, F) = ValsOf(s.m, E)
  BY <1>1, VectMoves
<1>4. Len(K) = Len(L) /\ (\A i \in 1 .. Len(L) : K[i] = to[L[i]])
  BY <1>1, ImageAddr
<1>5. Len(F) = Len(E) /\ (\A i \in 1 .. Len(E) : F[i] = to[E[i]])
  BY <1>1, ImageAddr
<1>6. Disjoint(K, F)
  BY <1>1, <1>4, <1>5 DEF Disjoint, Renames
<1>7. Stands(t.c, F)
  <2>1. t.c = to[s.c] /\ to[Nil] = Nil
    BY DEF Moves, Renames
  <2>2. s.c = Nil \/ \E i \in 1 .. Len(E) : s.c = E[i]
    BY <1>1 DEF Stands
  <2> QED BY <1>5, <2>1, <2>2 DEF Stands
<1>8. AsElem(t) /\ t.ok = s.ok
  BY DEF Moves
<1>9. WalkIs(t.w, K)
  <2> PICK w, x, q, r, n, k : w = s.w /\ x = t.w /\ q = w.seen /\ r = Image(to, q) /\ n = Len(L) /\ k = Len(w.seen)
    OBVIOUS
  <2>1. w \in ElemWalks /\ q \in Seq(ElemPlace) /\ k \in Nat /\ k = Len(q) /\ w.pos \in ElemPlace /\ n \in Nat
    BY <1>1, WalkTypes DEF WalkIs
  <2>2. r \in Seq(ElemPlace) /\ Len(r) = k /\ \A i \in 1 .. k : r[i] = to[q[i]]
    BY <2>1, ImageIs
  <2>3. x = [w EXCEPT !.pos = to[w.pos], !.seen = r]
    BY DEF Moves
  <2>4. to[w.pos] \in ElemPlace /\ to[Nil] = Nil
    BY <2>1 DEF Renames
  <2>5. x \in ElemWalks /\ x.on = w.on /\ x.back = w.back /\ x.pos = to[w.pos] /\ x.seen = r
    BY ONLY <2>1, <2>2, <2>3, <2>4 DEF ElemWalks
  <2>6. CASE w.on = TRUE /\ w.back = FALSE
    <3>1. k <= n /\ (\A i \in 1 .. k : q[i] = L[i]) /\ w.pos = IF k = n THEN Nil ELSE L[k + 1]
      BY <2>6 DEF WalkIs, Ahead
    <3>2. \A i \in 1 .. k : r[i] = K[i]
      <4>1. \A i \in 1 .. k : i \in 1 .. n
        BY <2>1, <3>1
      <4> QED BY <1>4, <2>2, <3>1, <4>1
    <3>3. x.pos = IF k = n THEN Nil ELSE K[k + 1]
      <4>1. k # n => k + 1 \in 1 .. n
        BY <2>1, <3>1
      <4> QED BY <1>4, <2>4, <2>5, <3>1, <4>1
    <3>4. Ahead(x, K)
      BY <1>4, <2>2, <2>5, <3>1, <3>2, <3>3 DEF Ahead
    <3> QED BY <2>5, <2>6, <3>4 DEF WalkIs
  <2>7. CASE w.on = TRUE /\ w.back = TRUE
    <3>1. k <= n /\ (\A i \in 1 .. k : q[i] = L[n + 1 - i]) /\ w.pos = IF k = n THEN Nil ELSE L[n - k]
      BY <2>7 DEF WalkIs, Behind
    <3>2. \A i \in 1 .. k : r[i] = K[n + 1 - i]
      <4> SUFFICES ASSUME NEW i \in 1 .. k PROVE r[i] = K[n + 1 - i]
        OBVIOUS
      <4> PICK j : j = n + 1 - i
        OBVIOUS
      <4>1. j \in 1 .. n
        BY ONLY <2>1, <3>1, i \in 1 .. k, j = n + 1 - i
      <4>2. r[i] = to[q[i]] /\ q[i] = L[j]
        BY ONLY <2>2, <3>1, i \in 1 .. k, j = n + 1 - i
      <4>3. K[j] = to[L[j]]
        BY ONLY <1>4, <4>1, n = Len(L)
      <4> QED BY ONLY <4>2, <4>3, j = n + 1 - i
    <3>3. x.pos = IF k = n THEN Nil ELSE K[n - k]
      <4>1. k # n => n - k \in 1 .. n
        BY <2>1, <3>1
      <4> QED BY <1>4, <2>4, <2>5, <3>1, <4>1
    <3>4. Behind(x, K)
      BY <1>4, <2>2, <2>5, <3>1, <3>2, <3>3 DEF Behind
    <3> QED BY <2>5, <2>7, <3>4 DEF WalkIs
  <2>8. CASE w.on # TRUE
    BY <2>5, <2>8 DEF WalkIs
  <2>9. w.back \in BOOLEAN
    BY <2>1, WalkTypes
  <2> QED BY <2>6, <2>7, <2>8, <2>9
<1> QED BY <1>2, <1>3, <1>6, <1>7, <1>8, <1>9 DEF Held

\* A numbering of the blocks renames them.
NewPlace(p) == [a \in ElemPlace |-> IF a = Nil THEN Nil ELSE CHOOSE n \in ElemAddr : p[n] = a]

LEMMA NumberingIs ==
  ASSUME NEW p \in Numberings, NEW to, to = NewPlace(p)
  PROVE  Renames(to) /\ (\A n \in ElemAddr : p[n] \in ElemAddr) /\ \A a \in ElemAddr : p[to[a]] = a
<1>1. p \in [ElemAddr -> ElemAddr] /\ \A a \in ElemAddr : \E n \in ElemAddr : p[n] = a
  BY DEF Numberings
<1>2. to[Nil] = Nil
  BY PlaceFacts DEF NewPlace
<1>3. \A a \in ElemAddr : to[a] \in ElemAddr /\ p[to[a]] = a
  <2> SUFFICES ASSUME NEW a \in ElemAddr PROVE to[a] \in ElemAddr /\ p[to[a]] = a
    OBVIOUS
  <2>1. to[a] = CHOOSE n \in ElemAddr : p[n] = a
    BY PlaceFacts DEF NewPlace
  <2>2. \E n \in ElemAddr : p[n] = a
    BY <1>1
  <2> QED BY ONLY <2>1, <2>2
<1>4. \A a \in ElemPlace : a = Nil \/ a \in ElemAddr
  BY DEF ElemPlace
<1>5. to \in [ElemPlace -> ElemPlace]
  <2>1. \A a \in ElemPlace : to[a] \in ElemPlace
    BY <1>2, <1>3, <1>4, PlaceFacts
  <2>2. to = [a \in ElemPlace |-> to[a]]
    BY DEF NewPlace
  <2> QED BY ONLY <2>1, <2>2
<1>6. \A a, b \in ElemPlace : to[a] = to[b] => a = b
  BY ONLY <1>2, <1>3, <1>4, PlaceFacts
<1> QED BY <1>1, <1>2, <1>3, <1>5, <1>6 DEF Renames

Renumber(b, to, read) ==
  [b EXCEPT !.prev = to[b.prev], !.next = to[b.next], !.extra = to[b.extra],
            !.slots = [i \in Slot |-> IF b.slots[i] \in read THEN to[b.slots[i]] ELSE Nil]]

LEMMA RenumberIs ==
  ASSUME NEW b \in ElemBlock, NEW to, Renames(to), NEW read, NEW d, d = Renumber(b, to, read)
  PROVE  d \in ElemBlock /\ SameBlock(to, read, b, d)
<1>1. to[b.prev] \in ElemPlace /\ to[b.next] \in ElemPlace /\ to[b.extra] \in ElemPlace
  BY DEF ElemBlock, Renames
<1> PICK q : q = [i \in Slot |-> IF b.slots[i] \in read THEN to[b.slots[i]] ELSE Nil]
  OBVIOUS
<1>2. q \in [Slot -> ElemPlace]
  <2>1. \A i \in Slot : b.slots[i] \in ElemPlace
    BY DEF ElemBlock
  <2> QED BY <2>1, PlaceFacts DEF Renames
<1>3. \A i \in Slot : b.slots[i] \in read => q[i] = to[b.slots[i]]
  OBVIOUS
<1>4. d = [b EXCEPT !.prev = to[b.prev], !.next = to[b.next], !.extra = to[b.extra], !.slots = q]
  BY DEF Renumber
<1>5. d \in ElemBlock /\ d.is = b.is /\ d.val = b.val /\ d.prev = to[b.prev] /\ d.next = to[b.next]
      /\ d.extra = to[b.extra] /\ d.slots = q
  BY ONLY <1>1, <1>2, <1>4, b \in ElemBlock DEF ElemBlock
<1> QED BY <1>3, <1>5 DEF SameBlock

LEMMA MovedIs ==
  ASSUME NEW s, AsElem(s), s.w.seen \in Seq(ElemPlace), NEW p \in Numberings, NEW t, t = ElemMoved(s, p),
         NEW to, to = NewPlace(p), NEW read, read = {GetSlot(s.m, i) : i \in 0 .. s.n - 1}
  PROVE  Renames(to) /\ Moves(s, t, to, read)
<1>1. Renames(to) /\ (\A n \in ElemAddr : p[n] \in ElemAddr) /\ \A a \in ElemAddr : p[to[a]] = a
  BY NumberingIs
<1> PICK m : m = [n \in ElemPlace |-> Renumber(s.m[IF n = Nil THEN Nil ELSE p[n]], to, read)]
  OBVIOUS
<1> PICK q : q = Image(to, s.w.seen)
  OBVIOUS
<1> PICK l, w : /\ l = [s.l EXCEPT !.first = to[s.l.first], !.last = to[s.l.last]]
                /\ w = [s.w EXCEPT !.pos = to[s.w.pos], !.seen = q]
  OBVIOUS
<1>2. t = [s EXCEPT !.m = m, !.l = l, !.c = to[s.c], !.w = w]
  <2>1. q = [i \in DOMAIN s.w.seen |-> to[s.w.seen[i]]]
    BY DEF Image
  <2>3. to = [a \in ElemAddr \cup {Nil} |-> IF a = Nil THEN Nil ELSE CHOOSE n \in ElemAddr : p[n] = a]
    BY DEF NewPlace, ElemPlace
  <2> DEFINE To == [a \in ElemAddr \cup {Nil} |-> IF a = Nil THEN Nil ELSE CHOOSE n \in ElemAddr : p[n] = a]
             Read == {GetSlot(s.m, i) : i \in 0 .. s.n - 1}
             M == [n \in ElemAddr \cup {Nil} |-> Renumber(s.m[IF n = Nil THEN Nil ELSE p[n]], To, Read)]
             Q == [i \in DOMAIN s.w.seen |-> To[s.w.seen[i]]]
  <2>4. ElemMoved(s, p) = [s EXCEPT !.m = M, !.l.first = To[@], !.l.last = To[@], !.c = To[@],
                                    !.w.pos = To[@], !.w.seen = Q]
    BY DEF ElemMoved, Renumber
  <2>5. To = to /\ Read = read
    BY <2>3
  <2>6. M = m
    <3> HIDE DEF To, Read
    <3> QED BY <2>5 DEF ElemPlace
  <2>7. Q = q
    <3> HIDE DEF To
    <3> QED BY <2>1, <2>5
  <2> HIDE DEF To, M, Q
  <2>8. t = [s EXCEPT !.m = m, !.l.first = to[@], !.l.last = to[@], !.c = to[@], !.w.pos = to[@], !.w.seen = q]
    BY ONLY <2>4, <2>5, <2>6, <2>7, t = ElemMoved(s, p)
  <2>9. /\ l = [s.l EXCEPT !.first = to[s.l.first], !.last = to[s.l.last]]
        /\ w = [s.w EXCEPT !.pos = to[s.w.pos], !.seen = q]
    OBVIOUS
  <2> QED BY ONLY <2>8, <2>9
<1>3. \A n \in ElemPlace : s.m[IF n = Nil THEN Nil ELSE p[n]] \in ElemBlock
                           /\ (s.m[IF n = Nil THEN Nil ELSE p[n]].is = "vect" <=> n = Nil)
  <2> SUFFICES ASSUME NEW n \in ElemPlace
               PROVE  s.m[IF n = Nil THEN Nil ELSE p[n]] \in ElemBlock
                      /\ (s.m[IF n = Nil THEN Nil ELSE p[n]].is = "vect" <=> n = Nil)
    OBVIOUS
  <2> PICK a : a = IF n = Nil THEN Nil ELSE p[n]
    OBVIOUS
  <2>1. a \in ElemPlace /\ (a = Nil <=> n = Nil)
    BY <1>1, PlaceFacts DEF ElemPlace
  <2> QED BY <2>1, BlockIs
<1>4. \A n \in ElemPlace : m[n] \in ElemBlock /\ SameBlock(to, read, s.m[IF n = Nil THEN Nil ELSE p[n]], m[n])
  <2> SUFFICES ASSUME NEW n \in ElemPlace
               PROVE  m[n] \in ElemBlock /\ SameBlock(to, read, s.m[IF n = Nil THEN Nil ELSE p[n]], m[n])
    OBVIOUS
  <2> PICK b, d : b = s.m[IF n = Nil THEN Nil ELSE p[n]] /\ d = m[n]
    OBVIOUS
  <2>1. b \in ElemBlock /\ d = Renumber(b, to, read)
    BY <1>3
  <2> QED BY <1>1, <2>1, RenumberIs
<1>5. Arena(m)
  <2>1. m \in [ElemPlace -> ElemBlock]
    <3>1. m = [n \in ElemPlace |-> m[n]]
      OBVIOUS
    <3> QED BY ONLY <1>4, <3>1
  <2>2. \A n \in ElemPlace : m[n].is = "vect" <=> n = Nil
    BY <1>3, <1>4 DEF SameBlock
  <2> QED BY <2>1, <2>2 DEF Arena
<1>6. s.l \in ElemEnds /\ s.l.first \in ElemPlace /\ s.l.last \in ElemPlace /\ s.l.n \in Int
  BY EndsAre
<1>7. l \in ElemEnds /\ l.first = to[s.l.first] /\ l.last = to[s.l.last] /\ l.n = s.l.n
  <2>1. to[s.l.first] \in ElemPlace /\ to[s.l.last] \in ElemPlace
    BY <1>1, <1>6 DEF Renames
  <2> QED BY <1>6, <2>1 DEF ElemEnds
<1>8. s.w \in ElemWalks /\ s.c \in ElemPlace
  BY DEF AsElem, ElemState
<1>9. w \in ElemWalks
  <2>1. q \in Seq(ElemPlace)
    BY <1>1, ImageIs
  <2>2. to[s.w.pos] \in ElemPlace
    BY <1>1, <1>8, WalkTypes DEF Renames
  <2> QED BY <1>8, <2>1, <2>2 DEF ElemWalks
<1>10. to[s.c] \in ElemPlace
  BY <1>1, <1>8 DEF Renames
<1>11. AsElem(t) /\ t.m = m /\ t.l = l /\ t.n = s.n /\ t.c = to[s.c] /\ t.w = w /\ t.ok = s.ok
  BY ONLY <1>2, <1>5, <1>7, <1>9, <1>10, AsElem(s) DEF AsElem, ElemState, Arena
<1>12. \A a \in ElemPlace : SameBlock(to, read, s.m[a], m[to[a]])
  <2> SUFFICES ASSUME NEW a \in ElemPlace PROVE SameBlock(to, read, s.m[a], m[to[a]])
    OBVIOUS
  <2> PICK n : n = to[a]
    OBVIOUS
  <2>1. n \in ElemPlace /\ a = IF n = Nil THEN Nil ELSE p[n]
    BY <1>1, PlaceFacts DEF Renames, ElemPlace
  <2> QED BY <1>4, <2>1
<1> QED BY <1>1, <1>7, <1>11, <1>12 DEF Moves

-----------------------------------------------------------------------------
(* The state between two calls. *)

Settled(t) == [m |-> t.m, l |-> t.l, n |-> t.n, c |-> t.c, w |-> t.w, ok |-> TRUE]

LEMMA SettledHolds ==
  ASSUME NEW t, NEW L, NEW B, NEW E, Held(t, L, B, E), NEW x, x = Settled(t)
  PROVE  Held(x, L, B, E) /\ x.m = t.m /\ x.w = t.w /\ x.ok = TRUE
<1>1. AsElem(t) /\ ListIs(t, L) /\ VectIs(t, B, E) /\ Disjoint(L, E) /\ Stands(t.c, E)
  BY HeldFacts
<1>2. x.m = t.m /\ x.l = t.l /\ x.n = t.n /\ x.c = t.c /\ x.w = t.w /\ x.ok = TRUE
  BY DEF Settled
<1>3. AsElem(x)
  BY <1>1 DEF AsElem, ElemState, Settled
<1>4. ListIs(x, L) /\ VectIs(x, B, E)
  BY ONLY <1>1, <1>2 DEF ListIs, VectIs
<1> QED BY <1>1, <1>2, <1>3, <1>4 DEF Held

Ready(L, B, E) == Held(ElemStart, L, B, E) /\ WalkIs(walk, L) /\ elemOk \in BOOLEAN
ElemInv == \E L, B, E : Ready(L, B, E)

LEMMA ReadyIs ==
  ASSUME NEW L, NEW B, NEW E, Ready(L, B, E), NEW s, s = ElemStart
  PROVE  /\ Held(s, L, B, E) /\ WalkIs(s.w, L) /\ s.ok = TRUE
         /\ s.m = elemMem /\ s.l = list /\ s.n = items /\ s.c = curs /\ s.w = walk
         /\ ListVals = ValsOf(s.m, L) /\ VectVals = ValsOf(s.m, E)
         /\ Chain = L /\ list.n = Len(L) /\ items = Len(E)
<1>1. Held(s, L, B, E) /\ WalkIs(walk, L)
  BY DEF Ready
<1>2. s.m = elemMem /\ s.l = list /\ s.n = items /\ s.c = curs /\ s.w = walk /\ s.ok = TRUE
  BY DEF ElemStart
<1>3. AsElem(s) /\ ListIs(s, L) /\ VectIs(s, B, E)
  BY <1>1, HeldFacts
<1>4. ChainOf(s.m, s.l) = L /\ [i \in 1 .. s.l.n |-> s.m[ChainOf(s.m, s.l)[i]].val] = ValsOf(s.m, L)
  BY <1>3, ChainIs, ListValsAre
<1>5. [i \in 1 .. s.n |-> s.m[GetSlot(s.m, i - 1)].val] = ValsOf(s.m, E)
  BY <1>3, VectValsAre
<1>6. Chain = L /\ ListVals = ValsOf(s.m, L)
  BY <1>2, <1>4 DEF Chain, ListVals
<1>7. VectVals = ValsOf(s.m, E)
  BY <1>2, <1>5 DEF VectVals
<1>8. s.l.n = Len(L) /\ s.n = Len(E)
  BY <1>3 DEF ListIs, Ended, VectIs
<1> QED BY <1>1, <1>2, <1>6, <1>7, <1>8

\* The call leaves the values P and Q in the list and the vector, and returned or not.
Arrives(P, Q, r) == \E K, C, F : /\ Held(ElemStart', K, C, F) /\ WalkIs(walk', K)
                                 /\ ListVals' = P /\ VectVals' = Q /\ elemOk' = r

LEMMA CallArrives ==
  ASSUME NEW s, NEW L, NEW B, NEW E, Held(s, L, B, E), WalkIs(s.w, L), ElemCall(s),
         NEW P, P = ValsOf(s.m, L), NEW Q, Q = ValsOf(s.m, E)
  PROVE  Arrives(P, Q, s.ok)
<1>1. PICK t \in ElemRenumbered(s) : /\ elemMem' = t.m /\ list' = t.l /\ items' = t.n /\ curs' = t.c
                                     /\ walk' = t.w /\ elemOk' = t.ok
  BY DEF ElemCall
<1>2. PICK p \in Numberings : t = ElemMoved(s, p)
  BY DEF ElemRenumbered, ElemOrders
<1> PICK to, read : to = NewPlace(p) /\ read = {GetSlot(s.m, i) : i \in 0 .. s.n - 1}
  OBVIOUS
<1>3. AsElem(s) /\ VectIs(s, B, E) /\ s.w.seen \in Seq(ElemPlace)
  BY HeldFacts, WalkTypes DEF WalkIs
<1>4. Renames(to) /\ Moves(s, t, to, read)
  BY <1>2, <1>3, MovedIs
<1>5. \A i \in 1 .. Len(E) : E[i] \in read
  <2> SUFFICES ASSUME NEW i \in 1 .. Len(E) PROVE E[i] \in read
    OBVIOUS
  <2> PICK j : j = i - 1
    OBVIOUS
  <2>0. s.n = Len(E) /\ Len(E) \in Nat
    BY <1>3, SlotsAre
  <2>1. j \in 0 .. s.n - 1 /\ j + 1 = i
    BY <2>0
  <2>2. GetSlot(s.m, j) = E[i]
    BY <1>3, <2>1, SlotsAre
  <2> QED BY <2>1, <2>2
<1> PICK K, C, F : K = Image(to, L) /\ C = Image(to, B) /\ F = Image(to, E)
  OBVIOUS
<1>6. /\ Held(t, K, C, F) /\ WalkIs(t.w, K) /\ t.ok = s.ok /\ ValsOf(t.m, K) = P /\ ValsOf(t.m, F) = Q
  BY <1>4, <1>5, MovesHold
<1> PICK x : x = Settled(t)
  OBVIOUS
<1>7. Held(x, K, C, F) /\ x.m = t.m /\ x.w = t.w
  BY <1>6, SettledHolds
<1>8. x = ElemStart'
  BY <1>1 DEF ElemStart, Settled
<1>9. x.m = elemMem' /\ x.l = list' /\ x.n = items'
  BY <1>1 DEF Settled
<1>10. AsElem(x) /\ ListIs(x, K) /\ VectIs(x, C, F)
  BY <1>7, HeldFacts
<1>11. [i \in 1 .. x.l.n |-> x.m[ChainOf(x.m, x.l)[i]].val] = P
  BY <1>6, <1>7, <1>10, ListValsAre
<1>12. [i \in 1 .. x.n |-> x.m[GetSlot(x.m, i - 1)].val] = Q
  BY <1>6, <1>7, <1>10, VectValsAre
<1>13. ListVals' = P
  BY <1>9, <1>11 DEF ListVals, Chain
<1>14. VectVals' = Q
  BY <1>9, <1>12 DEF VectVals
<1> QED BY <1>1, <1>6, <1>7, <1>8, <1>13, <1>14 DEF Arrives

LEMMA ArrivesSound ==
  ASSUME NEW P, NEW Q, NEW r \in BOOLEAN, Arrives(P, Q, r)
  PROVE  ElemInv' /\ ListVals' = P /\ VectVals' = Q /\ elemOk' = r
BY DEF Arrives, ElemInv, Ready

-----------------------------------------------------------------------------
(* The calls: each keeps the invariant, and is a step of the two sequences. *)

Advances == ElemInv' /\ Elem!Next

LEMMA StaysPut ==
  ASSUME NEW r \in BOOLEAN, Arrives(ListVals, VectVals, r)
  PROVE  Advances
<1>1. ElemInv' /\ ListVals' = ListVals /\ VectVals' = VectVals /\ elemOk' \in BOOLEAN
  BY ArrivesSound
<1> QED BY <1>1 DEF Advances, Elem!Next, Elem!Nothing

LEMMA ListChanges ==
  ASSUME NEW P, Arrives(P, VectVals, TRUE),
         \/ \E v \in ElemValue : P \in {<<v>> \o ListVals, Append(ListVals, v)}
         \/ \E i \in DOMAIN ListVals : P = Elem!Seqs!RemoveAt(ListVals, i)
         \/ P = <<>>
  PROVE  Advances
<1>1. ElemInv' /\ ListVals' = P /\ VectVals' = VectVals /\ elemOk' = TRUE
  BY ArrivesSound
<1>2. Elem!ListStep
  BY <1>1 DEF Elem!ListStep, Elem!Shrunk
<1> QED BY <1>1, <1>2 DEF Advances, Elem!Next

LEMMA VectChanges ==
  ASSUME NEW Q, Arrives(ListVals, Q, TRUE),
         \/ \E i \in 1 .. Len(VectVals) + 1, v \in ElemValue : Q = Elem!Seqs!InsertAt(VectVals, i, v)
         \/ \E i \in DOMAIN VectVals : Q = Elem!Seqs!RemoveAt(VectVals, i)
         \/ Q = <<>>
  PROVE  Advances
<1>1. ElemInv' /\ ListVals' = ListVals /\ VectVals' = Q /\ elemOk' = TRUE
  BY ArrivesSound
<1>2. Elem!VectStep
  BY <1>1 DEF Elem!VectStep, Elem!Shrunk, Elem!Grown
<1> QED BY <1>1, <1>2 DEF Advances, Elem!Next

LEMMA ValsSeq ==
  ASSUME NEW s, AsElem(s), NEW q \in Seq(ElemAddr), NEW P, P = ValsOf(s.m, q)
  PROVE  P \in Seq(ElemValue \cup {None}) /\ Len(P) = Len(q)
<1> PICK n \in Nat : n = Len(q)
  OBVIOUS
<1>1. P = [i \in 1 .. n |-> s.m[q[i]].val]
  BY DEF ValsOf
<1>2. \A i \in 1 .. n : s.m[q[i]].val \in ElemValue \cup {None}
  <2> SUFFICES ASSUME NEW i \in 1 .. n PROVE s.m[q[i]].val \in ElemValue \cup {None}
    OBVIOUS
  <2> PICK a, b : a = q[i] /\ b = s.m[a]
    OBVIOUS
  <2>1. a \in ElemPlace
    BY DEF ElemPlace
  <2>2. b \in ElemBlock
    BY <2>1, BlockIs
  <2>3. b.val \in ElemValue \cup {None}
    BY <2>2 DEF ElemBlock
  <2> QED BY <2>3
<1> QED BY <1>1, <1>2

LEMMA AddHeadSteps ==
  ASSUME ElemInv, NEW v \in ElemValue, AddListHead(v)
  PROVE  Advances
<1>1. PICK L, B, E : Ready(L, B, E)
  BY DEF ElemInv
<1> PICK s : s = ElemStart
  OBVIOUS
<1>2. /\ s = ElemStart /\ Held(s, L, B, E) /\ WalkIs(s.w, L) /\ s.ok = TRUE /\ s.w = walk
      /\ ListVals = ValsOf(s.m, L) /\ VectVals = ValsOf(s.m, E)
  BY <1>1, ReadyIs
<1> PICK t, P, Q : t = AddHead(s, v) /\ P = ValsOf(s.m, L) /\ Q = ValsOf(s.m, E)
  OBVIOUS
<1>3. ElemCall(t)
  BY <1>2 DEF AddListHead
<1>4. L \in Seq(ElemAddr)
  BY <1>2, HeldFacts
<1>5. v \in ElemValue \cup {None}
  OBVIOUS
<1>6. CASE Failed(s, t)
  <2>1. Held(t, L, B, E) /\ ValsOf(t.m, L) = P /\ ValsOf(t.m, E) = Q
    BY <1>2, <1>6, FailedHolds
  <2>2. t.w = s.w /\ t.ok = FALSE
    BY <1>6 DEF Failed
  <2>3. Arrives(P, Q, t.ok)
    BY <1>2, <1>3, <2>1, <2>2, CallArrives
  <2> QED BY <1>2, <2>2, <2>3, StaysPut
<1>7. ASSUME NEW a \in ElemAddr, t.ok = TRUE,
             Listed(s, t, L, B, E, <<a>> \o L, <<v>> \o ValsOf(s.m, L))
      PROVE  Advances
  <2> PICK K, R : K = <<a>> \o L /\ R = <<v>> \o P
    OBVIOUS
  <2>1. Held(t, K, B, E) /\ t.w = s.w /\ ValsOf(t.m, K) = R /\ ValsOf(t.m, E) = Q
    BY <1>7 DEF Listed
  <2>2. s.w.on = TRUE => (s.w.back = TRUE /\ s.w.pos # Nil)
    <3>1. s.w \in ElemWalks
      BY <1>2 DEF WalkIs
    <3>2. s.w.back \in BOOLEAN
      BY <3>1, WalkTypes
    <3> QED BY <1>2, <3>2 DEF AddListHead
  <2>3. WalkIs(t.w, K)
    BY <1>2, <1>4, <2>1, <2>2, WalkHead
  <2>4. Arrives(R, Q, TRUE)
    BY <1>3, <1>7, <2>1, <2>3, CallArrives
  <2>5. R \in {<<v>> \o ListVals, Append(ListVals, v)}
    BY <1>2
  <2> QED BY <1>2, <2>4, <2>5, ListChanges
<1> QED BY <1>2, <1>5, <1>6, <1>7, AddHeadIs

LEMMA AddTailSteps ==
  ASSUME ElemInv, NEW v \in ElemValue, AddListTail(v)
  PROVE  Advances
<1>1. PICK L, B, E : Ready(L, B, E)
  BY DEF ElemInv
<1> PICK s : s = ElemStart
  OBVIOUS
<1>2. /\ s = ElemStart /\ Held(s, L, B, E) /\ WalkIs(s.w, L) /\ s.ok = TRUE /\ s.w = walk
      /\ ListVals = ValsOf(s.m, L) /\ VectVals = ValsOf(s.m, E)
  BY <1>1, ReadyIs
<1> PICK t, P, Q : t = AddTail(s, v) /\ P = ValsOf(s.m, L) /\ Q = ValsOf(s.m, E)
  OBVIOUS
<1>3. ElemCall(t)
  BY <1>2 DEF AddListTail
<1>4. L \in Seq(ElemAddr)
  BY <1>2, HeldFacts
<1>5. v \in ElemValue \cup {None}
  OBVIOUS
<1>6. CASE Failed(s, t)
  <2>1. Held(t, L, B, E) /\ ValsOf(t.m, L) = P /\ ValsOf(t.m, E) = Q
    BY <1>2, <1>6, FailedHolds
  <2>2. t.w = s.w /\ t.ok = FALSE
    BY <1>6 DEF Failed
  <2>3. Arrives(P, Q, t.ok)
    BY <1>2, <1>3, <2>1, <2>2, CallArrives
  <2> QED BY <1>2, <2>2, <2>3, StaysPut
<1>7. ASSUME NEW a \in ElemAddr, t.ok = TRUE,
             Listed(s, t, L, B, E, Append(L, a), Append(ValsOf(s.m, L), v))
      PROVE  Advances
  <2> PICK K, R : K = Append(L, a) /\ R = Append(P, v)
    OBVIOUS
  <2>1. Held(t, K, B, E) /\ t.w = s.w /\ ValsOf(t.m, K) = R /\ ValsOf(t.m, E) = Q
    BY <1>7 DEF Listed
  <2>2. s.w.on = TRUE => (s.w.back = FALSE /\ s.w.pos # Nil)
    <3>1. s.w \in ElemWalks
      BY <1>2 DEF WalkIs
    <3>2. s.w.back \in BOOLEAN
      BY <3>1, WalkTypes
    <3> QED BY <1>2, <3>2 DEF AddListTail
  <2>3. WalkIs(t.w, K)
    BY <1>2, <1>4, <2>1, <2>2, WalkTail
  <2>4. Arrives(R, Q, TRUE)
    BY <1>3, <1>7, <2>1, <2>3, CallArrives
  <2>5. R \in {<<v>> \o ListVals, Append(ListVals, v)}
    BY <1>2
  <2> QED BY <1>2, <2>4, <2>5, ListChanges
<1> QED BY <1>2, <1>5, <1>6, <1>7, AddTailIs

\* An element is dropped, by its place in the list.
LEMMA DropSteps ==
  ASSUME NEW L, NEW B, NEW E, Ready(L, B, E), NEW j \in 1 .. Len(L), ElemDrop(L[j])
  PROVE  Advances
<1> PICK s : s = ElemStart
  OBVIOUS
<1>2. /\ s = ElemStart /\ Held(s, L, B, E) /\ WalkIs(s.w, L) /\ s.ok = TRUE /\ s.w = walk
      /\ ListVals = ValsOf(s.m, L) /\ VectVals = ValsOf(s.m, E)
  BY ReadyIs
<1> PICK u, P, Q, K, R : u = ElemUnLink(s, L[j]) /\ P = ValsOf(s.m, L) /\ Q = ValsOf(s.m, E) /\ K = Cut(L, j) /\ R = Cut(P, j)
  OBVIOUS
<1>3. AsElem(s) /\ ListIs(s, L) /\ L \in Seq(ElemAddr) /\ Once(L)
  BY <1>2, HeldFacts DEF ListIs
<1>4. u.ok = TRUE /\ Held(u, K, B, E) /\ u.w = s.w /\ ValsOf(u.m, K) = R /\ ValsOf(u.m, E) = Q
  BY <1>2, UnLinkHolds DEF Listed
<1>5. \E i \in DOMAIN ListVals : R = Elem!Seqs!RemoveAt(ListVals, i)
  <2>1. P \in Seq(ElemValue \cup {None}) /\ Len(P) = Len(L)
    BY <1>3, ValsSeq
  <2>2. j \in 1 .. Len(P) /\ j \in DOMAIN P
    BY <2>1
  <2>3. Seqs!RemoveAt(P, j) = R
    BY <2>1, <2>2, RemoveAtIs
  <2>4. Elem!Seqs!RemoveAt(P, j) = Seqs!RemoveAt(P, j)
    BY DEF Elem!Seqs!RemoveAt, Seqs!RemoveAt
  <2> QED BY <1>2, <2>2, <2>3, <2>4
<1>6. s.w \in ElemWalks /\ s.w.on \in BOOLEAN
  BY <1>2, WalkTypes DEF WalkIs
<1>7. CASE ~ walk.on /\ ElemCall(u)
  <2>1. s.w.on # TRUE
    BY <1>2, <1>7
  <2>2. WalkIs(u.w, K)
    BY <1>4, <1>6, <2>1 DEF WalkIs
  <2>3. Arrives(R, Q, TRUE)
    BY <1>4, <1>7, <2>2, CallArrives
  <2> QED BY <1>2, <1>5, <2>3, ListChanges
<1>8. ASSUME NEW i \in DOMAIN walk.seen, walk.seen[i] = L[j], ElemCall(Forgotten(u, i))
      PROVE  Advances
  <2> PICK w, x, t : w = s.w /\ x = [w EXCEPT !.seen = Seqs!RemoveAt(w.seen, i)] /\ t = Forgotten(u, i)
    OBVIOUS
  <2>1. w \in ElemWalks /\ w.seen \in Seq(ElemPlace) /\ walk = w
    BY <1>2, <1>6, WalkTypes
  <2>2. i \in 1 .. Len(w.seen) /\ w.seen[i] = L[j]
    BY <1>8, <2>1
  <2>3. WalkIs(x, K)
    BY <1>2, <1>3, <2>2, WalkCut
  <2>4. t = [u EXCEPT !.w = x]
    BY <1>4 DEF Forgotten
  <2>5. x \in ElemWalks
    BY <2>3 DEF WalkIs
  <2>6. Held(t, K, B, E) /\ t.m = u.m /\ t.w = x /\ t.ok = u.ok
    BY <1>4, <2>4, <2>5, WalkSet
  <2>7. Arrives(R, Q, TRUE)
    <3>1. ElemCall(t) /\ t.ok = TRUE /\ R = ValsOf(t.m, K) /\ Q = ValsOf(t.m, E) /\ WalkIs(t.w, K)
      BY <1>4, <1>8, <2>3, <2>6
    <3> QED BY ONLY <2>6, <3>1, CallArrives
  <2> QED BY <1>2, <1>5, <2>7, ListChanges
<1> QED BY <1>2, <1>7, <1>8 DEF ElemDrop

LEMMA DropsStep ==
  ASSUME ElemInv, \/ DropHead \/ DropTail
                  \/ \E a \in ElemAddr : ElemDelete(a)
  PROVE  Advances
<1>1. PICK L, B, E : Ready(L, B, E)
  BY DEF ElemInv
<1> PICK s : s = ElemStart
  OBVIOUS
<1>2. /\ s = ElemStart /\ Held(s, L, B, E) /\ s.l = list /\ Chain = L /\ list.n = Len(L)
  BY <1>1, ReadyIs
<1>3. ListIs(s, L) /\ L \in Seq(ElemAddr) /\ Len(L) \in Nat
  BY <1>2, HeldFacts
<1>4. Len(L) # 0 => list.first = L[1] /\ list.last = L[Len(L)]
  BY <1>2, <1>3 DEF ListIs, Ended
<1>5. \E j \in 1 .. Len(L) : ElemDrop(L[j])
  <2>1. CASE DropHead
    <3>1. Len(L) # 0 /\ 1 \in 1 .. Len(L)
      BY <1>2, <1>3, <2>1 DEF DropHead
    <3>2. ElemDrop(L[1])
      BY <1>4, <2>1, <3>1 DEF DropHead
    <3> QED BY <3>1, <3>2
  <2>2. CASE DropTail
    <3>1. Len(L) # 0 /\ Len(L) \in 1 .. Len(L)
      BY <1>2, <1>3, <2>2 DEF DropTail
    <3>2. ElemDrop(L[Len(L)])
      BY <1>4, <2>2, <3>1 DEF DropTail
    <3> QED BY <3>1, <3>2
  <2>3. ASSUME NEW a \in ElemAddr, ElemDelete(a) PROVE \E j \in 1 .. Len(L) : ElemDrop(L[j])
    <3>1. a \in Seqs!ToSet(L) /\ ElemDrop(a)
      BY <1>2, <2>3 DEF ElemDelete
    <3>2. PICK j \in 1 .. Len(L) : a = L[j]
      BY <1>3, <3>1 DEF Seqs!ToSet
    <3> QED BY <3>1, <3>2
  <2> QED BY <2>1, <2>2, <2>3
<1> QED BY <1>1, <1>5, DropSteps

LEMMA TruncateListSteps ==
  ASSUME ElemInv, TruncateList
  PROVE  Advances
<1>1. PICK L, B, E : Ready(L, B, E)
  BY DEF ElemInv
<1> PICK s : s = ElemStart
  OBVIOUS
<1>2. /\ s = ElemStart /\ Held(s, L, B, E) /\ s.ok = TRUE /\ VectVals = ValsOf(s.m, E)
  BY <1>1, ReadyIs
<1> PICK u, Q, w, t : u = ElemEmptied(s) /\ Q = ValsOf(s.m, E) /\ w = NoWalk /\ t = [u EXCEPT !.w = w]
  OBVIOUS
<1>3. u.ok = TRUE /\ Held(u, <<>>, B, E) /\ ValsOf(u.m, <<>>) = <<>> /\ ValsOf(u.m, E) = Q
  BY <1>2, EmptiedHolds DEF Listed
<1>4. Held(t, <<>>, B, E) /\ t.m = u.m /\ t.w = w /\ t.ok = u.ok
  BY <1>3, NoWalkIs, WalkSet
<1>5. ElemCall(t)
  BY <1>2 DEF TruncateList
<1>6. WalkIs(t.w, <<>>)
  BY <1>4, NoWalkHolds
<1>7. <<>> = ValsOf(t.m, <<>>) /\ Q = ValsOf(t.m, E) /\ t.ok = TRUE
  BY <1>3, <1>4
<1>8. Arrives(<<>>, Q, TRUE)
  BY ONLY <1>4, <1>5, <1>6, <1>7, CallArrives
<1> QED BY <1>2, <1>8, ListChanges

LEMMA BegunIsPrefix ==
  ASSUME NEW V, NEW vals \in Seq(V), NEW u, NEW P, Begun(u, vals, Len(vals), P)
  PROVE  Elem!Seqs!IsPrefix(P, vals) /\ (u.ok = TRUE => P = vals)
<1> PICK n \in Nat : n = Len(vals)
  OBVIOUS
<1>1. PICK j \in 0 .. n : P = SubSeq(vals, 1, j) /\ (u.ok = TRUE => j = n)
  BY DEF Begun
<1>2. P \in Seq(V) /\ Len(P) = j /\ \A i \in 1 .. j : P[i] = vals[i]
  <2>1. j \in Nat /\ 1 \in Nat /\ 1 <= 1 /\ (1 - 1) + j <= Len(vals) /\ P = SubSeq(vals, 1, (1 - 1) + j)
    BY <1>1
  <2>2. P \in Seq(V) /\ Part(P, vals, 1, j)
    BY ONLY <2>1, vals \in Seq(V), PartIs
  <2>3. \A i \in 1 .. j : (1 - 1) + i = i
    OBVIOUS
  <2> QED BY <2>2, <2>3 DEF Part
<1>3. SubSeq(P, 1, Len(P)) = P
  BY <1>2
<1>4. Elem!Seqs!IsPrefix(P, vals)
  BY <1>1, <1>2, <1>3 DEF Elem!Seqs!IsPrefix
<1>5. ASSUME u.ok = TRUE PROVE P = vals
  <2>1. j = n
    BY <1>1, <1>5
  <2>2. P = [i \in 1 .. n |-> P[i]]
    <3>1. n = Len(P)
      BY <1>2, <2>1
    <3> QED BY ONLY <1>2, <3>1
  <2>3. vals = [i \in 1 .. n |-> vals[i]]
    BY ONLY vals \in Seq(V), n = Len(vals)
  <2> QED BY ONLY <1>2, <2>1, <2>2, <2>3
<1> QED BY <1>4, <1>5

\* The list is assigned the vector's values.
LEMMA AssignListSteps ==
  ASSUME ElemInv, AssignList(VectVals)
  PROVE  Advances
<1>1. PICK L, B, E : Ready(L, B, E)
  BY DEF ElemInv
<1> PICK s : s = ElemStart
  OBVIOUS
<1>2. /\ s = ElemStart /\ Held(s, L, B, E) /\ s.ok = TRUE /\ VectVals = ValsOf(s.m, E)
  BY <1>1, ReadyIs
<1> PICK V, vals, n, u, w, b : /\ V = ElemValue \cup {None} /\ vals = ValsOf(s.m, E) /\ n = Len(vals)
                               /\ u = ElemEmptied(s) /\ w = NoWalk /\ b = [u EXCEPT !.w = w]
  OBVIOUS
<1>3. u.ok = TRUE /\ Held(u, <<>>, B, E) /\ ValsOf(u.m, E) = vals
  BY <1>2, EmptiedHolds DEF Listed
<1>4. Held(b, <<>>, B, E) /\ b.m = u.m /\ b.w = w
  BY <1>3, NoWalkIs, WalkSet
<1>5. vals \in Seq(V)
  BY <1>2, HeldFacts, ValsSeq
<1> PICK f : f = CHOOSE g : Adding(g, b, vals)
  OBVIOUS
<1>6. Adding(f, b, vals)
  BY <1>4, <1>5, AddingEnds
<1> PICK t : t = f[n]
  OBVIOUS
<1>7. Copied(b, t, B, E, vals, n)
  BY <1>4, <1>5, <1>6, AddingEnds
<1>8. ElemCall(t)
  <2>1. AssignList(vals)
    BY <1>2
  <2>2. ElemCall((CHOOSE g : Adding(g, [ElemEmptied(ElemStart) EXCEPT !.w = NoWalk], vals))[Len(vals)])
    BY <2>1, Zenon DEF AssignList, Adding
  <2> QED BY <1>2, <2>2
<1>9. PICK K : Held(t, K, B, E) /\ Begun(t, vals, n, ValsOf(t.m, K))
  BY <1>7 DEF Copied
<1>10. t.w = w /\ ValsOf(t.m, E) = vals
  BY <1>3, <1>4, <1>7 DEF Copied
<1>11. WalkIs(t.w, K)
  BY <1>10, NoWalkHolds
<1> PICK P : P = ValsOf(t.m, K)
  OBVIOUS
<1>12. Arrives(P, vals, t.ok)
  BY <1>8, <1>9, <1>10, <1>11, CallArrives
<1>13. t.ok \in BOOLEAN
  <2>1. AsElem(t)
    BY <1>9, HeldFacts
  <2> QED BY ONLY <2>1 DEF AsElem, ElemState
<1>14. ElemInv' /\ ListVals' = P /\ VectVals' = vals /\ elemOk' = t.ok
  BY <1>12, <1>13, ArrivesSound
<1>15. Elem!Seqs!IsPrefix(P, vals) /\ (t.ok = TRUE => P = vals)
  BY <1>5, <1>9, BegunIsPrefix
<1>16. VectVals' = VectVals /\ Elem!Assign(ListVals, ListVals', VectVals)
  <2>1. CASE t.ok = TRUE
    BY <1>2, <1>14, <1>15, <2>1 DEF Elem!Assign
  <2>2. CASE t.ok = FALSE
    BY <1>2, <1>14, <1>15, <2>2 DEF Elem!Assign
  <2> QED BY <1>13, <2>1, <2>2
<1> QED BY <1>14, <1>16 DEF Advances, Elem!Next

-----------------------------------------------------------------------------
(* The caller's walk. *)

LEMMA WalkSteps ==
  ASSUME NEW L, NEW B, NEW E, Ready(L, B, E), NEW w, WalkIs(w, L), ElemWalk(w)
  PROVE  Advances
<1> PICK s : s = ElemStart
  OBVIOUS
<1>1. /\ s = ElemStart /\ Held(s, L, B, E) /\ s.ok = TRUE
      /\ ListVals = ValsOf(s.m, L) /\ VectVals = ValsOf(s.m, E)
  BY ReadyIs
<1> PICK u, r, t : u = [s EXCEPT !.w = w] /\ r = elemOk /\ t = [u EXCEPT !.ok = r]
  OBVIOUS
<1>2. r \in BOOLEAN /\ w \in ElemWalks
  BY DEF Ready, WalkIs
<1>3. Held(u, L, B, E) /\ u.m = s.m /\ u.w = w
  BY <1>1, <1>2, WalkSet
<1>4. AsElem(u) /\ ListIs(u, L) /\ VectIs(u, B, E) /\ Disjoint(L, E) /\ Stands(u.c, E)
  BY <1>3, HeldFacts
<1>5. AsElem(t) /\ t.m = u.m /\ t.l = u.l /\ t.n = u.n /\ t.c = u.c /\ t.w = u.w /\ t.ok = r
  BY ONLY <1>2, <1>4, t = [u EXCEPT !.ok = r] DEF AsElem, ElemState
<1>6. ListIs(t, L) /\ VectIs(t, B, E)
  BY ONLY <1>4, <1>5 DEF ListIs, VectIs
<1>7. Held(t, L, B, E)
  BY <1>4, <1>5, <1>6 DEF Held
<1>8. ElemCall(t)
  <2>1. t = [s EXCEPT !.w = w, !.ok = r]
    OBVIOUS
  <2> QED BY <1>1, <2>1 DEF ElemWalk
<1> PICK P, Q : P = ValsOf(s.m, L) /\ Q = ValsOf(s.m, E)
  OBVIOUS
<1>9. P = ValsOf(t.m, L) /\ Q = ValsOf(t.m, E) /\ WalkIs(t.w, L)
  BY <1>3, <1>5
<1>10. Arrives(P, Q, r)
  BY <1>5, <1>7, <1>8, <1>9, CallArrives
<1> QED BY <1>1, <1>2, <1>10, StaysPut

LEMMA WalksStep ==
  ASSUME ElemInv, \/ \E back \in BOOLEAN : StartWalk(back)
                  \/ GetNext \/ GetPrev \/ EndWalk
  PROVE  Advances
<1>1. PICK L, B, E : Ready(L, B, E)
  BY DEF ElemInv
<1> PICK s : s = ElemStart
  OBVIOUS
<1>2. /\ s = ElemStart /\ Held(s, L, B, E) /\ s.m = elemMem /\ s.l = list /\ s.w = walk
      /\ list.n = Len(L) /\ WalkIs(s.w, L)
  BY <1>1, ReadyIs
<1>3. AsElem(s) /\ ListIs(s, L)
  BY <1>2, HeldFacts
<1> PICK w : w = walk
  OBVIOUS
<1>4. w.on \in BOOLEAN /\ w.back \in BOOLEAN /\ WalkIs(w, L)
  BY <1>2, WalkTypes DEF WalkIs
<1>5. ASSUME NEW back \in BOOLEAN, StartWalk(back) PROVE Advances
  <2> PICK p, x : p = (IF back THEN list.last ELSE list.first) /\ x = [on |-> TRUE, back |-> back, pos |-> p, seen |-> <<>>]
    OBVIOUS
  <2>1. s.l.n > 0 /\ ElemWalk(x)
    BY <1>2, <1>5 DEF StartWalk
  <2>2. p = IF back THEN s.l.last ELSE s.l.first
    BY <1>2
  <2>3. WalkIs(x, L)
    BY <1>3, <2>1, <2>2, WalkStarts
  <2> QED BY <1>1, <2>1, <2>3, WalkSteps
<1>6. CASE GetNext
  <2> PICK p, x : p = s.m[w.pos].next /\ x = [w EXCEPT !.pos = p, !.seen = Append(w.seen, w.pos)]
    OBVIOUS
  <2>1. w.on = TRUE /\ w.back = FALSE /\ w.pos # Nil
    BY <1>4, <1>6 DEF GetNext
  <2>2. ElemWalk(x)
    BY <1>2, <1>6 DEF GetNext
  <2>3. WalkIs(x, L)
    BY <1>3, <1>4, <2>1, WalkForth
  <2> QED BY <1>1, <2>2, <2>3, WalkSteps
<1>7. CASE GetPrev
  <2> PICK p, x : p = s.m[w.pos].prev /\ x = [w EXCEPT !.pos = p, !.seen = Append(w.seen, w.pos)]
    OBVIOUS
  <2>1. w.on = TRUE /\ w.back = TRUE /\ w.pos # Nil
    BY <1>4, <1>7 DEF GetPrev
  <2>2. ElemWalk(x)
    BY <1>2, <1>7 DEF GetPrev
  <2>3. WalkIs(x, L)
    BY <1>3, <1>4, <2>1, WalkBack
  <2> QED BY <1>1, <2>2, <2>3, WalkSteps
<1>8. CASE EndWalk
  <2> PICK x : x = NoWalk
    OBVIOUS
  <2>1. ElemWalk(x) /\ WalkIs(x, L)
    BY <1>8, NoWalkHolds DEF EndWalk
  <2> QED BY <1>1, <2>1, WalkSteps
<1> QED BY <1>5, <1>6, <1>7, <1>8

-----------------------------------------------------------------------------
(* The vector's calls. *)

LEMMA InsertSteps ==
  ASSUME ElemInv, NEW n \in 0 .. items, NEW v \in ElemValue, InsertAt(n, v)
  PROVE  Advances
<1>1. PICK L, B, E : Ready(L, B, E)
  BY DEF ElemInv
<1> PICK s : s = ElemStart
  OBVIOUS
<1>2. /\ s = ElemStart /\ Held(s, L, B, E) /\ WalkIs(s.w, L) /\ s.ok = TRUE
      /\ ListVals = ValsOf(s.m, L) /\ VectVals = ValsOf(s.m, E) /\ items = Len(E)
  BY <1>1, ReadyIs
<1>3. AsElem(s) /\ L \in Seq(ElemAddr) /\ E \in Seq(ElemAddr) /\ n \in 0 .. Len(E) /\ Len(E) \in Nat /\ n \in Int
  BY <1>2, HeldFacts
<1> PICK u, t, P, Q : /\ u = Inserted(s, n, v) /\ t = (IF u.ok THEN ElemAt(u, n) ELSE u)
                      /\ P = ValsOf(s.m, L) /\ Q = ValsOf(s.m, E)
  OBVIOUS
<1>4. ElemCall(t)
  <2>1. t = ElemThen(u, LAMBDA x : ElemAt(x, n))
    BY DEF ElemThen
  <2> QED BY <1>2, <2>1 DEF InsertAt
<1>5. CASE Refused(s, u, L, E)
  <2>1. PICK C : Vected(s, u, L, C, E, Q) /\ u.ok = FALSE
    BY <1>5 DEF Refused
  <2>2. t = u
    BY <2>1
  <2>3. Held(t, L, C, E) /\ WalkIs(t.w, L) /\ t.ok = FALSE /\ P = ValsOf(t.m, L) /\ Q = ValsOf(t.m, E)
    BY <1>2, <2>1, <2>2 DEF Vected
  <2>4. Arrives(P, Q, FALSE)
    BY <1>4, <2>3, CallArrives
  <2> QED BY <1>2, <2>4, StaysPut
<1>6. ASSUME NEW a \in ElemAddr, NEW C, u.ok = TRUE,
             Vected(s, u, L, C, Ins(E, n, a), Ins(ValsOf(s.m, E), n, v))
      PROVE  Advances
  <2> PICK F, R : F = Ins(E, n, a) /\ R = Ins(Q, n, v)
    OBVIOUS
  <2>1. Held(u, L, C, F) /\ u.w = s.w /\ ValsOf(u.m, L) = P /\ ValsOf(u.m, F) = R
    BY <1>6 DEF Vected
  <2>2. n < Len(F)
    <3>1. Filled(F, E, n, a)
      BY <1>3, InsIs
    <3> QED BY <1>3, <3>1 DEF Filled
  <2>3. t = ElemAt(u, n)
    BY <1>6
  <2>4. Held(t, L, C, F) /\ t.m = u.m /\ t.w = u.w /\ t.ok = TRUE
    BY <1>3, <1>6, <2>1, <2>2, <2>3, ElemAtIs
  <2>5. P = ValsOf(t.m, L) /\ R = ValsOf(t.m, F) /\ WalkIs(t.w, L)
    BY <1>2, <2>1, <2>4
  <2>6. Arrives(P, R, TRUE)
    BY ONLY <1>4, <2>4, <2>5, CallArrives
  <2>7. \E i \in 1 .. Len(VectVals) + 1, x \in ElemValue : R = Elem!Seqs!InsertAt(VectVals, i, x)
    <3>1. Q \in Seq(ElemValue \cup {None}) /\ Len(Q) = Len(E) /\ v \in ElemValue \cup {None} /\ n \in 0 .. Len(Q)
      BY <1>3, ValsSeq
    <3>2. Seqs!InsertAt(Q, n + 1, v) = R
      BY <3>1, InsertAtIs
    <3>3. Elem!Seqs!InsertAt(Q, n + 1, v) = Seqs!InsertAt(Q, n + 1, v)
      BY DEF Elem!Seqs!InsertAt, Seqs!InsertAt
    <3>4. n + 1 \in 1 .. Len(Q) + 1
      BY <1>3, <3>1
    <3> QED BY <1>2, <3>2, <3>3, <3>4
  <2> QED BY <1>2, <2>6, <2>7, VectChanges
<1>7. v \in ElemValue \cup {None}
  OBVIOUS
<1> QED BY <1>2, <1>3, <1>5, <1>6, <1>7, InsertedIs

LEMMA DeleteSteps ==
  ASSUME ElemInv, NEW n \in 0 .. items, DeleteAt(n)
  PROVE  Advances
<1>1. PICK L, B, E : Ready(L, B, E)
  BY DEF ElemInv
<1> PICK s : s = ElemStart
  OBVIOUS
<1>2. /\ s = ElemStart /\ Held(s, L, B, E) /\ WalkIs(s.w, L) /\ s.ok = TRUE
      /\ ListVals = ValsOf(s.m, L) /\ VectVals = ValsOf(s.m, E) /\ items = Len(E)
  BY <1>1, ReadyIs
<1>3. AsElem(s) /\ E \in Seq(ElemAddr) /\ Len(E) \in Nat
  BY <1>2, HeldFacts
<1> PICK j, t, P, Q : j = n + 1 /\ t = Deleted(s, n) /\ P = ValsOf(s.m, L) /\ Q = ValsOf(s.m, E)
  OBVIOUS
<1>4. ElemCall(t) /\ n < Len(E) /\ n \in Nat
  BY <1>2 DEF DeleteAt
<1> PICK F, R : F = Cut(E, j) /\ R = Cut(Q, j)
  OBVIOUS
<1>5. PICK C : t.ok = TRUE /\ Vected(s, t, L, C, F, R)
  BY <1>2, <1>4, DeletedIs
<1>6. Held(t, L, C, F) /\ WalkIs(t.w, L) /\ P = ValsOf(t.m, L) /\ R = ValsOf(t.m, F)
  BY <1>2, <1>5 DEF Vected
<1>7. Arrives(P, R, TRUE)
  BY ONLY <1>4, <1>5, <1>6, CallArrives
<1>8. \E i \in DOMAIN VectVals : R = Elem!Seqs!RemoveAt(VectVals, i)
  <2>1. Q \in Seq(ElemValue \cup {None}) /\ Len(Q) = Len(E)
    BY <1>3, ValsSeq
  <2>2. j \in 1 .. Len(Q) /\ j \in DOMAIN Q
    BY <1>3, <1>4, <2>1
  <2>3. Seqs!RemoveAt(Q, j) = R
    BY <2>1, <2>2, RemoveAtIs
  <2>4. Elem!Seqs!RemoveAt(Q, j) = Seqs!RemoveAt(Q, j)
    BY DEF Elem!Seqs!RemoveAt, Seqs!RemoveAt
  <2> QED BY <1>2, <2>2, <2>3, <2>4
<1> QED BY <1>2, <1>7, <1>8, VectChanges

LEMMA TruncateVectSteps ==
  ASSUME ElemInv, TruncateVect
  PROVE  Advances
<1>1. PICK L, B, E : Ready(L, B, E)
  BY DEF ElemInv
<1> PICK s : s = ElemStart
  OBVIOUS
<1>2. /\ s = ElemStart /\ Held(s, L, B, E) /\ WalkIs(s.w, L) /\ s.ok = TRUE /\ ListVals = ValsOf(s.m, L)
  BY <1>1, ReadyIs
<1> PICK t, P : t = Truncated(s) /\ P = ValsOf(s.m, L)
  OBVIOUS
<1>3. t.ok = TRUE /\ Vected(s, t, L, <<Nil>>, <<>>, <<>>)
  BY <1>2, TruncatedIs
<1>4. ElemCall(t)
  BY <1>2 DEF TruncateVect
<1>5. Held(t, L, <<Nil>>, <<>>) /\ WalkIs(t.w, L) /\ P = ValsOf(t.m, L) /\ <<>> = ValsOf(t.m, <<>>)
  BY <1>2, <1>3 DEF Vected
<1>6. Arrives(P, <<>>, TRUE)
  BY ONLY <1>3, <1>4, <1>5, CallArrives
<1> QED BY <1>2, <1>6, VectChanges

LEMMA GotoSteps ==
  ASSUME ElemInv, NEW n \in 0 .. items, Goto(n)
  PROVE  Advances
<1>1. PICK L, B, E : Ready(L, B, E)
  BY DEF ElemInv
<1> PICK s : s = ElemStart
  OBVIOUS
<1>2. /\ s = ElemStart /\ Held(s, L, B, E) /\ WalkIs(s.w, L) /\ s.ok = TRUE
      /\ ListVals = ValsOf(s.m, L) /\ VectVals = ValsOf(s.m, E) /\ items = Len(E)
  BY <1>1, ReadyIs
<1>3. Len(E) \in Nat
  BY <1>2, HeldFacts
<1> PICK k, r, u, t : k = (IF n < items THEN n ELSE -1) /\ r = elemOk /\ u = ElemAt(s, k) /\ t = [u EXCEPT !.ok = r]
  OBVIOUS
<1>4. k \in Int /\ k < Len(E)
  BY <1>2, <1>3
<1>5. Held(u, L, B, E) /\ u.m = s.m /\ u.w = s.w
  BY <1>2, <1>4, ElemAtIs
<1>6. r \in BOOLEAN
  BY <1>1 DEF Ready
<1>7. AsElem(u) /\ ListIs(u, L) /\ VectIs(u, B, E) /\ Disjoint(L, E) /\ Stands(u.c, E)
  BY <1>5, HeldFacts
<1>8. AsElem(t) /\ t.m = u.m /\ t.l = u.l /\ t.n = u.n /\ t.c = u.c /\ t.w = u.w /\ t.ok = r
  BY ONLY <1>6, <1>7, t = [u EXCEPT !.ok = r] DEF AsElem, ElemState
<1>9. ListIs(t, L) /\ VectIs(t, B, E)
  BY ONLY <1>7, <1>8 DEF ListIs, VectIs
<1>10. Held(t, L, B, E)
  BY <1>7, <1>8, <1>9 DEF Held
<1>11. ElemCall(t)
  BY <1>2 DEF Goto
<1> PICK P, Q : P = ValsOf(s.m, L) /\ Q = ValsOf(s.m, E)
  OBVIOUS
<1>12. P = ValsOf(t.m, L) /\ Q = ValsOf(t.m, E) /\ WalkIs(t.w, L)
  BY <1>2, <1>5, <1>8
<1>13. Arrives(P, Q, r)
  <2>1. t.ok = r
    BY <1>8
  <2> QED BY ONLY <1>10, <1>11, <1>12, <2>1, CallArrives
<1> QED BY <1>2, <1>6, <1>13, StaysPut

\* The vector is assigned the list's values, and its wrapper goes to the last.
LEMMA AssignVectSteps ==
  ASSUME ElemInv, AssignVect(ListVals)
  PROVE  Advances
<1>1. PICK L, B, E : Ready(L, B, E)
  BY DEF ElemInv
<1> PICK s : s = ElemStart
  OBVIOUS
<1>2. /\ s = ElemStart /\ Held(s, L, B, E) /\ WalkIs(s.w, L) /\ s.ok = TRUE /\ ListVals = ValsOf(s.m, L)
  BY <1>1, ReadyIs
<1> PICK V, vals, n, b : V = ElemValue \cup {None} /\ vals = ValsOf(s.m, L) /\ n = Len(vals) /\ b = Truncated(s)
  OBVIOUS
<1>3. b.w = s.w /\ ValsOf(b.m, L) = vals /\ Held(b, L, <<Nil>>, <<>>)
  BY <1>2, TruncatedIs DEF Vected
<1>4. vals \in Seq(V)
  BY <1>2, HeldFacts, ValsSeq
<1> PICK f : f = CHOOSE g : Inserting(g, b, vals)
  OBVIOUS
<1>5. Inserting(f, b, vals)
  BY <1>3, <1>4, InsertingEnds
<1> PICK u : u = f[n]
  OBVIOUS
<1>6. VectCopied(b, u, L, vals, n)
  BY <1>3, <1>4, <1>5, InsertingEnds
<1>7. PICK C, F : Held(u, L, C, F) /\ Begun(u, vals, n, ValsOf(u.m, F))
  BY <1>6 DEF VectCopied
<1> PICK k, t : k = u.n - 1 /\ t = ElemAt(u, k)
  OBVIOUS
<1>8. ElemCall(t)
  <2>1. AssignVect(vals)
    BY <1>2
  <2>2. ElemCall(AtLast((CHOOSE g : Inserting(g, Truncated(ElemStart), vals))[Len(vals)]))
    BY <2>1, Zenon DEF AssignVect, Inserting
  <2> QED BY <1>2, <2>2 DEF AtLast
<1>9. Held(t, L, C, F) /\ t.m = u.m /\ t.w = u.w /\ t.ok = u.ok
  <2>1. u.n = Len(F) /\ Len(F) \in Nat
    BY <1>7, HeldFacts DEF VectIs
  <2>2. k \in Int /\ k < Len(F)
    BY <2>1
  <2> QED BY <1>7, <2>2, ElemAtIs
<1> PICK Q : Q = ValsOf(t.m, F)
  OBVIOUS
<1>10. vals = ValsOf(t.m, L) /\ WalkIs(t.w, L)
  BY <1>2, <1>3, <1>6, <1>9 DEF VectCopied
<1>11. Arrives(vals, Q, t.ok)
  BY <1>8, <1>9, <1>10, CallArrives
<1>12. t.ok \in BOOLEAN
  <2>1. AsElem(t)
    BY <1>9, HeldFacts
  <2> QED BY ONLY <2>1 DEF AsElem, ElemState
<1>13. ElemInv' /\ ListVals' = vals /\ VectVals' = Q /\ elemOk' = t.ok
  BY <1>11, <1>12, ArrivesSound
<1>14. Elem!Seqs!IsPrefix(Q, vals) /\ (t.ok = TRUE => Q = vals)
  <2>1. Begun(u, vals, n, Q)
    BY <1>7, <1>9
  <2> QED BY <1>4, <1>9, <2>1, BegunIsPrefix
<1>15. ListVals' = ListVals /\ Elem!Assign(VectVals, VectVals', ListVals)
  <2>1. CASE t.ok = TRUE
    BY <1>2, <1>13, <1>14, <2>1 DEF Elem!Assign
  <2>2. CASE t.ok = FALSE
    BY <1>2, <1>13, <1>14, <2>2 DEF Elem!Assign
  <2> QED BY <1>12, <2>1, <2>2
<1> QED BY <1>13, <1>15 DEF Advances, Elem!Next

-----------------------------------------------------------------------------
(* The invariant holds, and the calls are the sequences' steps. *)

LEMMA ElemStarts ==
  ASSUME ElemInit
  PROVE  ElemInv /\ Elem!Init
<1> PICK s : s = ElemStart
  OBVIOUS
<1>1. /\ s.m = [a \in ElemPlace |-> [ElemFree EXCEPT !.is = IF a = Nil THEN "vect" ELSE "free"]]
      /\ s.l = EmptyList /\ s.n = 0 /\ s.c = Nil /\ s.w = NoWalk /\ s.ok = TRUE
      /\ s.m = elemMem /\ s.l = list /\ s.n = items
  BY DEF ElemInit, ElemStart, ElemPlace
<1>2. AsElem(s)
  <2>1. \A a \in ElemPlace : s.m[a] \in ElemBlock /\ (s.m[a].is = "vect" <=> a = Nil)
    BY <1>1, FreeBlock DEF ElemBlock, ElemKind
  <2>2. s.m = [a \in ElemPlace |-> s.m[a]]
    BY <1>1
  <2>3. Arena(s.m)
    BY ONLY <2>1, <2>2 DEF Arena
  <2>4. s.l \in ElemEnds /\ s.c \in ElemPlace
    BY <1>1, PlaceFacts DEF ElemEnds, EmptyList
  <2>5. s = [m |-> s.m, l |-> s.l, n |-> s.n, c |-> s.c, w |-> s.w, ok |-> s.ok]
    BY DEF ElemStart
  <2>6. s.m \in [ElemPlace -> ElemBlock] /\ s.n \in Int /\ s.w \in ElemWalks /\ s.ok \in BOOLEAN
    <3>1. s.m \in [ElemPlace -> ElemBlock]
      BY <2>3 DEF Arena
    <3>2. s.w \in ElemWalks
      BY ONLY <1>1, NoWalkIs
    <3>3. s.n \in Int
      BY <1>1
    <3>4. s.ok = TRUE
      BY DEF ElemStart
    <3>5. s.ok \in BOOLEAN
      BY ONLY <3>4
    <3> QED BY <3>1, <3>2, <3>3, <3>5
  <2> QED BY ONLY <2>3, <2>4, <2>5, <2>6 DEF AsElem, ElemState
<1>3. ListIs(s, <<>>)
  BY <1>1 DEF ListIs, Once, Linked, Ended, EmptyList
<1>4. VectIs(s, <<Nil>>, <<>>)
  <2>1. s.m[Nil].extra = Nil
    BY <1>1, PlaceFacts DEF ElemFree
  <2>2. Extended(s.m, <<Nil>>)
    BY <2>1, PlaceFacts DEF Extended, Once
  <2>3. Elems(s.m, <<>>)
    BY DEF Elems, Once
  <2> QED BY <1>1, <2>2, <2>3 DEF VectIs
<1>5. Disjoint(<<>>, <<>>) /\ Stands(s.c, <<>>)
  BY <1>1 DEF Disjoint, Stands
<1>6. Held(s, <<>>, <<Nil>>, <<>>)
  BY <1>2, <1>3, <1>4, <1>5 DEF Held
<1>7. Ready(<<>>, <<Nil>>, <<>>)
  BY <1>6, NoWalkHolds DEF Ready, ElemInit
<1>8. ListVals = <<>>
  BY <1>1 DEF ListVals, EmptyList
<1>9. VectVals = <<>>
  BY <1>1 DEF VectVals
<1>10. elemOk = TRUE
  BY DEF ElemInit
<1> QED BY <1>7, <1>8, <1>9, <1>10 DEF ElemInv, Elem!Init

LEMMA ElemStands ==
  ASSUME ElemInv, UNCHANGED elemVars
  PROVE  ElemInv' /\ UNCHANGED <<ListVals, VectVals, elemOk>>
<1>1. ElemInv'
  BY DEF elemVars, ElemInv, Ready, ElemStart
<1>2. ListVals' = ListVals
  BY DEF elemVars, ListVals, Chain
<1>3. VectVals' = VectVals
  BY DEF elemVars, VectVals
<1> QED BY <1>1, <1>2, <1>3 DEF elemVars

LEMMA ElemSteps ==
  ASSUME ElemInv, ElemNext
  PROVE  Advances
<1>1. ASSUME NEW v \in ElemValue, AddListHead(v) PROVE Advances
  BY <1>1, AddHeadSteps
<1>2. ASSUME NEW v \in ElemValue, AddListTail(v) PROVE Advances
  BY <1>2, AddTailSteps
<1>3. ASSUME NEW v \in ElemValue, NEW n \in 0 .. items, InsertAt(n, v) PROVE Advances
  BY <1>3, InsertSteps
<1>4. CASE DropHead \/ DropTail \/ \E a \in ElemAddr : ElemDelete(a)
  BY <1>4, DropsStep
<1>5. CASE TruncateList
  BY <1>5, TruncateListSteps
<1>6. CASE TruncateVect
  BY <1>6, TruncateVectSteps
<1>7. CASE (\E back \in BOOLEAN : StartWalk(back)) \/ GetNext \/ GetPrev \/ EndWalk
  BY <1>7, WalksStep
<1>8. ASSUME NEW n \in 0 .. items, DeleteAt(n) PROVE Advances
  BY <1>8, DeleteSteps
<1>9. ASSUME NEW n \in 0 .. items, Goto(n) PROVE Advances
  BY <1>9, GotoSteps
<1>10. CASE AssignList(VectVals)
  BY <1>10, AssignListSteps
<1>11. CASE AssignVect(ListVals)
  BY <1>11, AssignVectSteps
<1> QED BY <1>1, <1>2, <1>3, <1>4, <1>5, <1>6, <1>7, <1>8, <1>9, <1>10, <1>11 DEF ElemNext

LEMMA ElemHolds == ElemSpec => []ElemInv
<1>1. ElemInit => ElemInv
  BY ElemStarts
<1>2. ElemInv /\ [ElemNext]_elemVars => ElemInv'
  BY ElemSteps, ElemStands DEF Advances
<1> QED BY <1>1, <1>2, PTL DEF ElemSpec

-----------------------------------------------------------------------------
(* What the invariant says of the state a caller sees. *)

LEMMA SetSizes ==
  ASSUME NEW X, NEW Y, NEW Z, IsFiniteSet(X), IsFiniteSet(Y), IsFiniteSet(Z),
         X \cap Y = {}, X \cap Z = {}, Y \cap Z = {}
  PROVE  Cardinality(X \cup Y \cup Z) = Cardinality(X) + Cardinality(Y) + Cardinality(Z)
<1> PICK W : W = X \cup Y
  OBVIOUS
<1>1. IsFiniteSet(W) /\ Cardinality(W) = Cardinality(X) + Cardinality(Y) - Cardinality(X \cap Y)
  BY FS_Union
<1>2. IsFiniteSet(W \cup Z) /\ Cardinality(W \cup Z) = Cardinality(W) + Cardinality(Z) - Cardinality(W \cap Z)
  BY <1>1, FS_Union
<1>3. W \cap Z = {}
  OBVIOUS
<1>4. Cardinality({}) = 0 /\ Cardinality(X) \in Nat /\ Cardinality(Y) \in Nat /\ Cardinality(Z) \in Nat
      /\ Cardinality(W) \in Nat
  BY <1>1, FS_EmptySet, FS_CardinalityType
<1>5. X \cup Y \cup Z = W \cup Z
  OBVIOUS
<1>6. Cardinality(X \cap Y) = 0 /\ Cardinality(W \cap Z) = 0
  BY <1>3, <1>4
<1>7. Cardinality(X \cup Y \cup Z) = Cardinality(W \cup Z)
  BY <1>5
<1> QED BY ONLY <1>1, <1>2, <1>4, <1>6, <1>7

LEMMA BlocksFit ==
  ASSUME NEW m, NEW B, Extended(m, B)
  PROVE  /\ IsFiniteSet({B[i] : i \in 2 .. Len(B)})
         /\ Cardinality({B[i] : i \in 2 .. Len(B)}) = Len(B) - 1
<1>1. Len(B) \in Nat /\ Len(B) >= 1 /\ \A i \in 2 .. Len(B) : B[i] \in ElemAddr
  BY ExtendedFacts
<1> PICK n \in Nat : n = Len(B) - 1
  BY <1>1
<1> DEFINE q == [i \in 1 .. n |-> B[i + 1]]
<1>2. \A i \in 1 .. n : i + 1 \in 2 .. Len(B) /\ i + 1 \in 1 .. Len(B) /\ q[i] = B[i + 1]
  BY <1>1
<1>3. q \in Seq(ElemAddr) /\ Len(q) = n
  <2>1. \A i \in 1 .. n : q[i] \in ElemAddr
    BY <1>1, <1>2
  <2>2. q = [i \in 1 .. n |-> q[i]]
    OBVIOUS
  <2> HIDE DEF q
  <2> QED BY ONLY <2>1, <2>2, n \in Nat
<1> HIDE DEF q
<1>4. Once(q)
  <2>1. \A i, j \in 1 .. Len(B) : B[i] = B[j] => i = j
    BY DEF Extended, Once
  <2>2. ASSUME NEW i \in 1 .. n, NEW j \in 1 .. n, q[i] = q[j] PROVE i = j
    <3>1. i + 1 = j + 1
      BY <1>2, <2>1, <2>2
    <3> QED BY <3>1
  <2> QED BY <1>3, <2>2 DEF Once
<1>5. {B[i] : i \in 2 .. Len(B)} = {q[i] : i \in 1 .. Len(q)}
  <2>1. \A i \in 2 .. Len(B) : i - 1 \in 1 .. n /\ q[i - 1] = B[i]
    <3> SUFFICES ASSUME NEW i \in 2 .. Len(B) PROVE i - 1 \in 1 .. n /\ q[i - 1] = B[i]
      OBVIOUS
    <3> PICK j : j = i - 1
      OBVIOUS
    <3>1. j \in 1 .. n /\ j + 1 = i
      BY <1>1
    <3> QED BY <1>2, <3>1
  <2> QED BY <1>2, <1>3, <2>1
<1> QED BY <1>3, <1>4, <1>5, OnceFits

LEMMA ElemTyped ==
  ASSUME ElemInv
  PROVE  ElemTypeOK
<1>1. PICK L, B, E : Ready(L, B, E)
  BY DEF ElemInv
<1> PICK s : s = ElemStart
  OBVIOUS
<1>2. /\ s = ElemStart /\ Held(s, L, B, E) /\ s.m = elemMem /\ s.l = list /\ s.c = curs
      /\ list.n = Len(L) /\ items = Len(E)
  BY <1>1, ReadyIs
<1>3. AsElem(s) /\ ListIs(s, L) /\ VectIs(s, B, E) /\ L \in Seq(ElemAddr) /\ E \in Seq(ElemAddr)
      /\ Len(L) \in Nat /\ Len(E) \in Nat
  BY <1>2, HeldFacts
<1>4. Len(L) <= ElemSize /\ Len(E) <= ElemSize
  BY <1>3, OnceFits DEF ListIs, VectIs, Elems
<1>5. list.n \in 0 .. ElemSize /\ items \in 0 .. ElemSize
  BY <1>2, <1>3, <1>4, SizeAssumption
<1>6. list.first \in ElemPlace /\ list.last \in ElemPlace
  BY <1>2, <1>3, EndsAre
<1>7. curs \in ElemPlace
  BY <1>2, <1>3 DEF AsElem, ElemState
<1>8. elemOk \in BOOLEAN
  BY <1>1 DEF Ready
<1>9. ASSUME NEW a \in ElemPlace, NEW b, b = elemMem[a]
      PROVE  /\ b.is \in {"free", "elem", "cont", "vect"} /\ (b.is = "vect" <=> a = Nil)
             /\ b.val \in ElemValue \cup {None} /\ {b.prev, b.next, b.extra} \subseteq ElemPlace
             /\ b.slots \in [Slot -> ElemPlace]
  <2>1. b \in ElemBlock /\ (b.is = "vect" <=> a = Nil)
    BY <1>2, <1>3, <1>9, BlockIs
  <2> QED BY ONLY <2>1 DEF ElemBlock, ElemKind
<1> QED BY ONLY <1>5, <1>6, <1>7, <1>8, <1>9 DEF ElemTypeOK, ElemPlace

LEMMA ElemApart ==
  ASSUME ElemInv
  PROVE  Apart
<1>1. PICK L, B, E : Ready(L, B, E)
  BY DEF ElemInv
<1> PICK s : s = ElemStart
  OBVIOUS
<1>2. /\ s = ElemStart /\ Held(s, L, B, E) /\ s.m = elemMem /\ s.n = items /\ s.c = curs
      /\ Chain = L /\ list.n = Len(L) /\ items = Len(E)
  BY <1>1, ReadyIs
<1>3. AsElem(s) /\ ListIs(s, L) /\ VectIs(s, B, E) /\ Disjoint(L, E) /\ Stands(s.c, E)
      /\ L \in Seq(ElemAddr) /\ E \in Seq(ElemAddr) /\ B \in Seq(ElemPlace)
      /\ Len(L) \in Nat /\ Len(E) \in Nat /\ Len(B) \in Nat
      /\ (\A i \in 1 .. Len(L) : L[i] \in ElemAddr /\ s.m[L[i]].is = "elem")
      /\ (\A i \in 1 .. Len(E) : E[i] \in ElemAddr /\ s.m[E[i]].is = "elem")
  BY <1>2, HeldFacts
<1>4. Extended(s.m, B) /\ Arena(s.m) /\ Once(L) /\ Once(E)
  BY <1>3 DEF VectIs, AsElem, ListIs, Elems
<1>5. Blocks(elemMem) = B
  BY <1>2, <1>4, BlocksAre
<1>6. Len(B) >= 1 /\ (\A i \in 2 .. Len(B) : B[i] \in ElemAddr) /\ B[1] = Nil
      /\ \A i \in 2 .. Len(B) : s.m[B[i]].is = "cont"
  BY <1>4, ExtendedFacts DEF Extended
<1>7. \A i \in 0 .. items - 1 : i + 1 \in 1 .. Len(E) /\ GetSlot(elemMem, i) = E[i + 1]
  BY <1>2, <1>3, SlotsAre
<1> PICK X, Y, Z : /\ X = {L[i] : i \in 1 .. Len(L)} /\ Y = {E[i] : i \in 1 .. Len(E)}
                   /\ Z = {B[i] : i \in 2 .. Len(B)}
  OBVIOUS
<1>8. {GetSlot(elemMem, i) : i \in 0 .. items - 1} = Y
  <2>1. ASSUME NEW i \in 1 .. Len(E) PROVE E[i] \in {GetSlot(elemMem, k) : k \in 0 .. items - 1}
    <3> PICK j : j = i - 1
      OBVIOUS
    <3>1. j \in 0 .. items - 1 /\ j + 1 = i
      BY <1>2, <1>3
    <3> QED BY <1>7, <3>1
  <2> QED BY <1>7, <2>1
<1>9. Seqs!ToSet(L) = X
  BY <1>3 DEF Seqs!ToSet
<1>10. Seqs!ToSet(B) \ {Nil} = Z
  <2>1. Seqs!ToSet(B) = {B[i] : i \in 1 .. Len(B)}
    BY <1>3 DEF Seqs!ToSet
  <2>2. \A i \in 1 .. Len(B) : i = 1 \/ i \in 2 .. Len(B)
    BY <1>3
  <2>3. \A i \in 2 .. Len(B) : i \in 1 .. Len(B) /\ B[i] # Nil
    BY <1>3, <1>6, PlaceFacts
  <2> QED BY <1>6, <2>1, <2>2, <2>3
<1>11. ElemHeld = X \cup Y \cup Z
  BY <1>2, <1>5, <1>8, <1>9, <1>10 DEF ElemHeld
<1>12. ElemHeld \subseteq ElemUsed
  BY <1>2, <1>3, <1>6, <1>11 DEF ElemUsed
<1>13. X \cap Y = {} /\ X \cap Z = {} /\ Y \cap Z = {}
  <2>1. X \cap Y = {}
    BY <1>3 DEF Disjoint
  <2>2. \A x \in X \cup Y : s.m[x].is = "elem"
    BY <1>3
  <2>3. \A x \in Z : s.m[x].is = "cont"
    BY <1>6
  <2> QED BY ONLY <2>1, <2>2, <2>3
<1>14. IsFiniteSet(X) /\ Cardinality(X) = Len(L) /\ IsFiniteSet(Y) /\ Cardinality(Y) = Len(E)
  BY <1>3, <1>4, OnceFits
<1>15. IsFiniteSet(Z) /\ Cardinality(Z) = Len(B) - 1
  BY <1>4, BlocksFit
<1>16. Cardinality(X \cup Y \cup Z) = Cardinality(X) + Cardinality(Y) + Cardinality(Z)
  <2>1. IsFiniteSet(X) /\ IsFiniteSet(Y) /\ IsFiniteSet(Z)
    BY <1>14, <1>15
  <2> QED BY ONLY <1>13, <2>1, SetSizes
<1>17. Cardinality(ElemHeld) = list.n + items + Len(Blocks(elemMem)) - 1
  <2>1. Cardinality(ElemHeld) = Len(L) + Len(E) + (Len(B) - 1)
    BY <1>11, <1>14, <1>15, <1>16
  <2>2. Len(L) + Len(E) + (Len(B) - 1) = Len(L) + Len(E) + Len(B) - 1
    BY <1>3
  <2> QED BY <1>2, <1>5, <2>1, <2>2
<1>18. curs # Nil => \E i \in 0 .. items - 1 : curs = GetSlot(elemMem, i)
  <2>1. ASSUME NEW k \in 1 .. Len(E), curs = E[k] PROVE \E i \in 0 .. items - 1 : curs = GetSlot(elemMem, i)
    <3> PICK j : j = k - 1
      OBVIOUS
    <3>1. j \in 0 .. items - 1 /\ j + 1 = k
      BY <1>2, <1>3
    <3> QED BY <1>7, <2>1, <3>1
  <2> QED BY <1>2, <1>3, <2>1 DEF Stands
<1> QED BY <1>12, <1>17, <1>18 DEF Apart

LEMMA ElemWalked ==
  ASSUME ElemInv
  PROVE  WalkWhole
<1>1. PICK L, B, E : Ready(L, B, E)
  BY DEF ElemInv
<1> PICK s : s = ElemStart
  OBVIOUS
<1>2. /\ s = ElemStart /\ Held(s, L, B, E) /\ WalkIs(s.w, L) /\ s.w = walk /\ Chain = L
  BY <1>1, ReadyIs
<1> PICK w : w = walk
  OBVIOUS
<1>3. w.on \in BOOLEAN /\ WalkIs(w, L) /\ L \in Seq(ElemAddr)
  BY <1>2, WalkTypes, HeldFacts DEF WalkIs
<1>4. w.on /\ w.pos = Nil => w.seen = IF w.back THEN Seqs!Reverse(L) ELSE L
  <2> SUFFICES ASSUME w.on, w.pos = Nil PROVE w.seen = IF w.back THEN Seqs!Reverse(L) ELSE L
    OBVIOUS
  <2>1. w.on = TRUE
    BY <1>3
  <2> QED BY <1>3, <2>1, WalkEnds
<1> QED BY <1>2, <1>4 DEF WalkWhole

\* The list and the vector never share a block, neither keeps one that was freed, the wrapper
\* stands at an element the vector has, and a walk that ends has handed out the whole list,
\* whatever the size of the arena and of a block, and whichever allocation is refused.
THEOREM ElemsAreSound == ElemSpec => []ElemSound
<1>1. ElemInv => ElemSound
  BY ElemTyped, ElemApart, ElemWalked DEF ElemSound
<1> QED BY <1>1, ElemHolds, PTL

\* The list and the vector are two sequences: every call is a step of ElemSeq, those that
\* need a continuation, close a gap over one, or are refused a block half way included.
THEOREM ElemsImplement == ElemSpec => ElemImplements
<1>1. ElemInit => Elem!Init
  BY ElemStarts
<1>2. ElemInv /\ [ElemNext]_elemVars => [Elem!Next]_<<ListVals, VectVals, elemOk>>
  BY ElemSteps, ElemStands DEF Advances
<1> QED BY <1>1, <1>2, ElemHolds, PTL DEF ElemSpec, ElemImplements, Elem!Spec, Elem!vars

=============================================================================
