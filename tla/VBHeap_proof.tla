---------------------------- MODULE VBHeap_proof ----------------------------
(***************************************************************************)
(* Proofs about VBHeap, for every layout, ceiling, request and first-fit   *)
(* budget, and about ImageGate, for every arena. The inductive invariant   *)
(* IInv joins the tiling of the arena and the chaining of the free list to *)
(* what the call in progress knows of them. Each is kept by a lemma about  *)
(* sets, sizes and links alone, one per way the code changes them; the     *)
(* step proofs cite those lemmas.                                          *)
(***************************************************************************)
EXTENDS MCVBHeap, ImageGate, SumTheorems, TLAPS

\* What Create is trusted with below: a padded initial size that needs no
\* rounding: without it the first growth starts inside the last block.
Aligned == \A s \in InitSizes : RoundUp(s + Word) = s + Word

\* What the call in progress may rely on: its cursor is on a free block, and
\* the size it looks for is a whole block.
Cursor == /\ op.pc = "visit" => op.cur \in Free \cup {0}
          /\ op.pc \in {"collateA", "collateF", "collateP"} => op.cur \in Free
          /\ op.pc \in {"visit", "collateA", "chosen"} => op.n >= VBHeapMin

\* The free list comes to an end: its links increase some rank of the blocks.
\* Chained alone is local, and would allow a ring beside the list.
Ranked(F, nx) ==
  \E rank \in [Addr -> Int] : \A a \in F : nx[a] # 0 => rank[a] < rank[nx[a]]
Acyclic == Ranked(Free, next)

IInv == TypeOK /\ Tiling /\ Linked /\ Acyclic /\ Cursor
-----------------------------------------------------------------------------
(* Links *)

\* Isolate takes one block out of a chain and leaves the rest chained.
LEMMA IsolateChained ==
  ASSUME TypeOK, Linked, NEW b \in Free
  PROVE  Chained(Free \ {b}, IsolatedNext(b), IsolatedPrev(b),
                 Isolated(b).free, Isolated(b).freeLast)
<1> DEFINE F == Free \ {b}
           nx == IsolatedNext(b)
           pv == IsolatedPrev(b)
           head == IF root.free = b THEN next[b] ELSE root.free
           last == IF root.freeLast = b THEN prev[b] ELSE root.freeLast
<1>0. First \in Nat \ {0} /\ 0 \notin Addr /\ Free \subseteq Addr
  BY LayoutAssumption DEF Addr, Free
<1>1. /\ \A a \in Free : /\ next[a] \in Free \cup {0} /\ prev[a] \in Free \cup {0}
                         /\ next[a] # 0 => prev[next[a]] = a
                         /\ prev[a] # 0 => next[prev[a]] = a
                         /\ (next[a] = 0) <=> (root.freeLast = a)
                         /\ (prev[a] = 0) <=> (root.free = a)
      /\ root.free \in Free \cup {0} /\ root.freeLast \in Free \cup {0}
      /\ (root.free = 0) <=> (root.freeLast = 0)
  BY DEF Linked, Chained
<1>2. Isolated(b).free = head /\ Isolated(b).freeLast = last
  BY <1>1, <1>0 DEF Isolated, TypeOK
<1>3. \A x \in F : /\ nx[x] = IF x = prev[b] THEN next[b] ELSE next[x]
                   /\ pv[x] = IF x = next[b] THEN prev[b] ELSE prev[x]
  BY <1>0 DEF IsolatedNext, IsolatedPrev
<1>4. ASSUME NEW a \in F
      PROVE  /\ nx[a] \in F \cup {0} /\ pv[a] \in F \cup {0}
             /\ nx[a] # 0 => pv[nx[a]] = a
             /\ pv[a] # 0 => nx[pv[a]] = a
             /\ (nx[a] = 0) <=> (last = a)
             /\ (pv[a] = 0) <=> (head = a)
  <2> HIDE DEF nx, pv
  <2>1. nx[a] \in F \cup {0} /\ pv[a] \in F \cup {0}
    BY <1>0, <1>1, <1>3
  <2>2. nx[a] # 0 => pv[nx[a]] = a
    BY <1>0, <1>1, <1>3, <2>1
  <2>3. pv[a] # 0 => nx[pv[a]] = a
    BY <1>0, <1>1, <1>3, <2>1
  <2>4. (nx[a] = 0) <=> (last = a)
    BY <1>0, <1>1, <1>3
  <2>5. (pv[a] = 0) <=> (head = a)
    BY <1>0, <1>1, <1>3
  <2> QED BY <2>1, <2>2, <2>3, <2>4, <2>5
<1>5. head \in F \cup {0} /\ last \in F \cup {0} /\ ((head = 0) <=> (last = 0))
  BY <1>0, <1>1
<1> QED BY <1>2, <1>4, <1>5 DEF Chained

\* Resize puts a new block at the tail.
LEMMA AppendChained ==
  ASSUME NEW F, NEW nx, NEW pv, NEW head, NEW last, NEW e,
         Chained(F, nx, pv, head, last), 0 \notin F, e \notin F, e # 0,
         NEW nx2, NEW pv2,
         nx2[e] = 0, pv2[e] = last,
         \A x \in F : /\ nx2[x] = IF x = last THEN e ELSE nx[x]
                      /\ pv2[x] = pv[x],
         NEW F2, F2 = F \cup {e},
         NEW head2, head2 = IF head = 0 THEN e ELSE head
  PROVE  Chained(F2, nx2, pv2, head2, e)
BY DEF Chained

\* The list stays acyclic when a block is isolated, appended, pushed or replaced.
LEMMA IsolateRanked ==
  ASSUME TypeOK, Linked, Acyclic, NEW b \in Free
  PROVE  Ranked(Free \ {b}, IsolatedNext(b))
<1>1. PICK rank \in [Addr -> Int] :
        \A a \in Free : next[a] # 0 => rank[a] < rank[next[a]]
  BY DEF Acyclic, Ranked
<1>2. ASSUME NEW a \in Free \ {b}, IsolatedNext(b)[a] # 0
      PROVE  rank[a] < rank[IsolatedNext(b)[a]]
  <2>1. 0 \notin Addr /\ Free \subseteq Addr
    BY LayoutAssumption DEF Addr, Free
  <2>2. IsolatedNext(b)[a] = IF a = prev[b] THEN next[b] ELSE next[a]
    BY <2>1 DEF IsolatedNext
  <2>3. CASE a = prev[b]
    <3>1. next[a] = b /\ a # 0
      BY <2>3, <2>1 DEF Linked, Chained
    <3>2. next[b] \in Addr
      BY <2>2, <2>3, <1>2, <2>1 DEF TypeOK
    <3>3. rank[a] < rank[b] /\ rank[b] < rank[next[b]]
      BY <1>1, <3>1, <2>1, <1>2, <2>2, <2>3
    <3> QED BY <3>2, <3>3, <2>1, <2>2, <2>3
  <2>4. CASE a # prev[b]
    BY <2>2, <2>4, <1>1, <1>2
  <2> QED BY <2>3, <2>4
<1> QED BY <1>1, <1>2 DEF Ranked

LEMMA AppendRanked ==
  ASSUME NEW F \in SUBSET Addr, NEW nx, NEW pv, NEW head, NEW last, NEW e \in Addr,
         Chained(F, nx, pv, head, last), Ranked(F, nx), 0 \notin F, e \notin F,
         NEW nx2, nx2[e] = 0,
         \A x \in F : nx2[x] = IF x = last THEN e ELSE nx[x]
  PROVE  Ranked(F \cup {e}, nx2)
<1>1. PICK rank \in [Addr -> Int] : \A a \in F : nx[a] # 0 => rank[a] < rank[nx[a]]
  BY DEF Ranked
<1> DEFINE high == IF last = 0 THEN 0 ELSE rank[last] + 1
           rank2 == [rank EXCEPT ![e] = high]
<1>2. last \in F \cup {0} /\ \A x \in F : nx[x] \in F \cup {0}
  BY DEF Chained
<1>3. high \in Int /\ rank2 \in [Addr -> Int]
  BY <1>1, <1>2
<1>4. ASSUME NEW x \in F \cup {e}, nx2[x] # 0 PROVE rank2[x] < rank2[nx2[x]]
  <2>1. x \in F
    BY <1>4
  <2>2. CASE x = last
    BY <2>1, <2>2, <1>1, <1>2, <1>3
  <2>3. CASE x # last
    BY <2>1, <2>3, <1>1, <1>2, <1>3, <1>4
  <2> QED BY <2>2, <2>3
<1> QED BY <1>3, <1>4 DEF Ranked

LEMMA PushRanked ==
  ASSUME NEW F \in SUBSET Addr, NEW nx, NEW pv, NEW head, NEW last, NEW a \in Addr,
         Chained(F, nx, pv, head, last), Ranked(F, nx), 0 \notin F, a \notin F,
         NEW nx2, nx2[a] = head, \A x \in F : nx2[x] = nx[x]
  PROVE  Ranked(F \cup {a}, nx2)
<1>1. PICK rank \in [Addr -> Int] : \A x \in F : nx[x] # 0 => rank[x] < rank[nx[x]]
  BY DEF Ranked
<1> DEFINE low == IF head = 0 THEN 0 ELSE rank[head] - 1
           rank2 == [rank EXCEPT ![a] = low]
<1>2. head \in F \cup {0} /\ \A x \in F : nx[x] \in F \cup {0}
  BY DEF Chained
<1>3. low \in Int /\ rank2 \in [Addr -> Int]
  BY <1>1, <1>2
<1>4. ASSUME NEW x \in F \cup {a}, nx2[x] # 0 PROVE rank2[x] < rank2[nx2[x]]
  <2>1. CASE x = a
    BY <2>1, <1>1, <1>2, <1>3, <1>4
  <2>2. CASE x \in F
    BY <2>2, <1>1, <1>2, <1>3, <1>4
  <2> QED BY <2>1, <2>2
<1> QED BY <1>3, <1>4 DEF Ranked

LEMMA ReplaceRanked ==
  ASSUME NEW F \in SUBSET Addr, NEW nx, NEW pv, NEW head, NEW last,
         NEW a \in F, NEW e \in Addr,
         Chained(F, nx, pv, head, last), Ranked(F, nx), 0 \notin F, e \notin F,
         NEW nx2, nx2[e] = nx[a],
         \A x \in F \ {a} : nx2[x] = IF x = pv[a] THEN e ELSE nx[x],
         NEW F2, F2 = (F \ {a}) \cup {e}
  PROVE  Ranked(F2, nx2) /\ nx[a] # a /\ pv[a] # a
<1>1. PICK rank \in [Addr -> Int] : \A x \in F : nx[x] # 0 => rank[x] < rank[nx[x]]
  BY DEF Ranked
<1> DEFINE rank2 == [rank EXCEPT ![e] = rank[a]]
<1>2. rank2 \in [Addr -> Int]
  BY <1>1
<1>3. /\ \A x \in F : nx[x] \in F \cup {0} /\ (nx[x] # 0 => pv[nx[x]] = x)
      /\ pv[a] \in F \cup {0} /\ (pv[a] # 0 => nx[pv[a]] = a)
  BY DEF Chained
<1>4. nx[a] # a /\ pv[a] # a
  BY <1>1, <1>3
<1>5. ASSUME NEW x \in (F \ {a}) \cup {e}, nx2[x] # 0 PROVE rank2[x] < rank2[nx2[x]]
  <2>1. CASE x = e
    BY <2>1, <1>1, <1>3, <1>4, <1>5
  <2>2. CASE x \in F \ {a} /\ x = pv[a]
    BY <2>2, <1>1, <1>3, <1>4, <1>5
  <2>3. CASE x \in F \ {a} /\ x # pv[a]
    <3>1. nx[x] # a
      BY <2>3, <1>3
    <3> QED BY <3>1, <2>3, <1>1, <1>3, <1>5
  <2> QED BY <2>1, <2>2, <2>3
<1> QED BY <1>2, <1>4, <1>5 DEF Ranked
-----------------------------------------------------------------------------
(* Tiles *)

\* Collate: a block absorbs the one after it.
LEMMA MergeTiles ==
  ASSUME NEW B \in SUBSET Addr, NEW sz, NEW lim \in Int, Tiles(B, sz, lim),
         \A x \in B : sz[x] \in Nat,
         NEW a \in B, NEW b \in B, b = a + sz[a],
         NEW sz2, sz2[a] = sz[a] + sz[b],
         \A x \in B \ {a, b} : sz2[x] = sz[x]
  PROVE  Tiles(B \ {b}, sz2, lim)
<1>0. B \subseteq Int /\ First \in Nat /\ First \in B
      /\ (\A x \in B : x >= First) /\ VBHeapMin \in Nat /\ VBHeapMin > 0
  BY LayoutAssumption DEF Addr, Tiles
<1>1. b # First /\ b > a
  BY <1>0 DEF Tiles
<1>2. ASSUME NEW x \in B \ {b}
      PROVE  /\ sz2[x] >= VBHeapMin
             /\ x + sz2[x] = lim \/ (x + sz2[x] \in B \ {b} /\ x + sz2[x] < lim)
             /\ \A y \in B \ {b} : y > x => y >= x + sz2[x]
  <2>1. CASE x = a
    BY <2>1, <1>0, <1>1 DEF Tiles
  <2>2. CASE x # a
    <3>1. sz2[x] = sz[x] BY <2>2
    <3>2. x + sz[x] # b
      BY <2>2, <1>0, <1>1 DEF Tiles
    <3> QED BY <3>1, <3>2 DEF Tiles
  <2> QED BY <2>1, <2>2
<1> QED BY <1>0, <1>1, <1>2 DEF Tiles

\* Resize: a block is added where the arena ended.
LEMMA GrowTiles ==
  ASSUME NEW B \in SUBSET Addr, NEW sz, NEW lim \in Int, Tiles(B, sz, lim),
         \A x \in B : sz[x] \in Nat,
         NEW n \in Nat, n >= VBHeapMin,
         NEW sz2, sz2[lim] = n, \A x \in B : sz2[x] = sz[x]
  PROVE  lim \notin B /\ Tiles(B \cup {lim}, sz2, lim + n)
<1>0. B \subseteq Int /\ VBHeapMin \in Nat /\ VBHeapMin > 0
  BY LayoutAssumption DEF Addr
<1>1. \A x \in B : x < lim
  BY <1>0 DEF Tiles
<1> QED BY <1>0, <1>1 DEF Tiles

\* SplitAlloc: a block is cut in two.
LEMMA SplitTiles ==
  ASSUME NEW B \in SUBSET Addr, NEW sz, NEW lim \in Int, Tiles(B, sz, lim),
         \A x \in B : sz[x] \in Nat,
         NEW a \in B, NEW n \in Nat, n >= VBHeapMin, sz[a] - n >= VBHeapMin,
         NEW sz2, sz2[a] = n, sz2[a + n] = sz[a] - n,
         \A x \in B \ {a} : sz2[x] = sz[x]
  PROVE  a + n \notin B /\ Tiles(B \cup {a + n}, sz2, lim)
<1>0. B \subseteq Int /\ VBHeapMin \in Nat /\ VBHeapMin > 0
  BY LayoutAssumption DEF Addr
<1>1. a + n \notin B
  BY <1>0 DEF Tiles
<1>2. ASSUME NEW x \in B \cup {a + n}
      PROVE  /\ sz2[x] >= VBHeapMin
             /\ x + sz2[x] = lim \/ (x + sz2[x] \in B \cup {a + n} /\ x + sz2[x] < lim)
             /\ \A y \in B \cup {a + n} : y > x => y >= x + sz2[x]
  <2>1. CASE x = a
    BY <2>1, <1>0, <1>1 DEF Tiles
  <2>2. CASE x = a + n
    BY <2>2, <1>0, <1>1 DEF Tiles
  <2>3. CASE x \in B \ {a}
    BY <2>3, <1>0, <1>1 DEF Tiles
  <2> QED BY <2>1, <2>2, <2>3
<1> QED BY <1>0, <1>1, <1>2 DEF Tiles
-----------------------------------------------------------------------------
(* Types *)

LEMMA AddrType == Addr \subseteq Nat \ {0} /\ 0 \notin Addr
BY LayoutAssumption DEF Addr

LEMMA StampFootType ==
  ASSUME NEW f \in [Addr -> Nat], NEW a, NEW n \in Nat, NEW lim
  PROVE  StampFoot(f, a, n, lim) \in [Addr -> Nat]
<1>1. [f EXCEPT ![a + n] = n] \in [Addr -> Nat]
  OBVIOUS
<1> QED BY <1>1 DEF StampFoot

LEMMA CollatedFootType ==
  ASSUME TypeOK, NEW a \in Addr
  PROVE  CollatedFoot(a) \in [Addr -> Nat]
BY StampFootType DEF CollatedFoot, TypeOK

\* What Isolate leaves in the root and in the links is of their type.
LEMMA IsolatedType ==
  ASSUME TypeOK, NEW b \in Addr
  PROVE  /\ IsolatedNext(b) \in [Addr -> Addr \cup {0}]
         /\ IsolatedPrev(b) \in [Addr -> Addr \cup {0}]
         /\ Isolated(b) \in RootType
         /\ Isolated(b).freeSize = root.freeSize - size[b]
         /\ Isolated(b).allocSize = root.allocSize
<1>1. IsolatedNext(b) \in [Addr -> Addr \cup {0}]
  BY DEF IsolatedNext, TypeOK
<1>2. IsolatedPrev(b) \in [Addr -> Addr \cup {0}]
  BY DEF IsolatedPrev, TypeOK
<1>3. root \in RootType /\ size[b] \in Nat /\ prev[b] \in Addr \cup {0} /\ next[b] \in Addr \cup {0}
  BY DEF TypeOK
<1>4. Isolated(b) \in RootType /\ Isolated(b).freeSize = root.freeSize - size[b]
      /\ Isolated(b).allocSize = root.allocSize
  <2> DEFINE back == IF prev[b] # 0 THEN prev[b] ELSE next[b]
             forth == IF next[b] # 0 THEN next[b] ELSE prev[b]
             al == IF root.alloc = b THEN back ELSE root.alloc
             fr == IF root.free = b THEN back ELSE root.free
             fl == IF root.freeLast = b THEN forth ELSE root.freeLast
  <2>1. Isolated(b) = [root EXCEPT !.alloc = al, !.free = fr, !.freeLast = fl,
                                   !.freeSize = root.freeSize - size[b],
                                   !.freeItems = root.freeItems - 1]
    BY DEF Isolated
  <2>2. /\ al \in Addr \cup {0} /\ fr \in Addr \cup {0} /\ fl \in Addr \cup {0}
        /\ root.freeSize - size[b] \in Int /\ root.freeItems - 1 \in Int
    BY <1>3 DEF RootType
  <2> HIDE DEF al, fr, fl, back, forth
  <2> QED BY <2>1, <2>2, <1>3 DEF RootType
<1> QED BY <1>1, <1>2, <1>4

LEMMA NoOpType == NoOp \in OpType /\ NoOp.pc = "idle"
BY DEF NoOp, OpType

LEMMA RestartType ==
  ASSUME NEW o \in OpType, NEW head \in Addr \cup {0}
  PROVE  /\ Restart(o, head) \in OpType /\ Restart(o, head).pc = "visit"
         /\ Restart(o, head).cur = head /\ Restart(o, head).n = o.n
BY DEF Restart, OpType

LEMMA AllocatedType ==
  ASSUME NEW r \in RootType, NEW a \in Addr, NEW n \in Nat
  PROVE  /\ Allocated(r, a, n) \in RootType
         /\ Allocated(r, a, n).free = r.free /\ Allocated(r, a, n).freeLast = r.freeLast
         /\ Allocated(r, a, n).freeSize = r.freeSize
         /\ Allocated(r, a, n).allocSize = r.allocSize + n
<1> DEFINE al == IF r.alloc = 0 THEN a ELSE r.alloc
<1>1. Allocated(r, a, n) = [r EXCEPT !.allocSize = r.allocSize + n,
                                     !.allocItems = r.allocItems + 1, !.alloc = al]
  BY DEF Allocated
<1>2. al \in Addr \cup {0} /\ r.allocSize + n \in Int /\ r.allocItems + 1 \in Int
  BY DEF RootType
<1> HIDE DEF al
<1> QED BY <1>1, <1>2 DEF RootType
-----------------------------------------------------------------------------
(* The invariant *)

\* A step that leaves the headers, the links and the root alone keeps the shape.
LEMMA Quiet ==
  ASSUME Tiling, Linked, Acyclic, UNCHANGED <<st, size, prev, next, end, root>>
  PROVE  Tiling' /\ Linked' /\ Acyclic' /\ Free' = Free /\ Used' = Used
BY DEF Tiling, Linked, Acyclic, Blocks, Free, Used

LEMMA InitInv == ASSUME Aligned, Init PROVE IInv
<1>0. PICK s \in InitSizes :
        LET block == RoundUp(s + Word) - First IN
          /\ end = s + Word
          /\ st = [a \in Addr |-> IF a = First THEN "free" ELSE "none"]
          /\ size = [a \in Addr |-> IF a = First THEN block ELSE 0]
          /\ prev = [a \in Addr |-> 0]
          /\ next = [a \in Addr |-> 0]
          /\ foot = [a \in Addr |-> 0]
          /\ root = [free |-> First, freeLast |-> First, alloc |-> 0,
                     freeSize |-> block, freeItems |-> 1,
                     allocSize |-> 0, allocItems |-> 0]
          /\ used = 0
          /\ op = NoOp
          /\ outcome = "none"
  BY DEF Init
<1>1. /\ end = s + Word /\ s \in Nat /\ Word \in Nat \ {0} /\ First \in Nat \ {0}
      /\ s <= SizeMax /\ SizeMax \in Nat /\ VBHeapMin \in Nat
      /\ First + VBHeapMin <= end
      /\ size = [a \in Addr |-> IF a = First THEN end - First ELSE 0]
      /\ root = [free |-> First, freeLast |-> First, alloc |-> 0,
                 freeSize |-> end - First, freeItems |-> 1,
                 allocSize |-> 0, allocItems |-> 0]
  BY <1>0, LayoutAssumption, CreateAssumption DEF Aligned
<1>2. First \in Addr /\ end \in Addr /\ end - First \in Nat /\ end - First >= VBHeapMin
  BY <1>1 DEF Addr
<1>3. Free = {First} /\ Used = {} /\ Blocks = {First}
  BY <1>0, <1>2 DEF Free, Used, Blocks
<1>4. TypeOK
  <2>1. root \in RootType
    BY <1>1, <1>2 DEF RootType
  <2>2. st \in [Addr -> {"none", "free", "used"}] /\ size \in [Addr -> Nat]
    BY <1>0, <1>1, <1>2
  <2>3. /\ prev \in [Addr -> Addr \cup {0}] /\ next \in [Addr -> Addr \cup {0}]
        /\ foot \in [Addr -> Nat]
    BY <1>0
  <2> QED BY <2>1, <2>2, <2>3, <1>0, <1>2, NoOpType DEF TypeOK
<1>5. Tiling
  BY <1>1, <1>2, <1>3 DEF Tiling, Tiles
<1>6. Linked
  BY <1>0, <1>1, <1>2, <1>3 DEF Linked, Chained
<1>7. Acyclic
  <2>1. [a \in Addr |-> 0] \in [Addr -> Int]
    OBVIOUS
  <2> QED BY <2>1, <1>0, <1>2, <1>3 DEF Acyclic, Ranked
<1>8. Cursor
  BY <1>0, NoOpType DEF Cursor
<1> QED BY <1>4, <1>5, <1>6, <1>7, <1>8 DEF IInv

\* Facts of the invariant every step uses.
LEMMA Shape ==
  ASSUME IInv
  PROVE  /\ Free \subseteq Addr /\ Used \subseteq Addr /\ Blocks \subseteq Addr
         /\ Free \cap Used = {} /\ Blocks = Free \cup Used
         /\ \A a \in Addr : size[a] \in Nat /\ a \in Nat \ {0}
         /\ root.free \in Free \cup {0} /\ root.freeLast \in Free \cup {0}
         /\ \A a \in Free : next[a] \in Free \cup {0} /\ prev[a] \in Free \cup {0}
         /\ \A a \in Blocks : size[a] >= VBHeapMin
         /\ end \in Nat /\ VBHeapMin \in Nat \ {0}
BY AddrType, LayoutAssumption
   DEF IInv, TypeOK, Linked, Chained, Tiling, Tiles, Free, Used, Blocks

\* Steps of the walk and of the caller: nothing of the arena's shape changes.
LEMMA AllocCallStep ==
  ASSUME IInv, NEW req \in Requests, AllocCall(req) PROVE IInv'
<1>1. UNCHANGED <<st, size, prev, next, foot, end, root, used>>
  BY DEF AllocCall
<1>2. Tiling' /\ Linked' /\ Acyclic' /\ Free' = Free /\ Used' = Used
  BY <1>1, Quiet DEF IInv
<1> DEFINE n == Larger(req + Hdr, VBHeapMin)
<1>3. n \in Nat /\ n >= VBHeapMin
  BY LayoutAssumption, CallAssumption DEF Larger
<1>4. MaxBlocks \in Nat
  BY LayoutAssumption, Shape DEF MaxBlocks
<1>5. CASE op' = NoOp /\ outcome' = "full"
  BY <1>1, <1>2, <1>5, NoOpType DEF IInv, TypeOK, Cursor
<1>6. CASE /\ op' = Restart([NoOp EXCEPT !.n = n, !.limit = MaxBlocks], root.free)
           /\ outcome' = "none"
  <2> DEFINE o == [NoOp EXCEPT !.n = n, !.limit = MaxBlocks]
  <2>1. o \in OpType /\ o.n = n
    BY <1>3, <1>4 DEF OpType, NoOp
  <2>2. root.free \in Free \cup {0} /\ root.free \in Addr \cup {0}
    BY Shape
  <2>3. op' \in OpType /\ op'.pc = "visit" /\ op'.cur = root.free /\ op'.n = n
    BY <1>6, <2>1, <2>2, RestartType
  <2> QED BY <1>1, <1>2, <1>3, <1>6, <2>2, <2>3 DEF IInv, TypeOK, Cursor
<1> QED BY <1>5, <1>6 DEF AllocCall, Finish

LEMMA WalkStep ==
  ASSUME IInv, Visit \/ WalkEnds \/ GrowRefused \/ Retry PROVE IInv'
<1>1. UNCHANGED <<st, size, prev, next, foot, end, root, used>>
  BY DEF Visit, WalkEnds, GrowRefused, Retry
<1>2. Tiling' /\ Linked' /\ Acyclic' /\ Free' = Free /\ Used' = Used
  BY <1>1, Quiet DEF IInv
<1>3. op' \in OpType /\ Cursor'
  <2>0. op \in OpType /\ Cursor /\ root.free \in Free \cup {0} /\ root.free \in Addr \cup {0}
    BY Shape DEF IInv, TypeOK
  <2>1. CASE op' = NoOp
    BY <2>1, NoOpType DEF Cursor
  <2>2. CASE Visit /\ op' = [op EXCEPT !.pc = "collateA", !.walked = @ + 1]
    <3>1. op.pc = "visit" /\ op.cur \in Free /\ op.n >= VBHeapMin
      BY <2>0, <2>2 DEF Visit, Cursor
    <3>2. op.walked + 1 \in Nat
      BY <2>0 DEF OpType
    <3>3. op' \in OpType /\ op'.pc = "collateA" /\ op'.cur = op.cur /\ op'.n = op.n
      BY <2>0, <2>2, <3>2 DEF OpType
    <3> QED BY <3>1, <3>3, <1>2 DEF Cursor
  <2>3. CASE WalkEnds
    BY <2>0, <2>3, <1>2 DEF WalkEnds, OpType, Cursor
  <2>4. CASE Retry /\ op' = Restart([op EXCEPT !.firstFit = TRUE], root.free)
    <3> DEFINE o == [op EXCEPT !.firstFit = TRUE]
    <3>1. o \in OpType /\ o.n = op.n
      BY <2>0 DEF OpType
    <3>2. op' \in OpType /\ op'.pc = "visit" /\ op'.cur = root.free /\ op'.n = op.n
      BY <2>0, <2>4, <3>1, RestartType
    <3> QED BY <2>0, <2>4, <3>2, <1>2 DEF Retry, Cursor
  <2> QED BY <2>1, <2>2, <2>3, <2>4 DEF Visit, GrowRefused, Retry, WalkEnds, Finish
<1>4. outcome' \in {"none", "ok", "full", "cyclic", "unsatisfied", "lost", "notAllocated"}
  BY DEF Visit, WalkEnds, GrowRefused, Retry, Finish, IInv, TypeOK
<1> QED BY <1>1, <1>2, <1>3, <1>4 DEF IInv, TypeOK

LEMMA MeasureStep ==
  ASSUME IInv, SkipSmall \/ TakeAtOnce \/ KeepBest PROVE IInv'
<1>1. /\ UNCHANGED <<st, size, prev, next, end, root, used, outcome>>
      /\ foot' = CollatedFoot(op.cur) /\ op.pc = "collateA"
  BY DEF SkipSmall, TakeAtOnce, KeepBest, Measured
<1>2. Tiling' /\ Linked' /\ Acyclic' /\ Free' = Free /\ Used' = Used
  BY <1>1, Quiet DEF IInv
<1>3. /\ op \in OpType /\ op.cur \in Free /\ op.cur \in Addr /\ op.n >= VBHeapMin
      /\ next[op.cur] \in Free \cup {0} /\ next[op.cur] \in Addr \cup {0}
      /\ size[op.cur] \in Nat
  BY <1>1, Shape DEF IInv, TypeOK, Cursor
<1>4. foot' \in [Addr -> Nat]
  BY <1>1, <1>3, CollatedFootType DEF IInv
<1>5. op' \in OpType /\ Cursor'
  <2>1. CASE SkipSmall
    BY <2>1, <1>2, <1>3 DEF SkipSmall, OpType, Cursor
  <2>2. CASE TakeAtOnce
    BY <2>2, <1>2, <1>3 DEF TakeAtOnce, OpType, Cursor
  <2>3. CASE KeepBest
    <3> DEFINE better == op.best = 0 \/ size[op.cur] < op.bestSize
               last == op.fits + 1 >= MaxFitWalk
               best == IF better THEN op.cur ELSE op.best
               bestSize == IF better THEN size[op.cur] ELSE op.bestSize
               pc == IF last THEN "chosen" ELSE "visit"
               cur == IF last THEN op.cur ELSE next[op.cur]
    <3>1. op' = [op EXCEPT !.best = best, !.bestSize = bestSize, !.fits = op.fits + 1,
                           !.pc = pc, !.cur = cur]
      BY <2>3 DEF KeepBest
    <3>2. /\ best \in Addr \cup {0} /\ bestSize \in Nat /\ op.fits + 1 \in Nat
          /\ pc \in {"chosen", "visit"} /\ cur \in Addr \cup {0}
          /\ cur \in Free \cup {0}
      BY <1>3 DEF OpType
    <3> HIDE DEF best, bestSize, pc, cur, better, last
    <3> QED BY <3>1, <3>2, <1>2, <1>3 DEF OpType, Cursor
  <2> QED BY <2>1, <2>2, <2>3
<1> QED BY <1>1, <1>2, <1>4, <1>5 DEF IInv, TypeOK

LEMMA FreeEndsStep ==
  ASSUME IInv, Released \/ Rejoined PROVE IInv'
<1>1. /\ UNCHANGED <<st, size, prev, next, end, root, used>>
      /\ foot' = CollatedFoot(op.cur) /\ op.pc \in {"collateF", "collateP"}
  BY DEF Released, Rejoined
<1>2. Tiling' /\ Linked' /\ Acyclic' /\ Free' = Free /\ Used' = Used
  BY <1>1, Quiet DEF IInv
<1>3. op \in OpType /\ op.cur \in Free /\ op.cur \in Addr
  BY <1>1, Shape DEF IInv, TypeOK, Cursor
<1>4. foot' \in [Addr -> Nat]
  BY <1>1, <1>3, CollatedFootType DEF IInv
<1>5. op' \in OpType /\ Cursor'
  <2>1. CASE op' = NoOp
    BY <2>1, NoOpType DEF Cursor
  <2>2. CASE op' = [op EXCEPT !.pc = "collateP", !.cur = PrevFree(op.cur)] /\ PrevFree(op.cur) # 0
    <3>1. PrevFree(op.cur) \in Free /\ PrevFree(op.cur) \in Addr
      BY <2>2, Shape DEF PrevFree
    <3> QED BY <2>2, <3>1, <1>2, <1>3 DEF OpType, Cursor
  <2> QED BY <2>1, <2>2 DEF Released, Rejoined, Finish
<1>6. outcome' \in {"none", "ok", "full", "cyclic", "unsatisfied", "lost", "notAllocated"}
  BY DEF Released, Rejoined, Finish, IInv, TypeOK
<1> QED BY <1>1, <1>2, <1>4, <1>5, <1>6 DEF IInv, TypeOK

LEMMA CallerStep ==
  ASSUME IInv,
         SaveScrub \/ SaveRestore \/ \E a \in Addr : FreeRefused(a) \/ WritePayload(a)
  PROVE  IInv'
<1>1. UNCHANGED <<st, size, prev, next, end, root>>
  BY DEF SaveScrub, SaveRestore, FreeRefused, WritePayload
<1>2. Tiling' /\ Linked' /\ Acyclic' /\ Free' = Free /\ Used' = Used
  BY <1>1, Quiet DEF IInv
<1>3. CASE SaveScrub
  <2>1. foot' \in [Addr -> Nat]
    BY <1>3 DEF SaveScrub, IInv, TypeOK
  <2>2. op' \in OpType /\ Cursor'
    BY <1>3 DEF SaveScrub, NoOp, OpType, Cursor
  <2> QED BY <1>1, <1>2, <1>3, <2>1, <2>2 DEF SaveScrub, IInv, TypeOK
<1>4. CASE SaveRestore
  <2>1. ASSUME NEW e \in Addr, \E a \in Free : Tagged(a) /\ After(a) = e
        PROVE  size[CHOOSE a \in Free : Tagged(a) /\ After(a) = e] \in Nat
    <3>1. (CHOOSE a \in Free : Tagged(a) /\ After(a) = e) \in Free
      BY <2>1
    <3> HIDE DEF Free
    <3> QED BY <3>1, Shape
  <2>2. foot' \in [Addr -> Nat]
    BY <1>4, <2>1 DEF SaveRestore, IInv, TypeOK
  <2> QED BY <1>1, <1>2, <1>4, <2>2, NoOpType DEF SaveRestore, Finish, IInv, TypeOK, Cursor
<1>5. CASE \E a \in Addr : FreeRefused(a)
  BY <1>1, <1>2, <1>5, NoOpType DEF FreeRefused, Finish, IInv, TypeOK, Cursor
<1>6. CASE \E a \in Addr : WritePayload(a)
  <2>1. foot' \in [Addr -> Nat]
    BY <1>6 DEF WritePayload, IInv, TypeOK
  <2> QED BY <1>1, <1>2, <1>6, <2>1 DEF WritePayload, IInv, TypeOK, Cursor
<1> QED BY <1>3, <1>4, <1>5, <1>6

\* Collate takes a free block off the list and gives its bytes to the one before.
LEMMA AbsorbStep ==
  ASSUME IInv, Absorb PROVE IInv'
<1> DEFINE a == op.cur
           b == After(a)
           whole == size[a] + size[b]
<1>1. /\ b \in Free /\ op.pc \in {"collateA", "collateF", "collateP"}
      /\ root' = [Isolated(b) EXCEPT !.freeSize = @ + size[b]]
      /\ next' = IsolatedNext(b) /\ prev' = IsolatedPrev(b)
      /\ st' = [st EXCEPT ![b] = "none"]
      /\ size' = [x \in Addr |-> IF x = a THEN whole ELSE IF x = b THEN 0 ELSE size[x]]
      /\ foot' = StampFoot(foot, a, whole, end)
      /\ UNCHANGED <<end, used, op, outcome>>
  BY DEF Absorb, CanAbsorb
<1>2. TypeOK /\ Tiling /\ Linked /\ Acyclic /\ Cursor
  BY DEF IInv
<1>3. /\ a \in Free /\ a \in Addr /\ b \in Addr /\ size[a] \in Nat /\ size[b] \in Nat
      /\ size[a] >= VBHeapMin /\ VBHeapMin \in Nat \ {0} /\ a \in Nat
      /\ b = a + size[a] /\ a # b /\ whole \in Nat
  BY <1>1, <1>2, Shape DEF Cursor, After
<1>4. Free' = Free \ {b} /\ Used' = Used /\ Blocks' = Blocks \ {b} /\ b \notin Used
  BY <1>1, <1>2, <1>3 DEF Free, Used, Blocks, TypeOK
<1>5. /\ Isolated(b) \in RootType /\ next' \in [Addr -> Addr \cup {0}]
      /\ prev' \in [Addr -> Addr \cup {0}]
  BY <1>1, <1>2, <1>3, IsolatedType
<1>6. /\ root' \in RootType /\ root'.free = Isolated(b).free
      /\ root'.freeLast = Isolated(b).freeLast
  BY <1>1, <1>3, <1>5 DEF RootType
<1>7. Linked' /\ Acyclic'
  <2>1. Chained(Free \ {b}, IsolatedNext(b), IsolatedPrev(b),
                Isolated(b).free, Isolated(b).freeLast)
    BY <1>1, <1>2, IsolateChained
  <2>2. Ranked(Free \ {b}, IsolatedNext(b))
    BY <1>1, <1>2, IsolateRanked
  <2> QED BY <2>1, <2>2, <1>1, <1>4, <1>6 DEF Linked, Acyclic
<1>8. Tiling'
  <2>1. a \in Blocks /\ b \in Blocks /\ Blocks \in SUBSET Addr /\ end \in Int
        /\ \A x \in Blocks : size[x] \in Nat
    BY <1>1, <1>3, Shape
  <2>2. size'[a] = size[a] + size[b] /\ \A x \in Blocks \ {a, b} : size'[x] = size[x]
    BY <1>1, <1>3, <2>1
  <2>3. Tiles(Blocks \ {b}, size', end)
    <3> HIDE DEF a, b
    <3> QED BY <1>2, <1>3, <2>1, <2>2, MergeTiles DEF Tiling
  <2> QED BY <2>3, <1>1, <1>4 DEF Tiling
<1>9. TypeOK'
  <2>1. st' \in [Addr -> {"none", "free", "used"}] /\ size' \in [Addr -> Nat]
    BY <1>1, <1>2, <1>3 DEF TypeOK
  <2>2. foot' \in [Addr -> Nat]
    BY <1>1, <1>2, <1>3, StampFootType DEF TypeOK
  <2> QED BY <2>1, <2>2, <1>1, <1>2, <1>5, <1>6 DEF TypeOK
<1>10. Cursor'
  BY <1>1, <1>2, <1>3, <1>4 DEF Cursor
<1> QED BY <1>7, <1>8, <1>9, <1>10 DEF IInv

\* Resize asks CapGrowth for at least what is needed, and never for more than
\* the room that is left.
LEMMA CapGrowthFits ==
  ASSUME IInv, NEW n \in Nat, n > 0, n <= ArenaRoom
  PROVE  CapGrowth(n) \in Nat /\ n <= CapGrowth(n) /\ end + CapGrowth(n) <= SizeMax
<1> DEFINE fifth == (end * 2) \div 10
<1>1. end \in Nat /\ SizeMax \in Nat
  BY Shape, LayoutAssumption
<1>2. fifth \in Nat
  <2>1. end * 2 \in Nat
    BY <1>1
  <2> HIDE DEF fifth
  <2> QED BY <2>1 DEF fifth
<1>3. CapGrowth(n) = Smaller(Larger(n, fifth), ArenaRoom)
  BY DEF CapGrowth
<1>4. SizeMax > end /\ ArenaRoom = SizeMax - end
  BY <1>1 DEF ArenaRoom
<1> HIDE DEF fifth
<1> QED BY <1>1, <1>2, <1>3, <1>4 DEF Smaller, Larger

\* Resize adds a free block where the arena ended, or Alloc gives up.
LEMMA GrowStep ==
  ASSUME IInv, Grow PROVE IInv'
<1>2. TypeOK /\ Tiling /\ Linked /\ Acyclic /\ Cursor
  BY DEF IInv
<1>3. op \in OpType /\ op.pc = "visit" /\ op.n >= VBHeapMin /\ op.n \in Nat /\ op.n <= ArenaRoom
  BY <1>2 DEF Grow, TypeOK, OpType, Cursor
<1>4. CASE /\ Finish("unsatisfied")
           /\ UNCHANGED <<st, size, prev, next, foot, end, root>>
  <2>1. Tiling' /\ Linked' /\ Acyclic' /\ Free' = Free /\ Used' = Used
    BY <1>2, <1>4, Quiet
  <2> QED BY <1>2, <1>4, <2>1, NoOpType DEF Grow, Finish, IInv, TypeOK, Cursor
<1>5. CASE ~(op.resizes + 1 > MaxAllocResizes)
  <2> DEFINE extra == CapGrowth(op.n)
             last == root.freeLast
             head == IF root.free = 0 THEN end ELSE root.free
  <2>1. /\ end' = end + extra
        /\ st' = [st EXCEPT ![end] = "free"]
        /\ size' = [size EXCEPT ![end] = extra]
        /\ prev' = [prev EXCEPT ![end] = last]
        /\ next' = [x \in Addr |-> IF x = end THEN 0
                                   ELSE IF x = last THEN end ELSE next[x]]
        /\ foot' = StampFoot(foot, end, extra, end + extra)
        /\ root' = [root EXCEPT !.free = head, !.freeLast = end,
                                !.freeSize = root.freeSize + extra,
                                !.freeItems = root.freeItems + 1]
        /\ op' = Restart([op EXCEPT !.resizes = @ + 1], head)
        /\ UNCHANGED outcome /\ UNCHANGED used
    BY <1>5 DEF Grow
  <2>2. /\ extra \in Nat /\ extra >= VBHeapMin /\ end + extra <= SizeMax
        /\ VBHeapMin \in Nat \ {0}
    <3>1. op.n > 0 /\ VBHeapMin \in Nat \ {0}
      BY <1>3, Shape
    <3>2. extra \in Nat /\ op.n <= extra /\ end + extra <= SizeMax
      BY <1>3, <3>1, CapGrowthFits
    <3> HIDE DEF extra
    <3> QED BY <1>3, <3>1, <3>2
  <2> HIDE DEF extra
  <2>3. end \in Addr /\ end \in Nat \ {0} /\ end + extra \in Addr
    BY <1>2, <2>2, LayoutAssumption DEF TypeOK, Addr
  <2>4. end \notin Blocks /\ Tiles(Blocks \cup {end}, size', end + extra)
    <3>1. /\ Blocks \in SUBSET Addr /\ end \in Int /\ \A x \in Blocks : size[x] \in Nat
      BY Shape
    <3>2. size'[end] = extra
      BY <1>2, <2>1, <2>3 DEF TypeOK
    <3>3. \A x \in Blocks : x # end => size'[x] = size[x]
      BY <1>2, <2>1, <2>3, <3>1 DEF TypeOK
    <3>4. end \notin Blocks
      BY <1>2, <3>1, <2>2 DEF Tiling, Tiles
    <3>5. /\ Tiles(Blocks, size, end) /\ extra \in Nat /\ extra >= VBHeapMin
          /\ \A x \in Blocks : size'[x] = size[x]
      BY <1>2, <2>2, <3>3, <3>4 DEF Tiling
    <3>6. Tiles(Blocks \cup {end}, size', end + extra)
      BY ONLY <3>1, <3>2, <3>5, GrowTiles
    <3> QED BY <3>4, <3>6
  <2>5. Free' = Free \cup {end} /\ Blocks' = Blocks \cup {end} /\ end \notin Free
    BY <1>2, <2>1, <2>3, <2>4 DEF Free, Used, Blocks, TypeOK
  <2>6. /\ root.free \in Free \cup {0} /\ root.freeLast \in Free \cup {0} /\ Free \in SUBSET Addr
        /\ 0 \notin Free /\ 0 \notin Addr
        /\ head \in Free \cup {end} /\ head \in Addr /\ last \in Addr \cup {0}
    BY <2>3, <2>5, Shape, AddrType
  <2>7. root' \in RootType /\ root'.free = head /\ root'.freeLast = end
    <3>1. root \in RootType /\ root.freeSize + extra \in Int /\ root.freeItems + 1 \in Int
      BY <1>2, <2>2 DEF TypeOK, RootType
    <3> HIDE DEF head
    <3> QED BY <2>1, <2>3, <2>6, <3>1 DEF RootType
  <2>8. /\ next'[end] = 0 /\ prev'[end] = last
        /\ \A x \in Free : /\ next'[x] = IF x = last THEN end ELSE next[x]
                           /\ prev'[x] = prev[x]
    BY <1>2, <2>1, <2>3, <2>5, <2>6 DEF TypeOK
  <2>9. Linked' /\ Acyclic'
    <3>1. Chained(Free, next, prev, root.free, last) /\ Ranked(Free, next)
      BY <1>2 DEF Linked, Acyclic
    <3>2. Chained(Free', next', prev', head, end)
      <4>1. /\ Chained(Free, next, prev, root.free, root.freeLast)
            /\ 0 \notin Free /\ end \notin Free /\ end # 0
            /\ next'[end] = 0 /\ prev'[end] = root.freeLast
            /\ \A x \in Free : /\ next'[x] = IF x = root.freeLast THEN end ELSE next[x]
                               /\ prev'[x] = prev[x]
            /\ Free' = Free \cup {end} /\ head = IF root.free = 0 THEN end ELSE root.free
        BY <3>1, <2>3, <2>5, <2>6, <2>8
      <4>2. PICK hd, nx, pv, F : hd = head /\ nx = next' /\ pv = prev' /\ F = Free'
        OBVIOUS
      <4> HIDE DEF head
      <4>3. Chained(F, nx, pv, hd, end)
        BY ONLY <4>1, <4>2, AppendChained, SMTT(40)
      <4> QED BY ONLY <4>2, <4>3
    <3>3. Ranked(Free \cup {end}, next')
      BY <3>1, <2>3, <2>5, <2>6, <2>8, AppendRanked
    <3> QED BY <3>2, <3>3, <2>5, <2>7 DEF Linked, Acyclic
  <2>10. op' \in OpType /\ op'.pc = "visit" /\ op'.cur = head /\ op'.n = op.n
    <3>1. [op EXCEPT !.resizes = @ + 1] \in OpType /\ [op EXCEPT !.resizes = @ + 1].n = op.n
      BY <1>3 DEF OpType
    <3> HIDE DEF head
    <3> QED BY <3>1, <2>1, <2>6, RestartType
  <2>11. TypeOK'
    <3>1. st' \in [Addr -> {"none", "free", "used"}] /\ size' \in [Addr -> Nat]
      BY <1>2, <2>1, <2>2 DEF TypeOK
    <3>2. prev' \in [Addr -> Addr \cup {0}] /\ next' \in [Addr -> Addr \cup {0}]
      BY <1>2, <2>1, <2>3, <2>6 DEF TypeOK
    <3>3. foot' \in [Addr -> Nat]
      BY <1>2, <2>1, <2>2, StampFootType DEF TypeOK
    <3> QED BY <3>1, <3>2, <3>3, <1>2, <2>1, <2>3, <2>7, <2>10 DEF TypeOK
  <2>12. Cursor' /\ Tiling'
    BY <1>3, <2>1, <2>4, <2>5, <2>6, <2>10 DEF Cursor, Tiling
  <2> QED BY <2>9, <2>11, <2>12 DEF IInv
<1> QED BY <1>4, <1>5 DEF Grow

\* SplitAlloc hands the whole block over.
LEMMA AdoptStep ==
  ASSUME IInv, Adopt PROVE IInv'
<1> DEFINE a == op.best
<1>1. /\ a \in Free
      /\ st' = [st EXCEPT ![a] = "used"]
      /\ next' = IsolatedNext(a) /\ prev' = IsolatedPrev(a)
      /\ root' = Allocated(Isolated(a), a, Adopted(a))
      /\ used' = used + Adopted(a)
      /\ op' = NoOp /\ outcome' = "ok"
      /\ UNCHANGED <<size, foot, end>>
  BY DEF Adopt, Survived, Finish
<1>2. TypeOK /\ Tiling /\ Linked /\ Acyclic /\ Cursor
  BY DEF IInv
<1>3. a \in Addr /\ size[a] \in Nat /\ Adopted(a) \in Nat
  BY <1>1, Shape DEF Adopted
<1>4. Free' = Free \ {a} /\ Blocks' = Blocks
  BY <1>1, <1>2, <1>3 DEF Free, Used, Blocks, TypeOK
<1>5. /\ Isolated(a) \in RootType /\ next' \in [Addr -> Addr \cup {0}]
      /\ prev' \in [Addr -> Addr \cup {0}]
  BY <1>1, <1>2, <1>3, IsolatedType
<1>6. /\ root' \in RootType /\ root'.free = Isolated(a).free
      /\ root'.freeLast = Isolated(a).freeLast
  BY <1>1, <1>3, <1>5, AllocatedType
<1>7. Linked' /\ Acyclic'
  <2>1. Chained(Free \ {a}, IsolatedNext(a), IsolatedPrev(a),
                Isolated(a).free, Isolated(a).freeLast)
    BY <1>1, <1>2, IsolateChained
  <2>2. Ranked(Free \ {a}, IsolatedNext(a))
    BY <1>1, <1>2, IsolateRanked
  <2> QED BY <2>1, <2>2, <1>1, <1>4, <1>6 DEF Linked, Acyclic
<1>8. Tiling' /\ Cursor'
  BY <1>1, <1>2, <1>4, NoOpType DEF Tiling, Cursor
<1>9. st' \in [Addr -> {"none", "free", "used"}] /\ used' \in Int
  BY <1>1, <1>2, <1>3 DEF TypeOK
<1>10. TypeOK'
  BY <1>1, <1>2, <1>5, <1>6, <1>9, NoOpType DEF TypeOK
<1> QED BY <1>7, <1>8, <1>10 DEF IInv

\* SplitAlloc cuts the block: its front is handed out, its rest takes its place.
LEMMA SplitStep ==
  ASSUME IInv, Split PROVE IInv'
<1> DEFINE a == op.best
           n == op.n
           e == a + n
           extra == size[a] - n
           head == IF root.free = a THEN e ELSE root.free
           last == IF root.freeLast = a THEN e ELSE root.freeLast
           cut == [root EXCEPT !.free = head, !.freeLast = last,
                               !.freeSize = root.freeSize - n]
<1>1. /\ a \in Free /\ op.pc = "chosen" /\ extra >= VBHeapMin
      /\ st' = [st EXCEPT ![a] = "used", ![e] = "free"]
      /\ size' = [size EXCEPT ![a] = n, ![e] = extra]
      /\ next' = [x \in Addr |-> IF x = e THEN next[a] ELSE IF x = a THEN 0
                                 ELSE IF x = prev[a] THEN e ELSE next[x]]
      /\ prev' = [x \in Addr |-> IF x = e THEN prev[a] ELSE IF x = a THEN 0
                                 ELSE IF x = next[a] THEN e ELSE prev[x]]
      /\ root' = Allocated(cut, a, n)
      /\ foot' = StampFoot(foot, e, extra, end)
      /\ used' = used + n
      /\ op' = NoOp /\ outcome' = "ok" /\ UNCHANGED end
  BY DEF Split, Survived, Splittable, Finish
<1>2. TypeOK /\ Tiling /\ Linked /\ Acyclic /\ Cursor
  BY DEF IInv
<1>3. /\ a \in Addr /\ a \in Blocks /\ size[a] \in Nat /\ n \in Nat /\ n >= VBHeapMin
      /\ VBHeapMin \in Nat \ {0} /\ extra \in Nat /\ end \in Nat /\ a \in Nat \ {0}
      /\ a + size[a] <= end
  <2>1. a \in Addr /\ a \in Blocks /\ size[a] \in Nat /\ VBHeapMin \in Nat \ {0}
        /\ end \in Nat /\ a \in Nat \ {0}
    BY <1>1, Shape
  <2>2. n \in Nat /\ n >= VBHeapMin
    BY <1>1, <1>2 DEF TypeOK, OpType, Cursor
  <2>3. a + size[a] <= end
    BY <1>2, <2>1 DEF Tiling, Tiles
  <2> QED BY <1>1, <2>1, <2>2, <2>3
<1>4. e \in Addr /\ e # 0 /\ e # a
  <2>1. end <= SizeMax + 2 * Word /\ First <= a /\ First \in Nat /\ SizeMax \in Nat /\ Word \in Nat
    BY <1>2, <1>3, LayoutAssumption DEF TypeOK, Addr
  <2>2. extra > 0 /\ n > 0
    BY <1>1, <1>3
  <2> HIDE DEF a, n
  <2> QED BY <1>3, <2>1, <2>2 DEF Addr
<1>5. e \notin Blocks /\ Tiles(Blocks \cup {e}, size', end)
  <2>1. /\ Blocks \in SUBSET Addr /\ end \in Int /\ \A x \in Blocks : size[x] \in Nat
    BY Shape
  <2>2. a \in Blocks /\ n \in Nat /\ n >= VBHeapMin /\ size[a] - n >= VBHeapMin
        /\ Tiles(Blocks, size, end)
    BY <1>1, <1>2, <1>3 DEF Tiling
  <2>3. e \notin Blocks
    <3>1. VBHeapMin > 0 /\ e > a /\ e < a + size[a]
      BY <1>1, <1>3
    <3>2. \A b \in Blocks : b > a => b >= a + size[a]
      BY <2>2 DEF Tiles
    <3>3. a + size[a] \in Nat /\ e \in Nat
      BY <1>3
    <3> QED BY <3>1, <3>2, <3>3
  <2>4. size'[a] = n /\ size'[a + n] = size[a] - n /\ \A x \in Blocks \ {a} : size'[x] = size[x]
    <3> HIDE DEF e
    <3>1. size'[e] = extra /\ size'[a] = n /\ \A x \in Blocks \ {a} : size'[x] = size[x]
      BY <1>1, <1>2, <1>3, <1>4, <2>1, <2>3 DEF TypeOK
    <3> QED BY <3>1 DEF e
  <2> HIDE DEF a, n
  <2>5. Tiles(Blocks \cup {a + n}, size', end)
    BY ONLY <2>1, <2>2, <2>4, SplitTiles
  <2> QED BY <2>3, <2>5
<1> HIDE DEF e, extra
<1>6. Free' = (Free \ {a}) \cup {e} /\ Blocks' = Blocks \cup {e} /\ e \notin Free
  BY <1>1, <1>2, <1>3, <1>4, <1>5 DEF Free, Used, Blocks, TypeOK
<1>7. /\ root.free \in Addr \cup {0} /\ root.freeLast \in Addr \cup {0}
      /\ Free \in SUBSET Addr /\ 0 \notin Free /\ 0 \notin Addr
      /\ next[a] \in Addr \cup {0} /\ prev[a] \in Addr \cup {0}
  BY <1>1, Shape, AddrType
<1>8. /\ root' \in RootType /\ root'.free = head /\ root'.freeLast = last
  <2>1. head \in Addr \cup {0} /\ last \in Addr \cup {0} /\ root.freeSize - n \in Int
        /\ root \in RootType
    BY <1>2, <1>3, <1>4, <1>7 DEF TypeOK, RootType
  <2> HIDE DEF head, last
  <2>2. cut \in RootType /\ cut.free = head /\ cut.freeLast = last
    BY <2>1 DEF RootType
  <2> HIDE DEF cut
  <2> QED BY <2>2, <1>1, <1>3, AllocatedType
<1>9. /\ next'[e] = next[a] /\ prev'[e] = prev[a]
      /\ \A x \in Free \ {a} : /\ next'[x] = IF x = prev[a] THEN e ELSE next[x]
                               /\ prev'[x] = IF x = next[a] THEN e ELSE prev[x]
  BY <1>1, <1>4, <1>6, <1>7
<1>10. Linked' /\ Acyclic'
  <2>1. /\ Chained(Free, next, prev, root.free, root.freeLast) /\ Ranked(Free, next)
    BY <1>2 DEF Linked, Acyclic
  <2>2. /\ a \in Free /\ e \in Addr /\ e # 0 /\ e \notin Free
        /\ Free \in SUBSET Addr /\ 0 \notin Free
        /\ Free' = (Free \ {a}) \cup {e}
        /\ head = IF root.free = a THEN e ELSE root.free
        /\ last = IF root.freeLast = a THEN e ELSE root.freeLast
    BY <1>1, <1>4, <1>6, <1>7
  <2> HIDE DEF a, head, last
  <2>3. Ranked(Free', next') /\ next[a] # a /\ prev[a] # a
    <3>1. /\ Free \in SUBSET Addr /\ a \in Free /\ e \in Addr
          /\ Chained(Free, next, prev, root.free, root.freeLast)
          /\ Ranked(Free, next) /\ 0 \notin Free /\ e \notin Free
          /\ next'[e] = next[a] /\ Free' = (Free \ {a}) \cup {e}
          /\ \A x \in Free \ {a} : next'[x] = IF x = prev[a] THEN e ELSE next[x]
      BY <2>1, <2>2, <1>9
    <3> HIDE DEF Free, Addr
    <3> QED BY ONLY <3>1, ReplaceRanked
  <2>4. Chained(Free', next', prev', head, last)
    BY ONLY <2>1, <2>2, <2>3, <1>9 DEF Chained
  <2> QED BY <2>3, <2>4, <1>8 DEF Linked, Acyclic
<1>11. TypeOK'
  <2>1. st' \in [Addr -> {"none", "free", "used"}] /\ size' \in [Addr -> Nat]
    BY <1>1, <1>2, <1>3 DEF TypeOK
  <2>2. prev' \in [Addr -> Addr \cup {0}] /\ next' \in [Addr -> Addr \cup {0}]
    BY <1>1, <1>2, <1>4, <1>7 DEF TypeOK
  <2>3. foot' \in [Addr -> Nat]
    <3> HIDE DEF a, n
    <3> QED BY <1>1, <1>2, <1>3, StampFootType DEF TypeOK
  <2>4. used' \in Int
    BY <1>1, <1>2, <1>3 DEF TypeOK
  <2> QED BY <2>1, <2>2, <2>3, <2>4, <1>1, <1>2, <1>8, NoOpType DEF TypeOK
<1>12. Tiling' /\ Cursor'
  BY <1>1, <1>5, <1>6, NoOpType DEF Tiling, Cursor
<1> QED BY <1>10, <1>11, <1>12 DEF IInv

\* Free puts a block in use at the head of the list.
LEMMA FreeCallStep ==
  ASSUME IInv, NEW a \in Addr, FreeCall(a) PROVE IInv'
<1> DEFINE last == IF root.freeLast = 0 THEN a ELSE root.freeLast
<1>1. /\ a \in Used
      /\ st' = [st EXCEPT ![a] = "free"]
      /\ prev' = [x \in Addr |-> IF x = a THEN 0 ELSE IF x = root.free THEN a ELSE prev[x]]
      /\ next' = [next EXCEPT ![a] = root.free]
      /\ root' = [root EXCEPT !.free = a, !.freeLast = last,
                              !.freeSize = root.freeSize + size[a],
                              !.freeItems = root.freeItems + 1,
                              !.allocSize = root.allocSize - size[a],
                              !.allocItems = root.allocItems - 1]
      /\ used' = used - size[a]
      /\ op' = [NoOp EXCEPT !.pc = "collateF", !.cur = a]
      /\ outcome' = "none"
      /\ UNCHANGED <<size, foot, end>>
  BY DEF FreeCall
<1>2. TypeOK /\ Tiling /\ Linked /\ Acyclic /\ Cursor
  BY DEF IInv
<1>3. /\ a # 0 /\ size[a] \in Nat /\ a \notin Free /\ Free \in SUBSET Addr /\ 0 \notin Free
      /\ root.free \in Addr \cup {0} /\ root.freeLast \in Addr \cup {0}
  BY <1>1, Shape, AddrType
<1>4. Free' = Free \cup {a} /\ Blocks' = Blocks
  BY <1>1, <1>2 DEF Free, Used, Blocks, TypeOK
<1>5. root' \in RootType /\ root'.free = a /\ root'.freeLast = last
  <2>1. /\ last \in Addr \cup {0} /\ root \in RootType
        /\ root.freeSize + size[a] \in Int /\ root.freeItems + 1 \in Int
        /\ root.allocSize - size[a] \in Int /\ root.allocItems - 1 \in Int
    BY <1>2, <1>3 DEF TypeOK, RootType
  <2> HIDE DEF last
  <2> QED BY <2>1, <1>1 DEF RootType
<1>6. /\ next'[a] = root.free /\ prev'[a] = 0
      /\ \A x \in Free : /\ next'[x] = next[x]
                         /\ prev'[x] = IF x = root.free THEN a ELSE prev[x]
  BY <1>1, <1>2, <1>3 DEF TypeOK
<1>7. Linked' /\ Acyclic'
  <2>1. /\ Chained(Free, next, prev, root.free, root.freeLast) /\ Ranked(Free, next)
        /\ last = IF root.freeLast = 0 THEN a ELSE root.freeLast
        /\ 0 \notin Free /\ a \notin Free /\ a # 0 /\ Free' = Free \cup {a}
    BY <1>2, <1>3, <1>4 DEF Linked, Acyclic
  <2> HIDE DEF last
  <2>2. Chained(Free', next', prev', a, last)
    BY ONLY <2>1, <1>6 DEF Chained
  <2>3. Ranked(Free \cup {a}, next')
    BY <2>1, <1>3, <1>6, PushRanked
  <2> QED BY <2>2, <2>3, <1>4, <1>5 DEF Linked, Acyclic
<1>8. op' \in OpType /\ Cursor'
  BY <1>1, <1>4 DEF NoOp, OpType, Cursor
<1>9. TypeOK'
  <2>1. st' \in [Addr -> {"none", "free", "used"}] /\ next' \in [Addr -> Addr \cup {0}]
        /\ prev' \in [Addr -> Addr \cup {0}] /\ used' \in Int
    BY <1>1, <1>2, <1>3 DEF TypeOK
  <2> QED BY <2>1, <1>1, <1>2, <1>5, <1>8 DEF TypeOK
<1>10. Tiling'
  BY <1>1, <1>2, <1>4 DEF Tiling
<1> QED BY <1>7, <1>8, <1>9, <1>10 DEF IInv

\* IInv is inductive.
LEMMA InvStep == ASSUME IInv, [Next]_vars PROVE IInv'
<1>1. CASE UNCHANGED vars
  BY <1>1 DEF vars, IInv, TypeOK, Tiling, Linked, Acyclic, Cursor, Blocks, Free, Used
<1>2. CASE Call
  BY <1>2, AllocCallStep, FreeCallStep, CallerStep DEF Call
<1>3. CASE Continue
  <2>1. CASE Visit \/ WalkEnds \/ GrowRefused \/ Retry
    BY <2>1, WalkStep
  <2>2. CASE SkipSmall \/ TakeAtOnce \/ KeepBest
    BY <2>2, MeasureStep
  <2>3. CASE Released \/ Rejoined
    BY <2>3, FreeEndsStep
  <2>4. CASE SaveRestore
    BY <2>4, CallerStep
  <2> QED BY <1>3, <2>1, <2>2, <2>3, <2>4, AbsorbStep, GrowStep, AdoptStep, SplitStep DEF Continue
<1> QED BY <1>1, <1>2, <1>3 DEF Next

\* From an aligned start, every reachable state satisfies the invariant.
THEOREM Invariant == ASSUME Aligned PROVE Spec => []IInv
<1>1. Init => IInv
  BY InitInv
<1>2. IInv /\ [Next]_vars => IInv'
  BY InvStep
<1> QED BY <1>1, <1>2, PTL DEF Spec
-----------------------------------------------------------------------------
(* What the invariant gives *)

\* Every variable keeps its type; no link or root key ever leaves the image.
THEOREM TypeCorrect == ASSUME Aligned PROVE Spec => []TypeOK
<1>1. IInv => TypeOK
  BY DEF IInv
<1> QED BY <1>1, Invariant, PTL

\* Blocks tile the arena after every split, merge and growth.
THEOREM TilingHolds == ASSUME Aligned PROVE Spec => []Tiling
<1>1. IInv => Tiling
  BY DEF IInv
<1> QED BY <1>1, Invariant, PTL

\* No two blocks in use share a byte.
THEOREM LiveAreDisjoint == ASSUME Aligned PROVE Spec => []LiveDisjoint
<1>1. IInv => LiveDisjoint
  <2>1. ASSUME IInv, NEW a \in Used, NEW b \in Used, a < b PROVE After(a) <= b
    <3>1. a \in Blocks /\ b \in Blocks /\ a \in Nat /\ b \in Nat /\ size[a] \in Nat
      BY <2>1, Shape
    <3>2. b >= a + size[a]
      BY <2>1, <3>1 DEF IInv, Tiling, Tiles
    <3> QED BY <3>1, <3>2 DEF After
  <2> QED BY <2>1 DEF LiveDisjoint
<1> QED BY <1>1, Invariant, PTL

\* The links chain exactly the free blocks, in the middle of a call too.
THEOREM LinkedHolds == ASSUME Aligned PROVE Spec => []Linked
<1>1. IInv => Linked
  BY DEF IInv
<1> QED BY <1>1, Invariant, PTL

\* The free list never closes on itself, so no walk of it goes on for ever.
THEOREM ListIsAcyclic == ASSUME Aligned PROVE Spec => []Acyclic
<1>1. IInv => Acyclic
  BY DEF IInv
<1> QED BY <1>1, Invariant, PTL

\* No step but its own Free moves, resizes or takes back a block in use.
LEMMA LiveKept ==
  ASSUME IInv, Next
  PROVE  \A a \in Used : (a \in Used' /\ size'[a] = size[a]) \/ FreeCall(a)
<1>1. TypeOK /\ Free \subseteq Addr /\ Used \subseteq Addr /\ Free \cap Used = {}
      /\ Blocks = Free \cup Used
  BY Shape DEF IInv
<1>2. CASE UNCHANGED <<st, size>>
  BY <1>2 DEF Used
<1>3. CASE \E a \in Addr : FreeCall(a)
  <2>1. PICK a \in Addr : FreeCall(a)
    BY <1>3
  <2>2. st' = [st EXCEPT ![a] = "free"] /\ size' = size
    BY <2>1 DEF FreeCall
  <2>3. \A x \in Used : x # a => x \in Used' /\ size'[x] = size[x]
    BY <1>1, <2>2 DEF Used, TypeOK
  <2> QED BY <2>1, <2>3
<1>4. CASE Absorb
  <2>1. op.cur \in Free /\ After(op.cur) \in Free
    BY <1>4 DEF IInv, Cursor, Absorb, CanAbsorb
  <2> QED BY <1>1, <1>4, <2>1 DEF Absorb, Used, TypeOK
<1>5. CASE Grow
  <2>1. CASE UNCHANGED <<st, size>>
    BY <2>1, <1>2
  <2>2. CASE ~(op.resizes + 1 > MaxAllocResizes)
    <3>1. end \notin Blocks
      <4>1. \A x \in Blocks : x \in Nat /\ size[x] \in Nat /\ size[x] >= VBHeapMin
            /\ VBHeapMin \in Nat \ {0} /\ end \in Nat
        BY Shape
      <4> QED BY <4>1 DEF IInv, Tiling, Tiles
    <3>2. st' = [st EXCEPT ![end] = "free"] /\ size' = [size EXCEPT ![end] = CapGrowth(op.n)]
      BY <1>5, <2>2 DEF Grow
    <3> QED BY <1>1, <3>1, <3>2 DEF Used, TypeOK
  <2> QED BY <1>5, <2>1, <2>2 DEF Grow
<1>6. CASE Adopt
  BY <1>1, <1>6 DEF Adopt, Survived, Used, TypeOK
<1>7. CASE Split
  <2> DEFINE a == op.best
             e == a + op.n
  <2>1. /\ a \in Free /\ a \in Nat /\ op.n \in Nat /\ op.n >= VBHeapMin
        /\ size[a] \in Nat /\ size[a] - op.n >= VBHeapMin /\ VBHeapMin \in Nat \ {0}
    BY <1>1, <1>7, Shape DEF Split, Survived, Splittable, IInv, TypeOK, OpType, Cursor
  <2>2. e \notin Used
    <3>1. e > a /\ e < a + size[a] /\ a \in Blocks
      BY <2>1, <1>1
    <3>2. \A b \in Blocks : b > a => b >= a + size[a]
      BY <3>1 DEF IInv, Tiling, Tiles
    <3>3. \A b \in Blocks : b \in Nat
      BY Shape
    <3> QED BY <3>1, <3>2, <3>3, <2>1, <1>1
  <2>3. /\ st' = [st EXCEPT ![a] = "used", ![e] = "free"]
        /\ size' = [size EXCEPT ![a] = op.n, ![e] = size[a] - op.n]
    BY <1>7 DEF Split
  <2>4. a \notin Used
    BY <2>1, <1>1
  <2> HIDE DEF e, a
  <2> QED BY <1>1, <2>2, <2>3, <2>4 DEF Used, TypeOK
<1> QED
  BY <1>2, <1>3, <1>4, <1>5, <1>6, <1>7
  DEF Next, Call, Continue, AllocCall, FreeRefused, WritePayload, SaveScrub, Visit,
      SkipSmall, TakeAtOnce, KeepBest, WalkEnds, GrowRefused, Retry, Released,
      Rejoined, SaveRestore

\* The promise of Alloc to its callers: a block keeps its address and size from
\* the call that made it to its own Free.
THEOREM LiveUntouchedHolds == ASSUME Aligned PROVE Spec => LiveUntouched
<1> DEFINE Kept == \A a \in Used : (a \in Used' /\ size'[a] = size[a]) \/ FreeCall(a)
<1>1. IInv /\ [Next]_vars => [Kept]_vars
  BY LiveKept
<1>2. Spec => [][Kept]_vars
  BY <1>1, Invariant, PTL DEF Spec
<1> QED BY <1>2 DEF LiveUntouched

\* The byte counters: every step moves bytes between them or adds an arena's
\* worth to one.  A second Free lowers one of them alone, so it is excluded.
LEMMA ConservedStep ==
  ASSUME IInv, Conserved, Misuse = FALSE, [Next]_vars PROVE Conserved'
<1>1. /\ root.freeSize \in Int /\ root.allocSize \in Int /\ used \in Int /\ end \in Nat
      /\ First \in Nat /\ op.n \in Nat /\ root \in RootType
      /\ root.freeSize + root.allocSize = end - First /\ used = root.allocSize
      /\ \A a \in Addr : size[a] \in Nat
      /\ TypeOK /\ Free \subseteq Addr /\ Used \subseteq Addr
  BY LayoutAssumption, Shape DEF IInv, TypeOK, RootType, OpType, Conserved
<1>2. CASE UNCHANGED <<root, end, used>>
  BY <1>2 DEF Conserved
<1>3. CASE \E a \in Addr : FreeCall(a)
  <2>1. PICK a \in Addr : FreeCall(a)
    BY <1>3
  <2>2. /\ root'.freeSize = root.freeSize + size[a]
        /\ root'.allocSize = root.allocSize - size[a]
        /\ used' = used - size[a] /\ end' = end
    BY <1>1, <2>1 DEF FreeCall, RootType
  <2> QED BY <1>1, <2>1, <2>2 DEF Conserved
<1>4. CASE Absorb
  <2> DEFINE b == After(op.cur)
  <2>1. b \in Addr /\ size[b] \in Nat
    BY <1>1, <1>4 DEF Absorb, CanAbsorb
  <2>2. root' = [Isolated(b) EXCEPT !.freeSize = @ + size[b]] /\ UNCHANGED <<end, used>>
    BY <1>4 DEF Absorb
  <2>3. /\ Isolated(b) \in RootType /\ Isolated(b).allocSize = root.allocSize
        /\ Isolated(b).freeSize = root.freeSize - size[b]
    BY <1>1, <2>1, IsolatedType
  <2>4. root'.freeSize = Isolated(b).freeSize + size[b] /\ root'.allocSize = root.allocSize
    BY <2>2, <2>3 DEF RootType
  <2> HIDE DEF b
  <2> QED BY <1>1, <2>1, <2>2, <2>3, <2>4 DEF Conserved
<1>5. CASE Grow /\ ~UNCHANGED root
  <2> DEFINE extra == CapGrowth(op.n)
             head == IF root.free = 0 THEN end ELSE root.free
  <2>1. /\ root' = [root EXCEPT !.free = head, !.freeLast = end,
                                !.freeSize = root.freeSize + extra,
                                !.freeItems = root.freeItems + 1]
        /\ end' = end + extra /\ UNCHANGED used
    BY <1>5 DEF Grow
  <2>2. extra \in Nat
    <3>1. op.n > 0 /\ op.n <= ArenaRoom
      BY <1>1, <1>5, Shape DEF Grow, IInv, Cursor
    <3> QED BY <1>1, <3>1, CapGrowthFits
  <2> HIDE DEF extra, head
  <2>3. root'.freeSize = root.freeSize + extra /\ root'.allocSize = root.allocSize
    BY <1>1, <2>1 DEF RootType
  <2> QED BY <1>1, <2>1, <2>2, <2>3 DEF Conserved
<1>6. CASE Adopt
  <2> DEFINE a == op.best
  <2>1. /\ a \in Addr /\ Adopted(a) \in Nat /\ Adopted(a) = size[a]
        /\ root' = Allocated(Isolated(a), a, Adopted(a))
        /\ used' = used + Adopted(a) /\ end' = end
    BY <1>1, <1>6 DEF Adopt, Survived, Adopted
  <2>2. /\ Isolated(a) \in RootType /\ Isolated(a).allocSize = root.allocSize
        /\ Isolated(a).freeSize = root.freeSize - size[a]
    BY <1>1, <2>1, IsolatedType
  <2>3. /\ root'.freeSize = root.freeSize - size[a]
        /\ root'.allocSize = root.allocSize + size[a]
    BY <2>1, <2>2, AllocatedType
  <2> HIDE DEF a
  <2> QED BY <1>1, <2>1, <2>3 DEF Conserved
<1>7. CASE Split
  <2> DEFINE a == op.best
             e == a + op.n
             head == IF root.free = a THEN e ELSE root.free
             last == IF root.freeLast = a THEN e ELSE root.freeLast
             cut == [root EXCEPT !.free = head, !.freeLast = last,
                                 !.freeSize = root.freeSize - op.n]
  <2>1. root' = Allocated(cut, a, op.n) /\ used' = used + op.n /\ end' = end
    BY <1>7 DEF Split
  <2>2. cut.freeSize = root.freeSize - op.n /\ cut.allocSize = root.allocSize
    BY <1>1 DEF RootType
  <2>3. /\ Allocated(cut, a, op.n).freeSize = cut.freeSize
        /\ Allocated(cut, a, op.n).allocSize = cut.allocSize + op.n
    <3>1. DOMAIN cut = DOMAIN root
      OBVIOUS
    <3>2. {"freeSize", "allocSize", "allocItems", "alloc"} \subseteq DOMAIN root
      BY <1>1 DEF RootType
    <3> HIDE DEF cut
    <3> QED BY <3>1, <3>2 DEF Allocated
  <2> HIDE DEF cut, a
  <2> QED BY <1>1, <2>1, <2>2, <2>3 DEF Conserved
<1>8. CASE Call
  <2>1. ASSUME NEW a \in Addr PROVE ~FreeRefused(a)
    BY DEF FreeRefused
  <2>2. CASE ~\E a \in Addr : FreeCall(a)
    BY <1>2, <1>8, <2>1, <2>2 DEF Call, AllocCall, WritePayload, SaveScrub
  <2> QED BY <1>3, <2>2
<1>9. CASE Continue
  <2>1. CASE Visit \/ WalkEnds \/ GrowRefused \/ Retry \/ SaveRestore
    BY <1>2, <2>1 DEF Visit, WalkEnds, GrowRefused, Retry, SaveRestore
  <2>2. CASE SkipSmall \/ TakeAtOnce \/ KeepBest \/ Released \/ Rejoined
    BY <1>2, <2>2 DEF SkipSmall, TakeAtOnce, KeepBest, Released, Rejoined
  <2>3. CASE Grow /\ UNCHANGED root
    <3>1. ~(op.resizes + 1 > MaxAllocResizes) => root'.freeLast = end
      BY <1>1, <2>3 DEF Grow, RootType
    <3>2. end # root.freeLast
      <4>1. \A x \in Blocks : x \in Nat /\ size[x] \in Nat /\ size[x] >= VBHeapMin
            /\ VBHeapMin \in Nat \ {0}
        BY Shape
      <4>2. end \notin Blocks
        BY <4>1, <1>1 DEF IInv, Tiling, Tiles
      <4>3. root.freeLast \in Free \cup {0} /\ Free \subseteq Blocks /\ end # 0
        BY Shape, AddrType DEF IInv, TypeOK
      <4> QED BY <4>2, <4>3
    <3>3. CASE UNCHANGED <<st, size, prev, next, foot, end, root>>
      BY <1>2, <2>3, <3>3 DEF Grow
    <3> QED BY <2>3, <3>1, <3>2, <3>3 DEF Grow
  <2> QED BY <1>4, <1>5, <1>6, <1>7, <1>9, <2>1, <2>2, <2>3 DEF Continue
<1>10. CASE UNCHANGED vars
  BY <1>2, <1>10 DEF vars
<1> QED BY <1>8, <1>9, <1>10 DEF Next

\* No byte of the arena is lost to the counters, whatever was split, merged,
\* grown or freed.
THEOREM ConservedHolds == ASSUME Aligned, Misuse = FALSE PROVE Spec => []Conserved
<1>1. Init => Conserved
  <2> SUFFICES ASSUME Init PROVE Conserved
    OBVIOUS
  <2>1. PICK s \in InitSizes :
          /\ end = s + Word /\ used = 0 /\ root.allocSize = 0
          /\ root.freeSize = RoundUp(s + Word) - First
    BY DEF Init
  <2>2. s \in Nat /\ Word \in Nat /\ First \in Nat
    BY LayoutAssumption, CreateAssumption
  <2> QED BY <2>1, <2>2 DEF Conserved, Aligned
<1>2. IInv /\ Conserved /\ [Next]_vars => Conserved'
  BY ConservedStep
<1> QED BY <1>1, <1>2, Invariant, PTL DEF Spec

\* An arena that starts inside its ceiling stays there: only Resize lengthens
\* it, and CapGrowth never answers more than the room.
THEOREM CeilingHolds ==
  ASSUME Aligned, \A s \in InitSizes : s + Word <= SizeMax
  PROVE  Spec => []InsideCeiling
<1>1. Init => InsideCeiling
  BY DEF Init, InsideCeiling
<1>2. IInv /\ InsideCeiling /\ [Next]_vars => InsideCeiling'
  <2> SUFFICES ASSUME IInv, InsideCeiling, [Next]_vars PROVE InsideCeiling'
    OBVIOUS
  <2>1. CASE UNCHANGED end
    BY <2>1 DEF InsideCeiling
  <2>2. CASE Grow /\ ~UNCHANGED end
    <3>1. end' = end + CapGrowth(op.n) /\ op.pc = "visit" /\ op.n <= ArenaRoom
      BY <2>2 DEF Grow
    <3>2. op.n \in Nat /\ op.n > 0
      BY <3>1, Shape DEF IInv, TypeOK, OpType, Cursor
    <3> QED BY <3>1, <3>2, CapGrowthFits DEF InsideCeiling
  <2>3. CASE Call
    BY <2>1, <2>3 DEF Call, AllocCall, FreeCall, FreeRefused, WritePayload, SaveScrub
  <2>4. CASE Continue /\ ~Grow
    BY <2>1, <2>4
    DEF Continue, Absorb, Visit, SkipSmall, TakeAtOnce, KeepBest, WalkEnds, GrowRefused,
        Retry, Adopt, Split, Released, Rejoined, SaveRestore
  <2> QED BY <2>1, <2>2, <2>3, <2>4 DEF Next, Continue, vars
<1> QED BY <1>1, <1>2, Invariant, PTL DEF Spec

-----------------------------------------------------------------------------
(***************************************************************************)
(* What Alloc's walk of the free list keeps true, and the promise the heap *)
(* keeps to its callers.  On top of the shape of the heap (IInv), the walk *)
(* under way has a rest R of the list still ahead of it, and R fits in the *)
(* budget taken from P2PmsgHeap_MaxBlocks when the call began: that is why *)
(* none of the throws that blame the image is reached, and why a refusal   *)
(* has looked at every free block.                                         *)
(***************************************************************************)


\* Whole headers: a division by Hdr separates addresses Hdr apart.
LEMMA Quotient ==
  ASSUME NEW x \in Nat, NEW h \in Nat \ {0}
  PROVE  x \div h \in Nat /\ (x \div h) * h <= x /\ x < (x \div h) * h + h
OBVIOUS

LEMMA QuotientApart ==
  ASSUME NEW x \in Nat, NEW y \in Nat, NEW h \in Nat \ {0}, x + h <= y
  PROVE  x \div h + 1 <= y \div h
<1> DEFINE p == x \div h
           q == y \div h
<1>1. p \in Nat /\ q \in Nat /\ p * h <= x /\ y < q * h + h
  BY Quotient
<1> HIDE DEF p, q
<1>2. SUFFICES ASSUME p + 1 > q PROVE FALSE
  BY <1>1 DEF p, q
<1>3. q <= p /\ q * h <= p * h
  BY <1>1, <1>2
<1> QED BY <1>1, <1>3

\* The arena holds fewer blocks than P2PmsgHeap_MaxBlocks.
LEMMA FewBlocks ==
  ASSUME IInv
  PROVE  /\ IsFiniteSet(Addr) /\ IsFiniteSet(Blocks) /\ IsFiniteSet(Free)
         /\ Cardinality(Blocks) + 1 <= MaxBlocks
         /\ Cardinality(Free) \in Nat /\ Cardinality(Free) + 1 <= MaxBlocks
<1> DEFINE Slot == [a \in Blocks |-> (a - First) \div Hdr]
           slots == end \div Hdr
           Slots == 0 .. slots - 1
<1>1. /\ First \in Nat \ {0} /\ Hdr \in Nat \ {0} /\ VBHeapMin \in Nat /\ Hdr < VBHeapMin
      /\ end \in Nat /\ SizeMax \in Nat /\ Word \in Nat
      /\ Blocks \subseteq Addr /\ Free \subseteq Blocks
      /\ \A a \in Blocks : a \in Nat /\ a >= First /\ size[a] \in Nat /\ size[a] >= VBHeapMin
      /\ \A a \in Blocks : a + size[a] <= end
  <2>1. /\ First \in Nat \ {0} /\ Hdr \in Nat \ {0} /\ VBHeapMin \in Nat /\ Hdr < VBHeapMin
        /\ end \in Nat /\ Blocks \subseteq Addr /\ Free \subseteq Blocks
        /\ SizeMax \in Nat /\ Word \in Nat
    BY LayoutAssumption, Shape
  <2>2. \A a \in Blocks : a \in Nat /\ a >= First /\ size[a] \in Nat /\ size[a] >= VBHeapMin
    BY <2>1, Shape DEF Addr
  <2>3. \A a \in Blocks : a + size[a] <= end
    BY <2>1, <2>2 DEF IInv, Tiling, Tiles
  <2> QED BY <2>1, <2>2, <2>3
<1>2. slots \in Nat /\ MaxBlocks = slots + 1
  BY <1>1, Quotient DEF MaxBlocks
<1>3. ASSUME NEW a \in Blocks PROVE (a - First) \div Hdr \in Slots
  <2>1. a - First \in Nat /\ a - First + Hdr <= end
    BY <1>1
  <2>2. (a - First) \div Hdr + 1 <= slots
    BY <2>1, <1>1, QuotientApart
  <2>3. (a - First) \div Hdr \in Nat
    BY <2>1, <1>1, Quotient
  <2> HIDE DEF slots
  <2> QED BY <2>2, <2>3, <1>2
<1>4. ASSUME NEW a \in Blocks, NEW b \in Blocks, a < b PROVE Slot[a] # Slot[b]
  <2>1. a + size[a] <= b
    BY <1>1, <1>4 DEF IInv, Tiling, Tiles
  <2>2. a - First \in Nat /\ b - First \in Nat /\ a - First + Hdr <= b - First
    BY <2>1, <1>1
  <2>3. (a - First) \div Hdr + 1 <= (b - First) \div Hdr
    BY <2>2, <1>1, QuotientApart
  <2>4. (a - First) \div Hdr \in Nat /\ (b - First) \div Hdr \in Nat
    BY <2>2, <1>1, Quotient
  <2> QED BY <2>3, <2>4
<1>5. Slot \in Injection(Blocks, Slots)
  <2>1. \A a, b \in Blocks : a # b => Slot[a] # Slot[b]
    <3>1. \A a, b \in Blocks : a # b => a < b \/ b < a
      BY <1>1
    <3> HIDE DEF Slot
    <3> QED BY <3>1, <1>4
  <2>2. Slot \in [Blocks -> Slots]
    BY <1>3
  <2> HIDE DEF Slot, Slots
  <2> QED BY <2>1, <2>2 DEF Injection, IsInjective
<1>6. IsFiniteSet(Slots) /\ Cardinality(Slots) = slots
  <2> HIDE DEF slots
  <2> QED BY <1>2, FS_Interval
<1>7. IsFiniteSet(Blocks) /\ Cardinality(Blocks) <= slots
  <2> HIDE DEF Slot, Slots
  <2> QED BY <1>5, <1>6, FS_Injection
<1>8. IsFiniteSet(Addr)
  BY <1>1, FS_Interval DEF Addr
<1>9. IsFiniteSet(Free) /\ Cardinality(Free) <= Cardinality(Blocks)
  BY <1>1, <1>7, FS_Subset
<1>10. Cardinality(Free) \in Nat /\ Cardinality(Blocks) \in Nat
  BY <1>7, <1>9, FS_CardinalityType
<1> HIDE DEF slots
<1> QED BY <1>2, <1>7, <1>8, <1>9, <1>10
\* The list has no ring: a set of blocks each led to by another is empty.
LEMMA NoRing ==
  ASSUME IInv, NEW R \in SUBSET Free, \A a \in R : prev[a] \in R
  PROVE  R = {}
<1> SUFFICES ASSUME R # {} PROVE FALSE
  OBVIOUS
<1>1. IsFiniteSet(R)
  BY FewBlocks, FS_Subset
<1>2. PICK rank \in [Addr -> Int] :
        \A a \in Free : next[a] # 0 => rank[a] < rank[next[a]]
  BY DEF IInv, Acyclic, Ranked
<1>3. Free \subseteq Addr /\ 0 \notin Addr
  BY Shape, AddrType
<1>4. PICK a \in R : \A b \in R : rank[a] <= rank[b]
  <2>1. \A a \in R : rank[a] \in Int
    BY <1>2, <1>3
  <2> QED BY <2>1, <1>1, LeastRank
<1>5. prev[a] \in R /\ next[prev[a]] = a
  BY <1>3 DEF IInv, Linked, Chained
<1>6. rank[prev[a]] < rank[a] /\ rank[a] <= rank[prev[a]] /\ rank[a] \in Int /\ rank[prev[a]] \in Int
  BY <1>2, <1>3, <1>4, <1>5
<1> QED BY <1>6

-----------------------------------------------------------------------------
(* The walk of Alloc *)

\* R is what the walk o of the free list F has still to look at: the rest of
\* the list from its cursor on.  It fits in what is left of the budget, and
\* when the walk has no candidate yet, nothing it has left behind would do.
Ahead(R, F, nx, pv, sz, o) ==
  /\ R \subseteq F
  /\ \A a \in R : nx[a] \in R \cup {0} /\ (a # o.cur => pv[a] \in R)
  /\ o.cur \in R \cup {0}
  /\ o.cur # 0 => pv[o.cur] \notin R
  /\ o.walked + Cardinality(R) <= IF o.pc = "visit" THEN o.limit ELSE o.limit + 1
  /\ o.best = 0 => \A a \in F \ R : sz[a] < o.n

Searching == op.pc \in {"visit", "collateA", "chosen"}

\* The walk under way has a rest, and a first-fit pass carries no candidate.
Walking ==
  op.pc \in {"visit", "collateA"} =>
    /\ \E R : Ahead(R, Free, next, prev, size, op)
    /\ op.firstFit => op.best = 0

\* The budget covers the list, and the block one growth may still add to it;
\* once the arena has grown, some free block is large enough.
Budget ==
  /\ Searching => /\ Cardinality(Free) + (IF op.resizes = 0 THEN 1 ELSE 0) <= op.limit
                  /\ op.resizes \in {0, 1}
                  /\ op.resizes = 1 => \E a \in Free : size[a] >= op.n
  /\ ~Searching => op.resizes = 0

\* What a first-fit pass chose is still there.
LastPass == op.firstFit /\ op.pc = "chosen" => Survived

Walk == Walking /\ Budget /\ LastPass

\* At the head of the list the whole list is ahead.
LEMMA AllAhead ==
  ASSUME NEW F, NEW nx, NEW pv, NEW sz, NEW head, NEW last, NEW o,
         Chained(F, nx, pv, head, last), 0 \notin F, IsFiniteSet(F),
         o.cur = head, o.walked = 0, o.pc = "visit",
         Cardinality(F) <= o.limit
  PROVE  Ahead(F, F, nx, pv, sz, o)
<1>1. Cardinality(F) \in Nat
  BY FS_CardinalityType
<1> QED BY <1>1 DEF Chained, Ahead

\* A walk that has run off the list has left it all behind: it has no other
\* rest than the empty set, for the list has no ring beside it.
LEMMA NothingAhead ==
  ASSUME IInv, NEW R, Ahead(R, Free, next, prev, size, op), op.cur = 0
  PROVE  R = {}
<1>1. 0 \notin Free
  BY Shape, AddrType
<1> QED BY <1>1, NoRing DEF Ahead

\* A walk that comes to the end of the list empty-handed has missed nothing.
LEMMA WalkOver ==
  ASSUME IInv, Walk, op.pc = "visit", op.cur = 0, op.best = 0
  PROVE  \A a \in Free : size[a] < op.n
<1>1. PICK R : Ahead(R, Free, next, prev, size, op)
  BY DEF Walk, Walking
<1>2. R = {}
  BY <1>1, NothingAhead
<1> QED BY <1>1, <1>2 DEF Ahead
-----------------------------------------------------------------------------
(* Steps of the walk *)

\* A walk begins: the budget is the number of blocks the arena can hold.
LEMMA CallWalks ==
  ASSUME IInv, IInv', NEW req \in Requests, AllocCall(req) PROVE Walk'
<1>1. UNCHANGED <<st, size, prev, next, foot, end, root, used>>
  BY DEF AllocCall
<1>2. CASE op' = NoOp
  BY <1>2 DEF NoOp, Walk, Walking, Budget, LastPass, Searching
<1>3. CASE op' = Restart([NoOp EXCEPT !.n = Larger(req + Hdr, VBHeapMin), !.limit = MaxBlocks],
                         root.free)
  <2>1. /\ op'.pc = "visit" /\ op'.cur = root.free /\ op'.walked = 0 /\ op'.limit = MaxBlocks
        /\ op'.best = 0 /\ op'.resizes = 0 /\ op'.firstFit = FALSE
    BY <1>3 DEF Restart, NoOp
  <2>2. Free' = Free /\ UNCHANGED <<next, prev, size, root>>
    BY <1>1 DEF Free
  <2>3. /\ IsFiniteSet(Free) /\ Cardinality(Free) \in Nat /\ MaxBlocks \in Nat
        /\ Cardinality(Free) + 1 <= MaxBlocks
    BY FewBlocks, Shape, LayoutAssumption, Quotient DEF MaxBlocks
  <2>4. 0 \notin Free
    BY AddrType, Shape
  <2>5. Ahead(Free, Free, next, prev, size, op')
    BY <2>1, <2>3, <2>4, AllAhead DEF IInv, Linked
  <2>6. Walking'
    BY <2>1, <2>2, <2>5 DEF Walking
  <2> QED BY <2>1, <2>2, <2>3, <2>6 DEF Walk, Budget, LastPass, Searching
<1> QED BY <1>2, <1>3 DEF AllocCall, Finish

\* A block is reached: one of those ahead, so the budget has room for it.
LEMMA VisitWalks ==
  ASSUME IInv, IInv', Walk, Visit
  PROVE  Walk' /\ op' = [op EXCEPT !.pc = "collateA", !.walked = @ + 1] /\ outcome' = outcome
<1>1. /\ UNCHANGED <<st, size, prev, next, root>> /\ op.pc = "visit" /\ op.cur # 0
      /\ op \in OpType
  BY DEF Visit, IInv, TypeOK
<1>2. PICK R : Ahead(R, Free, next, prev, size, op)
  BY <1>1 DEF Walk, Walking
<1>3. IsFiniteSet(R) /\ Cardinality(R) \in Nat
  BY <1>2, FewBlocks, FS_Subset, FS_CardinalityType DEF Ahead
<1>4. Cardinality(R) >= 1
  <2>1. op.cur \in R
    BY <1>1, <1>2 DEF Ahead
  <2> QED BY <2>1, <1>3, FS_EmptySet
<1>5. op.walked + 1 <= op.limit /\ op.walked \in Nat /\ op.limit \in Nat
  BY <1>1, <1>2, <1>3, <1>4 DEF Ahead, OpType
<1>6. op' = [op EXCEPT !.pc = "collateA", !.walked = op.walked + 1] /\ outcome' = outcome
  BY <1>5 DEF Visit
<1>7. /\ op'.pc = "collateA" /\ op'.walked = op.walked + 1 /\ op'.cur = op.cur
      /\ op'.best = op.best /\ op'.n = op.n /\ op'.limit = op.limit
      /\ op'.firstFit = op.firstFit /\ op'.resizes = op.resizes
  BY <1>1, <1>6 DEF OpType
<1>8. Free' = Free
  BY <1>1 DEF Free
<1>9. Ahead(R, Free, next, prev, size, op')
  BY <1>1, <1>2, <1>3, <1>5, <1>7 DEF Ahead
<1>10. Walking'
  BY <1>1, <1>7, <1>8, <1>9 DEF Walk, Walking
<1>11. Budget' /\ LastPass'
  BY <1>1, <1>7, <1>8 DEF Walk, Budget, LastPass, Searching
<1> QED BY <1>6, <1>10, <1>11 DEF Walk

\* The block in hand is taken off what is ahead.
LEMMA StepAhead ==
  ASSUME IInv, NEW R, Ahead(R, Free, next, prev, size, op),
         op.pc = "collateA", op.cur \in Free, NEW o, o.cur = next[op.cur],
         o.pc = "visit", o.walked = op.walked, o.limit = op.limit, o.n = op.n,
         o.best # 0 \/ (op.best = 0 /\ size[op.cur] < op.n)
  PROVE  Ahead(R \ {op.cur}, Free, next, prev, size, o)
<1> DEFINE c == op.cur
<1>1. /\ c \in R /\ c # 0 /\ 0 \notin R /\ R \subseteq Free /\ op \in OpType
  BY Shape, AddrType DEF Ahead, IInv, TypeOK
<1>2. IsFiniteSet(R) /\ Cardinality(R) \in Nat /\ Cardinality(R \ {c}) = Cardinality(R) - 1
  BY <1>1, FewBlocks, FS_Subset, FS_CardinalityType, FS_RemoveElement
<1>3. /\ \A a \in Free : /\ next[a] # 0 => prev[next[a]] = a
                         /\ prev[a] # 0 => next[prev[a]] = a
  BY DEF IInv, Linked, Chained
<1>4. /\ \A a \in R : next[a] \in R \cup {0} /\ (a # c => prev[a] \in R)
      /\ prev[c] \notin R
      /\ op.walked + Cardinality(R) <= op.limit + 1
      /\ op.best = 0 => \A a \in Free \ R : size[a] < op.n
  BY <1>1 DEF Ahead
<1>5. next[c] # c
  BY <1>1, <1>3, <1>4
<1>6. \A a \in R \ {c} : next[a] \in (R \ {c}) \cup {0} /\ (a # next[c] => prev[a] \in R \ {c})
  <2> TAKE a \in R \ {c}
  <2>1. next[a] # c
    BY <1>1, <1>3, <1>4
  <2>2. a # next[c] => prev[a] # c
    BY <1>1, <1>3, <1>4
  <2> QED BY <2>1, <2>2, <1>4
<1>7. next[c] \in (R \ {c}) \cup {0} /\ (next[c] # 0 => prev[next[c]] \notin R \ {c})
  BY <1>1, <1>3, <1>4, <1>5
<1>8. o.walked + Cardinality(R \ {c}) <= o.limit
  BY <1>1, <1>2, <1>4 DEF OpType
<1>9. o.best = 0 => \A a \in Free \ (R \ {c}) : size[a] < o.n
  BY <1>1, <1>4
<1> QED BY <1>1, <1>6, <1>7, <1>8, <1>9 DEF Ahead

\* A block is measured: it is left behind, kept as a candidate, or taken.
LEMMA MeasureWalks ==
  ASSUME IInv, IInv', Walk, SkipSmall \/ TakeAtOnce \/ KeepBest PROVE Walk'
<1>1. /\ UNCHANGED <<st, size, prev, next, root>> /\ op.pc = "collateA" /\ op \in OpType
      /\ op.cur \in Free /\ op.cur # 0 /\ Free' = Free /\ size[op.cur] \in Nat
  BY Shape, AddrType
  DEF SkipSmall, TakeAtOnce, KeepBest, Measured, Free, IInv, TypeOK, Cursor
<1>2. PICK R : Ahead(R, Free, next, prev, size, op)
  BY <1>1 DEF Walk, Walking
<1>3. Budget /\ (op.firstFit => op.best = 0)
  BY <1>1 DEF Walk, Walking
<1>4. CASE SkipSmall
  <2>1. /\ op'.pc = "visit" /\ op'.cur = next[op.cur] /\ op'.walked = op.walked
        /\ op'.limit = op.limit /\ op'.n = op.n /\ op'.best = op.best
        /\ op'.firstFit = op.firstFit /\ op'.resizes = op.resizes /\ size[op.cur] < op.n
    BY <1>1, <1>4 DEF SkipSmall, OpType
  <2>2. Ahead(R \ {op.cur}, Free, next, prev, size, op')
    BY <1>1, <1>2, <2>1, StepAhead
  <2> QED BY <1>1, <1>3, <2>1, <2>2 DEF Walk, Walking, Budget, LastPass, Searching
<1>5. CASE TakeAtOnce
  <2>1. /\ op'.pc = "chosen" /\ op'.best = op.cur /\ op'.n = op.n /\ op'.limit = op.limit
        /\ op'.resizes = op.resizes /\ size[op.cur] >= op.n
    BY <1>1, <1>5 DEF TakeAtOnce, OpType
  <2> QED BY <1>1, <1>3, <2>1 DEF Walk, Walking, Budget, LastPass, Searching, Survived
<1>6. CASE KeepBest
  <2> DEFINE better == op.best = 0 \/ size[op.cur] < op.bestSize
             over == op.fits + 1 >= MaxFitWalk
             best == IF better THEN op.cur ELSE op.best
             bestSize == IF better THEN size[op.cur] ELSE op.bestSize
             pc == IF over THEN "chosen" ELSE "visit"
             cur == IF over THEN op.cur ELSE next[op.cur]
  <2>1. ~op.firstFit /\ op' = [op EXCEPT !.best = best, !.bestSize = bestSize,
                                         !.fits = op.fits + 1, !.pc = pc, !.cur = cur]
    BY <1>6 DEF KeepBest
  <2>2. best # 0
    BY <1>1
  <2> HIDE DEF better, best, bestSize
  <2>3. /\ op'.pc = pc /\ op'.cur = cur /\ op'.best # 0 /\ op'.n = op.n
        /\ op'.limit = op.limit /\ op'.resizes = op.resizes /\ op'.walked = op.walked
        /\ ~op'.firstFit
    BY <1>1, <2>1, <2>2 DEF OpType
  <2>4. pc = "visit" => Ahead(R \ {op.cur}, Free, next, prev, size, op')
    BY <1>1, <1>2, <2>3, StepAhead
  <2> QED BY <1>1, <1>3, <2>3, <2>4 DEF Walk, Walking, Budget, LastPass, Searching
<1> QED BY <1>4, <1>5, <1>6

\* Collate takes a block off what is ahead, or from behind, where it would not do.
LEMMA AbsorbWalks ==
  ASSUME IInv, IInv', Walk, Absorb PROVE Walk'
<1> DEFINE a == op.cur
           b == After(a)
<1>1. /\ b \in Free /\ a \in Free /\ op.pc \in {"collateA", "collateF", "collateP"}
      /\ next' = IsolatedNext(b) /\ prev' = IsolatedPrev(b)
      /\ st' = [st EXCEPT ![b] = "none"]
      /\ size' = [x \in Addr |-> IF x = a THEN size[a] + size[b]
                                 ELSE IF x = b THEN 0 ELSE size[x]]
      /\ op' = op
  BY DEF Absorb, CanAbsorb, IInv, Cursor
<1>2. /\ Free \subseteq Addr /\ 0 \notin Addr /\ op \in OpType /\ a # b /\ a # 0
      /\ size[a] \in Nat /\ size[b] \in Nat /\ next \in [Addr -> Addr \cup {0}]
      /\ prev \in [Addr -> Addr \cup {0}] /\ st \in [Addr -> {"none", "free", "used"}]
  <2>1. /\ Free \subseteq Addr /\ a \in Nat /\ size[a] \in Nat /\ size[b] \in Nat
        /\ size[a] >= VBHeapMin /\ VBHeapMin \in Nat \ {0} /\ b = a + size[a]
    BY <1>1, Shape DEF After
  <2>2. a # b
    BY <2>1
  <2>3. a # 0 /\ 0 \notin Addr
    BY <1>1, <2>1, AddrType
  <2> HIDE DEF a, b
  <2> QED BY <2>1, <2>2, <2>3 DEF IInv, TypeOK
<1>3. Free' = Free \ {b}
  BY <1>1, <1>2 DEF Free
<1>4. /\ \A x \in Free : /\ next[x] # 0 => prev[next[x]] = x
                         /\ prev[x] # 0 => next[prev[x]] = x
  BY DEF IInv, Linked, Chained
<1>5. /\ \A x \in Free \ {b} : next'[x] = IF x = prev[b] THEN next[b] ELSE next[x]
      /\ \A x \in Free \ {b} : prev'[x] = IF x = next[b] THEN prev[b] ELSE prev[x]
      /\ \A x \in Free \ {a, b} : size'[x] = size[x]
      /\ size'[a] = size[a] + size[b]
  BY <1>1, <1>2 DEF IsolatedNext, IsolatedPrev
<1>6. ASSUME NEW R, Ahead(R, Free, next, prev, size, op), op.pc = "collateA"
      PROVE  Ahead(R \ {b}, Free \ {b}, next', prev', size', op)
  <2>1. /\ R \subseteq Free /\ a \in R /\ prev[a] \notin R
        /\ \A x \in R : next[x] \in R \cup {0} /\ (x # a => prev[x] \in R)
        /\ op.walked + Cardinality(R) <= op.limit + 1
        /\ op.best = 0 => \A x \in Free \ R : size[x] < op.n
    BY <1>2, <1>6 DEF Ahead
  <2>2. IsFiniteSet(R) /\ Cardinality(R) \in Nat /\ Cardinality(R \ {b}) \in Nat
        /\ Cardinality(R \ {b}) <= Cardinality(R)
    BY <2>1, FewBlocks, FS_Subset, FS_CardinalityType, FS_RemoveElement
  <2> HIDE DEF a, b
  <2>3. \A x \in R \ {b} : next'[x] \in (R \ {b}) \cup {0}
    <3> TAKE x \in R \ {b}
    <3>1. CASE x = prev[b]
      <4>1. next[x] = b /\ b \in R
        BY <3>1, <1>1, <1>2, <1>4, <2>1
      <4>2. next[b] # b
        BY <4>1, <1>1, <1>2, <1>4, <3>1
      <4> QED BY <4>1, <4>2, <3>1, <2>1, <1>5
    <3>2. CASE x # prev[b]
      BY <3>2, <1>1, <1>2, <1>4, <1>5, <2>1
    <3> QED BY <3>1, <3>2
  <2>4. \A x \in R \ {b} : x # a => prev'[x] \in R \ {b}
    <3> TAKE x \in R \ {b}
    <3>1. CASE x = next[b]
      <4>1. prev[x] = b
        BY <3>1, <1>1, <1>2, <1>4, <2>1
      <4>2. prev[b] # b
        BY <4>1, <1>1, <1>2, <1>4, <3>1
      <4> QED BY <4>1, <4>2, <3>1, <2>1, <1>2, <1>5
    <3>2. CASE x # next[b]
      BY <3>2, <1>1, <1>2, <1>4, <1>5, <2>1
    <3> QED BY <3>1, <3>2
  <2>5. prev'[a] \notin R \ {b}
    <3>1. CASE a = next[b]
      <4>1. prev[a] = b /\ b \notin R
        BY <3>1, <1>1, <1>2, <1>4, <2>1
      <4>2. prev[b] \notin R
        BY <4>1, <1>1, <1>2, <1>4, <2>1
      <4> QED BY <4>1, <4>2, <3>1, <2>1, <1>2, <1>5
    <3>2. CASE a # next[b]
      BY <3>2, <1>1, <1>2, <1>5, <2>1
    <3> QED BY <3>1, <3>2
  <2>6. op.best = 0 => \A x \in (Free \ {b}) \ (R \ {b}) : size'[x] < op.n
    BY <2>1, <1>5
  <2>7. op.walked + Cardinality(R \ {b}) <= op.limit + 1
    BY <2>1, <2>2, <1>2 DEF OpType
  <2> QED BY <1>2, <1>6, <2>1, <2>3, <2>4, <2>5, <2>6, <2>7 DEF Ahead, a
<1>7. Walking'
  <2> HIDE DEF b
  <2>1. SUFFICES ASSUME op.pc = "collateA" PROVE Walking'
    BY <1>1 DEF Walking
  <2>2. PICK R : Ahead(R, Free, next, prev, size, op)
    BY <2>1 DEF Walk, Walking
  <2>3. Ahead(R \ {b}, Free', next', prev', size', op')
    BY <2>1, <2>2, <1>1, <1>3, <1>6
  <2> QED BY <2>1, <2>3, <1>1 DEF Walk, Walking
<1>8. Budget'
  <2>1. IsFiniteSet(Free) /\ Cardinality(Free) \in Nat /\ Cardinality(Free') = Cardinality(Free) - 1
    BY <1>1, <1>3, FewBlocks, FS_RemoveElement
  <2>2. ASSUME NEW x \in Free, size[x] >= op.n PROVE \E y \in Free' : size'[y] >= op.n
    <3>1. CASE x \in {a, b}
      <4>1. size[a] + size[b] >= op.n /\ a \in Free'
        BY <3>1, <2>2, <1>1, <1>2, <1>3 DEF OpType
      <4> QED BY <4>1, <1>5
    <3>2. CASE x \notin {a, b}
      BY <3>2, <2>2, <1>3, <1>5
    <3> QED BY <3>1, <3>2
  <2> HIDE DEF a, b
  <2> QED BY <2>1, <2>2, <1>1, <1>2 DEF Walk, Budget, Searching, OpType
<1> QED BY <1>1, <1>7, <1>8 DEF Walk, LastPass

\* The arena grows once, by a block that will do: the walk had missed nothing,
\* so it had not grown before.
LEMMA GrowWalks ==
  ASSUME IInv, IInv', Walk, Grow, MaxAllocResizes >= 1
  PROVE  Walk' /\ outcome' = outcome
<1>1. /\ op \in OpType /\ op.pc = "visit" /\ op.cur = 0 /\ op.best = 0
      /\ op.n \in Nat /\ op.n <= ArenaRoom /\ op.n > 0 /\ VBHeapMin \in Nat \ {0}
  BY Shape DEF Grow, IInv, TypeOK, OpType, Cursor
<1>2. \A a \in Free : size[a] < op.n
  BY <1>1, WalkOver
<1>3. op.resizes = 0 /\ Cardinality(Free) + 1 <= op.limit
  <2>1. op.resizes \in {0, 1}
    BY <1>1 DEF Walk, Budget, Searching
  <2>2. op.resizes # 1
    <3> SUFFICES ASSUME op.resizes = 1 PROVE FALSE
      OBVIOUS
    <3>1. PICK a \in Free : size[a] >= op.n
      BY <1>1 DEF Walk, Budget, Searching
    <3>2. size[a] \in Nat
      BY Shape
    <3> QED BY <3>1, <3>2, <1>1, <1>2
  <2> QED BY <2>1, <2>2, <1>1 DEF Walk, Budget, Searching
<1>4. ~(op.resizes + 1 > MaxAllocResizes)
  BY <1>3, CallAssumption
<1> DEFINE extra == CapGrowth(op.n)
           head == IF root.free = 0 THEN end ELSE root.free
<1>5. /\ st' = [st EXCEPT ![end] = "free"]
      /\ size' = [size EXCEPT ![end] = extra]
      /\ op' = Restart([op EXCEPT !.resizes = op.resizes + 1], head)
      /\ root' = [root EXCEPT !.free = head, !.freeLast = end,
                              !.freeSize = root.freeSize + extra,
                              !.freeItems = root.freeItems + 1]
      /\ outcome' = outcome
  BY <1>4 DEF Grow
<1>6. extra \in Nat /\ op.n <= extra
  BY <1>1, CapGrowthFits
<1> HIDE DEF extra, head
<1>7. /\ end \in Addr /\ st \in [Addr -> {"none", "free", "used"}] /\ size \in [Addr -> Nat]
      /\ root \in RootType /\ 0 \notin Addr
  BY AddrType DEF IInv, TypeOK
<1>8. end \notin Free
  <2>1. \A x \in Blocks : x \in Nat /\ size[x] \in Nat /\ size[x] >= VBHeapMin
        /\ VBHeapMin \in Nat \ {0} /\ end \in Nat
    BY Shape
  <2> QED BY <2>1 DEF IInv, Tiling, Tiles, Blocks
<1>9. Free' = Free \cup {end} /\ size'[end] = extra
  BY <1>5, <1>7, <1>8 DEF Free
<1>10. IsFiniteSet(Free') /\ Cardinality(Free') = Cardinality(Free) + 1 /\ Cardinality(Free) \in Nat
  BY <1>8, <1>9, FewBlocks, FS_AddElement
<1>11. /\ op'.pc = "visit" /\ op'.cur = head /\ op'.walked = 0 /\ op'.best = 0
       /\ op'.resizes = 1 /\ op'.n = op.n /\ op'.limit = op.limit
  BY <1>1, <1>3, <1>5 DEF Restart, OpType
<1>12. root'.free = head
  BY <1>5, <1>7 DEF RootType
<1>13. Walking'
  <2>1. Chained(Free', next', prev', head, root'.freeLast)
    BY <1>12 DEF IInv, Linked
  <2>2. 0 \notin Free'
    BY <1>7 DEF Free
  <2>3. Ahead(Free', Free', next', prev', size', op')
    BY <2>1, <2>2, <1>3, <1>10, <1>11, AllAhead
  <2> QED BY <2>3, <1>11 DEF Walking
<1>14. Budget'
  BY <1>3, <1>6, <1>9, <1>10, <1>11 DEF Budget, Searching
<1> QED BY <1>5, <1>11, <1>13, <1>14 DEF Walk, LastPass

\* The choice did not survive: one more pass over the whole list.
LEMMA RetryWalks ==
  ASSUME IInv, IInv', Walk, Retry
  PROVE  Walk' /\ outcome' = outcome
<1>1. /\ UNCHANGED <<st, size, prev, next, root>> /\ op.pc = "chosen" /\ op \in OpType
      /\ ~Survived
  BY DEF Retry, IInv, TypeOK
<1>2. op' = Restart([op EXCEPT !.firstFit = TRUE], root.free) /\ outcome' = outcome
  BY <1>1 DEF Retry, Walk, LastPass
<1>3. /\ op'.pc = "visit" /\ op'.cur = root.free /\ op'.walked = 0 /\ op'.best = 0
      /\ op'.resizes = op.resizes /\ op'.n = op.n /\ op'.limit = op.limit
  BY <1>1, <1>2 DEF Restart, OpType
<1>4. Free' = Free
  BY <1>1 DEF Free
<1>5. IsFiniteSet(Free) /\ Cardinality(Free) \in Nat /\ Cardinality(Free) <= op.limit
  <2>1. op.limit \in Nat /\ op.resizes \in Nat
    BY <1>1 DEF OpType
  <2> QED BY <2>1, <1>1, FewBlocks DEF Walk, Budget, Searching
<1>6. 0 \notin Free
  BY AddrType, Shape
<1>7. Ahead(Free, Free, next, prev, size, op')
  BY <1>3, <1>5, <1>6, AllAhead DEF IInv, Linked
<1>8. Walking'
  BY <1>1, <1>3, <1>4, <1>7 DEF Walking
<1>9. Budget' /\ LastPass'
  BY <1>1, <1>3, <1>4 DEF Walk, Budget, LastPass, Searching
<1> QED BY <1>2, <1>8, <1>9 DEF Walk

\* The walk is inductive on top of the shape of the heap, and none of its steps
\* ends in one of the throws that blame the image.
LEMMA WalkKept ==
  ASSUME IInv, IInv', Walk, NoFalseAlarm, MaxAllocResizes >= 1, [Next]_vars
  PROVE  Walk' /\ NoFalseAlarm'
<1>1. CASE UNCHANGED vars
  BY <1>1 DEF vars, Walk, Walking, Budget, LastPass, Searching, Survived, Free, NoFalseAlarm
<1>2. CASE \E req \in Requests : AllocCall(req)
  BY <1>2, CallWalks DEF AllocCall, Finish, NoFalseAlarm
<1>3. CASE Visit \/ Grow \/ Retry
  BY <1>3, VisitWalks, GrowWalks, RetryWalks DEF NoFalseAlarm
<1>4. CASE SkipSmall \/ TakeAtOnce \/ KeepBest \/ Absorb
  BY <1>4, MeasureWalks, AbsorbWalks DEF SkipSmall, TakeAtOnce, KeepBest, Absorb, NoFalseAlarm
<1>5. CASE WalkEnds
  <2>1. /\ op \in OpType /\ op.pc = "visit" /\ op.best # 0 /\ Free' = Free /\ size' = size
        /\ op' = [op EXCEPT !.pc = "chosen"] /\ outcome' = outcome
    BY <1>5 DEF WalkEnds, IInv, TypeOK, Free
  <2>2. ~op.firstFit
    BY <2>1 DEF Walk, Walking
  <2>3. /\ op'.pc = "chosen" /\ op'.firstFit = op.firstFit /\ op'.n = op.n
        /\ op'.resizes = op.resizes /\ op'.limit = op.limit
    BY <2>1 DEF OpType
  <2> QED BY <2>1, <2>2, <2>3 DEF Walk, Walking, Budget, LastPass, Searching, NoFalseAlarm
<1>6. CASE GrowRefused
  <2>1. op \in OpType /\ op.pc = "visit" /\ op.cur = 0 /\ op.best = 0 /\ op.n \in Nat
    BY <1>6 DEF GrowRefused, IInv, TypeOK, OpType
  <2>2. op.resizes = 0
    <3>1. \A a \in Free : size[a] < op.n /\ size[a] \in Nat
      BY <2>1, WalkOver, Shape
    <3> QED BY <3>1, <2>1 DEF Walk, Budget, Searching
  <2>3. op' = NoOp /\ outcome' = "full"
    BY <1>6, <2>2, CallAssumption DEF GrowRefused, Finish
  <2> QED BY <2>3 DEF NoOp, Walk, Walking, Budget, LastPass, Searching, NoFalseAlarm
<1>7. CASE Adopt \/ Split \/ Rejoined \/ SaveRestore \/ \E a \in Addr : FreeRefused(a)
  <2>1. op' = NoOp /\ outcome' \in {"ok", "notAllocated"}
    BY <1>7 DEF Adopt, Split, Rejoined, SaveRestore, FreeRefused, Finish
  <2> QED BY <2>1 DEF NoOp, Walk, Walking, Budget, LastPass, Searching, NoFalseAlarm
<1>8. CASE SaveScrub \/ \E a \in Addr : FreeCall(a)
  <2>1. /\ op'.pc \in {"saving", "collateF"} /\ op'.resizes = 0 /\ outcome' = "none"
    BY <1>8 DEF SaveScrub, FreeCall, NoOp
  <2> QED BY <2>1 DEF Walk, Walking, Budget, LastPass, Searching, NoFalseAlarm
<1>9. CASE Released
  <2>1. op \in OpType /\ op.pc = "collateF" /\ op.resizes = 0
    BY <1>9 DEF Released, IInv, TypeOK, Walk, Budget, Searching
  <2>2. CASE op' = NoOp /\ outcome' = "ok"
    BY <2>2 DEF NoOp, Walk, Walking, Budget, LastPass, Searching, NoFalseAlarm
  <2>3. CASE op' = [op EXCEPT !.pc = "collateP", !.cur = PrevFree(op.cur)] /\ outcome' = outcome
    <3>1. op'.pc = "collateP" /\ op'.resizes = op.resizes
      BY <2>1, <2>3 DEF OpType
    <3> QED BY <3>1, <2>1, <2>3 DEF Walk, Walking, Budget, LastPass, Searching, NoFalseAlarm
  <2> QED BY <1>9, <2>2, <2>3 DEF Released, Finish
<1>10. CASE \E a \in Addr : WritePayload(a)
  <2>1. UNCHANGED <<st, size, prev, next, root, op, outcome>>
    BY <1>10 DEF WritePayload
  <2> QED BY <2>1 DEF Walk, Walking, Budget, LastPass, Searching, Survived, Free, NoFalseAlarm
<1> QED
  BY <1>1, <1>2, <1>3, <1>4, <1>5, <1>6, <1>7, <1>8, <1>9, <1>10 DEF Next, Call, Continue
-----------------------------------------------------------------------------
(* What the walk keeps true *)

LEMMA WalkInvariant ==
  ASSUME Aligned, MaxAllocResizes >= 1 PROVE Spec => [](IInv /\ Walk /\ NoFalseAlarm)
<1>1. Init => Walk /\ NoFalseAlarm
  BY DEF Init, NoOp, Walk, Walking, Budget, LastPass, Searching, NoFalseAlarm
<1>2. IInv /\ IInv' /\ Walk /\ NoFalseAlarm /\ [Next]_vars => Walk' /\ NoFalseAlarm'
  BY WalkKept
<1> QED BY <1>1, <1>2, Invariant, PTL DEF Spec

\* No allocation ends in a throw that blames the image: the walk never runs out
\* of its budget, its last choice survives, one growth satisfies it.
THEOREM NoFalseAlarmHolds ==
  ASSUME Aligned, MaxAllocResizes >= 1 PROVE Spec => []NoFalseAlarm
BY WalkInvariant, PTL

\* "One grow-and-retry is enough."
THEOREM OneResizeHolds ==
  ASSUME Aligned, MaxAllocResizes >= 1 PROVE Spec => []OneResize
<1>1. Walk => OneResize
  BY DEF Walk, Budget, OneResize
<1> QED BY <1>1, WalkInvariant, PTL

\* A request is refused in its walk only when no free block could serve it.
THEOREM FullIsHonestHolds ==
  ASSUME Aligned, MaxAllocResizes >= 1 PROVE Spec => FullIsHonest
<1> DEFINE Honest == GrowRefused => \A a \in Free : size[a] < op.n
<1>1. IInv /\ Walk => Honest
  BY WalkOver DEF GrowRefused
<1>2. IInv /\ Walk /\ [Next]_vars => [Honest]_vars
  BY <1>1
<1>3. Spec => [][Honest]_vars
  BY <1>2, WalkInvariant, PTL DEF Spec
<1> QED BY <1>3 DEF FullIsHonest
-----------------------------------------------------------------------------
(* The heap keeps its promise *)

\* Outside Alloc no request is pending.
Unasked == ~Searching => op.n = 0

\* The extents callers hold.
Live == {<<a, size[a]>> : a \in Used}

LEMMA UnaskedKept == ASSUME IInv, Unasked, [Next]_vars PROVE Unasked'
<1>1. op \in OpType
  BY DEF IInv, TypeOK
<1>2. CASE op' = NoOp
  BY <1>2 DEF NoOp, Unasked, Searching
<1>3. CASE UNCHANGED op
  BY <1>3 DEF Unasked, Searching
<1>4. CASE Visit \/ SkipSmall \/ TakeAtOnce \/ KeepBest \/ WalkEnds \/ Grow \/ Retry
  <2>1. CASE op'.pc \in {"visit", "collateA", "chosen"}
    BY <2>1 DEF Unasked, Searching
  <2>2. Visit => op' = NoOp \/ op'.pc = "collateA"
    BY <1>1 DEF Visit, Finish, OpType
  <2>3. SkipSmall \/ TakeAtOnce \/ WalkEnds => op'.pc \in {"visit", "chosen"}
    BY <1>1 DEF SkipSmall, TakeAtOnce, WalkEnds, OpType
  <2>4. KeepBest => op'.pc \in {"visit", "chosen"}
    <3> DEFINE pc == IF op.fits + 1 >= MaxFitWalk THEN "chosen" ELSE "visit"
    <3>1. KeepBest => op'.pc = pc
      BY <1>1 DEF KeepBest, OpType
    <3> QED BY <3>1
  <2>5. Grow \/ Retry => op' = NoOp \/ op'.pc = "visit"
    BY <1>1 DEF Grow, Retry, Finish, Restart, OpType
  <2> QED BY <1>2, <1>4, <2>1, <2>2, <2>3, <2>4, <2>5
<1>5. CASE \E req \in Requests : AllocCall(req)
  BY <1>2, <1>5 DEF AllocCall, Finish, Restart, NoOp, Unasked, Searching
<1>6. CASE SaveScrub \/ \E a \in Addr : FreeCall(a)
  BY <1>6 DEF SaveScrub, FreeCall, NoOp, Unasked, Searching
<1>7. CASE Released
  <2>1. op.n = 0
    BY <1>7 DEF Released, Unasked, Searching
  <2>2. op' = NoOp \/ op'.n = op.n
    BY <1>1, <1>7 DEF Released, Finish, OpType
  <2> QED BY <1>2, <2>1, <2>2 DEF Unasked
<1> QED
  BY <1>2, <1>3, <1>4, <1>5, <1>6, <1>7
  DEF Next, Call, Continue, vars, Absorb, GrowRefused, Adopt, Split, Rejoined, SaveRestore,
      FreeRefused, WritePayload, Finish

\* A step of the walk that answers nothing is a stutter of the promise.
LEMMA Stutters ==
  ASSUME UNCHANGED <<st, size, end>>, op'.n = op.n
  PROVE  UNCHANGED <<Live, end, op.n>>
BY DEF Live, Used

\* A block of the arena shares no byte with a block callers hold.
LEMMA ApartFromLive ==
  ASSUME IInv, NEW a \in Free, NEW n \in Nat, n <= size[a], NEW x \in Live
  PROVE  Promise!Bytes(x) \cap Promise!Bytes(<<a, n>>) = {}
<1>1. PICK b \in Used : x = <<b, size[b]>>
  BY DEF Live
<1>2. /\ a \in Blocks /\ b \in Blocks /\ a # b /\ a \in Nat /\ b \in Nat
      /\ size[a] \in Nat /\ size[b] \in Nat
  BY Shape
<1>3. a < b => b >= a + size[a]
  BY <1>2 DEF IInv, Tiling, Tiles
<1>4. b < a => a >= b + size[b]
  BY <1>2 DEF IInv, Tiling, Tiles
<1>5. Promise!Bytes(x) = b .. b + size[b] - 1 /\ Promise!Bytes(<<a, n>>) = a .. a + n - 1
  BY <1>1 DEF Promise!Bytes
<1> QED BY <1>2, <1>3, <1>4, <1>5

\* Adopt and Split answer the call with an extent of its own.
LEMMA Serves ==
  ASSUME IInv, Adopt \/ Split
  PROVE  Promise!Serve
<1> DEFINE a == op.best
<1>1. /\ op.pc = "chosen" /\ a \in Free /\ size[a] >= op.n /\ op \in OpType /\ op' = NoOp
      /\ end' = end
  BY DEF Adopt, Split, Survived, Finish, IInv, TypeOK
<1>2. /\ a \in Addr /\ a \in Nat /\ size[a] \in Nat /\ op.n \in Nat /\ op.n > 0
      /\ op.n >= VBHeapMin /\ VBHeapMin \in Nat \ {0} /\ end \in Nat /\ a + size[a] <= end
      /\ a >= First /\ First \in Nat /\ Used \subseteq Addr /\ a \notin Used
      /\ st \in [Addr -> {"none", "free", "used"}] /\ size \in [Addr -> Nat]
  <2>1. /\ a \in Addr /\ a \in Blocks /\ a \in Nat /\ size[a] \in Nat /\ VBHeapMin \in Nat \ {0}
        /\ end \in Nat /\ Used \subseteq Addr /\ a \notin Used
    BY <1>1, Shape
  <2>2. op.n \in Nat /\ op.n >= VBHeapMin
    BY <1>1 DEF IInv, Cursor, OpType
  <2>3. a + size[a] <= end
    BY <2>1 DEF IInv, Tiling, Tiles
  <2>4. st \in [Addr -> {"none", "free", "used"}] /\ size \in [Addr -> Nat]
    BY DEF IInv, TypeOK
  <2>5. a >= First /\ First \in Nat
    BY <2>1, LayoutAssumption DEF Addr
  <2> HIDE DEF a
  <2> QED BY <2>1, <2>2, <2>3, <2>4, <2>5
<1>3. PICK n \in Nat : /\ n >= op.n /\ n <= op.n + VBHeapMin - 1 /\ n <= size[a]
                       /\ Live' = Live \cup {<<a, n>>}
  <2>1. CASE Adopt
    <3>1. st' = [st EXCEPT ![a] = "used"] /\ size' = size /\ ~(size[a] - op.n >= VBHeapMin)
      BY <2>1 DEF Adopt, Splittable
    <3>2. Used' = Used \cup {a}
      BY <3>1, <1>2 DEF Used
    <3>3. Live' = Live \cup {<<a, size[a]>>}
      BY <3>1, <3>2 DEF Live
    <3> HIDE DEF a
    <3> QED BY <3>1, <3>3, <1>1, <1>2
  <2>2. CASE Split
    <3> DEFINE e == a + op.n
    <3>1. /\ st' = [st EXCEPT ![a] = "used", ![e] = "free"]
          /\ size' = [size EXCEPT ![a] = op.n, ![e] = size[a] - op.n]
          /\ size[a] - op.n >= VBHeapMin
      BY <2>2 DEF Split, Splittable
    <3>2. e \notin Used /\ e # a
      <4>1. e > a /\ e < a + size[a] /\ a \in Blocks
        BY <3>1, <1>1, <1>2 DEF Blocks
      <4>2. \A b \in Blocks : b > a => b >= a + size[a]
        BY <4>1 DEF IInv, Tiling, Tiles
      <4>3. \A b \in Blocks : b \in Nat
        BY Shape
      <4> QED BY <4>1, <4>2, <4>3, <1>2 DEF Blocks
    <3> HIDE DEF a, e
    <3>3. Used' = Used \cup {a}
      BY <3>1, <3>2, <1>2 DEF Used
    <3>4. size'[a] = op.n /\ \A b \in Used : size'[b] = size[b]
      BY <3>1, <3>2, <1>2
    <3>5. Live' = Live \cup {<<a, op.n>>}
      BY <3>3, <3>4 DEF Live
    <3> QED BY <3>5, <1>1, <1>2
  <2> QED BY <2>1, <2>2
<1>4. \A x \in Live : Promise!Bytes(x) \cap Promise!Bytes(<<a, n>>) = {}
  BY <1>1, <1>3, ApartFromLive
<1>5. a \in First .. end - 1 /\ n \in op.n .. op.n + VBHeapMin - 1 /\ a + n <= end /\ op'.n = 0
  BY <1>1, <1>2, <1>3 DEF NoOp
<1>6. \E b \in First .. end - 1, m \in op.n .. op.n + VBHeapMin - 1 :
        /\ b + m <= end
        /\ \A x \in Live : Promise!Bytes(x) \cap Promise!Bytes(<<b, m>>) = {}
        /\ Live' = Live \cup {<<b, m>>}
  <2> HIDE DEF a
  <2> QED BY <1>3, <1>4, <1>5
<1>7. op.n # 0 /\ op'.n = 0 /\ end' = end
  BY <1>1, <1>2, <1>5
<1> QED BY <1>6, <1>7, Zenon DEF Promise!Serve, Live

\* Every step of the allocator is a step of the promise, or none.
LEMMA StepPromised ==
  ASSUME IInv, IInv', Walk, Walk', NoFalseAlarm', Unasked, MaxAllocResizes >= 1, [Next]_vars
  PROVE  [Promise!ANext]_<<Live, end, op.n>>
<1>1. op \in OpType /\ (Searching => op.n > 0 /\ op.n \in Nat) /\ VBHeapMin \in Nat \ {0}
  BY Shape DEF IInv, TypeOK, Cursor, OpType, Searching
<1>2. CASE UNCHANGED vars
  BY <1>2, Stutters DEF vars
<1>3. CASE \E req \in Requests : AllocCall(req)
  <2>1. PICK req \in Requests : AllocCall(req)
    BY <1>3
  <2>2. op.n = 0 /\ UNCHANGED <<st, size, end>>
    BY <2>1 DEF AllocCall, Unasked, Searching
  <2>3. CASE op' = NoOp
    BY <2>2, <2>3, Stutters DEF NoOp
  <2>4. CASE op' # NoOp
    <3>1. op'.n = Larger(req + Hdr, VBHeapMin)
      BY <2>1, <2>4 DEF AllocCall, Finish, Restart, NoOp
    <3>2. UNCHANGED <<Live, end>>
      BY <2>2 DEF Live, Used
    <3> QED BY <2>2, <3>1, <3>2 DEF Promise!ANext, Promise!Request, Live
  <2> QED BY <2>3, <2>4
<1>4. CASE Visit
  <2>1. op'.n = op.n
    BY <1>1, <1>4, VisitWalks DEF OpType
  <2> QED BY <1>4, <2>1, Stutters DEF Visit
<1>5. CASE SkipSmall \/ TakeAtOnce \/ KeepBest \/ WalkEnds \/ Retry
  <2>1. op'.n = op.n
    <3>1. CASE SkipSmall \/ TakeAtOnce \/ WalkEnds
      BY <1>1, <3>1 DEF SkipSmall, TakeAtOnce, WalkEnds, OpType
    <3>2. CASE KeepBest
      BY <1>1, <3>2 DEF KeepBest, OpType
    <3>3. CASE Retry
      <4>1. op' = Restart([op EXCEPT !.firstFit = TRUE], root.free)
        BY <3>3 DEF Retry, Finish, NoFalseAlarm
      <4> QED BY <1>1, <4>1 DEF Restart, OpType
    <3> QED BY <1>5, <3>1, <3>2, <3>3
  <2> QED BY <1>5, <2>1, Stutters DEF SkipSmall, TakeAtOnce, KeepBest, WalkEnds, Retry
<1>6. CASE Absorb
  <2>1. /\ op.cur \in Free /\ After(op.cur) \in Free /\ op' = op /\ end' = end
        /\ st' = [st EXCEPT ![After(op.cur)] = "none"]
        /\ size' = [x \in Addr |-> IF x = op.cur THEN size[op.cur] + size[After(op.cur)]
                                   ELSE IF x = After(op.cur) THEN 0 ELSE size[x]]
    BY <1>6 DEF IInv, Cursor, Absorb, CanAbsorb
  <2>2. Used \subseteq Addr /\ Free \cap Used = {} /\ st \in [Addr -> {"none", "free", "used"}]
    BY Shape DEF IInv, TypeOK
  <2>3. Used' = Used
    BY <2>1, <2>2 DEF Used, Free
  <2>4. \A a \in Used : size'[a] = size[a]
    BY <2>1, <2>2
  <2>5. Live' = Live
    BY <2>3, <2>4 DEF Live
  <2> QED BY <2>1, <2>5
<1>7. CASE Grow
  <2>1. op.n \in Nat /\ op.n > 0 /\ op.n <= ArenaRoom /\ op.pc = "visit"
    BY <1>1, <1>7 DEF Grow, Searching
  <2>2. outcome' # "unsatisfied"
    BY DEF NoFalseAlarm
  <2>3. /\ end' = end + CapGrowth(op.n) /\ st' = [st EXCEPT ![end] = "free"]
        /\ size' = [size EXCEPT ![end] = CapGrowth(op.n)]
        /\ op' = Restart([op EXCEPT !.resizes = @ + 1], IF root.free = 0 THEN end ELSE root.free)
    BY <1>7, <2>2 DEF Grow, Finish
  <2>4. CapGrowth(op.n) \in Nat /\ op.n <= CapGrowth(op.n) /\ end + CapGrowth(op.n) <= SizeMax
    BY <2>1, CapGrowthFits
  <2>5. end \in Nat /\ SizeMax \in Nat /\ end \notin Blocks
    <3>1. \A x \in Blocks : x \in Nat /\ size[x] \in Nat /\ size[x] >= VBHeapMin
          /\ VBHeapMin \in Nat \ {0} /\ end \in Nat
      BY Shape
    <3>2. end \in Nat /\ SizeMax \in Nat
      BY Shape, LayoutAssumption
    <3> QED BY <3>1, <3>2 DEF IInv, Tiling, Tiles
  <2>6. Live' = Live
    <3>1. st \in [Addr -> {"none", "free", "used"}] /\ size \in [Addr -> Nat] /\ end \notin Used
          /\ Used \subseteq Addr
      BY <2>5, Shape DEF IInv, TypeOK
    <3>2. Used' = Used /\ \A a \in Used : size'[a] = size[a]
      BY <2>3, <3>1 DEF Used
    <3> QED BY <3>2 DEF Live
  <2>7. op'.n = op.n
    BY <1>1, <2>3 DEF Restart, OpType
  <2>8. end' \in end + 1 .. SizeMax
    BY <2>1, <2>3, <2>4, <2>5
  <2> QED BY <2>1, <2>6, <2>7, <2>8 DEF Promise!ANext, Promise!Extend, Live
<1>8. CASE GrowRefused
  <2>1. /\ op.n \in Nat /\ op.n > 0 /\ op.n > ArenaRoom /\ op' = NoOp /\ UNCHANGED <<st, size, end>>
    BY <1>1, <1>8 DEF GrowRefused, Searching, Finish
  <2>2. op.n > SizeMax - end
    <3>1. end \in Nat /\ SizeMax \in Nat
      BY Shape, LayoutAssumption
    <3> QED BY <2>1, <3>1 DEF ArenaRoom
  <2>3. UNCHANGED <<Live, end>> /\ op'.n = 0
    BY <2>1 DEF Live, Used, NoOp
  <2> QED BY <2>1, <2>2, <2>3 DEF Promise!ANext, Promise!Refuse, Live
<1>9. CASE Adopt \/ Split
  BY <1>9, Serves DEF Promise!ANext
<1>10. CASE \E a \in Addr : FreeCall(a)
  <2>1. PICK a \in Addr : FreeCall(a)
    BY <1>10
  <2>2. /\ a \in Used /\ st' = [st EXCEPT ![a] = "free"] /\ size' = size /\ end' = end
        /\ op.n = 0 /\ op'.n = 0
    BY <2>1 DEF FreeCall, NoOp, Unasked, Searching
  <2>3. Used' = Used \ {a}
    BY <2>2 DEF Used, IInv, TypeOK
  <2>4. Live' = Live \ {<<a, size[a]>>} /\ <<a, size[a]>> \in Live
    BY <2>2, <2>3 DEF Live
  <2> QED BY <2>2, <2>4 DEF Promise!ANext, Promise!Release, Live
<1>11. CASE Released \/ Rejoined \/ SaveScrub \/ SaveRestore
            \/ \E a \in Addr : FreeRefused(a) \/ WritePayload(a)
  <2>1. op.n = 0 /\ UNCHANGED <<st, size, end>>
    BY <1>11
    DEF Released, Rejoined, SaveScrub, SaveRestore, FreeRefused, WritePayload, Unasked, Searching
  <2>2. op'.n = 0
    <3>1. op' = NoOp => op'.n = 0
      BY DEF NoOp
    <3>2. Released => op' = NoOp \/ op'.n = op.n
      BY <1>1 DEF Released, Finish, OpType
    <3>3. SaveScrub => op'.n = 0
      BY DEF SaveScrub, NoOp
    <3> QED BY <1>11, <2>1, <3>1, <3>2, <3>3
            DEF Rejoined, SaveRestore, FreeRefused, WritePayload, Finish
  <2> QED BY <2>1, <2>2, Stutters
<1> QED
  BY <1>2, <1>3, <1>4, <1>5, <1>6, <1>7, <1>8, <1>9, <1>10, <1>11 DEF Next, Call, Continue

\* The allocator implements what a heap promises its callers: an extent of its
\* own for each block, never moved until its Free, and no refusal while the
\* arena may grow by what was asked for.
THEOREM HeapImplements ==
  ASSUME Aligned, MaxAllocResizes >= 1 PROVE Spec => Implements
<1>1. Init => Promise!AInit /\ Unasked
  <2> SUFFICES ASSUME Init PROVE Promise!AInit /\ Unasked
    OBVIOUS
  <2>1. PICK s \in InitSizes : end = s + Word /\ op = NoOp
          /\ st = [a \in Addr |-> IF a = First THEN "free" ELSE "none"]
    BY DEF Init
  <2>2. Used = {}
    BY <2>1 DEF Used
  <2> QED BY <2>1, <2>2 DEF Promise!AInit, NoOp, Unasked
<1>2. IInv /\ Unasked /\ [Next]_vars => Unasked'
  BY UnaskedKept
<1>3. IInv /\ IInv' /\ Walk /\ Walk' /\ NoFalseAlarm' /\ Unasked /\ [Next]_vars
        => [Promise!ANext]_<<Live, end, op.n>>
  BY StepPromised
<1>4. Spec => [][Promise!ANext]_<<Live, end, op.n>>
  BY <1>1, <1>2, <1>3, WalkInvariant, PTL DEF Spec
<1> QED BY <1>1, <1>4, PTL DEF Implements, Promise!ASpec, Promise!avars, Live, Spec
-----------------------------------------------------------------------------
(***************************************************************************)
(* The free list as a whole.  From the head it reaches every free block and*)
(* ends.  A rank of the free blocks follows the links: two neighbours left *)
(* apart by growth stand in the list as they do in the arena, what a walk  *)
(* has passed has been merged with what follows it, and so the block a walk*)
(* chooses has no untold free neighbour.  That order is why a tag is there *)
(* whenever a Free goes looking for it.                                    *)
(***************************************************************************)

\* A walk w of n steps follows the links of the free list, and stops at its end.
Follows(w, n) ==
  /\ w[0] = root.free
  /\ \A k \in 1 .. n : /\ w[k - 1] \in Free => w[k] = next[w[k - 1]]
                       /\ w[k - 1] = 0 => w[k] = 0

\* R is the rest of the list after k steps of w: what is not in it was met.
Rest(R, w, k) ==
  /\ R \subseteq Free
  /\ \A a \in R : next[a] \in R \cup {0} /\ (a # w[k] => prev[a] \in R)
  /\ w[k] \in R \cup {0} /\ (w[k] # 0 => prev[w[k]] \notin R)
  /\ \A a \in Free \ R : \E j \in 0 .. k - 1 : w[j] = a
  /\ \A j \in 0 .. k - 1 : w[j] \in Free \ R
  /\ Cardinality(R) = Cardinality(Free) - k

LEMMA RestShrinks ==
  ASSUME IInv, NEW n \in Nat, NEW w, Follows(w, n), NEW k \in 0 .. n - 1,
         NEW R, Rest(R, w, k), k < Cardinality(Free)
  PROVE  w[k] \in R /\ Rest(R \ {w[k]}, w, k + 1)
<1> DEFINE c == w[k]
<1>1. /\ R \subseteq Free /\ 0 \notin Free /\ IsFiniteSet(R) /\ Cardinality(Free) \in Nat
      /\ IsFiniteSet(Free)
  BY Shape, AddrType, FewBlocks, FS_Subset DEF Rest
<1>2. /\ \A a \in Free : /\ next[a] # 0 => prev[next[a]] = a
                         /\ prev[a] # 0 => next[prev[a]] = a
  BY DEF IInv, Linked, Chained
<1>3. c # 0
  <2> SUFFICES ASSUME c = 0 PROVE FALSE
    OBVIOUS
  <2>1. R = {}
    BY <1>1, NoRing DEF Rest
  <2>2. Cardinality(R) = 0
    BY <2>1, FS_EmptySet
  <2> QED BY <2>2, <1>1 DEF Rest
<1>4. c \in R /\ prev[c] \notin R
  BY <1>3 DEF Rest
<1>5. w[k + 1] = next[c]
  <2>1. k + 1 \in 1 .. n /\ (k + 1) - 1 = k
    OBVIOUS
  <2> QED BY <2>1, <1>1, <1>4 DEF Follows
<1>6. Cardinality(R \ {c}) = Cardinality(R) - 1 /\ Cardinality(R) \in Nat
  BY <1>1, <1>4, FS_RemoveElement, FS_CardinalityType
<1>7. next[c] # c
  BY <1>1, <1>2, <1>4
<1>8. \A a \in R : next[a] \in R \cup {0} /\ (a # c => prev[a] \in R)
  BY DEF Rest
<1>9. \A a \in R \ {c} : next[a] \in (R \ {c}) \cup {0} /\ (a # next[c] => prev[a] \in R \ {c})
  <2> TAKE a \in R \ {c}
  <2>1. next[a] # c
    BY <1>1, <1>2, <1>4
  <2>2. a # next[c] => prev[a] # c
    BY <1>1, <1>2, <1>4
  <2> QED BY <2>1, <2>2, <1>8
<1>10. next[c] \in (R \ {c}) \cup {0} /\ (next[c] # 0 => prev[next[c]] \notin R \ {c})
  BY <1>1, <1>2, <1>4, <1>7, <1>8
<1>11. \A a \in Free \ (R \ {c}) : \E j \in 0 .. (k + 1) - 1 : w[j] = a
  <2> TAKE a \in Free \ (R \ {c})
  <2>1. CASE a = c
    <3>1. k \in 0 .. (k + 1) - 1
      OBVIOUS
    <3> QED BY <3>1, <2>1
  <2>2. CASE a # c
    <3>1. PICK j \in 0 .. k - 1 : w[j] = a
      BY <2>2 DEF Rest
    <3>2. j \in 0 .. (k + 1) - 1
      OBVIOUS
    <3> QED BY <3>1, <3>2
  <2> QED BY <2>1, <2>2
<1>12. \A j \in 0 .. (k + 1) - 1 : w[j] \in Free \ (R \ {c})
  <2> TAKE j \in 0 .. (k + 1) - 1
  <2>1. CASE j = k
    BY <2>1, <1>1, <1>4
  <2>2. CASE j # k
    <3>1. j \in 0 .. k - 1
      BY <2>2
    <3> QED BY <3>1 DEF Rest
  <2> QED BY <2>1, <2>2
<1>13. Cardinality(R \ {c}) = Cardinality(Free) - (k + 1)
  BY <1>1, <1>6 DEF Rest
<1> HIDE DEF c
<1>14. Rest(R \ {c}, w, k + 1)
  BY <1>1, <1>5, <1>9, <1>10, <1>11, <1>12, <1>13 DEF Rest
<1> QED BY <1>4, <1>14 DEF c

\* Every number of steps leaves a rest, as long as the list has blocks.
LEMMA RestAt ==
  ASSUME IInv, NEW n \in Nat, NEW w, Follows(w, n), Cardinality(Free) <= n
  PROVE  \A k \in 0 .. Cardinality(Free) : \E R : Rest(R, w, k)
<1> DEFINE c == Cardinality(Free)
           Good == {k \in 0 .. c : \E R : Rest(R, w, k)}
<1>0. c \in Nat /\ c <= n
  BY FewBlocks
<1>1. 0 \in Good
  <2>1. Rest(Free, w, 0)
    <3>1. /\ \A a \in Free : next[a] \in Free \cup {0} /\ prev[a] \in Free \cup {0}
          /\ \A a \in Free : prev[a] = 0 <=> root.free = a
          /\ root.free \in Free \cup {0} /\ w[0] = root.free /\ 0 \notin Free
      BY Shape, AddrType DEF IInv, Linked, Chained, Follows
    <3>2. 0 .. 0 - 1 = {}
      OBVIOUS
    <3>3. \A a \in Free : next[a] \in Free \cup {0} /\ (a # w[0] => prev[a] \in Free)
      BY <3>1
    <3>4. w[0] \in Free \cup {0} /\ (w[0] # 0 => prev[w[0]] \notin Free)
      BY <3>1
    <3> QED BY <3>2, <3>3, <3>4, <1>0 DEF Rest
  <2> QED BY <2>1, <1>0
<1>2. ASSUME NEW k \in 0 .. c - 1, k \in Good PROVE k + 1 \in Good
  <2>1. PICK R : Rest(R, w, k)
    BY <1>2
  <2>2. k \in 0 .. n - 1 /\ k < Cardinality(Free) /\ k + 1 \in 0 .. c
    BY <1>0
  <2>3. Rest(R \ {w[k]}, w, k + 1)
    <3> HIDE DEF c
    <3> QED BY <2>1, <2>2, RestShrinks
  <2> QED BY <2>2, <2>3
<1>3. \A k \in 0 .. c : k \in Good
  <2> HIDE DEF Good, c
  <2> QED BY <1>0, <1>1, <1>2, NumberInduction
<1> QED BY <1>3

\* A walk long enough meets every free block, and nothing else, and ends.
LEMMA ListWalked ==
  ASSUME IInv, NEW n \in Nat, NEW w, Follows(w, n), Cardinality(Free) <= n
  PROVE  /\ \A k \in 0 .. n : w[k] \in Free \cup {0}
         /\ \A k \in 0 .. Cardinality(Free) - 1 : w[k] \in Free
         /\ \A k \in Cardinality(Free) .. n : w[k] = 0
         /\ \A a \in Free : \E k \in 0 .. Cardinality(Free) - 1 : w[k] = a
<1> DEFINE c == Cardinality(Free)
<1>0. c \in Nat /\ c <= n /\ IsFiniteSet(Free)
  BY FewBlocks
<1>1. PICK R : Rest(R, w, c)
  BY <1>0, RestAt
<1>2. R = {}
  <2>1. Cardinality(R) = 0 /\ IsFiniteSet(R)
    BY <1>0, <1>1, FS_Subset DEF Rest
  <2> QED BY <2>1, FS_EmptySet
<1>3. w[c] = 0
  BY <1>1, <1>2 DEF Rest
<1>4. \A k \in 0 .. c - 1 : w[k] \in Free
  BY <1>1, <1>2 DEF Rest
<1>5. \A a \in Free : \E k \in 0 .. c - 1 : w[k] = a
  BY <1>1, <1>2 DEF Rest
<1>6. \A k \in c .. n : w[k] = 0
  <2> DEFINE Good == {j \in 0 .. n - c : w[c + j] = 0}
  <2>1. 0 \in Good
    BY <1>0, <1>3
  <2>2. ASSUME NEW j \in 0 .. (n - c) - 1, j \in Good PROVE j + 1 \in Good
    <3>1. c + j + 1 \in 1 .. n /\ (c + j + 1) - 1 = c + j /\ c + (j + 1) = c + j + 1
          /\ j + 1 \in 0 .. n - c
      BY <1>0
    <3>2. w[c + j + 1] = 0
      BY <3>1, <2>2 DEF Follows
    <3> QED BY <3>1, <3>2
  <2>3. \A j \in 0 .. n - c : j \in Good
    <3>1. n - c \in Nat
      BY <1>0
    <3> HIDE DEF Good
    <3> QED BY <3>1, <2>1, <2>2, NumberInduction
  <2> TAKE k \in c .. n
  <2>4. k - c \in 0 .. n - c /\ c + (k - c) = k
    BY <1>0
  <2>5. k - c \in Good
    BY <2>3, <2>4
  <2> QED BY <2>4, <2>5
<1>7. \A k \in 0 .. n : w[k] \in Free \cup {0}
  <2> TAKE k \in 0 .. n
  <2>1. k \in 0 .. c - 1 \/ k \in c .. n
    BY <1>0
  <2> QED BY <2>1, <1>4, <1>6
<1> QED BY <1>4, <1>5, <1>6, <1>7

\* Chain is a walk of the list.
LEMMA ChainFollows ==
  ASSUME IInv
  PROVE  /\ Follows(Chain, Cardinality(Addr)) /\ DOMAIN Chain = 0 .. Cardinality(Addr)
         /\ Cardinality(Addr) \in Nat /\ Cardinality(Free) <= Cardinality(Addr)
<1> DEFINE n == Cardinality(Addr)
           D == Addr \cup {0}
           step == [a \in D |-> IF a = 0 THEN 0 ELSE next[a]]
           Is(v) == v = [k \in 0 .. n |-> IF k = 0 THEN root.free
                                          ELSE IF v[k - 1] = 0 THEN 0 ELSE next[v[k - 1]]]
<1>1. /\ n \in Nat /\ Cardinality(Free) <= n /\ 0 \notin Addr /\ Free \subseteq Addr
      /\ root.free \in D /\ next \in [Addr -> D]
  BY FewBlocks, FS_CardinalityType, FS_Subset, Shape, AddrType DEF IInv, TypeOK
<1>2. step \in [D -> D]
  BY <1>1
<1>3. \E v : Is(v)
  <2> HIDE DEF step, n, D
  <2> DEFINE base == root.free
  <2>0. n \in Nat /\ base \in D
    BY <1>1
  <2> HIDE DEF base
  <2>1. PICK v \in [0 .. n -> D] : v = [k \in 0 .. n |-> IF k = 0 THEN base ELSE step[v[k - 1]]]
    <3>1. Iterations(n, D, base, step) # {}
      BY ONLY <2>0, <1>2, Iterates
    <3>2. PICK w : w \in Iterations(n, D, base, step)
      BY <3>1
    <3> QED BY <3>2 DEF Iterations
  <2>2. ASSUME NEW k \in 0 .. n, k # 0
        PROVE  step[v[k - 1]] = IF v[k - 1] = 0 THEN 0 ELSE next[v[k - 1]]
    <3>1. k - 1 \in 0 .. n
      BY <2>2, <1>1
    <3>2. v[k - 1] \in D
      BY <2>1, <3>1
    <3> QED BY <3>2 DEF step
  <2>3. Is(v)
    BY <2>1, <2>2 DEF base
  <2> QED BY <2>3
<1>4. Chain = CHOOSE v : Is(v)
  BY DEF Chain
<1>5. Is(Chain)
  <2> HIDE DEF Is
  <2> QED BY <1>3, <1>4
<1>6. DOMAIN Chain = 0 .. n
  BY <1>5
<1>7. \A k \in 0 .. n : Chain[k] = IF k = 0 THEN root.free
                                   ELSE IF Chain[k - 1] = 0 THEN 0 ELSE next[Chain[k - 1]]
  <2> DEFINE body(k) == IF k = 0 THEN root.free
                        ELSE IF Chain[k - 1] = 0 THEN 0 ELSE next[Chain[k - 1]]
  <2>1. Chain = [k \in 0 .. n |-> body(k)]
    BY <1>5
  <2>2. \A k \in 0 .. n : Chain[k] = body(k)
    <3> HIDE DEF body, n
    <3> QED BY <2>1
  <2> QED BY <2>2
<1> HIDE DEF n
<1>8. Follows(Chain, n)
  <2>1. Chain[0] = root.free
    BY <1>1, <1>7
  <2>2. \A k \in 1 .. n : k \in 0 .. n /\ k # 0
    BY <1>1
  <2> QED BY <1>1, <1>7, <2>1, <2>2 DEF Follows
<1> QED BY <1>1, <1>6, <1>8 DEF n

\* The chain from the head reaches every free block and comes to an end.
LEMMA ListIsComplete == ASSUME IInv PROVE ListComplete
<1> DEFINE n == Cardinality(Addr)
           c == Cardinality(Free)
<1>1. Follows(Chain, n) /\ DOMAIN Chain = 0 .. n /\ n \in Nat /\ c <= n /\ c \in Nat
  BY ChainFollows, FewBlocks
<1>2. /\ \A k \in 0 .. n : Chain[k] \in Free \cup {0}
      /\ \A k \in c .. n : Chain[k] = 0
      /\ \A a \in Free : \E k \in 0 .. c - 1 : Chain[k] = a
  <2> HIDE DEF n
  <2> QED BY <1>1, ListWalked
<1> HIDE DEF n, c
<1>3. c \in c .. n /\ c \in 0 .. n /\ \A k \in 0 .. c - 1 : k \in 0 .. n
  BY <1>1
<1>4. Chain[c] = 0
  BY <1>2, <1>3
<1>5. Free \cup {0} \subseteq {Chain[k] : k \in DOMAIN Chain}
  BY <1>1, <1>2, <1>3, <1>4
<1>6. {Chain[k] : k \in DOMAIN Chain} \subseteq Free \cup {0}
  BY <1>1, <1>2
<1> QED BY <1>4, <1>5, <1>6 DEF ListComplete, c

\* Every free block stays in reach of the head, and the list ends: no block is
\* lost to later calls and no walk goes round.
THEOREM ListCompleteHolds == ASSUME Aligned PROVE Spec => []ListComplete
<1>1. IInv => ListComplete
  BY ListIsComplete
<1> QED BY <1>1, Invariant, PTL
-----------------------------------------------------------------------------
(* What each step does to the blocks and to the root's figures *)

LEMMA FreeEffect ==
  ASSUME IInv, NEW a \in Addr, FreeCall(a)
  PROVE  /\ a \in Used /\ a \notin Free /\ size[a] \in Nat
         /\ Used' = Used \ {a} /\ Free' = Free \cup {a} /\ size' = size
         /\ root'.freeSize = root.freeSize + size[a] /\ root'.freeItems = root.freeItems + 1
         /\ root'.allocSize = root.allocSize - size[a] /\ root'.allocItems = root.allocItems - 1
         /\ root'.alloc = root.alloc /\ used' = used - size[a] /\ end' = end
<1>1. a \in Used /\ a \notin Free /\ size[a] \in Nat
  BY Shape DEF FreeCall
<1>2. st \in [Addr -> {"none", "free", "used"}] /\ root \in RootType
  BY DEF IInv, TypeOK
<1>3. Used' = Used \ {a} /\ Free' = Free \cup {a} /\ size' = size /\ end' = end
      /\ used' = used - size[a]
  BY <1>1, <1>2 DEF FreeCall, Used, Free
<1>4. /\ root'.freeSize = root.freeSize + size[a] /\ root'.freeItems = root.freeItems + 1
      /\ root'.allocSize = root.allocSize - size[a] /\ root'.allocItems = root.allocItems - 1
      /\ root'.alloc = root.alloc
  BY <1>2 DEF FreeCall, RootType
<1> QED BY <1>1, <1>3, <1>4

\* Isolate counts the block out, and leaves aAlloc on a block or nowhere.
LEMMA IsolateEffect ==
  ASSUME IInv, NEW b \in Free
  PROVE  /\ Isolated(b) \in RootType
         /\ Isolated(b).freeSize = root.freeSize - size[b]
         /\ Isolated(b).freeItems = root.freeItems - 1
         /\ Isolated(b).allocSize = root.allocSize /\ Isolated(b).allocItems = root.allocItems
         /\ Isolated(b).alloc = root.alloc \/ Isolated(b).alloc \in (Free \ {b}) \cup {0}
         /\ root.alloc # b => Isolated(b).alloc = root.alloc
         /\ Isolated(b).alloc # b
<1>1. b \in Addr /\ root \in RootType /\ TypeOK /\ 0 \notin Free
  BY Shape, AddrType DEF IInv, TypeOK
<1> DEFINE back == IF prev[b] # 0 THEN prev[b] ELSE next[b]
           forth == IF next[b] # 0 THEN next[b] ELSE prev[b]
           al == IF root.alloc = b THEN back ELSE root.alloc
           fr == IF root.free = b THEN back ELSE root.free
           fl == IF root.freeLast = b THEN forth ELSE root.freeLast
<1>2. Isolated(b) = [root EXCEPT !.alloc = al, !.free = fr, !.freeLast = fl,
                                 !.freeSize = root.freeSize - size[b],
                                 !.freeItems = root.freeItems - 1]
  BY DEF Isolated
<1>3. back \in (Free \ {b}) \cup {0}
  <2>1. PICK rank \in [Addr -> Int] :
          \A a \in Free : next[a] # 0 => rank[a] < rank[next[a]]
    BY DEF IInv, Acyclic, Ranked
  <2>2. /\ next[b] \in Free \cup {0} /\ prev[b] \in Free \cup {0} /\ Free \subseteq Addr
        /\ prev[b] # 0 => next[prev[b]] = b
    BY Shape DEF IInv, Linked, Chained
  <2>3. next[b] # b /\ prev[b] # b
    BY <2>1, <2>2, <1>1
  <2> QED BY <2>2, <2>3
<1>4. al = root.alloc \/ al \in (Free \ {b}) \cup {0}
  BY <1>3
<1>5. (root.alloc # b => al = root.alloc) /\ al # b
  BY <1>1, <1>3
<1>6. Isolated(b) \in RootType
  BY <1>1, IsolatedType
<1> HIDE DEF al, fr, fl
<1>7. /\ Isolated(b).alloc = al
      /\ Isolated(b).freeSize = root.freeSize - size[b]
      /\ Isolated(b).freeItems = root.freeItems - 1
      /\ Isolated(b).allocSize = root.allocSize /\ Isolated(b).allocItems = root.allocItems
  BY <1>1, <1>2 DEF RootType
<1> QED BY <1>4, <1>5, <1>6, <1>7

LEMMA AbsorbEffect ==
  ASSUME IInv, Absorb
  PROVE  LET a == op.cur
             b == After(op.cur) IN
         /\ a \in Free /\ b \in Free /\ a # b /\ op.pc \in {"collateA", "collateF", "collateP"}
         /\ Free' = Free \ {b} /\ Used' = Used
         /\ size'[a] = size[a] + size[b] /\ \A x \in Addr \ {a, b} : size'[x] = size[x]
         /\ root'.freeSize = root.freeSize /\ root'.freeItems = root.freeItems - 1
         /\ root'.allocSize = root.allocSize /\ root'.allocItems = root.allocItems
         /\ root'.alloc = root.alloc \/ root'.alloc \in Free' \cup {0}
         /\ root.alloc # b => root'.alloc = root.alloc
         /\ root'.alloc # b
         /\ UNCHANGED <<used, end, op>>
<1> DEFINE a == op.cur
           b == After(op.cur)
<1>1. /\ a \in Free /\ b \in Free /\ op.pc \in {"collateA", "collateF", "collateP"}
      /\ root' = [Isolated(b) EXCEPT !.freeSize = @ + size[b]]
      /\ st' = [st EXCEPT ![b] = "none"]
      /\ size' = [x \in Addr |-> IF x = a THEN size[a] + size[b] ELSE IF x = b THEN 0 ELSE size[x]]
      /\ UNCHANGED <<used, end, op>>
  BY DEF Absorb, CanAbsorb, IInv, Cursor
<1>2. /\ Free \subseteq Addr /\ Free \cap Used = {} /\ a # b /\ size[b] \in Nat
      /\ st \in [Addr -> {"none", "free", "used"}] /\ root.freeSize \in Int
  <2>1. /\ Free \subseteq Addr /\ Free \cap Used = {} /\ a \in Nat /\ size[a] \in Nat
        /\ size[a] >= VBHeapMin /\ VBHeapMin \in Nat \ {0} /\ b = a + size[a] /\ size[b] \in Nat
    BY <1>1, Shape DEF After
  <2>2. a # b
    BY <2>1
  <2> HIDE DEF a, b
  <2> QED BY <2>1, <2>2 DEF IInv, TypeOK, RootType
<1> HIDE DEF a, b
<1>3. Free' = Free \ {b} /\ Used' = Used
  BY <1>1, <1>2 DEF Free, Used
<1>4. size'[a] = size[a] + size[b] /\ \A x \in Addr \ {a, b} : size'[x] = size[x]
  BY <1>1, <1>2
<1>5. /\ Isolated(b) \in RootType
      /\ Isolated(b).freeSize = root.freeSize - size[b]
      /\ Isolated(b).freeItems = root.freeItems - 1
      /\ Isolated(b).allocSize = root.allocSize /\ Isolated(b).allocItems = root.allocItems
      /\ Isolated(b).alloc = root.alloc \/ Isolated(b).alloc \in (Free \ {b}) \cup {0}
      /\ root.alloc # b => Isolated(b).alloc = root.alloc
      /\ Isolated(b).alloc # b
  BY <1>1, IsolateEffect
<1>6. /\ root'.freeSize = Isolated(b).freeSize + size[b]
      /\ root'.freeItems = Isolated(b).freeItems /\ root'.allocSize = Isolated(b).allocSize
      /\ root'.allocItems = Isolated(b).allocItems /\ root'.alloc = Isolated(b).alloc
  BY <1>1, <1>5 DEF RootType
<1>7. root'.freeSize = root.freeSize
  BY <1>2, <1>5, <1>6
<1> QED BY <1>1, <1>2, <1>3, <1>4, <1>5, <1>6, <1>7 DEF a, b

LEMMA GrowEffect ==
  ASSUME IInv, Grow, ~UNCHANGED <<st, size, prev, next, foot, end, root>>
  PROVE  LET extra == CapGrowth(op.n) IN
         /\ end \notin Blocks /\ extra \in Nat /\ op.n <= extra /\ end + extra <= SizeMax
         /\ Free' = Free \cup {end} /\ Used' = Used
         /\ size'[end] = extra /\ \A x \in Addr \ {end} : size'[x] = size[x]
         /\ root'.freeSize = root.freeSize + extra /\ root'.freeItems = root.freeItems + 1
         /\ root'.allocSize = root.allocSize /\ root'.allocItems = root.allocItems
         /\ root'.alloc = root.alloc /\ used' = used /\ end' = end + extra
<1> DEFINE extra == CapGrowth(op.n)
           head == IF root.free = 0 THEN end ELSE root.free
<1>1. /\ end' = end + extra /\ used' = used
      /\ st' = [st EXCEPT ![end] = "free"]
      /\ size' = [size EXCEPT ![end] = extra]
      /\ root' = [root EXCEPT !.free = head, !.freeLast = end,
                              !.freeSize = root.freeSize + extra,
                              !.freeItems = root.freeItems + 1]
      /\ op.pc = "visit" /\ op.n <= ArenaRoom
  BY DEF Grow
<1>2. op.n \in Nat /\ op.n > 0
  BY <1>1, Shape DEF IInv, TypeOK, OpType, Cursor
<1>3. extra \in Nat /\ op.n <= extra /\ end + extra <= SizeMax
  BY <1>1, <1>2, CapGrowthFits
<1>4. end \notin Blocks
  <2>1. \A x \in Blocks : x \in Nat /\ size[x] \in Nat /\ size[x] >= VBHeapMin
        /\ VBHeapMin \in Nat \ {0} /\ end \in Nat
    BY Shape
  <2> QED BY <2>1 DEF IInv, Tiling, Tiles
<1>5. /\ end \in Addr /\ st \in [Addr -> {"none", "free", "used"}] /\ size \in [Addr -> Nat]
      /\ root \in RootType
  BY DEF IInv, TypeOK
<1> HIDE DEF extra, head
<1>6. Free' = Free \cup {end} /\ Used' = Used
  BY <1>1, <1>4, <1>5 DEF Free, Used, Blocks
<1>7. size'[end] = extra /\ \A x \in Addr \ {end} : size'[x] = size[x]
  BY <1>1, <1>5
<1>8. /\ root'.freeSize = root.freeSize + extra /\ root'.freeItems = root.freeItems + 1
      /\ root'.allocSize = root.allocSize /\ root'.allocItems = root.allocItems
      /\ root'.alloc = root.alloc
  BY <1>1, <1>5 DEF RootType
<1> QED BY <1>1, <1>3, <1>4, <1>6, <1>7, <1>8 DEF extra

LEMMA AllocatedEffect ==
  ASSUME NEW r \in RootType, NEW a \in Addr, NEW n \in Nat
  PROVE  /\ Allocated(r, a, n).freeSize = r.freeSize
         /\ Allocated(r, a, n).freeItems = r.freeItems
         /\ Allocated(r, a, n).allocSize = r.allocSize + n
         /\ Allocated(r, a, n).allocItems = r.allocItems + 1
         /\ Allocated(r, a, n).alloc = IF r.alloc = 0 THEN a ELSE r.alloc
BY DEF Allocated, RootType

LEMMA AdoptEffect ==
  ASSUME IInv, Adopt
  PROVE  LET a == op.best IN
         /\ a \in Free /\ a \notin Used /\ size[a] \in Nat /\ op.n <= size[a] /\ op.n \in Nat
         /\ Free' = Free \ {a} /\ Used' = Used \cup {a} /\ size' = size
         /\ root'.freeSize = root.freeSize - size[a] /\ root'.freeItems = root.freeItems - 1
         /\ root'.allocSize = root.allocSize + size[a] /\ root'.allocItems = root.allocItems + 1
         /\ root'.alloc = root.alloc \/ root'.alloc \in Free' \cup {a}
         /\ root.alloc # 0 /\ root.alloc # a => root'.alloc = root.alloc
         /\ root.alloc = 0 => root'.alloc = a
         /\ used' = used + size[a] /\ end' = end /\ op' = NoOp
<1> DEFINE a == op.best
<1>1. /\ a \in Free /\ a \in Addr /\ a \notin Used /\ size[a] \in Nat /\ op.n <= size[a]
      /\ root' = Allocated(Isolated(a), a, size[a]) /\ st' = [st EXCEPT ![a] = "used"]
      /\ used' = used + size[a] /\ end' = end /\ size' = size /\ op' = NoOp
      /\ op.n \in Nat /\ a # 0
  BY Shape, AddrType DEF Adopt, Survived, Adopted, Finish, IInv, TypeOK, OpType
<1>2. st \in [Addr -> {"none", "free", "used"}] /\ 0 \notin Free
  BY Shape, AddrType DEF IInv, TypeOK
<1> HIDE DEF a
<1>3. Free' = Free \ {a} /\ Used' = Used \cup {a}
  BY <1>1, <1>2 DEF Free, Used
<1>4. /\ Isolated(a) \in RootType
      /\ Isolated(a).freeSize = root.freeSize - size[a]
      /\ Isolated(a).freeItems = root.freeItems - 1
      /\ Isolated(a).allocSize = root.allocSize /\ Isolated(a).allocItems = root.allocItems
      /\ Isolated(a).alloc = root.alloc \/ Isolated(a).alloc \in (Free \ {a}) \cup {0}
      /\ root.alloc # a => Isolated(a).alloc = root.alloc
  BY <1>1, IsolateEffect
<1>5. /\ root'.freeSize = Isolated(a).freeSize /\ root'.freeItems = Isolated(a).freeItems
      /\ root'.allocSize = Isolated(a).allocSize + size[a]
      /\ root'.allocItems = Isolated(a).allocItems + 1
      /\ root'.alloc = IF Isolated(a).alloc = 0 THEN a ELSE Isolated(a).alloc
  BY <1>1, <1>4, AllocatedEffect
<1> QED BY <1>1, <1>2, <1>3, <1>4, <1>5 DEF a

LEMMA SplitEffect ==
  ASSUME IInv, Split
  PROVE  LET a == op.best
             e == op.best + op.n IN
         /\ a \in Free /\ a \notin Used /\ e \notin Blocks /\ e # a /\ e \in Addr
         /\ op.n \in Nat /\ op.n >= VBHeapMin /\ size[a] \in Nat /\ size[a] - op.n >= VBHeapMin
         /\ Free' = (Free \ {a}) \cup {e} /\ Used' = Used \cup {a}
         /\ size'[a] = op.n /\ size'[e] = size[a] - op.n
         /\ \A x \in Addr \ {a, e} : size'[x] = size[x]
         /\ root'.freeSize = root.freeSize - op.n /\ root'.freeItems = root.freeItems
         /\ root'.allocSize = root.allocSize + op.n /\ root'.allocItems = root.allocItems + 1
         /\ root'.alloc = (IF root.alloc = 0 THEN a ELSE root.alloc)
         /\ used' = used + op.n /\ end' = end /\ op' = NoOp
<1> DEFINE a == op.best
           n == op.n
           e == op.best + op.n
           head == IF root.free = a THEN e ELSE root.free
           last == IF root.freeLast = a THEN e ELSE root.freeLast
           cut == [root EXCEPT !.free = head, !.freeLast = last,
                               !.freeSize = root.freeSize - n]
<1>1. /\ a \in Free /\ op.pc = "chosen" /\ size[a] - n >= VBHeapMin
      /\ st' = [st EXCEPT ![a] = "used", ![e] = "free"]
      /\ size' = [size EXCEPT ![a] = n, ![e] = size[a] - n]
      /\ root' = Allocated(cut, a, n)
      /\ used' = used + n /\ op' = NoOp /\ end' = end
  BY DEF Split, Survived, Splittable, Finish
<1>2. /\ a \in Addr /\ a \in Blocks /\ a \notin Used /\ size[a] \in Nat /\ n \in Nat
      /\ n >= VBHeapMin /\ VBHeapMin \in Nat \ {0} /\ a \in Nat \ {0} /\ end \in Nat
  BY <1>1, Shape DEF IInv, TypeOK, OpType, Cursor
<1>3. /\ a + size[a] <= end /\ \A b \in Blocks : b > a => b >= a + size[a]
  BY <1>2 DEF IInv, Tiling, Tiles
<1>4. e # a /\ e \notin Blocks
  <2>1. e > a /\ e < a + size[a] /\ a + size[a] \in Nat /\ e \in Nat
    BY <1>1, <1>2
  <2> QED BY <2>1, <1>3
<1>5. e \in Addr
  <2>1. end <= SizeMax + 2 * Word /\ First <= a /\ First \in Nat /\ SizeMax \in Nat /\ Word \in Nat
    BY <1>2, LayoutAssumption DEF Addr, IInv, TypeOK
  <2>2. a < e /\ e <= end
    BY <1>1, <1>2, <1>3
  <2>3. e \in Nat
    BY <1>2
  <2> HIDE DEF e, a
  <2> QED BY <2>1, <2>2, <2>3, <1>2 DEF Addr
<1>6. st \in [Addr -> {"none", "free", "used"}] /\ size \in [Addr -> Nat] /\ root \in RootType
  BY DEF IInv, TypeOK
<1> HIDE DEF a, n, e
<1>7. Free' = (Free \ {a}) \cup {e} /\ Used' = Used \cup {a}
  BY <1>1, <1>2, <1>4, <1>5, <1>6 DEF Free, Used, Blocks
<1>8. size'[a] = n /\ size'[e] = size[a] - n /\ \A x \in Addr \ {a, e} : size'[x] = size[x]
  BY <1>1, <1>2, <1>4, <1>5, <1>6
<1>9. cut \in RootType /\ cut.freeSize = root.freeSize - n /\ cut.freeItems = root.freeItems
      /\ cut.allocSize = root.allocSize /\ cut.allocItems = root.allocItems
      /\ cut.alloc = root.alloc
  <2>1. head \in Addr \cup {0} /\ last \in Addr \cup {0} /\ root.freeSize - n \in Int
    BY <1>2, <1>5, <1>6 DEF RootType
  <2> HIDE DEF head, last
  <2> QED BY <2>1, <1>6 DEF RootType
<1>10. /\ root'.freeSize = root.freeSize - n /\ root'.freeItems = root.freeItems
       /\ root'.allocSize = root.allocSize + n /\ root'.allocItems = root.allocItems + 1
       /\ root'.alloc = IF root.alloc = 0 THEN a ELSE root.alloc
  <2> HIDE DEF cut
  <2> QED BY <1>1, <1>2, <1>9, AllocatedEffect
<1> QED BY <1>1, <1>2, <1>4, <1>5, <1>7, <1>8, <1>10 DEF a, n, e

\* Every other step leaves headers, links and counters alone.
Arranges == Absorb \/ Grow \/ Adopt \/ Split \/ \E a \in Addr : FreeCall(a)
LEMMA NoEffect ==
  ASSUME Misuse = FALSE, [Next]_vars, ~Arranges
  PROVE  UNCHANGED <<st, size, prev, next, end, root, used>>
BY DEF Arranges, Next, Call, Continue, vars, AllocCall, FreeRefused, WritePayload, SaveScrub,
       Visit, SkipSmall, TakeAtOnce, KeepBest, WalkEnds, GrowRefused, Retry, Released,
       Rejoined, SaveRestore
-----------------------------------------------------------------------------
(* The order of the list *)

\* rank numbers the blocks F in the order their links go through them.
Lined(rank, F, nx, pv) ==
  \A a \in F :
    /\ nx[a] # 0 => rank[a] < rank[nx[a]]
    /\ \A x \in F : /\ rank[a] = rank[x] => a = x
                    /\ rank[a] < rank[x] => /\ nx[a] # 0 /\ rank[nx[a]] <= rank[x]
                                            /\ pv[x] # 0 /\ rank[a] <= rank[pv[x]]

\* A block taken out of the list leaves the order of the others.
LEMMA IsolateLined ==
  ASSUME IInv, NEW rank \in [Addr -> Int], Lined(rank, Free, next, prev), NEW b \in Free
  PROVE  Lined(rank, Free \ {b}, IsolatedNext(b), IsolatedPrev(b))
<1>1. Free \subseteq Addr /\ 0 \notin Addr
  BY Shape, AddrType
<1>2. \A x \in Free \ {b} : /\ IsolatedNext(b)[x] = IF x = prev[b] THEN next[b] ELSE next[x]
                            /\ IsolatedPrev(b)[x] = IF x = next[b] THEN prev[b] ELSE prev[x]
  BY <1>1 DEF IsolatedNext, IsolatedPrev
<1>3. \A a \in Free : /\ next[a] \in Free \cup {0} /\ prev[a] \in Free \cup {0}
                      /\ next[a] # 0 => prev[next[a]] = a
                      /\ prev[a] # 0 => next[prev[a]] = a
                      /\ rank[a] \in Int
  BY <1>1 DEF IInv, Linked, Chained
<1>4. \A a \in Free : next[a] # 0 => rank[a] < rank[next[a]]
  BY DEF Lined
<1>5. \A a, x \in Free :
        /\ rank[a] = rank[x] => a = x
        /\ rank[a] < rank[x] => /\ next[a] # 0 /\ rank[next[a]] <= rank[x]
                                /\ prev[x] # 0 /\ rank[a] <= rank[prev[x]]
  BY DEF Lined
<1>6. ASSUME NEW a \in Free \ {b}, IsolatedNext(b)[a] # 0
      PROVE  rank[a] < rank[IsolatedNext(b)[a]]
  <2>1. CASE a = prev[b]
    <3>1. next[a] = b /\ next[b] # 0 /\ next[b] \in Free
      BY <2>1, <1>1, <1>2, <1>3, <1>6
    <3>2. rank[a] < rank[b] /\ rank[b] < rank[next[b]]
      BY <3>1, <1>1, <1>4
    <3> QED BY <3>1, <3>2, <2>1, <1>2, <1>3
  <2> QED BY <2>1, <1>2, <1>4, <1>6
<1>7. ASSUME NEW a \in Free \ {b}, NEW x \in Free \ {b}, rank[a] < rank[x]
      PROVE  /\ IsolatedNext(b)[a] # 0 /\ rank[IsolatedNext(b)[a]] <= rank[x]
             /\ IsolatedPrev(b)[x] # 0 /\ rank[a] <= rank[IsolatedPrev(b)[x]]
  <2>1. IsolatedNext(b)[a] # 0 /\ rank[IsolatedNext(b)[a]] <= rank[x]
    <3>1. CASE a = prev[b]
      <4>1. next[a] = b
        BY <3>1, <1>1, <1>3
      <4>2. rank[b] < rank[x]
        <5>1. rank[next[a]] <= rank[x] /\ rank[b] \in Int /\ rank[x] \in Int
          BY <1>3, <1>5, <1>7
        <5>2. rank[b] # rank[x]
          BY <1>5
        <5> QED BY <4>1, <5>1, <5>2
      <4> QED BY <4>2, <3>1, <1>2, <1>5
    <3> QED BY <3>1, <1>2, <1>5, <1>7
  <2>2. IsolatedPrev(b)[x] # 0 /\ rank[a] <= rank[IsolatedPrev(b)[x]]
    <3>1. CASE x = next[b]
      <4>1. prev[x] = b
        BY <3>1, <1>1, <1>3
      <4>2. rank[a] < rank[b]
        <5>1. rank[a] <= rank[prev[x]] /\ rank[a] \in Int /\ rank[b] \in Int
          BY <1>3, <1>5, <1>7
        <5>2. rank[a] # rank[b]
          BY <1>5
        <5> QED BY <4>1, <5>1, <5>2
      <4> QED BY <4>2, <3>1, <1>2, <1>5
    <3> QED BY <3>1, <1>2, <1>5, <1>7
  <2> QED BY <2>1, <2>2
<1> QED BY <1>5, <1>6, <1>7 DEF Lined

\* The ends of the list are the ends of the order.
LEMMA LastIsLast ==
  ASSUME IInv, NEW rank \in [Addr -> Int], Lined(rank, Free, next, prev), NEW x \in Free
  PROVE  /\ root.freeLast \in Free /\ rank[x] <= rank[root.freeLast]
         /\ root.free \in Free /\ rank[root.free] <= rank[x]
<1>1. \A a \in Free : rank[a] \in Int
  BY Shape
<1>2. root.free # 0 /\ root.freeLast # 0
  <2>1. root.free # 0
    <3> SUFFICES ASSUME root.free = 0 PROVE FALSE
      OBVIOUS
    <3>1. \A a \in Free : prev[a] \in Free
      BY Shape, AddrType DEF IInv, Linked, Chained
    <3> QED BY <3>1, NoRing
  <2> QED BY <2>1 DEF IInv, Linked, Chained
<1>3. /\ root.free \in Free /\ prev[root.free] = 0
      /\ root.freeLast \in Free /\ next[root.freeLast] = 0
  BY <1>2 DEF IInv, Linked, Chained
<1>4. ~(rank[root.freeLast] < rank[x]) /\ ~(rank[x] < rank[root.free])
  BY <1>3 DEF Lined
<1> QED BY <1>1, <1>3, <1>4

\* A block put at the tail comes after all others.
LEMMA AppendLined ==
  ASSUME NEW F \in SUBSET Addr, NEW nx, NEW pv, NEW head, NEW last, NEW e \in Addr,
         Chained(F, nx, pv, head, last), 0 \notin F, 0 \notin Addr, e \notin F,
         NEW rank \in [Addr -> Int], Lined(rank, F, nx, pv),
         \A x \in F : last \in F /\ rank[x] <= rank[last],
         NEW nx2, NEW pv2, nx2[e] = 0, pv2[e] = last,
         \A x \in F : /\ nx2[x] = IF x = last THEN e ELSE nx[x]
                      /\ pv2[x] = pv[x],
         NEW rank2 \in [Addr -> Int], \A x \in F : rank2[x] = rank[x] /\ rank[x] < rank2[e],
         NEW F2, F2 = F \cup {e}
  PROVE  Lined(rank2, F2, nx2, pv2)
<1>1. /\ last \in F \cup {0} /\ e # 0
      /\ \A x \in F : /\ nx[x] \in F \cup {0} /\ pv[x] \in F \cup {0} /\ rank[x] \in Int
                      /\ ((nx[x] = 0) <=> (last = x)) /\ ((pv[x] = 0) <=> (head = x))
  BY DEF Chained
<1>2. rank2[e] \in Int
  OBVIOUS
<1>3. /\ \A a \in F : nx[a] # 0 => rank[a] < rank[nx[a]]
      /\ \A a, x \in F :
           /\ rank[a] = rank[x] => a = x
           /\ rank[a] < rank[x] => /\ nx[a] # 0 /\ rank[nx[a]] <= rank[x]
                                   /\ pv[x] # 0 /\ rank[a] <= rank[pv[x]]
  BY DEF Lined
<1>4. \A x \in F : nx2[x] # 0 => rank2[x] < rank2[nx2[x]]
  BY <1>1, <1>2, <1>3
<1>5. ASSUME NEW a \in F2, NEW x \in F2
      PROVE  /\ rank2[a] = rank2[x] => a = x
             /\ rank2[a] < rank2[x] => /\ nx2[a] # 0 /\ rank2[nx2[a]] <= rank2[x]
                                       /\ pv2[x] # 0 /\ rank2[a] <= rank2[pv2[x]]
  <2>1. CASE a \in F /\ x \in F
    <3>1. nx2[a] = (IF a = last THEN e ELSE nx[a]) /\ pv2[x] = pv[x] /\ pv[x] \in F \cup {0}
      BY <2>1, <1>1
    <3>2. rank2[a] = rank[a] /\ rank2[x] = rank[x]
      BY <2>1
    <3>3. a = last => ~(rank[a] < rank[x])
      BY <2>1, <1>1
    <3> QED BY <2>1, <3>1, <3>2, <3>3, <1>1, <1>3
  <2>2. CASE a \in F /\ x = e
    <3>1. pv2[x] = last /\ last \in F /\ rank[a] <= rank[last]
      BY <2>2
    <3>2. nx2[a] = e \/ (nx2[a] \in F /\ a # last)
      BY <2>2, <1>1
    <3> QED BY <2>2, <3>1, <3>2, <1>1, <1>2
  <2>3. CASE a = e /\ x \in F
    BY <2>3, <1>1, <1>2
  <2> QED BY <2>1, <2>2, <2>3, <1>2
<1> QED BY <1>4, <1>5 DEF Lined

\* A block put at the head comes before all others.
LEMMA PushLined ==
  ASSUME NEW F \in SUBSET Addr, NEW nx, NEW pv, NEW head, NEW last, NEW e \in Addr,
         Chained(F, nx, pv, head, last), 0 \notin F, 0 \notin Addr, e \notin F,
         NEW rank \in [Addr -> Int], Lined(rank, F, nx, pv),
         \A x \in F : head \in F /\ rank[head] <= rank[x],
         NEW nx2, NEW pv2, nx2[e] = head, pv2[e] = 0,
         \A x \in F : /\ nx2[x] = nx[x]
                      /\ pv2[x] = IF x = head THEN e ELSE pv[x],
         NEW rank2 \in [Addr -> Int], \A x \in F : rank2[x] = rank[x] /\ rank2[e] < rank[x],
         NEW F2, F2 = F \cup {e}
  PROVE  Lined(rank2, F2, nx2, pv2)
<1>1. /\ head \in F \cup {0} /\ e # 0
      /\ \A x \in F : /\ nx[x] \in F \cup {0} /\ pv[x] \in F \cup {0} /\ rank[x] \in Int
                      /\ ((nx[x] = 0) <=> (last = x)) /\ ((pv[x] = 0) <=> (head = x))
  BY DEF Chained
<1>2. rank2[e] \in Int
  OBVIOUS
<1>3. /\ \A a \in F : nx[a] # 0 => rank[a] < rank[nx[a]]
      /\ \A a, x \in F :
           /\ rank[a] = rank[x] => a = x
           /\ rank[a] < rank[x] => /\ nx[a] # 0 /\ rank[nx[a]] <= rank[x]
                                   /\ pv[x] # 0 /\ rank[a] <= rank[pv[x]]
  BY DEF Lined
<1>4. \A x \in F2 : nx2[x] # 0 => rank2[x] < rank2[nx2[x]]
  BY <1>1, <1>2, <1>3
<1>5. ASSUME NEW a \in F2, NEW x \in F2
      PROVE  /\ rank2[a] = rank2[x] => a = x
             /\ rank2[a] < rank2[x] => /\ nx2[a] # 0 /\ rank2[nx2[a]] <= rank2[x]
                                       /\ pv2[x] # 0 /\ rank2[a] <= rank2[pv2[x]]
  <2>1. CASE a \in F /\ x \in F
    <3>1. nx2[a] = nx[a] /\ pv2[x] = (IF x = head THEN e ELSE pv[x]) /\ nx[a] \in F \cup {0}
      BY <2>1, <1>1
    <3>2. rank2[a] = rank[a] /\ rank2[x] = rank[x]
      BY <2>1
    <3>3. x = head => ~(rank[a] < rank[x])
      BY <2>1, <1>1
    <3> QED BY <2>1, <3>1, <3>2, <3>3, <1>1, <1>3
  <2>2. CASE a = e /\ x \in F
    <3>1. nx2[a] = head /\ head \in F /\ rank[head] <= rank[x]
      BY <2>2
    <3>2. pv2[x] = e \/ (pv2[x] \in F /\ x # head)
      BY <2>2, <1>1
    <3> QED BY <2>2, <3>1, <3>2, <1>1, <1>2
  <2>3. CASE a \in F /\ x = e
    BY <2>3, <1>1, <1>2
  <2> QED BY <2>1, <2>2, <2>3, <1>2
<1> QED BY <1>4, <1>5 DEF Lined

\* A block put in the place of another takes its rank.
LEMMA ReplaceLined ==
  ASSUME NEW F \in SUBSET Addr, NEW nx, NEW pv, NEW head, NEW last,
         NEW a \in F, NEW e \in Addr,
         Chained(F, nx, pv, head, last), 0 \notin F, 0 \notin Addr, e \notin F,
         NEW rank \in [Addr -> Int], Lined(rank, F, nx, pv),
         NEW nx2, NEW pv2, nx2[e] = nx[a], pv2[e] = pv[a],
         \A x \in F \ {a} : /\ nx2[x] = IF x = pv[a] THEN e ELSE nx[x]
                            /\ pv2[x] = IF x = nx[a] THEN e ELSE pv[x],
         NEW rank2 \in [Addr -> Int], rank2[e] = rank[a], \A x \in F : rank2[x] = rank[x],
         NEW F2, F2 = (F \ {a}) \cup {e}
  PROVE  Lined(rank2, F2, nx2, pv2)
<1> DEFINE Was(x) == IF x = e THEN a ELSE x
           Now(x) == IF x = 0 THEN 0 ELSE IF x = a THEN e ELSE x
<1>1. /\ e # 0 /\ a # e
      /\ \A x \in F : /\ nx[x] \in F \cup {0} /\ pv[x] \in F \cup {0} /\ rank[x] \in Int
                      /\ nx[x] # 0 => pv[nx[x]] = x
                      /\ pv[x] # 0 => nx[pv[x]] = x
  BY DEF Chained
<1>2. \A x \in F2 : Was(x) \in F /\ rank2[x] = rank[Was(x)]
  BY <1>1
<1>3. /\ \A x \in F : nx[x] # 0 => rank[x] < rank[nx[x]]
      /\ \A y, x \in F :
           /\ rank[y] = rank[x] => y = x
           /\ rank[y] < rank[x] => /\ nx[y] # 0 /\ rank[nx[y]] <= rank[x]
                                   /\ pv[x] # 0 /\ rank[y] <= rank[pv[x]]
  BY DEF Lined
<1>4. nx[a] # a /\ pv[a] # a
  BY <1>1, <1>3
<1>5. \A x \in F2 : /\ nx2[x] = Now(nx[Was(x)]) /\ pv2[x] = Now(pv[Was(x)])
  BY <1>1, <1>4
<1>6. \A x \in F : rank2[Now(x)] = rank[x] /\ (Now(x) # 0)
  BY <1>1
<1>7. ASSUME NEW y \in F2, NEW x \in F2
      PROVE  /\ nx2[y] # 0 => rank2[y] < rank2[nx2[y]]
             /\ rank2[y] = rank2[x] => y = x
             /\ rank2[y] < rank2[x] => /\ nx2[y] # 0 /\ rank2[nx2[y]] <= rank2[x]
                                       /\ pv2[x] # 0 /\ rank2[y] <= rank2[pv2[x]]
  <2>1. /\ Was(y) \in F /\ Was(x) \in F /\ rank2[y] = rank[Was(y)] /\ rank2[x] = rank[Was(x)]
        /\ nx2[y] = Now(nx[Was(y)]) /\ pv2[x] = Now(pv[Was(x)])
        /\ Was(y) = Was(x) => y = x
    BY <1>2, <1>5, <1>1
  <2>2. /\ nx[Was(y)] \in F \cup {0} /\ pv[Was(x)] \in F \cup {0} /\ Now(0) = 0
    BY <2>1, <1>1
  <2> HIDE DEF Was, Now
  <2> QED BY <2>1, <2>2, <1>3, <1>6
<1> QED BY <1>7 DEF Lined
-----------------------------------------------------------------------------
(* What the order is for *)

Big(x) == size[x] >= FootMin
Collating == op.pc \in {"collateA", "collateF", "collateP"}

\* A block that merges with what follows it, and one just given back, have yet
\* to be settled: their tag or their place is put right when the merge ends.
Unsettled(x) == Collating /\ x = op.cur
Fresh(y) == op.pc = "collateF" /\ y = op.cur

\* Two free neighbours stand in the list as they do in the arena.
InOrder(rank) ==
  \A x \in Free : Big(x) /\ After(x) \in Free /\ ~Unsettled(x) /\ ~Fresh(After(x))
                    => rank[x] < rank[After(x)]

\* What a walk has left behind has been merged with what follows it.
Behind(rank) ==
  op.pc \in {"visit", "collateA"} =>
    \A x \in Free : Big(x) /\ (op.cur = 0 \/ rank[x] < rank[op.cur]) => After(x) \notin Free

Ordered ==
  \E rank \in [Addr -> Int] :
    Lined(rank, Free, next, prev) /\ InOrder(rank) /\ Behind(rank)

\* No free block that bears a tag ends where the walk's choice begins: handing
\* the choice out makes no tag wrong.
BestClear ==
  Searching /\ op.best # 0 /\ op.best \in Free =>
    \A x \in Free : Big(x) /\ ~Unsettled(x) => After(x) # op.best

\* The tags are there, but for those of unsettled blocks and during a save.
Tags ==
  op.pc # "saving" =>
    \A x \in Free : Big(x) /\ ~Unsettled(x) /\ (After(x) \in Used \/ Fresh(After(x)))
                      => foot[After(x)] = size[x]

Order == Ordered /\ BestClear /\ Tags

\* Where a block ends: at the end of the arena, or at a block, which is no other's.
LEMMA Ends ==
  ASSUME IInv
  PROVE  /\ end \notin Blocks /\ end \in Nat
         /\ \A x \in Blocks : /\ After(x) \in Blocks \cup {end} /\ After(x) \in Nat /\ x < After(x)
                              /\ After(x) \in Blocks => After(x) < end
                              /\ x < end /\ After(x) <= end
         /\ \A x, y \in Blocks : /\ After(x) = After(y) => x = y
                                 /\ x < y => After(x) <= y
<1>1. /\ \A x \in Blocks : x \in Nat /\ size[x] \in Nat /\ size[x] >= VBHeapMin
      /\ VBHeapMin \in Nat \ {0} /\ end \in Nat
  BY Shape
<1>2. \A x \in Blocks : /\ x + size[x] = end \/ (x + size[x] \in Blocks /\ x + size[x] < end)
                        /\ \A y \in Blocks : y > x => y >= x + size[x]
  BY DEF IInv, Tiling, Tiles
<1>3. \A x \in Blocks : x < end /\ x < x + size[x] /\ x + size[x] \in Nat
  BY <1>1, <1>2
<1>4. ASSUME NEW x \in Blocks, NEW y \in Blocks, x + size[x] = y + size[y] PROVE x = y
  BY <1>1, <1>2, <1>3, <1>4
<1>5. ASSUME NEW x \in Blocks, NEW y \in Blocks, x < y PROVE x + size[x] <= y
  BY <1>1, <1>2, <1>5
<1>6. end \notin Blocks
  BY <1>1, <1>3
<1>7. \A x \in Blocks : x + size[x] <= end
  BY <1>1, <1>2, <1>3
<1> QED BY <1>1, <1>2, <1>3, <1>4, <1>5, <1>6, <1>7 DEF After

\* A merge that can go no further has no free block ahead of it.
LEMMA MergeOver ==
  ASSUME IInv, NEW a \in Free, ~CanAbsorb(a)
  PROVE  After(a) \notin Free
<1>1. a \in Blocks /\ Free \subseteq Blocks /\ \A x \in Free : size[x] > 0
  BY Shape
<1> QED BY <1>1, Ends DEF CanAbsorb

\* The empty list has no block.
LEMMA NoHead == ASSUME IInv, root.free = 0 \/ root.freeLast = 0 PROVE Free = {}
<1>1. root.free = 0
  BY DEF IInv, Linked, Chained
<1>2. \A a \in Free : prev[a] \in Free
  BY <1>1, Shape, AddrType DEF IInv, Linked, Chained
<1> QED BY <1>2, NoRing

\* What the end of a merge does to the tags.
LEMMA Retagged ==
  ASSUME IInv, NEW a \in Free
  PROVE  /\ CollatedFoot(a) \in [Addr -> Nat]
         /\ After(a) \in Used /\ Big(a) => CollatedFoot(a)[After(a)] = size[a]
         /\ \A e \in Addr \ {After(a)} : CollatedFoot(a)[e] = foot[e]
<1>1. a \in Addr /\ a \in Blocks /\ Used \subseteq Addr /\ Used \subseteq Blocks
      /\ foot \in [Addr -> Nat] /\ TypeOK
  BY Shape DEF IInv, TypeOK
<1>2. After(a) \in Used => After(a) < end /\ After(a) \in Addr /\ After(a) <= end
  BY <1>1, Ends
<1>3. CollatedFoot(a) \in [Addr -> Nat]
  BY <1>1, CollatedFootType
<1> QED BY <1>1, <1>2, <1>3 DEF CollatedFoot, StampFoot, Big, After

\* The end of a merge settles its block.
LEMMA Settles ==
  ASSUME IInv, Order, Collating, ~CanAbsorb(op.cur),
         UNCHANGED <<st, size, prev, next, end, root, used>>, foot' = CollatedFoot(op.cur),
         op'.pc # "collateA", op'.pc # "collateF", op'.pc # "saving"
  PROVE  /\ op.cur \in Free /\ After(op.cur) \notin Free
         /\ \A x \in Free : Big(x) /\ After(x) \in Used => foot'[After(x)] = size[x]
         /\ Tags'
<1>1. op.cur \in Free
  BY DEF IInv, Cursor, Collating
<1>2. After(op.cur) \notin Free
  BY <1>1, MergeOver
<1>3. Free \subseteq Blocks /\ Used \subseteq Addr
  BY Shape
<1>4. ASSUME NEW x \in Free, Big(x), After(x) \in Used PROVE foot'[After(x)] = size[x]
  <2>1. CASE x = op.cur
    BY <2>1, <1>1, <1>4, Retagged
  <2>2. CASE x # op.cur
    <3>1. foot[After(x)] = size[x]
      BY <2>2, <1>4 DEF Order, Tags, Unsettled, Collating
    <3>2. After(x) # After(op.cur) /\ After(x) \in Addr
      BY <2>2, <1>1, <1>3, <1>4, Ends
    <3> QED BY <3>1, <3>2, <1>1, Retagged
  <2> QED BY <2>1, <2>2
<1>5. Free' = Free /\ Used' = Used /\ \A x : Big(x)' = Big(x) /\ After(x)' = After(x)
  BY DEF Free, Used, Big, After
<1>6. Tags'
  BY <1>4, <1>5 DEF Tags, Fresh
<1> QED BY <1>1, <1>2, <1>4, <1>6
-----------------------------------------------------------------------------
(* Steps that leave the blocks alone *)

\* The order depends on the blocks, the links and the call in progress.
LEMMA SameBlocks ==
  ASSUME UNCHANGED <<st, size, prev, next>>
  PROVE  /\ Free' = Free /\ Used' = Used
         /\ \A x : (Big(x)' <=> Big(x)) /\ After(x)' = After(x)
         /\ \A rank : Lined(rank, Free, next, prev)' <=> Lined(rank, Free, next, prev)
BY DEF Free, Used, Big, After

\* Steps between calls, and those that end a walk.
LEMMA RestsOrder ==
  ASSUME IInv, Order, ~Collating, op.pc # "saving",
         UNCHANGED <<st, size, prev, next, foot>>,
         \/ op'.pc = "idle" \/ op'.pc = "saving"
         \/ op'.pc = "chosen" /\ op.pc = "visit" /\ op'.best = op.best
  PROVE  Order'
<1>1. PICK rank \in [Addr -> Int] : Lined(rank, Free, next, prev) /\ InOrder(rank)
  BY DEF Order, Ordered
<1>2. InOrder(rank)' /\ Behind(rank)'
  BY <1>1, SameBlocks DEF InOrder, Behind, Unsettled, Fresh, Collating
<1>3. Ordered'
  BY <1>1, <1>2, SameBlocks DEF Ordered
<1>4. BestClear'
  BY SameBlocks DEF Order, BestClear, Searching, Unsettled, Collating
<1>5. Tags'
  BY SameBlocks DEF Order, Tags, Unsettled, Fresh, Collating
<1> QED BY <1>3, <1>4, <1>5 DEF Order

\* Steps that take the walk to the head of the list: nothing is behind it.
LEMMA HeadsOrder ==
  ASSUME IInv, Order, ~Collating, op.pc # "saving",
         UNCHANGED <<st, size, prev, next, foot, root>>,
         op'.pc = "visit", op'.cur = root.free, op'.best = 0
  PROVE  Order'
<1>1. PICK rank \in [Addr -> Int] : Lined(rank, Free, next, prev) /\ InOrder(rank)
  BY DEF Order, Ordered
<1>2. InOrder(rank)'
  BY <1>1, SameBlocks DEF InOrder, Unsettled, Fresh, Collating
<1>3. Behind(rank)'
  <2>1. CASE root.free = 0
    BY <2>1, NoHead, SameBlocks DEF Behind
  <2>2. CASE root.free # 0
    <3>1. root.free \in Free /\ prev[root.free] = 0
      BY <2>2 DEF IInv, Linked, Chained
    <3>2. \A x \in Free : ~(rank[x] < rank[root.free])
      BY <3>1, <1>1 DEF Lined
    <3> QED BY <2>2, <3>2, SameBlocks DEF Behind
  <2> QED BY <2>1, <2>2
<1>4. Ordered'
  BY <1>1, <1>2, <1>3, SameBlocks DEF Ordered
<1>5. BestClear'
  BY DEF BestClear
<1>6. Tags'
  BY SameBlocks DEF Order, Tags, Unsettled, Fresh, Collating
<1> QED BY <1>4, <1>5, <1>6 DEF Order

LEMMA VisitOrder == ASSUME IInv, Order, Visit PROVE Order'
<1>1. /\ UNCHANGED <<st, size, prev, next, foot>> /\ op.pc = "visit" /\ op \in OpType
  BY DEF Visit, IInv, TypeOK
<1>2. CASE op' = NoOp
  BY <1>1, <1>2, RestsOrder DEF NoOp, Collating
<1>3. CASE op' = [op EXCEPT !.pc = "collateA", !.walked = @ + 1]
  <2>1. op'.pc = "collateA" /\ op'.cur = op.cur /\ op'.best = op.best
    BY <1>1, <1>3 DEF OpType
  <2>2. PICK rank \in [Addr -> Int] : Lined(rank, Free, next, prev) /\ InOrder(rank) /\ Behind(rank)
    BY DEF Order, Ordered
  <2>3. InOrder(rank)' /\ Behind(rank)'
    BY <1>1, <2>1, <2>2, SameBlocks DEF InOrder, Behind, Unsettled, Fresh, Collating
  <2>4. Ordered'
    BY <1>1, <2>2, <2>3, SameBlocks DEF Ordered
  <2>5. BestClear' /\ Tags'
    BY <1>1, <2>1, SameBlocks DEF Order, BestClear, Searching, Tags, Unsettled, Fresh, Collating
  <2> QED BY <2>4, <2>5 DEF Order
<1> QED BY <1>2, <1>3 DEF Visit, Finish

\* The block in hand is measured: it has no free block ahead, and, if it is
\* kept, none behind that bears a tag.
LEMMA MeasureOrder ==
  ASSUME IInv, Order, SkipSmall \/ TakeAtOnce \/ KeepBest PROVE Order'
<1> DEFINE a == op.cur
<1>1. /\ UNCHANGED <<st, size, prev, next, end, root, used>> /\ foot' = CollatedFoot(a)
      /\ op.pc = "collateA" /\ ~CanAbsorb(a) /\ op \in OpType /\ Collating /\ Searching
  BY DEF SkipSmall, TakeAtOnce, KeepBest, Measured, IInv, TypeOK, Collating, Searching
<1>2. /\ op'.pc \in {"visit", "chosen"}
      /\ op'.pc = "visit" => op'.cur = next[a]
      /\ op'.best \in {op.best, a}
  <2>1. CASE SkipSmall \/ TakeAtOnce
    BY <1>1, <2>1 DEF SkipSmall, TakeAtOnce, OpType
  <2>2. CASE KeepBest
    <3> DEFINE better == op.best = 0 \/ size[op.cur] < op.bestSize
               over == op.fits + 1 >= MaxFitWalk
               best == IF better THEN op.cur ELSE op.best
               bestSize == IF better THEN size[op.cur] ELSE op.bestSize
               pc == IF over THEN "chosen" ELSE "visit"
               cur == IF over THEN op.cur ELSE next[op.cur]
    <3>1. op' = [op EXCEPT !.best = best, !.bestSize = bestSize,
                           !.fits = op.fits + 1, !.pc = pc, !.cur = cur]
      BY <2>2 DEF KeepBest
    <3>2. op'.best = best /\ op'.pc = pc /\ op'.cur = cur
      <4> HIDE DEF best, bestSize, pc, cur
      <4> QED BY <1>1, <3>1 DEF OpType
    <3> QED BY <3>2
  <2> QED BY <2>1, <2>2
<1>3. a \in Free /\ After(a) \notin Free /\ Tags'
  BY <1>1, <1>2, Settles
<1>4. PICK rank \in [Addr -> Int] : Lined(rank, Free, next, prev) /\ InOrder(rank) /\ Behind(rank)
  BY DEF Order, Ordered
<1>5. Free \subseteq Addr /\ 0 \notin Free /\ 0 \notin Addr
  BY Shape, AddrType
<1>6. InOrder(rank)'
  BY <1>1, <1>2, <1>3, <1>4, SameBlocks DEF InOrder, Unsettled, Fresh, Collating
<1>7. \A x \in Free : Big(x) /\ (x = a \/ rank[x] < rank[a]) => After(x) \notin Free
  BY <1>1, <1>3, <1>4 DEF Behind
<1>8. Behind(rank)'
  <2> SUFFICES ASSUME op'.pc = "visit", NEW x \in Free, Big(x),
                      next[a] = 0 \/ rank[x] < rank[next[a]]
               PROVE  After(x) \notin Free
    BY <1>1, <1>2, SameBlocks DEF Behind
  <2>1. ~(rank[a] < rank[x])
    <3>1. next[a] # 0 => next[a] \in Free /\ rank[next[a]] \in Int
      BY <1>3, <1>5, Shape
    <3>2. rank[a] < rank[x] => next[a] # 0 /\ rank[next[a]] <= rank[x]
      BY <1>3, <1>4 DEF Lined
    <3> QED BY <3>1, <3>2, <1>5
  <2>2. rank[x] = rank[a] => x = a
    BY <1>3, <1>4 DEF Lined
  <2> QED BY <2>1, <2>2, <1>3, <1>5, <1>7
<1>9. Ordered'
  BY <1>1, <1>4, <1>6, <1>8, SameBlocks DEF Ordered
<1>10. BestClear'
  <2> SUFFICES ASSUME op'.best \in Free, NEW x \in Free, Big(x), After(x) = op'.best
               PROVE  FALSE
    BY <1>1, <1>2, SameBlocks DEF BestClear, Unsettled, Collating
  <2>1. x # a
    BY <1>3
  <2>2. CASE op'.best = a
    <3>1. rank[x] < rank[a]
      BY <1>1, <1>3, <1>4, <2>1, <2>2 DEF InOrder, Unsettled, Fresh
    <3> QED BY <3>1, <1>3, <1>7, <2>2
  <2>3. CASE op'.best = op.best
    BY <1>1, <1>5, <2>1, <2>3 DEF Order, BestClear, Unsettled
  <2> QED BY <2>2, <2>3, <1>2
<1> QED BY <1>3, <1>9, <1>10 DEF Order

\* Free has merged its block forward: whatever free block with a tag ends where
\* it begins is found, and merges next.
LEMMA ReleasedOrder == ASSUME IInv, Order, Released PROVE Order'
<1> DEFINE a == op.cur
           p == PrevFree(a)
<1>1. /\ UNCHANGED <<st, size, prev, next, end, root, used>> /\ foot' = CollatedFoot(a)
      /\ op.pc = "collateF" /\ ~CanAbsorb(a) /\ op \in OpType /\ Collating
  BY DEF Released, IInv, TypeOK, Collating
<1>2. /\ op'.pc \in {"idle", "collateP"} /\ (op'.pc = "collateP" => op'.cur = p)
      /\ (op'.pc = "idle" => p = 0)
  <2> HIDE DEF p
  <2>1. CASE p # 0 /\ op' = [op EXCEPT !.pc = "collateP", !.cur = p]
    BY <1>1, <2>1 DEF OpType
  <2>2. CASE p = 0 /\ op' = NoOp
    BY <2>2 DEF NoOp
  <2> QED BY <2>1, <2>2 DEF Released, Finish, p
<1>3. a \in Free /\ After(a) \notin Free /\ Tags'
  BY <1>1, <1>2, Settles
<1>4. ASSUME NEW x \in Free, Big(x), After(x) = a PROVE x = p /\ p # 0
  <2>1. x # a /\ x \in Nat \ {0} /\ size[x] \in Nat /\ a = x + size[x]
    BY <1>3, <1>4, Shape DEF After
  <2>2. foot[a] = size[x]
    BY <1>1, <1>4, <2>1 DEF Order, Tags, Unsettled, Fresh
  <2>3. a - foot[a] = x
    BY <2>1, <2>2
  <2> HIDE DEF a
  <2> QED BY <1>4, <2>1, <2>2, <2>3 DEF PrevFree, Big
<1>5. PICK rank \in [Addr -> Int] : Lined(rank, Free, next, prev) /\ InOrder(rank)
  BY DEF Order, Ordered
<1>6. InOrder(rank)'
  <2> SUFFICES ASSUME NEW x \in Free, Big(x), After(x) \in Free, ~Unsettled(x)'
               PROVE  rank[x] < rank[After(x)]
    BY <1>1, SameBlocks DEF InOrder
  <2>1. x # a
    BY <1>3
  <2>2. After(x) # a
    <3> SUFFICES ASSUME After(x) = a PROVE FALSE
      OBVIOUS
    <3>1. x = p /\ p # 0
      BY <1>4
    <3> HIDE DEF p
    <3> QED BY <3>1, <1>2 DEF Unsettled, Collating
  <2> QED BY <2>1, <2>2, <1>1, <1>5 DEF InOrder, Unsettled, Fresh
<1>7. Behind(rank)' /\ BestClear'
  BY <1>2 DEF Behind, BestClear, Searching
<1>8. Ordered'
  BY <1>1, <1>5, <1>6, <1>7, SameBlocks DEF Ordered
<1> QED BY <1>3, <1>7, <1>8 DEF Order

LEMMA RejoinedOrder == ASSUME IInv, Order, Rejoined PROVE Order'
<1>1. /\ UNCHANGED <<st, size, prev, next, end, root, used>> /\ foot' = CollatedFoot(op.cur)
      /\ op.pc = "collateP" /\ ~CanAbsorb(op.cur) /\ Collating /\ op' = NoOp
  BY DEF Rejoined, Finish, Collating
<1>2. op.cur \in Free /\ After(op.cur) \notin Free /\ Tags'
  BY <1>1, Settles DEF NoOp
<1>3. PICK rank \in [Addr -> Int] : Lined(rank, Free, next, prev) /\ InOrder(rank)
  BY DEF Order, Ordered
<1>4. InOrder(rank)' /\ Behind(rank)' /\ BestClear'
  BY <1>1, <1>2, <1>3, SameBlocks
  DEF InOrder, Behind, BestClear, Searching, Unsettled, Fresh, Collating, NoOp
<1>5. Ordered'
  BY <1>1, <1>3, <1>4, SameBlocks DEF Ordered
<1> QED BY <1>2, <1>4, <1>5 DEF Order

\* A caller's writes end before the first tag of another block.
LEMMA PayloadOrder ==
  ASSUME IInv, Order, NEW a \in Addr, WritePayload(a) PROVE Order'
<1>1. /\ UNCHANGED <<st, size, prev, next, op>> /\ op.pc = "idle" /\ a \in Used
      /\ foot' = [e \in Addr |-> IF e \in a + 1 .. After(a) THEN 0 ELSE foot[e]]
  BY DEF WritePayload
<1>2. Ordered' /\ BestClear'
  BY <1>1, SameBlocks
  DEF Order, Ordered, InOrder, Behind, BestClear, Searching, Unsettled, Fresh, Collating
<1>3. Tags'
  <2> SUFFICES ASSUME NEW x \in Free, Big(x), After(x) \in Used PROVE foot'[After(x)] = size[x]
    BY <1>1, SameBlocks DEF Tags, Fresh
  <2>1. foot[After(x)] = size[x]
    BY <1>1 DEF Order, Tags, Unsettled, Collating
  <2>2. x \in Blocks /\ a \in Blocks /\ x # a /\ After(x) \in Blocks /\ After(x) \in Addr
        /\ \A y \in Blocks : y \in Nat
    BY <1>1, Shape
  <2>3. After(x) # After(a) /\ (a < After(x) => After(a) <= After(x)) /\ After(a) \in Nat
    BY <2>2, Ends
  <2>4. After(x) \notin a + 1 .. After(a)
    BY <2>2, <2>3
  <2> QED BY <1>1, <2>1, <2>2, <2>4
<1> QED BY <1>2, <1>3 DEF Order

\* A save ends with the tags put back.
LEMMA RestoreOrder == ASSUME IInv, Order, SaveRestore PROVE Order'
<1>1. /\ UNCHANGED <<st, size, prev, next>> /\ op.pc = "saving" /\ op' = NoOp
      /\ foot' = [e \in Addr |->
                    IF \E a \in Free : Tagged(a) /\ After(a) = e
                      THEN size[CHOOSE a \in Free : Tagged(a) /\ After(a) = e] ELSE foot[e]]
  BY DEF SaveRestore, Finish
<1>2. Ordered' /\ BestClear'
  BY <1>1, SameBlocks
  DEF Order, Ordered, InOrder, Behind, BestClear, Searching, Unsettled, Fresh, Collating, NoOp
<1>3. Tags'
  <2> SUFFICES ASSUME NEW x \in Free, Big(x), After(x) \in Used PROVE foot'[After(x)] = size[x]
    BY <1>1, SameBlocks DEF Tags, Fresh, NoOp
  <2> DEFINE y == CHOOSE a \in Free : Tagged(a) /\ After(a) = After(x)
  <2>1. x \in Blocks /\ Free \subseteq Blocks /\ After(x) \in Addr
    BY Shape
  <2>2. Tagged(x)
    BY <2>1, Ends DEF Tagged, Big
  <2>3. y \in Free /\ After(y) = After(x)
    BY <2>2
  <2>4. y = x
    <3> HIDE DEF y
    <3> QED BY <2>1, <2>3, Ends
  <2>5. foot'[After(x)] = size[y]
    BY <1>1, <2>1, <2>2
  <2> QED BY <2>4, <2>5
<1> QED BY <1>2, <1>3 DEF Order
-----------------------------------------------------------------------------
(* Steps that change the blocks *)

LEMMA AbsorbOrder == ASSUME IInv, Order, Absorb PROVE Order'
<1> DEFINE a == op.cur
           b == After(a)
<1>1. /\ a \in Free /\ b \in Free /\ a # b /\ op' = op /\ Collating /\ end' = end
      /\ Free' = Free \ {b} /\ Used' = Used
      /\ \A x \in Addr \ {a, b} : size'[x] = size[x]
      /\ size'[a] = size[a] + size[b]
  BY AbsorbEffect DEF Collating
<1>2. /\ next' = IsolatedNext(b) /\ prev' = IsolatedPrev(b)
      /\ foot' = StampFoot(foot, a, size[a] + size[b], end) /\ foot \in [Addr -> Nat]
  BY DEF Absorb, IInv, TypeOK
<1>3. /\ Free \subseteq Addr /\ Free \subseteq Blocks /\ Used \subseteq Blocks
      /\ 0 \notin Addr /\ a \in Nat /\ size[a] \in Nat /\ size[b] \in Nat
  BY <1>1, Shape, AddrType
<1>4. \A x \in Free' \ {a} : After(x)' = After(x) /\ (Big(x)' <=> Big(x)) /\ x \in Free
  BY <1>1, <1>3 DEF After, Big
<1>5. After(a)' = After(b)
  BY <1>1, <1>3 DEF After
<1>6. PICK rank \in [Addr -> Int] : Lined(rank, Free, next, prev) /\ InOrder(rank) /\ Behind(rank)
  BY DEF Order, Ordered
<1>7. Lined(rank, Free', next', prev')
  <2> HIDE DEF b
  <2> QED BY <1>1, <1>2, <1>6, IsolateLined
<1>8. InOrder(rank)' /\ Behind(rank)'
  <2>1. ASSUME NEW x \in Free', Big(x)', After(x)' \in Free', ~Unsettled(x)', ~Fresh(After(x))'
        PROVE  rank[x] < rank[After(x)']
    <3>1. x # a
      BY <1>1, <2>1 DEF Unsettled, Collating
    <3>2. Big(x) /\ After(x) = After(x)' /\ x \in Free /\ After(x) \in Free
      BY <1>1, <1>4, <2>1, <3>1
    <3>3. ~Unsettled(x) /\ ~Fresh(After(x))
      BY <1>1, <2>1, <3>2 DEF Unsettled, Fresh, Collating
    <3> QED BY <1>6, <3>2, <3>3 DEF InOrder
  <2>2. ASSUME op'.pc \in {"visit", "collateA"}, NEW x \in Free', Big(x)',
               op'.cur = 0 \/ rank[x] < rank[op'.cur]
        PROVE  After(x)' \notin Free'
    <3>1. a \in Addr /\ rank[a] \in Int
      BY <1>1, <1>3
    <3>2. x # a
      BY <1>1, <1>3, <2>2, <3>1
    <3> QED BY <1>1, <1>4, <1>6, <2>2, <3>2 DEF Behind
  <2> QED BY <2>1, <2>2 DEF InOrder, Behind
<1>9. Ordered'
  BY <1>7, <1>8 DEF Ordered
<1>10. BestClear'
  <2> SUFFICES ASSUME Searching', op'.best # 0, op'.best \in Free', NEW x \in Free', Big(x)',
                      ~Unsettled(x)'
               PROVE  After(x)' # op'.best
    BY DEF BestClear
  <2>1. x # a /\ Searching /\ op.best # 0 /\ op.best \in Free
    BY <1>1 DEF Unsettled, Collating, Searching
  <2> QED BY <1>1, <1>4, <2>1 DEF Order, BestClear, Unsettled
<1>11. Tags'
  <2> SUFFICES ASSUME op'.pc # "saving", NEW x \in Free', Big(x)', ~Unsettled(x)',
                      After(x)' \in Used' \/ Fresh(After(x))'
               PROVE  foot'[After(x)'] = size'[x]
    BY DEF Tags
  <2>1. x # a /\ x # b
    BY <1>1 DEF Unsettled, Collating
  <2>2. x \in Free /\ Big(x) /\ After(x)' = After(x) /\ size'[x] = size[x] /\ ~Unsettled(x)
    BY <1>1, <1>3, <1>4, <2>1 DEF Unsettled
  <2>3. After(x) \in Used \/ Fresh(After(x))
    BY <1>1, <2>2 DEF Fresh
  <2>4. foot[After(x)] = size[x]
    BY <1>1, <2>2, <2>3 DEF Order, Tags
  <2>5. After(x) # a + (size[a] + size[b])
    <3>1. After(x) # After(b)
      BY <1>1, <1>3, <2>1, <2>2, Ends
    <3> QED BY <3>1, <1>3 DEF After
  <2>6. foot'[After(x)] = foot[After(x)]
    <3>1. After(x) \in Addr
      BY <1>1, <1>3, <2>3, Shape DEF Fresh
    <3> QED BY <1>2, <2>5, <3>1 DEF StampFoot
  <2> QED BY <2>2, <2>4, <2>6
<1> QED BY <1>9, <1>10, <1>11 DEF Order

\* The arena grows by a block at the tail: a block before it is also ahead of it.
LEMMA GrowOrder == ASSUME IInv, Order, Grow PROVE Order'
<1>1. op.pc = "visit" /\ op \in OpType
  BY DEF Grow, IInv, TypeOK
<1>2. CASE UNCHANGED <<st, size, prev, next, foot, end, root>>
  <2>1. CASE op' = NoOp
    BY <1>1, <1>2, <2>1, RestsOrder DEF NoOp, Collating
  <2>2. CASE end' = end + CapGrowth(op.n)
    <3>1. CapGrowth(op.n) \in Nat /\ op.n <= CapGrowth(op.n)
      <4>1. op.n \in Nat /\ op.n > 0 /\ op.n <= ArenaRoom
        BY <1>1, Shape DEF Grow, IInv, Cursor, OpType
      <4> QED BY <4>1, CapGrowthFits
    <3>2. op.n \in Nat /\ op.n > 0 /\ end \in Nat
      BY <1>1, Shape DEF IInv, Cursor, OpType
    <3> QED BY <1>2, <2>2, <3>1, <3>2
  <2> QED BY <2>1, <2>2 DEF Grow, Finish
<1>3. CASE ~UNCHANGED <<st, size, prev, next, foot, end, root>>
  <2> DEFINE extra == CapGrowth(op.n)
             head == IF root.free = 0 THEN end ELSE root.free
  <2>1. /\ end \notin Blocks /\ extra \in Nat /\ op.n <= extra /\ end' = end + extra
        /\ Free' = Free \cup {end} /\ Used' = Used
        /\ size'[end] = extra /\ \A x \in Addr \ {end} : size'[x] = size[x]
    BY <1>3, GrowEffect
  <2>2. /\ prev' = [prev EXCEPT ![end] = root.freeLast]
        /\ next' = [x \in Addr |-> IF x = end THEN 0
                                   ELSE IF x = root.freeLast THEN end ELSE next[x]]
        /\ foot' = StampFoot(foot, end, extra, end + extra)
        /\ op' = Restart([op EXCEPT !.resizes = @ + 1], head)
    BY <1>3 DEF Grow
  <2>3. /\ Free \in SUBSET Addr /\ 0 \notin Addr /\ 0 \notin Free /\ end \in Addr /\ end \in Nat
        /\ end \notin Free /\ Free \subseteq Blocks /\ Used \subseteq Blocks
        /\ foot \in [Addr -> Nat] /\ prev \in [Addr -> Addr \cup {0}]
    BY <2>1, Shape, AddrType DEF IInv, TypeOK
  <2>4. /\ op'.pc = "visit" /\ op'.cur = head /\ op'.best = 0
    BY <1>1, <2>2 DEF Restart, OpType
  <2> HIDE DEF extra
  <2>5. op.n > 0 /\ extra > 0
    <3>1. op.n \in Nat /\ op.n > 0
      BY <1>1, Shape DEF IInv, Cursor, OpType
    <3> QED BY <2>1, <3>1
  <2>6. PICK rank \in [Addr -> Int] : Lined(rank, Free, next, prev) /\ InOrder(rank)
    BY DEF Order, Ordered
  <2> DEFINE high == IF root.freeLast = 0 THEN 0 ELSE rank[root.freeLast] + 1
             longer == [rank EXCEPT ![end] = high]
  <2>6a. /\ longer \in [Addr -> Int] /\ Lined(longer, Free', next', prev')
        /\ \A x \in Free : longer[x] = rank[x] /\ rank[x] < longer[end]
    <3>1. Chained(Free, next, prev, root.free, root.freeLast)
      BY DEF IInv, Linked
    <3>2. \A x \in Free : root.freeLast \in Free /\ rank[x] <= rank[root.freeLast]
      BY <2>6, LastIsLast
    <3>3. /\ next'[end] = 0 /\ prev'[end] = root.freeLast
          /\ \A x \in Free : /\ next'[x] = IF x = root.freeLast THEN end ELSE next[x]
                             /\ prev'[x] = prev[x]
      BY <2>2, <2>3
    <3>4. /\ Free \in SUBSET Addr /\ end \in Addr /\ 0 \notin Free /\ 0 \notin Addr
          /\ end \notin Free /\ Lined(rank, Free, next, prev) /\ rank \in [Addr -> Int]
          /\ Free' = Free \cup {end}
      BY <2>1, <2>3, <2>6
    <3>5. high \in Int /\ \A x \in Free : rank[x] \in Int /\ rank[x] < high
      <4>1. root.freeLast \in Free \cup {0}
        BY Shape
      <4> QED BY <3>2, <3>4, <4>1
    <3>6. longer \in [Addr -> Int] /\ \A x \in Free : longer[x] = rank[x] /\ rank[x] < longer[end]
      <4> HIDE DEF high
      <4> QED BY <3>4, <3>5
    <3> HIDE DEF Free, Addr, longer
    <3>7. Lined(longer, Free', next', prev')
      BY ONLY <3>1, <3>2, <3>3, <3>4, <3>6, AppendLined
    <3> QED BY <3>6, <3>7
  <2> HIDE DEF longer
  <2>7. PICK rank2 \in [Addr -> Int] :
          /\ Lined(rank2, Free', next', prev')
          /\ \A x \in Free : rank2[x] = rank[x] /\ rank[x] < rank2[end]
    BY <2>6a
  <2>8. \A x \in Free : /\ After(x)' = After(x) /\ (Big(x)' <=> Big(x)) /\ size'[x] = size[x]
                        /\ ~(After(x) = end + extra)
    <3>1. \A x \in Free : size'[x] = size[x] /\ After(x) <= end /\ After(x) \in Nat
      BY <2>1, <2>3, Ends
    <3> QED BY <2>1, <2>3, <2>5, <3>1 DEF After, Big
  <2>9. /\ \A x \in Addr : x = end => After(x)' = end + extra
        /\ end + extra \notin Free' /\ end + extra \notin Used'
    <3>1. \A x \in Blocks : x \in Nat /\ x < end
      BY Ends, Shape
    <3> QED BY <2>1, <2>3, <2>5, <3>1 DEF After
  <2>10. InOrder(rank2)'
    <3> SUFFICES ASSUME NEW x \in Free', Big(x)', After(x)' \in Free'
                 PROVE  rank2[x] < rank2[After(x)']
      BY DEF InOrder
    <3>1. x \in Free
      BY <2>1, <2>3, <2>9
    <3>2. CASE After(x) = end
      BY <2>7, <2>8, <3>1, <3>2
    <3>3. CASE After(x) # end
      <4>1. After(x) \in Free /\ Big(x)
        BY <2>1, <2>8, <3>1, <3>3
      <4>2. rank[x] < rank[After(x)]
        BY <1>1, <2>6, <3>1, <4>1 DEF InOrder, Unsettled, Fresh, Collating
      <4> QED BY <2>7, <2>8, <3>1, <4>1, <4>2
    <3> QED BY <3>2, <3>3
  <2>11. Behind(rank2)'
    <3>1. head \in Free' /\ head # 0 /\ prev'[head] = 0
      <4>1. CASE root.free = 0
        <5>1. root.freeLast = 0
          BY <4>1 DEF IInv, Linked, Chained
        <5> QED BY <4>1, <5>1, <2>1, <2>2, <2>3
      <4>2. CASE root.free # 0
        <5>1. root.free \in Free /\ prev[root.free] = 0
          BY <4>2 DEF IInv, Linked, Chained
        <5> QED BY <4>2, <5>1, <2>1, <2>2, <2>3
      <4> QED BY <4>1, <4>2
    <3>2. \A x \in Free' : ~(rank2[x] < rank2[head])
      BY <2>1, <2>7, <3>1 DEF Lined
    <3> HIDE DEF head
    <3> QED BY <2>4, <3>1, <3>2 DEF Behind
  <2>12. Ordered'
    BY <2>1, <2>7, <2>10, <2>11 DEF Ordered
  <2>13. BestClear'
    BY <2>4 DEF BestClear
  <2>14. Tags'
    <3> SUFFICES ASSUME NEW x \in Free', Big(x)', After(x)' \in Used'
                 PROVE  foot'[After(x)'] = size'[x]
      BY <2>4 DEF Tags, Fresh
    <3>1. x \in Free /\ After(x)' = After(x) /\ Big(x) /\ size'[x] = size[x] /\ After(x) \in Used
      BY <2>1, <2>3, <2>8, <2>9
    <3>2. foot[After(x)] = size[x]
      BY <1>1, <3>1 DEF Order, Tags, Unsettled, Collating
    <3>3. foot'[After(x)] = foot[After(x)]
      <4>1. After(x) \in Addr
        BY <3>1, Shape
      <4> QED BY <2>2, <2>3, <2>8, <3>1, <4>1 DEF StampFoot
    <3> QED BY <3>1, <3>2, <3>3
  <2> QED BY <2>12, <2>13, <2>14 DEF Order
<1> QED BY <1>2, <1>3

LEMMA AdoptOrder == ASSUME IInv, Order, Adopt PROVE Order'
<1> DEFINE a == op.best
<1>1. /\ a \in Free /\ Free' = Free \ {a} /\ Used' = Used \cup {a} /\ size' = size
      /\ op' = NoOp
  BY AdoptEffect
<1>2. /\ next' = IsolatedNext(a) /\ prev' = IsolatedPrev(a) /\ foot' = foot /\ op.pc = "chosen"
  BY DEF Adopt
<1>3. \A x : After(x)' = After(x) /\ (Big(x)' <=> Big(x))
  BY <1>1 DEF After, Big
<1>4. a # 0
  BY <1>1, Shape, AddrType
<1>5. PICK rank \in [Addr -> Int] : Lined(rank, Free, next, prev) /\ InOrder(rank)
  BY DEF Order, Ordered
<1>6. Lined(rank, Free', next', prev')
  BY <1>1, <1>2, <1>5, IsolateLined
<1>7. InOrder(rank)' /\ Behind(rank)' /\ BestClear'
  BY <1>1, <1>2, <1>3, <1>5
  DEF InOrder, Behind, BestClear, Searching, Unsettled, Fresh, Collating, NoOp
<1>8. Ordered'
  BY <1>6, <1>7 DEF Ordered
<1>9. Tags'
  <2> SUFFICES ASSUME NEW x \in Free', Big(x), After(x) \in Used' PROVE foot[After(x)] = size[x]
    BY <1>1, <1>2, <1>3 DEF Tags, Fresh, NoOp
  <2>1. x \in Free
    BY <1>1
  <2>2. After(x) # a
    BY <1>1, <1>2, <1>4, <2>1 DEF Order, BestClear, Searching, Unsettled, Collating
  <2> QED BY <1>1, <1>2, <2>1, <2>2 DEF Order, Tags, Unsettled, Collating
<1> QED BY <1>7, <1>8, <1>9 DEF Order

LEMMA SplitOrder == ASSUME IInv, Order, Split PROVE Order'
<1> DEFINE a == op.best
           e == a + op.n
<1>1. /\ a \in Free /\ a \notin Used /\ e \notin Blocks /\ e # a /\ e \in Addr
      /\ op.n \in Nat /\ op.n >= VBHeapMin /\ size[a] \in Nat /\ size[a] - op.n >= VBHeapMin
      /\ Free' = (Free \ {a}) \cup {e} /\ Used' = Used \cup {a}
      /\ size'[a] = op.n /\ size'[e] = size[a] - op.n
      /\ \A x \in Addr \ {a, e} : size'[x] = size[x]
      /\ op' = NoOp /\ end' = end
  BY SplitEffect
<1>2. /\ op.pc = "chosen"
      /\ next' = [x \in Addr |-> IF x = e THEN next[a] ELSE IF x = a THEN 0
                                 ELSE IF x = prev[a] THEN e ELSE next[x]]
      /\ prev' = [x \in Addr |-> IF x = e THEN prev[a] ELSE IF x = a THEN 0
                                 ELSE IF x = next[a] THEN e ELSE prev[x]]
      /\ foot' = StampFoot(foot, e, size[a] - op.n, end) /\ foot \in [Addr -> Nat]
  BY DEF Split, IInv, TypeOK
<1>3. /\ Free \in SUBSET Addr /\ 0 \notin Addr /\ 0 \notin Free /\ e \notin Free /\ a \in Addr
      /\ a # 0 /\ Free \subseteq Blocks /\ Used \subseteq Blocks /\ a \in Nat \ {0}
      /\ VBHeapMin \in Nat \ {0}
  BY <1>1, Shape, AddrType
<1>4. \A x \in Addr : x = e => /\ After(x)' = After(a)
                               /\ Big(x)' => size[a] - op.n >= FootMin /\ Big(a)
  <2> SUFFICES ASSUME NEW x \in Addr, x = e
               PROVE  /\ After(x)' = After(a)
                      /\ Big(x)' => size[a] - op.n >= FootMin /\ Big(a)
    OBVIOUS
  <2>1. After(x)' = e + (size[a] - op.n) /\ After(a) = a + size[a]
    BY <1>1 DEF After
  <2>2. Big(x)' => size[a] - op.n >= FootMin
    BY <1>1 DEF Big
  <2> QED BY <1>1, <1>3, <2>1, <2>2, LayoutAssumption DEF Big
<1>5. \A x \in Free \ {a} : /\ After(x)' = After(x) /\ (Big(x)' <=> Big(x)) /\ size'[x] = size[x]
                            /\ After(x) # After(a) /\ After(x) # e
  <2>1. \A x \in Free \ {a} : size'[x] = size[x] /\ After(x) # After(a)
    BY <1>1, <1>3, Ends
  <2>2. e # end
    <3>1. After(a) <= end /\ After(a) = a + size[a] /\ end \in Nat
      BY <1>1, <1>3, Ends DEF After
    <3> QED BY <1>1, <1>3, <3>1
  <2>3. \A x \in Free : After(x) # e
    BY <1>1, <1>3, <2>2, Ends
  <2> QED BY <2>1, <2>3 DEF After, Big
<1>6. \A x \in Free : Big(x) => After(x) # a
  BY <1>1, <1>2, <1>3 DEF Order, BestClear, Searching, Unsettled, Collating
<1>7. PICK rank \in [Addr -> Int] : Lined(rank, Free, next, prev) /\ InOrder(rank)
  BY DEF Order, Ordered
<1> DEFINE moved == [rank EXCEPT ![e] = rank[a]]
<1>7a. moved \in [Addr -> Int] /\ moved[e] = rank[a] /\ \A x \in Free : moved[x] = rank[x]
  <2> HIDE DEF e, a
  <2> QED BY <1>1, <1>3
<1> HIDE DEF moved
<1>7b. Lined(moved, Free', next', prev')
  <2>1. Chained(Free, next, prev, root.free, root.freeLast)
    BY DEF IInv, Linked
  <2>2. /\ next'[e] = next[a] /\ prev'[e] = prev[a]
        /\ \A x \in Free \ {a} : /\ next'[x] = IF x = prev[a] THEN e ELSE next[x]
                                 /\ prev'[x] = IF x = next[a] THEN e ELSE prev[x]
    BY <1>1, <1>2, <1>3
  <2>3. /\ Free' = (Free \ {a}) \cup {e} /\ a \in Free /\ e \in Addr /\ e \notin Free
        /\ Free \in SUBSET Addr /\ 0 \notin Free /\ 0 \notin Addr
        /\ rank \in [Addr -> Int] /\ Lined(rank, Free, next, prev)
    BY <1>1, <1>3, <1>7
  <2>4. /\ moved \in [Addr -> Int] /\ moved[e] = rank[a]
        /\ \A x \in Free : moved[x] = rank[x]
    BY <1>7a
  <2> HIDE DEF a, e, Free, Addr
  <2> QED BY ONLY <2>1, <2>2, <2>3, <2>4, ReplaceLined, SMTT(60)
<1>8. PICK rank2 \in [Addr -> Int] :
        /\ Lined(rank2, Free', next', prev')
        /\ rank2[e] = rank[a] /\ \A x \in Free : rank2[x] = rank[x]
  BY <1>7a, <1>7b
<1>10. InOrder(rank2)'
  <2> SUFFICES ASSUME NEW x \in Free', Big(x)', After(x)' \in Free'
               PROVE  rank2[x] < rank2[After(x)']
    BY DEF InOrder
  <2> HIDE DEF e
  <2>1. CASE x = e
    <3>1. After(a) \in Free /\ Big(a) /\ After(x)' = After(a)
      <4>1. After(a) # e
        BY <1>1, <1>3 DEF After, e
      <4> QED BY <1>1, <1>3, <1>4, <2>1, <4>1
    <3>2. rank[a] < rank[After(a)]
      BY <1>1, <1>2, <1>7, <3>1 DEF InOrder, Unsettled, Fresh, Collating
    <3> QED BY <1>8, <2>1, <3>1, <3>2
  <2>2. CASE x # e
    <3>1. x \in Free /\ x # a /\ Big(x) /\ After(x)' = After(x) /\ After(x) \in Free
      BY <1>1, <1>5, <2>2
    <3>2. rank[x] < rank[After(x)]
      BY <1>2, <1>7, <3>1 DEF InOrder, Unsettled, Fresh, Collating
    <3> QED BY <1>8, <3>1, <3>2
  <2> QED BY <2>1, <2>2
<1>11. Behind(rank2)' /\ BestClear'
  <2>1. op'.pc = "idle"
    BY <1>1 DEF NoOp
  <2> QED BY <2>1 DEF Behind, BestClear, Searching
<1>12. Ordered'
  BY <1>1, <1>8, <1>10, <1>11 DEF Ordered
<1>13. Tags'
  <2> SUFFICES ASSUME NEW x \in Free', Big(x)', After(x)' \in Used'
               PROVE  foot'[After(x)'] = size'[x]
    BY <1>1 DEF Tags, Fresh, NoOp
  <2> DEFINE extra == size[a] - op.n
  <2>0. e + extra = After(a) /\ After(a) <= end /\ After(a) # a
    <3>1. After(a) = a + size[a] /\ After(a) <= end
      BY <1>1, <1>3, Ends DEF After
    <3> QED BY <1>1, <1>3, <3>1
  <2>1. CASE x = e
    <3>1. After(x)' = After(a) /\ size'[x] = extra /\ extra >= FootMin
      BY <1>1, <1>4, <2>1 DEF Big
    <3>2. After(a) \in Addr
      BY <1>1, <1>3, <3>1, Shape
    <3> HIDE DEF extra, e, a
    <3> QED BY <1>2, <2>0, <3>1, <3>2 DEF StampFoot, extra
  <2>2. CASE x # e
    <3>1. /\ x \in Free /\ x # a /\ Big(x) /\ After(x)' = After(x) /\ size'[x] = size[x]
          /\ After(x) \in Used /\ After(x) # After(a)
      BY <1>1, <1>5, <1>6, <2>2
    <3>2. foot[After(x)] = size[x]
      BY <1>2, <3>1 DEF Order, Tags, Unsettled, Collating
    <3>3. After(x) \in Addr
      BY <3>1, Shape
    <3>4. foot'[After(x)] = foot[After(x)]
      <4> HIDE DEF extra, e
      <4> QED BY <1>2, <2>0, <3>1, <3>3 DEF StampFoot, extra
    <3> QED BY <3>1, <3>2, <3>4
  <2> QED BY <2>1, <2>2
<1> QED BY <1>11, <1>12, <1>13 DEF Order

\* Free puts its block before all others; what ends where it begins is found later.
LEMMA FreeOrder == ASSUME IInv, Order, NEW a \in Addr, FreeCall(a) PROVE Order'
<1>1. /\ a \in Used /\ a \notin Free
      /\ Used' = Used \ {a} /\ Free' = Free \cup {a} /\ size' = size
  BY FreeEffect
<1>2. /\ op.pc = "idle" /\ op' = [NoOp EXCEPT !.pc = "collateF", !.cur = a] /\ foot' = foot
      /\ prev' = [x \in Addr |-> IF x = a THEN 0 ELSE IF x = root.free THEN a ELSE prev[x]]
      /\ next' = [next EXCEPT ![a] = root.free]
  BY DEF FreeCall
<1>3. op'.pc = "collateF" /\ op'.cur = a
  BY <1>2 DEF NoOp
<1>4. \A x : After(x)' = After(x) /\ (Big(x)' <=> Big(x))
  BY <1>1 DEF After, Big
<1>5. PICK rank \in [Addr -> Int] : Lined(rank, Free, next, prev) /\ InOrder(rank)
  BY DEF Order, Ordered
<1> DEFINE low == IF root.free = 0 THEN 0 ELSE rank[root.free] - 1
           longer == [rank EXCEPT ![a] = low]
<1>5a. /\ longer \in [Addr -> Int] /\ Lined(longer, Free', next', prev')
      /\ \A x \in Free : longer[x] = rank[x]
  <2>1. /\ Chained(Free, next, prev, root.free, root.freeLast)
        /\ \A x \in Free : root.free \in Free /\ rank[root.free] <= rank[x]
    BY <1>5, LastIsLast DEF IInv, Linked
  <2>2. Free \in SUBSET Addr /\ 0 \notin Free /\ 0 \notin Addr /\ next \in [Addr -> Addr \cup {0}]
    BY Shape, AddrType DEF IInv, TypeOK
  <2>3. /\ next'[a] = root.free /\ prev'[a] = 0
        /\ \A x \in Free : /\ next'[x] = next[x]
                           /\ prev'[x] = IF x = root.free THEN a ELSE prev[x]
    BY <1>1, <1>2, <2>2
  <2>4. /\ Free \in SUBSET Addr /\ a \in Addr /\ 0 \notin Free /\ 0 \notin Addr
        /\ a \notin Free /\ Lined(rank, Free, next, prev) /\ rank \in [Addr -> Int]
        /\ Free' = Free \cup {a}
    BY <1>1, <1>5, <2>2
  <2>5. low \in Int /\ \A x \in Free : rank[x] \in Int /\ low < rank[x]
    <3>1. root.free \in Free \cup {0}
      BY Shape
    <3> QED BY <2>1, <2>4, <3>1
  <2>6. longer \in [Addr -> Int] /\ \A x \in Free : longer[x] = rank[x] /\ longer[a] < rank[x]
    <3> HIDE DEF low
    <3> QED BY <2>4, <2>5
  <2> HIDE DEF Free, Addr, longer
  <2>7. Lined(longer, Free', next', prev')
    BY ONLY <2>1, <2>3, <2>4, <2>6, PushLined
  <2> QED BY <2>6, <2>7
<1> HIDE DEF longer
<1>6. PICK rank2 \in [Addr -> Int] :
        Lined(rank2, Free', next', prev') /\ \A x \in Free : rank2[x] = rank[x]
  BY <1>5a
<1>7. InOrder(rank2)'
  <2> SUFFICES ASSUME NEW x \in Free', Big(x), After(x) \in Free', ~Unsettled(x)',
                      ~Fresh(After(x))'
               PROVE  rank2[x] < rank2[After(x)]
    BY <1>4 DEF InOrder
  <2>1. x \in Free /\ After(x) \in Free
    BY <1>1, <1>3, <1>4 DEF Unsettled, Fresh, Collating
  <2> QED BY <1>2, <1>5, <1>6, <2>1 DEF InOrder, Unsettled, Fresh, Collating
<1>8. Behind(rank2)' /\ BestClear'
  BY <1>3 DEF Behind, BestClear, Searching
<1>9. Ordered'
  BY <1>1, <1>6, <1>7, <1>8 DEF Ordered
<1>10. Tags'
  <2> SUFFICES ASSUME NEW x \in Free', Big(x), ~Unsettled(x)',
                      After(x) \in Used' \/ Fresh(After(x))'
               PROVE  foot[After(x)] = size[x]
    BY <1>1, <1>2, <1>4 DEF Tags
  <2>1. x \in Free /\ After(x) \in Used
    BY <1>1, <1>3, <1>4 DEF Unsettled, Fresh, Collating
  <2> QED BY <1>2, <2>1 DEF Order, Tags, Unsettled, Collating
<1> QED BY <1>8, <1>9, <1>10 DEF Order
-----------------------------------------------------------------------------
(* The order is kept *)

LEMMA OrderInit == ASSUME Aligned, Init PROVE Order
<1>1. IInv
  BY InitInv
<1>2. /\ st = [a \in Addr |-> IF a = First THEN "free" ELSE "none"]
      /\ next = [a \in Addr |-> 0] /\ prev = [a \in Addr |-> 0] /\ op = NoOp
  BY DEF Init
<1>3. Free \subseteq {First} /\ Used = {}
  BY <1>2 DEF Free, Used
<1>4. \A x \in Free : After(x) \notin Free
  <2> SUFFICES ASSUME NEW x \in Free, After(x) \in Free PROVE FALSE
    OBVIOUS
  <2>1. x \in Blocks /\ x \in Nat /\ After(x) = x
    BY <1>1, <1>3, Shape
  <2> QED BY <1>1, <2>1, Ends
<1> DEFINE rank == [a \in Addr |-> 0]
<1>a. rank \in [Addr -> Int] /\ \A x \in Addr : rank[x] = 0
  OBVIOUS
<1> HIDE DEF rank
<1>5. PICK level \in [Addr -> Int] : \A x \in Addr : level[x] = 0
  BY <1>a
<1>6. Lined(level, Free, next, prev)
  BY <1>2, <1>3, <1>5 DEF Lined, Free
<1>7. InOrder(level) /\ Behind(level)
  BY <1>2, <1>4 DEF InOrder, Behind, NoOp
<1>8. BestClear /\ Tags
  BY <1>2, <1>3 DEF BestClear, Tags, Searching, Fresh, NoOp
<1> QED BY <1>6, <1>7, <1>8 DEF Order, Ordered

\* Steps that begin a walk, or end a call without touching a block.
LEMMA CallOrder ==
  ASSUME IInv, Order, Retry \/ GrowRefused \/ WalkEnds \/ SaveScrub
                      \/ \E req \in Requests : AllocCall(req)
  PROVE  Order'
<1>1. op \in OpType
  BY DEF IInv, TypeOK
<1>2. CASE SaveScrub
  <2>1. UNCHANGED <<st, size, prev, next>> /\ op.pc = "idle" /\ op'.pc = "saving"
    BY <1>2 DEF SaveScrub, NoOp
  <2>2. Ordered' /\ BestClear' /\ Tags'
    BY <2>1, SameBlocks
    DEF Order, Ordered, InOrder, Behind, BestClear, Searching, Tags, Unsettled, Fresh, Collating
  <2> QED BY <2>2 DEF Order
<1>3. CASE WalkEnds
  <2>1. op'.pc = "chosen" /\ op.pc = "visit" /\ op'.best = op.best
    BY <1>1, <1>3 DEF WalkEnds, OpType
  <2> QED BY <1>3, <2>1, RestsOrder DEF WalkEnds, Collating
<1>4. CASE GrowRefused
  BY <1>4, RestsOrder DEF GrowRefused, Finish, NoOp, Collating
<1>5. CASE Retry
  <2>1. CASE op' = NoOp
    BY <1>5, <2>1, RestsOrder DEF Retry, NoOp, Collating
  <2>2. CASE op' = Restart([op EXCEPT !.firstFit = TRUE], root.free)
    <3>1. op'.pc = "visit" /\ op'.cur = root.free /\ op'.best = 0
      BY <1>1, <2>2 DEF Restart, OpType
    <3> QED BY <1>5, <3>1, HeadsOrder DEF Retry, Collating
  <2> QED BY <1>5, <2>1, <2>2 DEF Retry, Finish
<1>6. CASE \E req \in Requests : AllocCall(req)
  <2>1. PICK req \in Requests : AllocCall(req)
    BY <1>6
  <2>2. CASE op' = NoOp
    BY <2>1, <2>2, RestsOrder DEF AllocCall, NoOp, Collating
  <2>3. CASE op' = Restart([NoOp EXCEPT !.n = Larger(req + Hdr, VBHeapMin), !.limit = MaxBlocks],
                           root.free)
    <3>1. op'.pc = "visit" /\ op'.cur = root.free /\ op'.best = 0
      BY <2>3 DEF Restart, NoOp
    <3> QED BY <2>1, <3>1, HeadsOrder DEF AllocCall, Collating
  <2> QED BY <2>1, <2>2, <2>3 DEF AllocCall, Finish
<1> QED BY <1>2, <1>3, <1>4, <1>5, <1>6

LEMMA OrderStep == ASSUME IInv, Order, Misuse = FALSE, [Next]_vars PROVE Order'
<1>1. CASE UNCHANGED vars
  <2>1. UNCHANGED <<st, size, prev, next, foot, op>>
    BY <1>1 DEF vars
  <2> QED BY <2>1, SameBlocks
      DEF Order, Ordered, InOrder, Behind, BestClear, Searching, Tags, Unsettled, Fresh, Collating
<1>2. CASE Call
  BY <1>2, CallOrder, FreeOrder, PayloadOrder DEF Call, FreeRefused
<1>3. CASE Continue
  BY <1>3, AbsorbOrder, VisitOrder, MeasureOrder, CallOrder, GrowOrder, AdoptOrder, SplitOrder,
     ReleasedOrder, RejoinedOrder, RestoreOrder
  DEF Continue
<1> QED BY <1>1, <1>2, <1>3 DEF Next

\* Between calls the tags are those of the blocks.
LEMMA TagsAreCurrent == ASSUME IInv, Order PROVE TagsCurrent
<1> SUFFICES ASSUME op.pc = "idle", NEW a \in Free, Big(a), After(a) \in Used
             PROVE  PrevFree(After(a)) = a
  BY DEF TagsCurrent, Big
<1>1. foot[After(a)] = size[a]
  BY DEF Order, Tags, Unsettled, Collating
<1>2. a \in Nat /\ size[a] \in Nat /\ After(a) - size[a] = a
  BY Shape DEF After
<1> QED BY <1>1, <1>2 DEF PrevFree, Big

\* The chain goes through the blocks in the order of their ranks.
LEMMA ChainRises ==
  ASSUME IInv, NEW rank \in [Addr -> Int], Lined(rank, Free, next, prev),
         NEW i \in 0 .. Cardinality(Free) - 1
  PROVE  \A j \in 0 .. Cardinality(Free) - 1 : i <= j => rank[Chain[i]] <= rank[Chain[j]]
<1> DEFINE c == Cardinality(Free)
           n == Cardinality(Addr)
           Good == {k \in 0 .. c - 1 : i <= k => rank[Chain[i]] <= rank[Chain[k]]}
<1>1. Follows(Chain, n) /\ n \in Nat /\ c <= n /\ c \in Nat /\ \A k \in 0 .. c - 1 : Chain[k] \in Free
  <2>1. Follows(Chain, n) /\ n \in Nat /\ c <= n /\ c \in Nat
    BY ChainFollows, FewBlocks
  <2>2. \A k \in 0 .. c - 1 : Chain[k] \in Free
    <3> HIDE DEF n
    <3> QED BY <2>1, ListWalked
  <2> QED BY <2>1, <2>2
<1> HIDE DEF c, n
<1>2. \A k \in 0 .. c - 1 : rank[Chain[k]] \in Int
  BY <1>1, Shape
<1>3. i \in Nat /\ i <= c - 1
  BY <1>1 DEF c
<1>4. 0 \in Good
  BY <1>1, <1>2, <1>3
<1>5. ASSUME NEW k \in 0 .. (c - 1) - 1, k \in Good PROVE k + 1 \in Good
  <2>1. k \in 0 .. c - 1 /\ k + 1 \in 0 .. c - 1 /\ k + 1 \in 1 .. n /\ (k + 1) - 1 = k
    BY <1>1
  <2>2. Chain[k + 1] = next[Chain[k]] /\ Chain[k] \in Free /\ Chain[k + 1] \in Free
    BY <1>1, <2>1 DEF Follows
  <2>3. rank[Chain[k]] < rank[Chain[k + 1]]
    BY <2>2, Shape, AddrType DEF Lined
  <2>4. CASE i <= k
    BY <1>2, <1>3, <1>5, <2>1, <2>3, <2>4
  <2>5. CASE i = k + 1
    BY <1>2, <2>1, <2>5
  <2> QED BY <1>3, <2>1, <2>4, <2>5
<1>6. \A k \in 0 .. c - 1 : k \in Good
  <2>1. c - 1 \in Nat
    BY <1>1, <1>3
  <2> HIDE DEF Good
  <2> QED BY <1>4, <1>5, <2>1, NumberInduction
<1> QED BY <1>6 DEF c

\* Between calls, two free neighbours stand in the list as in the arena.
LEMMA GrowthIsOrdered == ASSUME IInv, Order PROVE GrowthOrder
<1> SUFFICES ASSUME op.pc = "idle", NEW x \in Free, Big(x), After(x) \in Free
             PROVE  Position(x) < Position(After(x))
  BY DEF GrowthOrder, Big
<1> DEFINE y == After(x)
           c == Cardinality(Free)
<1>1. PICK rank \in [Addr -> Int] : Lined(rank, Free, next, prev) /\ InOrder(rank)
  BY DEF Order, Ordered
<1>2. rank[x] < rank[y]
  BY <1>1 DEF InOrder, Unsettled, Fresh, Collating
<1>3. ASSUME NEW a \in Free PROVE Position(a) \in 0 .. c - 1 /\ Chain[Position(a)] = a
  <2> DEFINE n == Cardinality(Addr)
  <2>1. Follows(Chain, n) /\ DOMAIN Chain = 0 .. n /\ n \in Nat /\ c <= n /\ c \in Nat
    BY ChainFollows, FewBlocks
  <2>2. /\ \A k \in c .. n : Chain[k] = 0
        /\ \E k \in 0 .. c - 1 : Chain[k] = a
    <3> HIDE DEF n
    <3> QED BY <2>1, ListWalked
  <2>3. \E k \in DOMAIN Chain : Chain[k] = a
    <3> HIDE DEF n, c
    <3> QED BY <2>1, <2>2
  <2>4. Position(a) \in DOMAIN Chain /\ Chain[Position(a)] = a
    BY <2>3 DEF Position
  <2>5. a # 0
    BY Shape, AddrType
  <2> HIDE DEF n, c
  <2> QED BY <2>1, <2>2, <2>4, <2>5
<1>4. Position(x) \in 0 .. c - 1 /\ Position(y) \in 0 .. c - 1
      /\ Chain[Position(x)] = x /\ Chain[Position(y)] = y
  BY <1>3
<1>5. SUFFICES ASSUME Position(y) <= Position(x) PROVE FALSE
  <2>1. c \in Nat
    BY FewBlocks
  <2> HIDE DEF c
  <2> QED BY <1>4, <2>1
<1>6. rank[y] <= rank[x]
  BY <1>1, <1>4, <1>5, ChainRises
<1>7. rank[x] \in Int /\ rank[y] \in Int
  BY Shape
<1> QED BY <1>2, <1>6, <1>7

\* From an aligned start, with no block freed twice, every free block that ends
\* where a block in use begins is found by the Free of that block, and free
\* neighbours left apart by growth are merged before the second is handed out.
THEOREM TagsAndOrderHold ==
  ASSUME Aligned, Misuse = FALSE PROVE Spec => [](TagsCurrent /\ GrowthOrder)
<1>1. Init => Order
  BY OrderInit
<1>2. IInv /\ Order /\ [Next]_vars => Order'
  BY OrderStep
<1>3. IInv /\ Order => TagsCurrent /\ GrowthOrder
  BY TagsAreCurrent, GrowthIsOrdered
<1> QED BY <1>1, <1>2, <1>3, Invariant, PTL DEF Spec


-----------------------------------------------------------------------------
(***************************************************************************)
(* The gate of a loaded image, on top of what is proved about the heap.    *)
(* The invariant GInv adds to the shape of the heap that the root's four   *)
(* counters are sums over the blocks, that live bytes, free bytes and the  *)
(* sync header fit in the arena, and that the root's aAlloc is a block: it *)
(* is kept by every call and by a load, so an image that was loaded can be *)
(* allocated from, saved and loaded again.                                 *)
(***************************************************************************)

(* The walks of the gate *)

\* On an image of this allocator, a header fits exactly where a block starts.
LEMMA Fits == ASSUME IInv PROVE \A a : BlockFits(a) <=> a \in Blocks
<1>1. /\ \A a \in Blocks : a \in Nat \ {0} /\ size[a] \in Nat /\ size[a] >= VBHeapMin
      /\ end \in Nat /\ VBHeapMin \in Nat \ {0}
  BY Shape
<1>2. \A a \in Blocks : a + size[a] <= end
  BY <1>1 DEF IInv, Tiling, Tiles
<1> QED BY <1>1, <1>2 DEF BlockFits

\* The gate's walk of the list is a walk of the list, longer than the list.
LEMMA FreeWalkFollows ==
  ASSUME IInv
  PROVE  Follows(FreeWalk, MaxBlocks) /\ MaxBlocks \in Nat /\ Cardinality(Free) <= MaxBlocks
<1> DEFINE n == MaxBlocks
           D == Addr \cup {0}
           step == [a \in D |-> IF BlockFits(a) THEN next[a] ELSE 0]
           base == root.free
           Is(v) == v = [k \in 0 .. n |-> IF k = 0 THEN root.free
                                          ELSE IF BlockFits(v[k - 1]) THEN next[v[k - 1]] ELSE 0]
<1>1. n \in Nat /\ Cardinality(Free) <= n
  BY FewBlocks, Quotient, Shape, LayoutAssumption DEF MaxBlocks
<1>2. /\ 0 \notin Blocks /\ Free \subseteq Blocks /\ Blocks \subseteq Addr
      /\ base \in D /\ next \in [Addr -> D]
  BY Shape, AddrType DEF IInv, TypeOK
<1>3. step \in [D -> D]
  BY <1>2, Fits
<1>4. \E v : Is(v)
  <2>0. n \in Nat /\ base \in D
    BY <1>1, <1>2
  <2> HIDE DEF step, n, D, base
  <2>1. PICK v \in [0 .. n -> D] : v = [k \in 0 .. n |-> IF k = 0 THEN base ELSE step[v[k - 1]]]
    <3>1. Iterations(n, D, base, step) # {}
      BY ONLY <2>0, <1>3, Iterates
    <3>2. PICK w : w \in Iterations(n, D, base, step)
      BY <3>1
    <3> QED BY <3>2 DEF Iterations
  <2>2. ASSUME NEW k \in 0 .. n, k # 0
        PROVE  step[v[k - 1]] = IF BlockFits(v[k - 1]) THEN next[v[k - 1]] ELSE 0
    <3>1. k - 1 \in 0 .. n
      BY <2>2, <1>1
    <3>2. v[k - 1] \in D
      BY <2>1, <3>1
    <3> QED BY <3>2 DEF step
  <2>3. Is(v)
    BY <2>1, <2>2 DEF base
  <2> QED BY <2>3
<1>5. FreeWalk = CHOOSE v : Is(v)
  BY DEF FreeWalk
<1>6. Is(FreeWalk)
  <2> HIDE DEF Is
  <2> QED BY <1>4, <1>5
<1>7. \A k \in 0 .. n : FreeWalk[k] = IF k = 0 THEN root.free
                          ELSE IF BlockFits(FreeWalk[k - 1]) THEN next[FreeWalk[k - 1]] ELSE 0
  <2> DEFINE body(k) == IF k = 0 THEN root.free
                        ELSE IF BlockFits(FreeWalk[k - 1]) THEN next[FreeWalk[k - 1]] ELSE 0
  <2>1. FreeWalk = [k \in 0 .. n |-> body(k)]
    BY <1>6
  <2>2. \A k \in 0 .. n : FreeWalk[k] = body(k)
    <3> HIDE DEF body, n
    <3> QED BY <2>1
  <2> QED BY <2>2
<1> HIDE DEF n
<1>8. Follows(FreeWalk, n)
  <2>1. FreeWalk[0] = root.free
    BY <1>1, <1>7
  <2>2. \A k \in 1 .. n : k \in 0 .. n /\ k # 0
    BY <1>1
  <2>3. \A k \in 1 .. n : /\ FreeWalk[k - 1] \in Free => FreeWalk[k] = next[FreeWalk[k - 1]]
                          /\ FreeWalk[k - 1] = 0 => FreeWalk[k] = 0
    BY <1>2, <1>7, <2>2, Fits
  <2> QED BY <2>1, <2>3 DEF Follows
<1> QED BY <1>1, <1>8 DEF n

LEMMA ListedIsFree == ASSUME IInv PROVE Listed = Free /\ FreeWalk[MaxBlocks] = 0
<1> DEFINE n == MaxBlocks
           c == Cardinality(Free)
<1>1. Follows(FreeWalk, n) /\ n \in Nat /\ c <= n /\ c \in Nat /\ 0 \notin Free
  BY FreeWalkFollows, FewBlocks, Shape, AddrType
<1>2. /\ \A k \in 0 .. n : FreeWalk[k] \in Free \cup {0}
      /\ \A k \in c .. n : FreeWalk[k] = 0
      /\ \A a \in Free : \E k \in 0 .. c - 1 : FreeWalk[k] = a
  <2> HIDE DEF n
  <2> QED BY <1>1, ListWalked
<1> HIDE DEF n, c
<1>3. n \in c .. n /\ \A k \in 0 .. c - 1 : k \in 0 .. n
  BY <1>1
<1>4. FreeWalk[n] = 0
  BY <1>2, <1>3
<1>5. {FreeWalk[k] : k \in 0 .. n} \ {0} = Free
  BY <1>1, <1>2, <1>3
<1> QED BY <1>4, <1>5 DEF Listed, n
-----------------------------------------------------------------------------
\* A walk w of n steps goes from header to header, and stops at the end.
Strides(w, n) ==
  /\ w[0] = First
  /\ \A k \in 1 .. n :
       /\ w[k - 1] \in Blocks =>
            w[k] = IF After(w[k - 1]) < end THEN After(w[k - 1]) ELSE 0
       /\ w[k - 1] = 0 => w[k] = 0

\* What is still to be met after k steps: the blocks from the one reached on.
Onward(w, k) == IF w[k] = 0 THEN {} ELSE {b \in Blocks : b >= w[k]}
Met(w, k) ==
  /\ w[k] \in Blocks \cup {0}
  /\ \A a \in Blocks \ Onward(w, k) : \E j \in 0 .. k - 1 : w[j] = a
  /\ Cardinality(Onward(w, k)) = Cardinality(Blocks) - k

LEMMA MetStep ==
  ASSUME IInv, NEW n \in Nat, NEW w, Strides(w, n), NEW k \in 0 .. n - 1,
         Met(w, k), k < Cardinality(Blocks)
  PROVE  Met(w, k + 1)
<1> DEFINE c == w[k]
           R == Onward(w, k)
           S == Onward(w, k + 1)
<1>1. /\ 0 \notin Blocks /\ IsFiniteSet(Blocks) /\ Cardinality(Blocks) \in Nat
      /\ \A a \in Blocks : a \in Nat /\ size[a] \in Nat /\ size[a] > 0
      /\ end \in Nat
  <2>1. /\ \A a \in Blocks : a \in Nat \ {0} /\ size[a] \in Nat /\ size[a] >= VBHeapMin
        /\ VBHeapMin \in Nat \ {0} /\ end \in Nat
    BY Shape
  <2> QED BY <2>1, FewBlocks, FS_CardinalityType
<1>2. c \in Blocks
  <2> SUFFICES ASSUME c = 0 PROVE FALSE
    BY DEF Met
  <2>1. Cardinality(R) = 0
    BY FS_EmptySet DEF Onward
  <2> QED BY <2>1, <1>1 DEF Met
<1>3. w[k + 1] = IF After(c) < end THEN After(c) ELSE 0
  <2>1. k + 1 \in 1 .. n /\ (k + 1) - 1 = k
    OBVIOUS
  <2> QED BY <2>1, <1>2 DEF Strides
<1>4. /\ c + size[c] = end \/ (c + size[c] \in Blocks /\ c + size[c] < end)
      /\ \A b \in Blocks : b > c => b >= c + size[c]
      /\ \A b \in Blocks : b < end
  BY <1>1, <1>2 DEF IInv, Tiling, Tiles
<1>5. R = {b \in Blocks : b >= c} /\ c \in R
  BY <1>1, <1>2 DEF Onward
<1>6. w[k + 1] \in Blocks \cup {0} /\ S = R \ {c}
  <2>1. CASE c + size[c] = end
    <3>1. w[k + 1] = 0
      BY <2>1, <1>1, <1>2, <1>3 DEF After
    <3>2. \A b \in Blocks : b >= c => b = c
      BY <2>1, <1>1, <1>2, <1>4
    <3> QED BY <3>1, <3>2, <1>5 DEF Onward
  <2>2. CASE c + size[c] \in Blocks /\ c + size[c] < end
    <3>1. w[k + 1] = c + size[c] /\ w[k + 1] # 0
      BY <2>2, <1>1, <1>2, <1>3 DEF After
    <3>2. \A b \in Blocks : b >= c /\ b # c <=> b >= c + size[c]
      BY <1>1, <1>2, <1>4
    <3> HIDE DEF c
    <3> QED BY <2>2, <3>1, <3>2, <1>5 DEF Onward
  <2> QED BY <2>1, <2>2, <1>4
<1>7. Cardinality(S) = Cardinality(R) - 1
  <2>1. IsFiniteSet(R)
    BY <1>1, <1>5, FS_Subset
  <2> HIDE DEF R, S
  <2> QED BY <2>1, <1>5, <1>6, FS_RemoveElement
<1>8. ASSUME NEW a \in Blocks \ S PROVE \E j \in 0 .. (k + 1) - 1 : w[j] = a
  <2>1. CASE a = c
    <3>1. k \in 0 .. (k + 1) - 1
      OBVIOUS
    <3> QED BY <3>1, <2>1
  <2>2. CASE a # c
    <3>1. PICK j \in 0 .. k - 1 : w[j] = a
      BY <2>2, <1>6, <1>8 DEF Met
    <3>2. j \in 0 .. (k + 1) - 1
      OBVIOUS
    <3> QED BY <3>1, <3>2
  <2> QED BY <2>1, <2>2
<1>9. Cardinality(S) = Cardinality(Blocks) - (k + 1)
  BY <1>1, <1>7 DEF Met
<1> QED BY <1>6, <1>8, <1>9 DEF Met

\* A walk long enough meets every block, and nothing else, and ends.
LEMMA ArenaWalked ==
  ASSUME IInv, NEW n \in Nat, NEW w, Strides(w, n), Cardinality(Blocks) <= n
  PROVE  /\ \A k \in 0 .. n : w[k] \in Blocks \cup {0}
         /\ w[n] = 0
         /\ \A a \in Blocks : \E k \in 0 .. n : w[k] = a
<1> DEFINE c == Cardinality(Blocks)
           Good == {k \in 0 .. c : Met(w, k)}
<1>0. c \in Nat /\ c <= n /\ IsFiniteSet(Blocks)
  BY FewBlocks, FS_CardinalityType
<1>1. 0 \in Good
  <2>1. First \in Blocks /\ w[0] = First /\ First # 0 /\ \A b \in Blocks : b >= First
    BY LayoutAssumption, Shape DEF IInv, Tiling, Tiles, Strides, Addr
  <2>2. Onward(w, 0) = Blocks
    BY <2>1 DEF Onward
  <2> QED BY <2>1, <2>2, <1>0 DEF Met
<1>2. ASSUME NEW k \in 0 .. c - 1, k \in Good PROVE k + 1 \in Good
  <2>1. k \in 0 .. n - 1 /\ k < Cardinality(Blocks) /\ k + 1 \in 0 .. c
    BY <1>0
  <2> QED BY <2>1, <1>2, MetStep
<1>3. \A k \in 0 .. c : Met(w, k)
  <2>1. \A k \in 0 .. c : k \in Good
    <3> HIDE DEF Good, c
    <3> QED BY <1>0, <1>1, <1>2, NumberInduction
  <2> QED BY <2>1
<1>4. w[c] = 0 /\ \A a \in Blocks : \E k \in 0 .. c - 1 : w[k] = a
  <2>1. Met(w, c)
    BY <1>0, <1>3
  <2>2. Cardinality(Onward(w, c)) = 0 /\ IsFiniteSet(Onward(w, c))
    BY <2>1, <1>0, FS_Subset, FS_EmptySet DEF Met, Onward
  <2>3. Onward(w, c) = {}
    <3> HIDE DEF c
    <3> QED BY <2>2, FS_EmptySet
  <2>4. w[c] = 0
    <3>1. \A a \in Blocks : a >= a
      BY Shape
    <3> HIDE DEF c
    <3> QED BY <2>1, <2>3, <3>1 DEF Met, Onward
  <2> HIDE DEF c
  <2> QED BY <2>1, <2>3, <2>4 DEF Met
<1>5. \A k \in c .. n : w[k] = 0
  <2> DEFINE Still == {j \in 0 .. n - c : w[c + j] = 0}
  <2>1. 0 \in Still
    BY <1>0, <1>4
  <2>2. ASSUME NEW j \in 0 .. (n - c) - 1, j \in Still PROVE j + 1 \in Still
    <3>1. c + j + 1 \in 1 .. n /\ (c + j + 1) - 1 = c + j /\ c + (j + 1) = c + j + 1
          /\ j + 1 \in 0 .. n - c
      BY <1>0
    <3>2. w[c + j + 1] = 0
      BY <3>1, <2>2 DEF Strides
    <3> QED BY <3>1, <3>2
  <2>3. \A j \in 0 .. n - c : j \in Still
    <3>1. n - c \in Nat
      BY <1>0
    <3> HIDE DEF Still
    <3> QED BY <3>1, <2>1, <2>2, NumberInduction
  <2> TAKE k \in c .. n
  <2>4. k - c \in 0 .. n - c /\ c + (k - c) = k
    BY <1>0
  <2>5. k - c \in Still
    BY <2>3, <2>4
  <2> QED BY <2>4, <2>5
<1>6. \A k \in 0 .. n : w[k] \in Blocks \cup {0}
  <2> TAKE k \in 0 .. n
  <2>1. k \in 0 .. c \/ k \in c .. n
    BY <1>0
  <2> QED BY <2>1, <1>3, <1>5 DEF Met
<1>7. n \in c .. n /\ \A k \in 0 .. c - 1 : k \in 0 .. n
  BY <1>0
<1> HIDE DEF c
<1> QED BY <1>4, <1>5, <1>6, <1>7

\* The gate's walk by step is such a walk, longer than the row of blocks.
LEMMA StepWalkStrides ==
  ASSUME IInv
  PROVE  Strides(StepWalk, MaxBlocks) /\ MaxBlocks \in Nat /\ Cardinality(Blocks) <= MaxBlocks
<1> DEFINE n == MaxBlocks
           D == Addr \cup {0, -1}
           stride(a) == IF a <= 0 THEN a
                        ELSE IF ~BlockFits(a) \/ size[a] = 0 \/ size[a] > end THEN -1
                        ELSE IF After(a) < end THEN After(a) ELSE 0
           step == [a \in D |-> stride(a)]
           base == First
           Is(v) == v = [k \in 0 .. n |->
                      IF k = 0 THEN First
                      ELSE LET a == v[k - 1] IN
                             IF a <= 0 THEN a
                             ELSE IF ~BlockFits(a) \/ size[a] = 0 \/ size[a] > end THEN -1
                             ELSE IF After(a) < end THEN After(a) ELSE 0]
<1>1. n \in Nat /\ Cardinality(Blocks) <= n
  <2>1. n \in Nat
    BY Quotient, Shape, LayoutAssumption DEF MaxBlocks
  <2>2. Cardinality(Blocks) \in Nat /\ Cardinality(Blocks) + 1 <= n
    BY FewBlocks, FS_CardinalityType
  <2> HIDE DEF n
  <2> QED BY <2>1, <2>2
<1>2. /\ Blocks \subseteq Addr /\ First \in Blocks /\ Addr \subseteq Nat \ {0} /\ end \in Nat
      /\ \A a \in Blocks : size[a] \in Nat /\ size[a] > 0 /\ a > 0
      /\ \A a \in Blocks : a + size[a] = end \/ (a + size[a] \in Blocks /\ a + size[a] < end)
  <2>1. /\ Blocks \subseteq Addr /\ Addr \subseteq Nat \ {0} /\ end \in Nat
        /\ \A a \in Blocks : size[a] \in Nat /\ size[a] >= VBHeapMin
        /\ VBHeapMin \in Nat \ {0}
    BY Shape, AddrType
  <2>2. /\ First \in Blocks
        /\ \A a \in Blocks : a + size[a] = end \/ (a + size[a] \in Blocks /\ a + size[a] < end)
    BY DEF IInv, Tiling, Tiles
  <2> QED BY <2>1, <2>2
<1>3. ASSUME NEW a \in Blocks PROVE stride(a) = IF After(a) < end THEN After(a) ELSE 0
  <2>1. a > 0 /\ BlockFits(a) /\ size[a] # 0 /\ ~(size[a] > end) /\ ~(a <= 0)
    BY <1>2, Fits
  <2> QED BY <2>1
<1>4. stride(0) = 0
  OBVIOUS
<1>5. step \in [D -> D]
  <2>1. ASSUME NEW a \in D PROVE stride(a) \in D
    <3>1. CASE a \in Blocks
      BY <3>1, <1>2, <1>3 DEF After
    <3>2. CASE a \notin Blocks
      BY <3>2, <1>2, Fits
    <3> QED BY <3>1, <3>2
  <2> HIDE DEF stride
  <2> QED BY <2>1
<1>6. \E v : Is(v)
  <2>0. n \in Nat /\ base \in D
    BY <1>1, <1>2
  <2> HIDE DEF step, n, D, base, stride
  <2>1. PICK v \in [0 .. n -> D] : v = [k \in 0 .. n |-> IF k = 0 THEN base ELSE step[v[k - 1]]]
    <3>1. Iterations(n, D, base, step) # {}
      BY ONLY <2>0, <1>5, Iterates
    <3>2. PICK w : w \in Iterations(n, D, base, step)
      BY <3>1
    <3> QED BY <3>2 DEF Iterations
  <2>2. ASSUME NEW k \in 0 .. n, k # 0 PROVE step[v[k - 1]] = stride(v[k - 1])
    <3>1. k - 1 \in 0 .. n
      BY <2>2, <1>1
    <3>2. v[k - 1] \in D
      BY <2>1, <3>1
    <3> QED BY <3>2 DEF step
  <2>3. v = [k \in 0 .. n |-> IF k = 0 THEN First ELSE stride(v[k - 1])]
    BY <2>1, <2>2 DEF base
  <2>4. Is(v)
    BY <2>3 DEF stride
  <2> QED BY <2>4
<1>7. StepWalk = CHOOSE v : Is(v)
  BY DEF StepWalk
<1>8. Is(StepWalk)
  <2> HIDE DEF Is
  <2> QED BY <1>6, <1>7
<1>9. \A k \in 0 .. n : StepWalk[k] = IF k = 0 THEN First ELSE stride(StepWalk[k - 1])
  <2> DEFINE body(k) == IF k = 0 THEN First ELSE stride(StepWalk[k - 1])
  <2>1. StepWalk = [k \in 0 .. n |-> body(k)]
    BY <1>8
  <2>2. \A k \in 0 .. n : StepWalk[k] = body(k)
    <3> HIDE DEF body, n
    <3> QED BY <2>1
  <2> QED BY <2>2
<1> HIDE DEF n, stride
<1>10. Strides(StepWalk, n)
  <2>1. StepWalk[0] = First
    BY <1>1, <1>9
  <2>2. \A k \in 1 .. n : k \in 0 .. n /\ k # 0
    BY <1>1
  <2>3. \A k \in 1 .. n : StepWalk[k] = stride(StepWalk[k - 1])
    BY <1>9, <2>2
  <2> QED BY <1>3, <1>4, <2>1, <2>3 DEF Strides
<1> QED BY <1>1, <1>10 DEF n

LEMMA SteppedIsBlocks == ASSUME IInv PROVE Stepped = Blocks /\ StepWalk[MaxBlocks] = 0
<1> DEFINE n == MaxBlocks
<1>1. Strides(StepWalk, n) /\ n \in Nat /\ Cardinality(Blocks) <= n
  BY StepWalkStrides
<1>2. 0 \notin Blocks /\ -1 \notin Blocks
  <2>1. \A a \in Blocks : a \in Nat \ {0}
    BY Shape
  <2> QED BY <2>1
<1>3. /\ \A k \in 0 .. n : StepWalk[k] \in Blocks \cup {0}
      /\ StepWalk[n] = 0
      /\ \A a \in Blocks : \E k \in 0 .. n : StepWalk[k] = a
  <2> HIDE DEF n
  <2> QED BY <1>1, ArenaWalked
<1> HIDE DEF n
<1>4. {StepWalk[k] : k \in 0 .. n} \ {0, -1} = Blocks
  BY <1>1, <1>2, <1>3
<1> QED BY <1>3, <1>4 DEF Stepped, n

\* The root's counters are those of the blocks.
Counted ==
  /\ root.freeSize = SumFunctionOnSet(size, Free) /\ root.freeItems = Cardinality(Free)
  /\ root.allocSize = SumFunctionOnSet(size, Used) /\ root.allocItems = Cardinality(Used)

\* Both walks of the gate pass on an image in shape whose counters are right.
LEMMA ListPasses == ASSUME IInv, Counted PROVE FreeListHolds
<1>1. Listed = Free /\ FreeWalk[MaxBlocks] = 0
  BY ListedIsFree
<1>2. \A a \in Free : BlockFits(a)
  BY Fits, Shape
<1>3. /\ (root.free = 0) <=> (root.freeLast = 0)
      /\ \A a \in Free : /\ next[a] \in Free \cup {0} /\ prev[a] \in Free \cup {0}
                         /\ next[a] # 0 => prev[next[a]] = a
                         /\ prev[a] # 0 => next[prev[a]] = a
                         /\ (next[a] = 0) <=> (root.freeLast = a)
                         /\ (prev[a] = 0) <=> (root.free = a)
  BY DEF IInv, Linked, Chained
<1>4. \A a \in Free : ValidFree(a)
  BY <1>2, <1>3 DEF ValidFree
<1> QED BY <1>1, <1>3, <1>4 DEF FreeListHolds, Counted

LEMMA BlocksPass == ASSUME IInv, Counted PROVE BlocksHold
<1>1. Stepped = Blocks /\ StepWalk[MaxBlocks] = 0
  BY SteppedIsBlocks
<1>2. \A a \in Free : ValidFree(a)
  <2>1. Listed = Free
    BY ListedIsFree
  <2> QED BY <2>1, ListPasses DEF FreeListHolds
<1>3. \A a \in Used : ValidAlloc(a)
  BY Fits, Shape DEF ValidAlloc
<1>4. Blocks \cap Free = Free /\ Blocks \cap Used = Used
  BY DEF Blocks
<1> QED BY <1>1, <1>2, <1>3, <1>4 DEF BlocksHold, Counted, Blocks
-----------------------------------------------------------------------------
(* The books *)

LEMMA Countable ==
  ASSUME IInv
  PROVE  /\ IsFiniteSet(Free) /\ IsFiniteSet(Used)
         /\ Cardinality(Free) \in Nat /\ Cardinality(Used) \in Nat
         /\ \A x \in Free \cup Used : size[x] \in Nat
         /\ SumFunctionOnSet(size, Free) \in Nat /\ SumFunctionOnSet(size, Used) \in Nat
<1>1. IsFiniteSet(Free) /\ IsFiniteSet(Used)
  BY FewBlocks, FS_Subset, Shape
<1>2. \A x \in Free \cup Used : size[x] \in Nat
  BY Shape
<1>3. SumFunctionOnSet(size, Free) \in Nat /\ SumFunctionOnSet(size, Used) \in Nat
  BY <1>1, <1>2, SumType
<1> QED BY <1>1, <1>2, <1>3, FS_CardinalityType

LEMMA CountedInit == ASSUME Aligned, Init PROVE Counted
<1>1. PICK s \in InitSizes :
        LET block == RoundUp(s + Word) - First IN
          /\ end = s + Word
          /\ st = [a \in Addr |-> IF a = First THEN "free" ELSE "none"]
          /\ size = [a \in Addr |-> IF a = First THEN block ELSE 0]
          /\ root = [free |-> First, freeLast |-> First, alloc |-> 0,
                     freeSize |-> block, freeItems |-> 1,
                     allocSize |-> 0, allocItems |-> 0]
  BY DEF Init
<1>2. IInv
  BY InitInv
<1>3. First \in Addr /\ size[First] \in Nat
  BY <1>2, Shape DEF IInv, Tiling, Tiles
<1>4. Free = {First} /\ Used = {} /\ root.freeSize = size[First] /\ root.freeItems = 1
      /\ root.allocSize = 0 /\ root.allocItems = 0
  BY <1>1, <1>3 DEF Free, Used
<1>5. SumFunctionOnSet(size, {}) = 0 /\ SumFunctionOnSet(size, {First}) = size[First]
  <2>1. SumFunctionOnSet(size, {}) = 0 /\ IsFiniteSet({})
    BY FS_EmptySet, SumPicks
  <2>2. SumFunctionOnSet(size, {} \cup {First}) = SumFunctionOnSet(size, {}) + size[First]
    BY <2>1, <1>3, SumAdds
  <2>3. {} \cup {First} = {First}
    OBVIOUS
  <2> QED BY <2>1, <2>2, <2>3, <1>3
<1>6. Cardinality({First}) = 1 /\ Cardinality({}) = 0
  BY FS_Singleton, FS_EmptySet
<1> QED BY <1>4, <1>5, <1>6 DEF Counted

\* Every step moves the counters by what it does to the blocks.
LEMMA CountedStep ==
  ASSUME IInv, Counted, Misuse = FALSE, [Next]_vars PROVE Counted'
<1> DEFINE Sum(T) == SumFunctionOnSet(size, T)
<1>1. /\ IsFiniteSet(Free) /\ IsFiniteSet(Used)
      /\ Cardinality(Free) \in Nat /\ Cardinality(Used) \in Nat
      /\ \A x \in Free \cup Used : size[x] \in Nat
      /\ Sum(Free) \in Nat /\ Sum(Used) \in Nat
      /\ Free \subseteq Addr /\ Used \subseteq Addr /\ Free \cap Used = {}
      /\ Free \subseteq Blocks /\ Used \subseteq Blocks
  BY Countable, Shape
<1>2. root.freeSize = Sum(Free) /\ root.freeItems = Cardinality(Free)
      /\ root.allocSize = Sum(Used) /\ root.allocItems = Cardinality(Used)
  BY DEF Counted
<1>3. CASE ~Arranges
  BY <1>3, NoEffect DEF Counted, Free, Used
<1>4. ASSUME NEW a \in Addr, FreeCall(a) PROVE Counted'
  <2>1. /\ a \in Used /\ a \notin Free /\ size[a] \in Nat
        /\ Used' = Used \ {a} /\ Free' = Free \cup {a} /\ size' = size
        /\ root'.freeSize = root.freeSize + size[a] /\ root'.freeItems = root.freeItems + 1
        /\ root'.allocSize = root.allocSize - size[a] /\ root'.allocItems = root.allocItems - 1
    BY <1>4, FreeEffect
  <2>2. Sum(Free \cup {a}) = Sum(Free) + size[a]
    <3>1. \A x \in Free \cup {a} : size[x] \in Int
      BY <1>1, <2>1
    <3> QED BY <1>1, <2>1, <3>1, SumAdds
  <2>3. Sum(Used) = size[a] + Sum(Used \ {a}) /\ Sum(Used \ {a}) \in Nat
    <3>1. IsFiniteSet(Used \ {a}) /\ \A x \in Used : size[x] \in Int
      BY <1>1, FS_RemoveElement
    <3> QED BY <1>1, <2>1, <3>1, SumTakes, SumType
  <2>4. Cardinality(Free \cup {a}) = Cardinality(Free) + 1
        /\ Cardinality(Used \ {a}) = Cardinality(Used) - 1
    BY <1>1, <2>1, FS_AddElement, FS_RemoveElement
  <2> HIDE DEF Sum
  <2>5. /\ root'.freeSize = Sum(Free \cup {a}) /\ root'.allocSize = Sum(Used \ {a})
        /\ root'.freeItems = Cardinality(Free \cup {a})
        /\ root'.allocItems = Cardinality(Used \ {a})
    BY <1>1, <1>2, <2>1, <2>2, <2>3, <2>4
  <2> QED BY <2>1, <2>5 DEF Counted, Sum
<1>5. CASE Absorb
  <2> DEFINE a == op.cur
             b == After(op.cur)
             old == Free \ {a, b}
  <2>1. /\ a \in Free /\ b \in Free /\ a # b
        /\ Free' = Free \ {b} /\ Used' = Used
        /\ size'[a] = size[a] + size[b] /\ \A x \in Addr \ {a, b} : size'[x] = size[x]
        /\ root'.freeSize = root.freeSize /\ root'.freeItems = root.freeItems - 1
        /\ root'.allocSize = root.allocSize /\ root'.allocItems = root.allocItems
    BY <1>5, AbsorbEffect
  <2> HIDE DEF a, b
  <2>2. /\ IsFiniteSet(Free \ {b}) /\ IsFiniteSet(old) /\ IsFiniteSet(Free \ {a})
        /\ Cardinality(Free \ {b}) = Cardinality(Free) - 1
        /\ (Free \ {b}) \ {a} = old
    <3>1. /\ IsFiniteSet(Free \ {b}) /\ Cardinality(Free \ {b}) = Cardinality(Free) - 1
      BY <1>1, <2>1, FS_RemoveElement
    <3>2. IsFiniteSet(old) /\ IsFiniteSet(Free \ {a}) /\ (Free \ {b}) \ {a} = old
      BY <1>1, FS_Subset
    <3> QED BY <3>1, <3>2
  <2>3. Sum(Free) = size[b] + Sum(Free \ {b}) /\ Sum(Free \ {b}) = size[a] + Sum(old)
    <3>1. \A x \in Free : size[x] \in Int
      BY <1>1
    <3>2. Sum(Free) = size[b] + Sum(Free \ {b})
      BY <1>1, <2>1, <3>1, SumTakes
    <3>3. Sum(Free \ {b}) = size[a] + Sum((Free \ {b}) \ {a})
      BY <2>1, <2>2, <3>1, SumTakes
    <3> QED BY <2>2, <3>2, <3>3
  <2>4. SumFunctionOnSet(size', Free \ {b}) = size'[a] + SumFunctionOnSet(size', old)
    <3>1. a \in Free \ {b} /\ \A x \in Free \ {b} : size'[x] \in Int
      BY <1>1, <2>1
    <3> QED BY <2>2, <3>1, SumTakes
  <2>5. SumFunctionOnSet(size', old) = Sum(old)
    <3>1. \A x \in old : size'[x] = size[x]
      BY <1>1, <2>1
    <3> QED BY <2>2, <3>1, SumSame
  <2>6. SumFunctionOnSet(size', Used) = Sum(Used)
    <3>1. \A x \in Used : size'[x] = size[x]
      BY <1>1, <2>1
    <3> QED BY <1>1, <3>1, SumSame
  <2>7. Sum(old) \in Nat /\ size[a] \in Nat /\ size[b] \in Nat
    BY <1>1, <2>1, <2>2, SumType
  <2> HIDE DEF Sum, old
  <2>8. SumFunctionOnSet(size', Free \ {b}) = Sum(Free)
    BY <2>1, <2>3, <2>4, <2>5, <2>7
  <2> QED BY <1>2, <2>1, <2>2, <2>6, <2>8 DEF Counted
<1>6. CASE Grow /\ ~UNCHANGED <<st, size, prev, next, foot, end, root>>
  <2> DEFINE extra == CapGrowth(op.n)
  <2>1. /\ end \notin Blocks /\ extra \in Nat
        /\ Free' = Free \cup {end} /\ Used' = Used
        /\ size'[end] = extra /\ \A x \in Addr \ {end} : size'[x] = size[x]
        /\ root'.freeSize = root.freeSize + extra /\ root'.freeItems = root.freeItems + 1
        /\ root'.allocSize = root.allocSize /\ root'.allocItems = root.allocItems
    BY <1>6, GrowEffect
  <2> HIDE DEF extra
  <2>2. end \notin Free /\ \A x \in Free \cup Used : size'[x] = size[x]
    BY <1>1, <2>1
  <2>3. SumFunctionOnSet(size', Free) = Sum(Free) /\ SumFunctionOnSet(size', Used) = Sum(Used)
    BY <1>1, <2>2, SumSame
  <2>4. SumFunctionOnSet(size', Free \cup {end}) = SumFunctionOnSet(size', Free) + size'[end]
    <3>1. \A x \in Free \cup {end} : size'[x] \in Int
      BY <1>1, <2>1, <2>2
    <3> QED BY <1>1, <2>2, <3>1, SumAdds
  <2>5. Cardinality(Free \cup {end}) = Cardinality(Free) + 1
    BY <1>1, <2>2, FS_AddElement
  <2> HIDE DEF Sum
  <2> QED BY <1>2, <2>1, <2>3, <2>4, <2>5 DEF Counted
<1>7. CASE Grow /\ UNCHANGED <<st, size, prev, next, foot, end, root>>
  BY <1>7 DEF Counted, Free, Used
<1>8. CASE Adopt
  <2> DEFINE a == op.best
  <2>1. /\ a \in Free /\ a \notin Used /\ size[a] \in Nat
        /\ Free' = Free \ {a} /\ Used' = Used \cup {a} /\ size' = size
        /\ root'.freeSize = root.freeSize - size[a] /\ root'.freeItems = root.freeItems - 1
        /\ root'.allocSize = root.allocSize + size[a] /\ root'.allocItems = root.allocItems + 1
    BY <1>8, AdoptEffect
  <2> HIDE DEF a
  <2>2. Sum(Used \cup {a}) = Sum(Used) + size[a]
    <3>1. \A x \in Used \cup {a} : size[x] \in Int
      BY <1>1, <2>1
    <3> QED BY <1>1, <2>1, <3>1, SumAdds
  <2>3. Sum(Free) = size[a] + Sum(Free \ {a}) /\ Sum(Free \ {a}) \in Nat
    <3>1. IsFiniteSet(Free \ {a}) /\ \A x \in Free : size[x] \in Int
      BY <1>1, FS_RemoveElement
    <3> QED BY <1>1, <2>1, <3>1, SumTakes, SumType
  <2>4. Cardinality(Used \cup {a}) = Cardinality(Used) + 1
        /\ Cardinality(Free \ {a}) = Cardinality(Free) - 1
    BY <1>1, <2>1, FS_AddElement, FS_RemoveElement
  <2> HIDE DEF Sum
  <2>5. /\ root'.freeSize = Sum(Free \ {a}) /\ root'.allocSize = Sum(Used \cup {a})
        /\ root'.freeItems = Cardinality(Free \ {a})
        /\ root'.allocItems = Cardinality(Used \cup {a})
    BY <1>1, <1>2, <2>1, <2>2, <2>3, <2>4
  <2> QED BY <2>1, <2>5 DEF Counted, Sum
<1>9. CASE Split
  <2> DEFINE a == op.best
             e == op.best + op.n
             old == Free \ {a}
  <2>1. /\ a \in Free /\ a \notin Used /\ e \notin Blocks /\ e # a
        /\ op.n \in Nat /\ size[a] \in Nat /\ size[a] - op.n >= VBHeapMin
        /\ Free' = old \cup {e} /\ Used' = Used \cup {a}
        /\ size'[a] = op.n /\ size'[e] = size[a] - op.n
        /\ \A x \in Addr \ {a, e} : size'[x] = size[x]
        /\ root'.freeSize = root.freeSize - op.n /\ root'.freeItems = root.freeItems
        /\ root'.allocSize = root.allocSize + op.n /\ root'.allocItems = root.allocItems + 1
    BY <1>9, SplitEffect
  <2> HIDE DEF a, e
  <2>2. /\ IsFiniteSet(old) /\ Cardinality(old) = Cardinality(Free) - 1
        /\ e \notin old /\ e \notin Used
        /\ Cardinality(old \cup {e}) = Cardinality(old) + 1
        /\ Cardinality(Used \cup {a}) = Cardinality(Used) + 1
    BY <1>1, <2>1, FS_RemoveElement, FS_AddElement
  <2>3. Sum(Free) = size[a] + Sum(old) /\ Sum(old) \in Nat
    BY <1>1, <2>1, <2>2, SumTakes, SumType
  <2>4. \A x \in old \cup Used : size'[x] = size[x]
    BY <1>1, <2>1, <2>2
  <2>5. SumFunctionOnSet(size', old) = Sum(old) /\ SumFunctionOnSet(size', Used) = Sum(Used)
    BY <1>1, <2>2, <2>4, SumSame
  <2>6. SumFunctionOnSet(size', old \cup {e}) = SumFunctionOnSet(size', old) + size'[e]
    <3>1. \A x \in old \cup {e} : size'[x] \in Int
      BY <1>1, <2>1, <2>4
    <3> QED BY <2>2, <3>1, SumAdds
  <2>7. SumFunctionOnSet(size', Used \cup {a}) = SumFunctionOnSet(size', Used) + size'[a]
    <3>1. \A x \in Used \cup {a} : size'[x] \in Int
      BY <1>1, <2>1, <2>4
    <3> QED BY <1>1, <2>1, <3>1, SumAdds
  <2> HIDE DEF Sum, old
  <2>8. /\ root'.freeSize = SumFunctionOnSet(size', old \cup {e})
        /\ root'.allocSize = SumFunctionOnSet(size', Used \cup {a})
        /\ root'.freeItems = Cardinality(old \cup {e})
        /\ root'.allocItems = Cardinality(Used \cup {a})
    BY <1>1, <1>2, <2>1, <2>2, <2>3, <2>5, <2>6, <2>7
  <2> QED BY <2>1, <2>8 DEF Counted
<1> QED BY <1>3, <1>4, <1>5, <1>6, <1>7, <1>8, <1>9 DEF Arranges
-----------------------------------------------------------------------------
(* The heap across a save and a load *)

\* Live bytes, free bytes and the sync header fit in the arena.  On a heap made
\* here nSizeofUsed is the allocated bytes; on a loaded IOMAGE it is all but
\* the free bytes and the header.
Room == /\ used + root.freeSize + Sync <= end
        /\ root.freeSize + root.allocSize = end - First
        /\ ~loaded => used = root.allocSize

\* The root's aAlloc names a block; in the IOMAGE layout one in use.
AllocHeld == /\ root.alloc \in Blocks \cup {0}
             /\ form = "IOMAGE" => root.alloc \in Used \cup {0}

GInv == IInv /\ Counted /\ Room /\ AllocHeld

\* nSizeofUsed moves with the allocated bytes, and the two byte counters
\* together with the end of the arena.
LEMMA Balanced ==
  ASSUME IInv, IInv', Misuse = FALSE, [Next]_vars
  PROVE  /\ used' - used = root'.allocSize - root.allocSize
         /\ (root'.freeSize + root'.allocSize) - (root.freeSize + root.allocSize) = end' - end
<1>1. /\ root.freeSize \in Int /\ root.allocSize \in Int /\ used \in Int /\ end \in Int
      /\ root'.freeSize \in Int /\ root'.allocSize \in Int /\ used' \in Int /\ end' \in Int
  BY Shape DEF IInv, TypeOK, RootType
<1>2. CASE ~Arranges
  <2>1. root' = root /\ end' = end /\ used' = used
    BY <1>2, NoEffect
  <2> QED BY <1>1, <2>1
<1>3. CASE \E a \in Addr : FreeCall(a)
  BY <1>1, <1>3, FreeEffect
<1>4. CASE Absorb
  BY <1>1, <1>4, AbsorbEffect
<1>5. CASE Grow /\ ~UNCHANGED <<st, size, prev, next, foot, end, root>>
  <2> DEFINE extra == CapGrowth(op.n)
  <2>1. /\ extra \in Nat /\ root'.freeSize = root.freeSize + extra
        /\ root'.allocSize = root.allocSize /\ used' = used /\ end' = end + extra
    BY <1>5, GrowEffect
  <2> HIDE DEF extra
  <2> QED BY <1>1, <2>1
<1>6. CASE Grow /\ UNCHANGED <<st, size, prev, next, foot, end, root>>
  BY <1>1, <1>6 DEF Grow
<1>7. CASE Adopt
  <2>1. /\ size[op.best] \in Nat /\ root'.freeSize = root.freeSize - size[op.best]
        /\ root'.allocSize = root.allocSize + size[op.best]
        /\ used' = used + size[op.best] /\ end' = end
    BY <1>7, AdoptEffect
  <2> QED BY <1>1, <2>1
<1>8. CASE Split
  <2>1. /\ op.n \in Nat /\ root'.freeSize = root.freeSize - op.n
        /\ root'.allocSize = root.allocSize + op.n /\ used' = used + op.n /\ end' = end
    BY <1>8, SplitEffect
  <2> QED BY <1>1, <2>1
<1> QED BY <1>2, <1>3, <1>4, <1>5, <1>6, <1>7, <1>8 DEF Arranges

\* A load changes no block and no link.
LEMMA LoadInv == ASSUME IInv, Load PROVE IInv' /\ Free' = Free /\ Used' = Used /\ Blocks' = Blocks
<1>1. /\ UNCHANGED <<st, size, prev, next, foot, end>> /\ op' = NoOp /\ outcome' = "ok"
      /\ TypeOK /\ Tiling /\ Linked /\ Acyclic
  BY DEF Load, Finish, IInv
<1>2. Free' = Free /\ Used' = Used /\ Blocks' = Blocks
  BY <1>1 DEF Free, Used, Blocks
<1>3. First \in Addr
  BY Shape DEF IInv, Tiling, Tiles
<1>4. root' \in RootType /\ root'.free = root.free /\ root'.freeLast = root.freeLast
  <2>1. CASE UNCHANGED root
    BY <1>1, <2>1 DEF TypeOK
  <2>2. CASE root' = Swapover
    <3> DEFINE a == IF root.alloc = 0 THEN First ELSE root.alloc
               al == IF a = root.free THEN 0 ELSE a
    <3>1. root' = [root EXCEPT !.alloc = al] /\ al \in Addr \cup {0} /\ root \in RootType
      BY <1>1, <1>3, <2>2 DEF Swapover, TypeOK, RootType
    <3> HIDE DEF al
    <3> QED BY <3>1 DEF RootType
  <2> QED BY <2>1, <2>2 DEF Load
<1>5. used' \in Int
  <2>1. /\ end \in Nat /\ Sync \in Nat /\ root.freeSize \in Int /\ root.allocSize \in Int
    BY Shape, SyncAssumption DEF IInv, TypeOK, RootType
  <2> QED BY <2>1 DEF Load, UsedOfIOMAGE, UsedOfBSTRio
<1>6. Tiling' /\ Linked' /\ Acyclic'
  BY <1>1, <1>2, <1>4 DEF Tiling, Linked, Acyclic
<1>7. Cursor' /\ op' \in OpType
  BY <1>1, NoOpType DEF Cursor
<1>8. TypeOK'
  BY <1>1, <1>4, <1>5, <1>7 DEF TypeOK
<1> QED BY <1>2, <1>6, <1>7, <1>8 DEF IInv

LEMMA LoadKeeps == ASSUME GInv, Load PROVE GInv'
<1>1. /\ IInv /\ Counted /\ Room /\ AllocHeld /\ root \in RootType
      /\ UNCHANGED <<st, size, prev, next, foot, end, form>> /\ loaded' = TRUE
  BY DEF GInv, IInv, TypeOK, Load
<1>2. IInv' /\ Free' = Free /\ Used' = Used /\ Blocks' = Blocks
  BY <1>1, LoadInv
<1>3. /\ root'.freeSize = root.freeSize /\ root'.freeItems = root.freeItems
      /\ root'.allocSize = root.allocSize /\ root'.allocItems = root.allocItems
  BY <1>1 DEF Load, Swapover, RootType
<1>4. Counted'
  BY <1>1, <1>2, <1>3 DEF Counted
<1>5. Room'
  <2>1. /\ root.freeSize \in Nat /\ root.allocSize \in Nat /\ end \in Nat /\ Sync \in Nat
        /\ First \in Nat /\ Sync < First
    BY <1>1, Countable, Shape, SyncAssumption, LayoutAssumption DEF Counted
  <2>2. root.freeSize + root.allocSize = end - First
    BY <1>1 DEF Room
  <2>3. used' = end - Sync - root.freeSize \/ used' = root.allocSize
    BY <2>1, <2>2 DEF Load, UsedOfIOMAGE, UsedOfBSTRio
  <2> QED BY <1>1, <1>3, <2>1, <2>2, <2>3 DEF Room
<1>6. AllocHeld'
  <2>1. CASE UNCHANGED root
    BY <1>1, <1>2, <2>1 DEF AllocHeld
  <2>2. CASE form = "BSTRio" /\ root' = Swapover
    <3>1. First \in Blocks
      BY <1>1 DEF IInv, Tiling, Tiles
    <3>2. root'.alloc \in Blocks \cup {0}
      BY <1>1, <2>2, <3>1 DEF Swapover, RootType, AllocHeld
    <3> QED BY <1>1, <1>2, <2>2, <3>2 DEF AllocHeld
  <2> QED BY <2>1, <2>2 DEF Load
<1> QED BY <1>2, <1>4, <1>5, <1>6 DEF GInv

LEMMA StepKeeps ==
  ASSUME GInv, Misuse = FALSE, Next, KeepsRoot, UNCHANGED <<form, loaded>> PROVE GInv'
<1>1. IInv /\ Counted /\ Room /\ AllocHeld /\ [Next]_vars /\ root \in RootType
  BY DEF GInv, IInv, TypeOK
<1>2. IInv'
  BY <1>1, InvStep
<1>3. Counted'
  BY <1>1, CountedStep
<1>4. Room'
  <2>1. /\ root.freeSize \in Int /\ root.allocSize \in Int /\ used \in Int /\ end \in Int
        /\ root'.freeSize \in Int /\ root'.allocSize \in Int /\ used' \in Int /\ end' \in Int
        /\ Sync \in Int /\ First \in Int
    BY <1>1, <1>2, Shape, SyncAssumption, LayoutAssumption DEF IInv, TypeOK, RootType
  <2>2. /\ used' - used = root'.allocSize - root.allocSize
        /\ (root'.freeSize + root'.allocSize) - (root.freeSize + root.allocSize) = end' - end
    BY <1>1, <1>2, Balanced
  <2> QED BY <1>1, <2>1, <2>2 DEF Room
<1>5. AllocHeld'
  <2>0. /\ Free \cap Used = {} /\ Blocks = Free \cup Used /\ Blocks' = Free' \cup Used'
        /\ 0 \notin Blocks /\ root.alloc \in Addr \cup {0}
    BY <1>1, Shape, AddrType DEF Blocks, RootType
  <2>1. root.alloc # 0 => root.alloc \in Used'
    BY <2>0 DEF KeepsRoot, Used
  <2>2. CASE root'.alloc = root.alloc
    BY <2>0, <2>1, <2>2 DEF AllocHeld
  <2>3. CASE Absorb
    <3>1. /\ After(op.cur) \in Free /\ Used' = Used
          /\ root'.alloc = root.alloc \/ root'.alloc \in Free' \cup {0}
          /\ root.alloc # After(op.cur) => root'.alloc = root.alloc
      BY <1>1, <2>3, AbsorbEffect
    <3>2. root.alloc # After(op.cur)
      BY <2>0, <2>1, <3>1
    <3> QED BY <2>2, <3>1, <3>2
  <2>4. CASE Adopt
    <3>1. /\ op.best \in Free /\ Used' = Used \cup {op.best}
          /\ root.alloc # 0 /\ root.alloc # op.best => root'.alloc = root.alloc
          /\ root.alloc = 0 => root'.alloc = op.best
          /\ root'.alloc = root.alloc \/ root'.alloc \in Free' \cup {op.best}
      BY <1>1, <2>4, AdoptEffect
    <3>2. CASE root.alloc = 0
      BY <2>0, <3>1, <3>2 DEF AllocHeld
    <3>3. CASE root.alloc = op.best
      BY <2>0, <3>1, <3>3, <1>1 DEF AllocHeld
    <3> QED BY <2>2, <3>1, <3>2, <3>3
  <2>5. CASE Split
    <3>1. Used' = Used \cup {op.best} /\ root'.alloc = IF root.alloc = 0 THEN op.best ELSE root.alloc
      BY <1>1, <2>5, SplitEffect
    <3> QED BY <2>0, <2>2, <3>1 DEF AllocHeld
  <2>6. CASE Grow /\ ~UNCHANGED <<st, size, prev, next, foot, end, root>>
    BY <1>1, <2>2, <2>6, GrowEffect
  <2>7. CASE \E a \in Addr : FreeCall(a)
    BY <1>1, <2>2, <2>7, FreeEffect
  <2>8. CASE ~Arranges
    BY <1>1, <2>2, <2>8, NoEffect
  <2> QED BY <2>2, <2>3, <2>4, <2>5, <2>6, <2>7, <2>8 DEF Arranges
<1> QED BY <1>2, <1>3, <1>4, <1>5 DEF GInv

LEMMA GInvInit == ASSUME Aligned, GInit PROVE GInv
<1>1. IInv /\ Counted
  BY InitInv, CountedInit DEF GInit
<1>2. PICK s \in InitSizes : /\ end = s + Word /\ used = 0 /\ root.alloc = 0
                             /\ root.allocSize = 0
                             /\ root.freeSize = RoundUp(s + Word) - First
  BY DEF GInit, Init
<1>3. s \in Nat /\ Word \in Nat /\ First \in Nat /\ Sync \in Nat /\ Sync < First
  BY LayoutAssumption, CreateAssumption, SyncAssumption
<1>4. Room
  BY <1>2, <1>3 DEF Room, Aligned
<1>5. AllocHeld
  BY <1>2 DEF AllocHeld
<1> QED BY <1>1, <1>4, <1>5 DEF GInv

LEMMA GInvStep == ASSUME GInv, Misuse = FALSE, [GNext]_gvars PROVE GInv'
<1>1. CASE UNCHANGED gvars
  BY <1>1 DEF gvars, vars, GInv, IInv, TypeOK, Tiling, Linked, Acyclic, Cursor, Blocks, Free, Used,
             Counted, Room, AllocHeld
<1> QED BY <1>1, StepKeeps, LoadKeeps DEF GNext

\* From an aligned start, with no block freed twice, every reachable state of a
\* heap saved and loaded any number of times satisfies the invariant.
THEOREM LoadedInvariant == ASSUME Aligned, Misuse = FALSE PROVE GSpec => []GInv
<1>1. GInit => GInv
  BY GInvInit
<1>2. GInv /\ [GNext]_gvars => GInv'
  BY GInvStep
<1> QED BY <1>1, <1>2, PTL DEF GSpec

\* Types, tiling and list are kept by a load as well.
THEOREM LoadedHeapIsWhole ==
  ASSUME Aligned, Misuse = FALSE PROVE GSpec => [](TypeOK /\ Tiling /\ Linked)
<1>1. GInv => TypeOK /\ Tiling /\ Linked
  BY DEF GInv, IInv
<1> QED BY <1>1, LoadedInvariant, PTL

\* An image is let in by its own gate, whatever the heap went through before it
\* was saved: no store becomes unreadable.
THEOREM OwnImageIsAccepted ==
  ASSUME Aligned, Misuse = FALSE PROVE GSpec => []OwnImagePasses
<1>1. GInv => AcceptsIOMAGE \/ form # "IOMAGE"
  <2> SUFFICES ASSUME GInv, form = "IOMAGE" PROVE AcceptsIOMAGE
    OBVIOUS
  <2>1. FreeListHolds /\ BlocksHold
    BY ListPasses, BlocksPass DEF GInv
  <2>2. root.alloc # 0 => ValidAlloc(root.alloc)
    BY Fits, Shape DEF GInv, AllocHeld, ValidAlloc
  <2> QED BY <2>1, <2>2 DEF AcceptsIOMAGE
<1>2. GInv => AcceptsBSTRio
  <2> SUFFICES ASSUME GInv PROVE AcceptsBSTRio
    OBVIOUS
  <2>1. BlocksHold
    BY BlocksPass DEF GInv
  <2>2. \A a \in {root.alloc, root.free, root.freeLast} \ {0} : a \in Blocks
    BY Shape DEF GInv, AllocHeld
  <2>3. \A a \in Blocks : First <= a /\ a < end
    <3>1. /\ \A a \in Blocks : a \in Nat /\ size[a] \in Nat /\ size[a] >= VBHeapMin /\ First <= a
          /\ VBHeapMin \in Nat \ {0} /\ end \in Nat
      BY Shape, LayoutAssumption DEF GInv, Addr
    <3> QED BY <3>1 DEF GInv, IInv, Tiling, Tiles
  <2> QED BY <2>1, <2>2, <2>3 DEF AcceptsBSTRio
<1>3. GInv => OwnImagePasses
  BY <1>1, <1>2 DEF OwnImagePasses
<1> QED BY <1>3, LoadedInvariant, PTL

\* The live bytes and the sync header fit in the image, on a heap made here and
\* on one loaded: the figure the sync header takes never overruns it.
THEOREM RoomForSyncHolds ==
  ASSUME Aligned, Misuse = FALSE PROVE GSpec => []RoomForSync
<1>1. GInv => RoomForSync
  <2> SUFFICES ASSUME GInv PROVE RoomForSync
    OBVIOUS
  <2>1. root.freeSize \in Nat /\ used \in Int /\ end \in Nat /\ Sync \in Nat
    BY Countable, Shape, SyncAssumption DEF GInv, IInv, TypeOK, Counted
  <2> QED BY <2>1 DEF GInv, Room, RoomForSync
<1> QED BY <1>1, LoadedInvariant, PTL

\* A call turned away at the door could not have been served, by a free block
\* or by growth, even where a loaded heap counts its root among the live bytes.
THEOREM DoorIsHonestHolds ==
  ASSUME Aligned, Misuse = FALSE, \A s \in InitSizes : s + Word <= SizeMax
  PROVE  GSpec => DoorIsHonest
<1> DEFINE Honest == \A req \in Requests :
                       LET n == Larger(req + Hdr, VBHeapMin) IN
                         AllocCall(req) /\ outcome' = "full"
                           => n > ArenaRoom /\ \A a \in Free : size[a] < n
<1>1. GInit => InsideCeiling
  BY DEF GInit, Init, InsideCeiling
<1>2. GInv /\ InsideCeiling /\ [GNext]_gvars => InsideCeiling'
  <2> SUFFICES ASSUME GInv, InsideCeiling, [GNext]_gvars PROVE InsideCeiling'
    OBVIOUS
  <2>1. CASE UNCHANGED end
    BY <2>1 DEF InsideCeiling
  <2>2. CASE Grow /\ ~UNCHANGED <<st, size, prev, next, foot, end, root>>
    BY <2>2, GrowEffect DEF GInv, InsideCeiling
  <2>3. CASE Absorb \/ Adopt \/ Split \/ \E a \in Addr : FreeCall(a)
    BY <2>1, <2>3 DEF Absorb, Adopt, Split, FreeCall
  <2>4. CASE UNCHANGED gvars \/ Load
    BY <2>1, <2>4 DEF gvars, vars, Load
  <2>5. CASE Next /\ ~Arranges
    BY <2>1, <2>5
    DEF Arranges, Next, Call, Continue, AllocCall, FreeRefused, WritePayload, SaveScrub, Visit,
        SkipSmall, TakeAtOnce, KeepBest, WalkEnds, GrowRefused, Retry, Released, Rejoined,
        SaveRestore
  <2> QED BY <2>1, <2>2, <2>3, <2>4, <2>5 DEF GNext, Arranges
<1>3. GInv /\ InsideCeiling => Honest
  <2> SUFFICES ASSUME GInv, InsideCeiling, NEW req \in Requests, AllocCall(req), outcome' = "full"
               PROVE  LET n == Larger(req + Hdr, VBHeapMin) IN
                        n > ArenaRoom /\ \A a \in Free : size[a] < n
    OBVIOUS
  <2> DEFINE n == Larger(req + Hdr, VBHeapMin)
  <2>1. n \in Nat
    BY LayoutAssumption, CallAssumption DEF Larger
  <2>2. used + n > SizeMax
    BY DEF AllocCall
  <2>3. /\ root.freeSize \in Nat /\ used \in Int /\ end \in Nat /\ Sync \in Nat /\ SizeMax \in Nat
    BY Countable, Shape, SyncAssumption, LayoutAssumption DEF GInv, IInv, TypeOK, Counted
  <2>4. used + root.freeSize + Sync <= end /\ end <= SizeMax
    BY DEF GInv, Room, InsideCeiling
  <2> HIDE DEF n
  <2>5. n > SizeMax - end + root.freeSize
    BY <2>1, <2>2, <2>3, <2>4
  <2>6. n > ArenaRoom
    BY <2>1, <2>3, <2>4, <2>5 DEF ArenaRoom
  <2>7. ASSUME NEW a \in Free PROVE size[a] < n
    <3>1. size[a] <= SumFunctionOnSet(size, Free) /\ size[a] \in Nat
      BY Countable, SumCovers DEF GInv
    <3>2. size[a] <= root.freeSize
      BY <3>1 DEF GInv, Counted
    <3> QED BY <2>1, <2>3, <2>4, <2>5, <3>1, <3>2
  <2> QED BY <2>6, <2>7 DEF n
<1>4. GSpec => [](GInv /\ InsideCeiling)
  BY <1>1, <1>2, LoadedInvariant, PTL DEF GSpec
<1>5. GSpec => [][Honest]_gvars
  BY <1>3, <1>4, PTL DEF GSpec
<1> QED BY <1>5 DEF DoorIsHonest
-----------------------------------------------------------------------------
(* What a heap made here still has when it was loaded *)

\* A load ends the call, and leaves the blocks as they are.
LEMMA LoadWalks == ASSUME Walk, NoFalseAlarm, Load PROVE Walk' /\ NoFalseAlarm'
BY DEF Load, Finish, NoOp, Walk, Walking, Budget, LastPass, Searching, NoFalseAlarm

LEMMA LoadedWalks ==
  ASSUME Aligned, Misuse = FALSE, MaxAllocResizes >= 1
  PROVE  GSpec => [](GInv /\ Walk /\ NoFalseAlarm)
<1>1. GInit => Walk /\ NoFalseAlarm
  BY DEF GInit, Init, NoOp, Walk, Walking, Budget, LastPass, Searching, NoFalseAlarm
<1>2. GInv /\ GInv' /\ Walk /\ NoFalseAlarm /\ [GNext]_gvars => Walk' /\ NoFalseAlarm'
  <2> SUFFICES ASSUME GInv, GInv', Walk, NoFalseAlarm, [GNext]_gvars PROVE Walk' /\ NoFalseAlarm'
    OBVIOUS
  <2>1. CASE Load
    BY <2>1, LoadWalks
  <2>2. CASE [Next]_vars
    BY <2>2, WalkKept DEF GInv
  <2> QED BY <2>1, <2>2 DEF GNext, gvars
<1> QED BY <1>1, <1>2, LoadedInvariant, PTL DEF GSpec

\* A heap that came out of a file is never blamed for its image either.
THEOREM LoadedIsNotBlamed ==
  ASSUME Aligned, Misuse = FALSE, MaxAllocResizes >= 1 PROVE GSpec => []NoFalseAlarm
BY LoadedWalks, PTL

\* On a loaded heap too, a walk refuses only what no free block could serve.
THEOREM LoadedRefusalIsHonest ==
  ASSUME Aligned, Misuse = FALSE, MaxAllocResizes >= 1 PROVE GSpec => FullIsHonest
<1> DEFINE Honest == GrowRefused => \A a \in Free : size[a] < op.n
<1>1. GInv /\ Walk => Honest
  BY WalkOver DEF GrowRefused, GInv
<1>2. GSpec => [][Honest]_vars
  BY <1>1, LoadedWalks, PTL
<1> QED BY <1>2 DEF FullIsHonest

\* A load moves no block in use: what the store refers to by address is there.
THEOREM LoadedBlocksStay == ASSUME Aligned, Misuse = FALSE PROVE GSpec => LiveUntouched
<1> DEFINE Kept == \A a \in Used : (a \in Used' /\ size'[a] = size[a]) \/ FreeCall(a)
<1>1. GInv /\ [GNext]_gvars => [Kept]_vars
  <2> SUFFICES ASSUME GInv, [GNext]_gvars PROVE [Kept]_vars
    OBVIOUS
  <2>1. CASE Load
    BY <2>1, LoadInv DEF GInv, Load
  <2>2. CASE [Next]_vars
    BY <2>2, LiveKept DEF GInv
  <2> QED BY <2>1, <2>2 DEF GNext, gvars
<1>2. GSpec => [][Kept]_vars
  BY <1>1, LoadedInvariant, PTL DEF GSpec
<1> QED BY <1>2 DEF LiveUntouched

\* Counters, order and tags are those of the blocks until the first load: a
\* Free finds the free neighbour before it, and merges with it.
THEOREM KeptUntilLoadHolds ==
  ASSUME Aligned, Misuse = FALSE PROVE GSpec => []KeptUntilLoad
<1> DEFINE Settled == ~loaded => Order
<1>1. GInit => Settled
  BY OrderInit DEF GInit
<1>2. GInv /\ Settled /\ [GNext]_gvars => Settled'
  <2> SUFFICES ASSUME GInv, Settled, [GNext]_gvars, ~loaded' PROVE Order'
    OBVIOUS
  <2>1. [Next]_vars /\ ~loaded
    BY DEF GNext, gvars, Load
  <2> QED BY <2>1, OrderStep DEF GInv
<1>3. GInv /\ Settled => KeptUntilLoad
  <2> SUFFICES ASSUME GInv, Order, ~loaded
               PROVE  Conserved /\ Accounting /\ GrowthOrder /\ TagsCurrent
    BY DEF KeptUntilLoad
  <2>1. Conserved
    BY DEF GInv, Room, Conserved
  <2>2. Accounting
    BY DEF GInv, Room, Counted, Accounting
  <2>3. GrowthOrder /\ TagsCurrent
    BY GrowthIsOrdered, TagsAreCurrent DEF GInv
  <2> QED BY <2>1, <2>2, <2>3
<1> QED BY <1>1, <1>2, <1>3, LoadedInvariant, PTL DEF GSpec
=============================================================================
