---------------------------- MODULE ElemCalls_proof ----------------------------
(***************************************************************************)
(* What each operation of MsgElems does, for an arena of any size and any  *)
(* number of slots in a block.  A state of the elements is described by    *)
(* three sequences of addresses, L, B and E (Held, below), and an operation*)
(* by the sequences it leaves: the links of the list one change at a time, *)
(* the slots one write at a time, the loops by what has been done after k  *)
(* rounds.  MsgElems_proof puts the calls together.                        *)
(***************************************************************************)
EXTENDS MsgElems, SumTheorems

-----------------------------------------------------------------------------
(***************************************************************************)
(* Loops.  A recursive function over 0 .. n whose values step from one set *)
(* to the next exists, and stays in those sets.                            *)
(***************************************************************************)

LEMMA LoopStays ==
  ASSUME NEW n \in Nat, NEW D, NEW g, g[0] \in D[0],
         \A k \in 1 .. n : g[k - 1] \in D[k - 1] => g[k] \in D[k]
  PROVE  \A k \in 0 .. n : g[k] \in D[k]
<1> DEFINE Good == {k \in 0 .. n : g[k] \in D[k]}
<1>1. 0 \in Good
  OBVIOUS
<1>2. ASSUME NEW k \in 0 .. n - 1, k \in Good PROVE k + 1 \in Good
  <2>1. k + 1 \in 1 .. n /\ k + 1 \in 0 .. n /\ (k + 1) - 1 = k
    OBVIOUS
  <2> QED BY <2>1, <1>2
<1>3. \A k \in 0 .. n : k \in Good
  <2> HIDE DEF Good
  <2> QED BY <1>1, <1>2, NumberInduction
<1> QED BY <1>3

Loops(f, n, base, step) == f = [k \in 0 .. n |-> IF k = 0 THEN base ELSE step[k][f[k - 1]]]

LEMMA LoopExists ==
  ASSUME NEW n \in Nat, NEW D, NEW base \in D[0], NEW step,
         \A k \in 1 .. n : \A x \in D[k - 1] : step[k][x] \in D[k]
  PROVE  \E f : Loops(f, n, base, step) /\ \A k \in 0 .. n : f[k] \in D[k]
<1> DEFINE Loop(f, m) == /\ f = [k \in 0 .. m |-> f[k]] /\ f[0] = base
                         /\ \A k \in 1 .. m : f[k] = step[k][f[k - 1]]
                         /\ \A k \in 0 .. m : f[k] \in D[k]
           Good == {m \in 0 .. n : \E f : Loop(f, m)}
<1>1. 0 \in Good
  <2> DEFINE f == [k \in 0 .. 0 |-> base]
  <2>1. f[0] = base /\ f = [k \in 0 .. 0 |-> f[k]] /\ 0 \in 0 .. n
    OBVIOUS
  <2> HIDE DEF f
  <2>2. Loop(f, 0)
    BY <2>1
  <2> HIDE DEF Loop
  <2> QED BY <2>1, <2>2
<1>2. ASSUME NEW m \in 0 .. n - 1, m \in Good PROVE m + 1 \in Good
  <2>1. PICK f : Loop(f, m)
    BY <1>2
  <2>0. f[0] = base /\ (\A k \in 1 .. m : f[k] = step[k][f[k - 1]]) /\ \A k \in 0 .. m : f[k] \in D[k]
    BY <2>1
  <2> DEFINE g == [k \in 0 .. m + 1 |-> IF k = m + 1 THEN step[k][f[m]] ELSE f[k]]
  <2>2. \A k \in 0 .. m : g[k] = f[k] /\ k # m + 1
    OBVIOUS
  <2>3. m + 1 \in 1 .. n /\ m \in 0 .. m /\ (m + 1) - 1 = m /\ g[m + 1] = step[m + 1][f[m]]
    OBVIOUS
  <2>4. g[m + 1] = step[m + 1][g[m]] /\ g[m + 1] \in D[m + 1]
    <3>1. f[m] \in D[(m + 1) - 1]
      BY <2>1, <2>3
    <3> QED BY <2>2, <2>3, <3>1
  <2>5. \A k \in 1 .. m : g[k] = step[k][g[k - 1]]
    <3> SUFFICES ASSUME NEW k \in 1 .. m PROVE g[k] = step[k][g[k - 1]]
      OBVIOUS
    <3>1. k \in 0 .. m /\ k - 1 \in 0 .. m
      OBVIOUS
    <3> HIDE DEF g
    <3> QED BY <2>0, <2>2, <3>1
  <2>6. \A k \in 0 .. m : g[k] \in D[k]
    BY <2>0, <2>2
  <2>7. \A k \in 0 .. m + 1 : k = m + 1 \/ k \in 0 .. m
    OBVIOUS
  <2>8. g[0] = base
    BY <2>1, <2>2
  <2>9. g = [k \in 0 .. m + 1 |-> g[k]]
    OBVIOUS
  <2> HIDE DEF g
  <2>10. \A k \in 1 .. m + 1 : g[k] = step[k][g[k - 1]]
    <3> SUFFICES ASSUME NEW k \in 1 .. m + 1 PROVE g[k] = step[k][g[k - 1]]
      OBVIOUS
    <3>1. CASE k = m + 1
      BY <2>3, <2>4, <3>1
    <3>2. CASE k \in 1 .. m
      BY <2>5, <3>2
    <3> QED BY <3>1, <3>2
  <2>11. \A k \in 0 .. m + 1 : g[k] \in D[k]
    BY <2>4, <2>6, <2>7
  <2>12. Loop(g, m + 1) /\ m + 1 \in 0 .. n
    <3>1. Loop(g, m + 1)
      BY ONLY <2>8, <2>9, <2>10, <2>11, Zenon
    <3>2. m + 1 \in 0 .. n
      BY <2>3
    <3> QED BY ONLY <3>1, <3>2
  <2> HIDE DEF Loop
  <2> QED BY <2>12
<1>3. n \in Good
  <2> HIDE DEF Good
  <2>1. \A k \in 0 .. n : k \in Good
    BY <1>1, <1>2, NumberInduction
  <2> QED BY <2>1
<1>4. PICK f : Loop(f, n)
  BY <1>3
<1>5. [k \in 0 .. n |-> f[k]] = [k \in 0 .. n |-> IF k = 0 THEN base ELSE step[k][f[k - 1]]]
  <2>1. f[0] = base /\ \A k \in 1 .. n : f[k] = step[k][f[k - 1]]
    BY <1>4
  <2>2. \A k \in 0 .. n : k = 0 \/ k \in 1 .. n
    OBVIOUS
  <2>3. \A k \in 0 .. n : f[k] = IF k = 0 THEN base ELSE step[k][f[k - 1]]
    BY ONLY <2>1, <2>2
  <2> QED BY ONLY <2>3
<1>6. Loops(f, n, base, step)
  <2>1. f = [k \in 0 .. n |-> IF k = 0 THEN base ELSE step[k][f[k - 1]]]
    BY <1>4, <1>5
  <2> QED BY ONLY <2>1, Zenon DEF Loops
<1>7. \A k \in 0 .. n : f[k] \in D[k]
  BY <1>4
<1> QED BY <1>6, <1>7

-----------------------------------------------------------------------------
(***************************************************************************)
(* MsgElems.  There are three sequences of blocks behind the two           *)
(* containers: L, the list's elements, which follow one another by next    *)
(* and by prev; B, the vector's own block and its continuations, which     *)
(* follow one another by extra; and E, the vector's elements, which the    *)
(* slots of B name in order.  No block is in two of them, or twice in one, *)
(* so that a link or a slot that is set changes one of them at one place.  *)
(* A caller's walk stands in L after what it was handed.                   *)
(***************************************************************************)

ElemPlace == ElemAddr \cup {Nil}
ElemKind == {"free", "elem", "cont", "vect"}
ElemBlock == [is : ElemKind, val : ElemValue \cup {None}, prev : ElemPlace, next : ElemPlace,
              slots : [Slot -> ElemPlace], extra : ElemPlace]
ElemEnds == [first : ElemPlace, last : ElemPlace, n : Int]
ElemWalks == [on : BOOLEAN, back : BOOLEAN, pos : ElemPlace, seen : Seq(ElemPlace)]
ElemState == [m : [ElemPlace -> ElemBlock], l : ElemEnds, n : Int, c : ElemPlace, w : ElemWalks, ok : BOOLEAN]

Arena(m) == m \in [ElemPlace -> ElemBlock] /\ \A x \in ElemPlace : m[x].is = "vect" <=> x = Nil
AsElem(s) == s \in ElemState /\ Arena(s.m)

\* Nothing but the arena and the list's ends and count differs between the states.
Aside(s, t) == t.n = s.n /\ t.c = s.c /\ t.w = s.w /\ t.ok = s.ok

\* Block a is d in t, and t is s otherwise.
Wrote(s, a, d, t) == /\ AsElem(t) /\ t.l = s.l /\ Aside(s, t) /\ t.m[a] = d
                     /\ \A x \in ElemPlace : x # a => t.m[x] = s.m[x]

LEMMA PlaceFacts == Nil \in ElemPlace /\ ElemAddr \subseteq ElemPlace /\ Nil \notin ElemAddr
BY DEF ElemPlace, ElemAddr, Nil

LEMMA BlockWritten ==
  ASSUME NEW s, AsElem(s), NEW a \in ElemPlace, NEW d \in ElemBlock, d.is = "vect" <=> a = Nil,
         NEW t, t = [s EXCEPT !.m = [s.m EXCEPT ![a] = d]]
  PROVE  Wrote(s, a, d, t) /\ AsElem(t)
<1> PICK m : m = s.m
  OBVIOUS
<1> PICK n : n = [m EXCEPT ![a] = d]
  OBVIOUS
<1>1. m \in [ElemPlace -> ElemBlock] /\ \A x \in ElemPlace : m[x].is = "vect" <=> x = Nil
  BY DEF AsElem, Arena
<1>2. n \in [ElemPlace -> ElemBlock] /\ n[a] = d /\ \A x \in ElemPlace : x # a => n[x] = m[x]
  BY <1>1
<1>3. Arena(n)
  BY <1>1, <1>2 DEF Arena
<1>4. t = [s EXCEPT !.m = n] /\ s \in ElemState
  BY DEF AsElem
<1>5. t \in ElemState /\ t.m = n /\ t.l = s.l /\ t.n = s.n /\ t.c = s.c /\ t.w = s.w /\ t.ok = s.ok
  BY <1>2, <1>4 DEF ElemState
<1> QED BY <1>2, <1>3, <1>5 DEF Wrote, AsElem, Aside

LEMMA BlockIs ==
  ASSUME NEW s, AsElem(s), NEW a \in ElemPlace
  PROVE  s.m[a] \in ElemBlock /\ (s.m[a].is = "vect" <=> a = Nil)
BY DEF AsElem, Arena

LEMMA SetPrevIs ==
  ASSUME NEW s, AsElem(s), NEW a \in ElemAddr, NEW b \in ElemPlace, NEW t, t = SetPrev(s, a, b)
  PROVE  Wrote(s, a, [s.m[a] EXCEPT !.prev = b], t) /\ AsElem(t)
<1>1. a \in ElemPlace /\ a # Nil
  BY PlaceFacts
<1> PICK d : d = [s.m[a] EXCEPT !.prev = b]
  OBVIOUS
<1>2. d \in ElemBlock /\ (d.is = "vect" <=> a = Nil)
  BY <1>1, BlockIs DEF ElemBlock
<1>3. t = [s EXCEPT !.m = [s.m EXCEPT ![a] = d]]
  BY <1>1 DEF SetPrev
<1> QED BY <1>1, <1>2, <1>3, BlockWritten

LEMMA SetNextIs ==
  ASSUME NEW s, AsElem(s), NEW a \in ElemAddr, NEW b \in ElemPlace, NEW t, t = SetNext(s, a, b)
  PROVE  Wrote(s, a, [s.m[a] EXCEPT !.next = b], t) /\ AsElem(t)
<1>1. a \in ElemPlace /\ a # Nil
  BY PlaceFacts
<1> PICK d : d = [s.m[a] EXCEPT !.next = b]
  OBVIOUS
<1>2. d \in ElemBlock /\ (d.is = "vect" <=> a = Nil)
  BY <1>1, BlockIs DEF ElemBlock
<1>3. t = [s EXCEPT !.m = [s.m EXCEPT ![a] = d]]
  BY <1>1 DEF SetNext
<1> QED BY <1>1, <1>2, <1>3, BlockWritten

\* Nothing but links differs between the arenas.
Relinked(m, n) == \A x \in ElemPlace : /\ n[x].is = m[x].is /\ n[x].val = m[x].val
                                       /\ n[x].slots = m[x].slots /\ n[x].extra = m[x].extra
PrevSet(s, a, b, t) ==
    /\ AsElem(t) /\ t.l = s.l /\ Aside(s, t) /\ Relinked(s.m, t.m)
    /\ \A x \in ElemPlace : t.m[x].next = s.m[x].next
    /\ \A x \in ElemPlace : t.m[x].prev = IF x = a /\ a # Nil THEN b ELSE s.m[x].prev
NextSet(s, a, b, t) ==
    /\ AsElem(t) /\ t.l = s.l /\ Aside(s, t) /\ Relinked(s.m, t.m)
    /\ \A x \in ElemPlace : t.m[x].prev = s.m[x].prev
    /\ \A x \in ElemPlace : t.m[x].next = IF x = a /\ a # Nil THEN b ELSE s.m[x].next

LEMMA PrevIsSet ==
  ASSUME NEW s, AsElem(s), NEW a \in ElemPlace, NEW b \in ElemPlace, NEW t, t = SetPrev(s, a, b)
  PROVE  PrevSet(s, a, b, t) /\ AsElem(t)
<1>1. CASE a = Nil
  <2>1. t = s
    BY <1>1 DEF SetPrev
  <2> QED BY <1>1, <2>1 DEF Aside, Relinked, PrevSet
<1>2. CASE a # Nil
  <2>1. a \in ElemAddr
    BY <1>2 DEF ElemPlace
  <2> PICK d : d = [s.m[a] EXCEPT !.prev = b]
    OBVIOUS
  <2>2. Wrote(s, a, d, t)
    BY <2>1, SetPrevIs
  <2>3. s.m[a] \in ElemBlock
    BY BlockIs
  <2>4. d.prev = b /\ d.is = s.m[a].is /\ d.val = s.m[a].val /\ d.next = s.m[a].next
        /\ d.slots = s.m[a].slots /\ d.extra = s.m[a].extra
    BY <2>3 DEF ElemBlock
  <2> QED BY <1>2, <2>2, <2>4 DEF Wrote, Relinked, PrevSet
<1> QED BY <1>1, <1>2

LEMMA NextIsSet ==
  ASSUME NEW s, AsElem(s), NEW a \in ElemPlace, NEW b \in ElemPlace, NEW t, t = SetNext(s, a, b)
  PROVE  NextSet(s, a, b, t) /\ AsElem(t)
<1>1. CASE a = Nil
  <2>1. t = s
    BY <1>1 DEF SetNext
  <2> QED BY <1>1, <2>1 DEF Aside, Relinked, NextSet
<1>2. CASE a # Nil
  <2>1. a \in ElemAddr
    BY <1>2 DEF ElemPlace
  <2> PICK d : d = [s.m[a] EXCEPT !.next = b]
    OBVIOUS
  <2>2. Wrote(s, a, d, t)
    BY <2>1, SetNextIs
  <2>3. s.m[a] \in ElemBlock
    BY BlockIs
  <2>4. d.next = b /\ d.is = s.m[a].is /\ d.val = s.m[a].val /\ d.prev = s.m[a].prev
        /\ d.slots = s.m[a].slots /\ d.extra = s.m[a].extra
    BY <2>3 DEF ElemBlock
  <2> QED BY <1>2, <2>2, <2>4 DEF Wrote, Relinked, NextSet
<1> QED BY <1>1, <1>2

\* The list's ends and count.
Headed(s, f, g, n, t) == /\ AsElem(t) /\ t.m = s.m /\ Aside(s, t)
                         /\ t.l.first = f /\ t.l.last = g /\ t.l.n = n

LEMMA HeaderIs ==
  ASSUME NEW s, AsElem(s), NEW f \in ElemPlace, NEW g \in ElemPlace, NEW n \in Int,
         NEW l, l = [first |-> f, last |-> g, n |-> n], NEW t, t = [s EXCEPT !.l = l]
  PROVE  Headed(s, f, g, n, t) /\ AsElem(t)
<1>1. l \in ElemEnds
  BY DEF ElemEnds
<1>2. AsElem(t) /\ t.m = s.m /\ Aside(s, t) /\ t.l = l
  BY <1>1 DEF AsElem, ElemState, Aside
<1> QED BY <1>2 DEF Headed

LEMMA EndsPut ==
  ASSUME NEW l \in ElemEnds, NEW f, NEW g, NEW t, t = [l EXCEPT !.first = f, !.last = g]
  PROVE  t = [first |-> f, last |-> g, n |-> l.n]
<1>1. l = [first |-> l.first, last |-> l.last, n |-> l.n]
  BY DEF ElemEnds
<1> PICK p, q, k : p = l.first /\ q = l.last /\ k = l.n
  OBVIOUS
<1>2. l = [first |-> p, last |-> q, n |-> k]
  BY <1>1
<1>3. [l EXCEPT !.first = f] = [first |-> f, last |-> q, n |-> k]
  BY ONLY <1>2
<1> PICK h : h = [l EXCEPT !.first = f]
  OBVIOUS
<1>4. [h EXCEPT !.last = g] = [first |-> f, last |-> g, n |-> k]
  <2>1. h = [first |-> f, last |-> q, n |-> k]
    BY <1>3
  <2> QED BY ONLY <2>1
<1> QED BY <1>4

LEMMA EndsAre ==
  ASSUME NEW s, AsElem(s)
  PROVE  s.l \in ElemEnds /\ s.l.first \in ElemPlace /\ s.l.last \in ElemPlace /\ s.l.n \in Int
BY DEF AsElem, ElemState, ElemEnds

LEMMA AtEndsIs ==
  ASSUME NEW s, AsElem(s), NEW prev, NEW a \in ElemPlace, NEW next, NEW t, t = AtEnds(s, prev, a, next),
         NEW f, prev = Nil => f = a, prev # Nil => f = s.l.first,
         NEW g, next = Nil => g = a, next # Nil => g = s.l.last
  PROVE  Headed(s, f, g, s.l.n, t) /\ AsElem(t)
<1> PICK e : e = s.l
  OBVIOUS
<1> PICK l : l = [e EXCEPT !.first = f, !.last = g]
  OBVIOUS
<1>1. l = [first |-> f, last |-> g, n |-> s.l.n]
  BY EndsAre, EndsPut
<1>2. t = [s EXCEPT !.l = l]
  BY DEF AtEnds
<1>3. f \in ElemPlace /\ g \in ElemPlace
  BY EndsAre
<1> PICK k : k = s.l.n
  OBVIOUS
<1>4. k \in Int /\ l = [first |-> f, last |-> g, n |-> k]
  BY <1>1, EndsAre
<1>5. Headed(s, f, g, k, t) /\ AsElem(t)
  <2>1. AsElem(s)
    OBVIOUS
  <2> QED BY ONLY <1>2, <1>3, <1>4, <2>1, HeaderIs
<1> QED BY <1>5

LEMMA OffEndsIs ==
  ASSUME NEW s, AsElem(s), NEW prev \in ElemPlace, NEW a, NEW next \in ElemPlace, NEW t, t = OffEnds(s, prev, a, next),
         NEW f, s.l.first = a => f = next, s.l.first # a => f = s.l.first,
         NEW g, s.l.last = a => g = prev, s.l.last # a => g = s.l.last
  PROVE  Headed(s, f, g, s.l.n, t) /\ AsElem(t)
<1> PICK e : e = s.l
  OBVIOUS
<1> PICK l : l = [e EXCEPT !.first = f, !.last = g]
  OBVIOUS
<1>1. l = [first |-> f, last |-> g, n |-> s.l.n]
  BY EndsAre, EndsPut
<1>2. t = [s EXCEPT !.l = l]
  BY DEF OffEnds
<1>3. f \in ElemPlace /\ g \in ElemPlace
  BY EndsAre
<1> PICK k : k = s.l.n
  OBVIOUS
<1>4. k \in Int /\ l = [first |-> f, last |-> g, n |-> k]
  BY <1>1, EndsAre
<1>5. Headed(s, f, g, k, t) /\ AsElem(t)
  <2>1. AsElem(s)
    OBVIOUS
  <2> QED BY ONLY <1>2, <1>3, <1>4, <2>1, HeaderIs
<1> QED BY <1>5

LEMMA CountIs ==
  ASSUME NEW s, AsElem(s), NEW d \in Int, NEW t, t = ElemAddItems(s, d)
  PROVE  Headed(s, s.l.first, s.l.last, s.l.n + d, t) /\ AsElem(t)
<1> PICK l : l = [first |-> s.l.first, last |-> s.l.last, n |-> s.l.n + d]
  OBVIOUS
<1>1. l = [s.l EXCEPT !.n = s.l.n + d]
  <2>1. s.l = [first |-> s.l.first, last |-> s.l.last, n |-> s.l.n]
    BY EndsAre DEF ElemEnds
  <2> PICK p, q, k : p = s.l.first /\ q = s.l.last /\ k = s.l.n
    OBVIOUS
  <2> PICK e : e = s.l
    OBVIOUS
  <2>2. e = [first |-> p, last |-> q, n |-> k]
    BY <2>1
  <2>3. [e EXCEPT !.n = k + d] = [first |-> p, last |-> q, n |-> k + d]
    BY ONLY <2>2
  <2> QED BY <2>3
<1>2. t = [s EXCEPT !.l = l]
  BY <1>1 DEF ElemAddItems
<1> PICK f, g, k : f = s.l.first /\ g = s.l.last /\ k = s.l.n + d
  OBVIOUS
<1>3. f \in ElemPlace /\ g \in ElemPlace /\ k \in Int /\ l = [first |-> f, last |-> g, n |-> k]
  BY EndsAre
<1>4. Headed(s, f, g, k, t) /\ AsElem(t)
  BY <1>2, <1>3, HeaderIs
<1> QED BY <1>4

LinkedIn(s, prev, a, next, t) ==
    /\ AsElem(t) /\ Aside(s, t) /\ Relinked(s.m, t.m)
    /\ t.l.first = (IF prev = Nil THEN a ELSE s.l.first)
    /\ t.l.last = (IF next = Nil THEN a ELSE s.l.last) /\ t.l.n = s.l.n + 1
    /\ \A x \in ElemPlace : t.m[x].prev = IF x = next /\ x # Nil THEN a
                                          ELSE IF x = a THEN prev ELSE s.m[x].prev
    /\ \A x \in ElemPlace : t.m[x].next = IF x = prev /\ x # Nil THEN a
                                          ELSE IF x = a THEN next ELSE s.m[x].next

LEMMA LinkInIs ==
  ASSUME NEW s, AsElem(s), NEW prev \in ElemPlace, NEW a \in ElemAddr, NEW next \in ElemPlace,
         prev # a, next # a, NEW t, t = ElemLinkIn(s, prev, a, next)
  PROVE  LinkedIn(s, prev, a, next, t)
<1>0. a \in ElemPlace /\ a # Nil
  BY DEF ElemPlace, ElemAddr, Nil
<1> PICK s1 : s1 = SetPrev(s, a, prev)
  OBVIOUS
<1> PICK s2 : s2 = SetNext(s1, prev, a)
  OBVIOUS
<1> PICK s3 : s3 = SetNext(s2, a, next)
  OBVIOUS
<1> PICK s4 : s4 = SetPrev(s3, next, a)
  OBVIOUS
<1> PICK s5 : s5 = AtEnds(s4, prev, a, next)
  OBVIOUS
<1>1. t = ElemAddItems(s5, 1)
  BY DEF ElemLinkIn
<1>2. PrevSet(s, a, prev, s1) /\ AsElem(s1)
  BY <1>0, PrevIsSet
<1>3. NextSet(s1, prev, a, s2) /\ AsElem(s2)
  BY <1>0, <1>2, NextIsSet
<1>4. NextSet(s2, a, next, s3) /\ AsElem(s3)
  BY <1>0, <1>3, NextIsSet
<1>5. PrevSet(s3, next, a, s4) /\ AsElem(s4)
  BY <1>0, <1>4, PrevIsSet
<1> PICK f : (prev = Nil => f = a) /\ (prev # Nil => f = s4.l.first)
  <2> WITNESS IF prev = Nil THEN a ELSE s4.l.first
  <2> QED OBVIOUS
<1> PICK g : (next = Nil => g = a) /\ (next # Nil => g = s4.l.last)
  <2> WITNESS IF next = Nil THEN a ELSE s4.l.last
  <2> QED OBVIOUS
<1>6. Headed(s4, f, g, s4.l.n, s5) /\ AsElem(s5)
  BY <1>0, <1>5, AtEndsIs
<1>7. Headed(s5, s5.l.first, s5.l.last, s5.l.n + 1, t) /\ AsElem(t)
  BY <1>1, <1>6, CountIs
<1>8. Aside(s, t) /\ Relinked(s.m, t.m)
  BY <1>2, <1>3, <1>4, <1>5, <1>6, <1>7 DEF Aside, Relinked, PrevSet, NextSet, Headed
<1>9. /\ t.l.first = (IF prev = Nil THEN a ELSE s.l.first)
      /\ t.l.last = (IF next = Nil THEN a ELSE s.l.last) /\ t.l.n = s.l.n + 1
  BY <1>2, <1>3, <1>4, <1>5, <1>6, <1>7
     DEF PrevSet, NextSet, Headed
<1>10. \A x \in ElemPlace : t.m[x].prev = IF x = next /\ x # Nil THEN a
                                          ELSE IF x = a THEN prev ELSE s.m[x].prev
  BY <1>0, <1>2, <1>3, <1>4, <1>5, <1>6, <1>7
     DEF PrevSet, NextSet, Headed
<1>11. \A x \in ElemPlace : t.m[x].next = IF x = prev /\ x # Nil THEN a
                                          ELSE IF x = a THEN next ELSE s.m[x].next
  BY <1>0, <1>2, <1>3, <1>4, <1>5, <1>6, <1>7
     DEF PrevSet, NextSet, Headed
<1> QED BY <1>7, <1>8, <1>9, <1>10, <1>11 DEF LinkedIn

LEMMA UnLinkIs ==
  ASSUME NEW s, AsElem(s), NEW a \in ElemAddr, NEW t, t = ElemUnLink(s, a),
         NEW prev, prev = s.m[a].prev, NEW next, next = s.m[a].next, prev # a, next # a
  PROVE  /\ AsElem(t) /\ Aside(s, t) /\ Relinked(s.m, t.m)
         /\ t.l.first = (IF s.l.first = a THEN next ELSE s.l.first)
         /\ t.l.last = (IF s.l.last = a THEN prev ELSE s.l.last) /\ t.l.n = s.l.n - 1
         /\ \A x \in ElemPlace : t.m[x].prev = IF x = a THEN Nil
                                               ELSE IF x = next /\ x # Nil THEN prev ELSE s.m[x].prev
         /\ \A x \in ElemPlace : t.m[x].next = IF x = a THEN Nil
                                               ELSE IF x = prev /\ x # Nil THEN next ELSE s.m[x].next
<1>0. a \in ElemPlace /\ a # Nil /\ prev \in ElemPlace /\ next \in ElemPlace /\ Nil \in ElemPlace
  BY DEF ElemPlace, ElemAddr, Nil, AsElem, Arena, ElemBlock
<1> PICK s1 : s1 = SetNext(s, prev, next)
  OBVIOUS
<1> PICK s2 : s2 = SetPrev(s1, next, prev)
  OBVIOUS
<1> PICK d \in Int : d = -1
  OBVIOUS
<1> PICK s3 : s3 = ElemAddItems(s2, d)
  OBVIOUS
<1> PICK s4 : s4 = OffEnds(s3, prev, a, next)
  OBVIOUS
<1> PICK s5 : s5 = SetPrev(s4, a, Nil)
  OBVIOUS
<1>1. t = SetNext(s5, a, Nil)
  BY DEF ElemUnLink
<1>2. NextSet(s, prev, next, s1) /\ AsElem(s1)
  BY <1>0, NextIsSet
<1>3. PrevSet(s1, next, prev, s2) /\ AsElem(s2)
  BY <1>0, <1>2, PrevIsSet
<1>4. Headed(s2, s2.l.first, s2.l.last, s2.l.n + d, s3) /\ AsElem(s3)
  BY <1>3, CountIs
<1> PICK f : (s3.l.first = a => f = next) /\ (s3.l.first # a => f = s3.l.first)
  <2> WITNESS IF s3.l.first = a THEN next ELSE s3.l.first
  <2> QED OBVIOUS
<1> PICK g : (s3.l.last = a => g = prev) /\ (s3.l.last # a => g = s3.l.last)
  <2> WITNESS IF s3.l.last = a THEN prev ELSE s3.l.last
  <2> QED OBVIOUS
<1>5. Headed(s3, f, g, s3.l.n, s4) /\ AsElem(s4)
  <2>1. (s3.l.first = a => f = next) /\ (s3.l.first # a => f = s3.l.first)
    OBVIOUS
  <2>2. (s3.l.last = a => g = prev) /\ (s3.l.last # a => g = s3.l.last)
    OBVIOUS
  <2>3. s4 = OffEnds(s3, prev, a, next)
    OBVIOUS
  <2> QED BY ONLY <1>0, <1>4, <2>1, <2>2, <2>3, OffEndsIs
<1>6. PrevSet(s4, a, Nil, s5) /\ AsElem(s5)
  BY <1>0, <1>5, PrevIsSet
<1>7. NextSet(s5, a, Nil, t) /\ AsElem(t)
  BY ONLY <1>0, <1>1, <1>6, NextIsSet
<1>8. Aside(s, t) /\ Relinked(s.m, t.m)
  <2>1. Aside(s, s1) /\ Aside(s1, s2) /\ Aside(s2, s3) /\ Aside(s3, s4) /\ Aside(s4, s5) /\ Aside(s5, t)
    BY ONLY <1>2, <1>3, <1>4, <1>5, <1>6, <1>7 DEF PrevSet, NextSet, Headed
  <2>2. /\ Relinked(s.m, s1.m) /\ Relinked(s1.m, s2.m) /\ s3.m = s2.m /\ s4.m = s3.m
        /\ Relinked(s4.m, s5.m) /\ Relinked(s5.m, t.m)
    BY ONLY <1>2, <1>3, <1>4, <1>5, <1>6, <1>7 DEF PrevSet, NextSet, Headed
  <2>3. Aside(s, t)
    BY ONLY <2>1 DEF Aside
  <2>4. Relinked(s.m, t.m)
    BY ONLY <2>2 DEF Relinked
  <2> QED BY <2>3, <2>4
<1>9. /\ t.l.first = (IF s.l.first = a THEN next ELSE s.l.first)
      /\ t.l.last = (IF s.l.last = a THEN prev ELSE s.l.last) /\ t.l.n = s.l.n - 1
  <2>1. /\ s1.l = s.l /\ s2.l = s1.l /\ s5.l = s4.l /\ t.l = s5.l
        /\ s3.l.first = s2.l.first /\ s3.l.last = s2.l.last /\ s3.l.n = s2.l.n + d
        /\ s4.l.first = f /\ s4.l.last = g /\ s4.l.n = s3.l.n
    BY ONLY <1>2, <1>3, <1>4, <1>5, <1>6, <1>7 DEF PrevSet, NextSet, Headed
  <2>2. s.l.n + d = s.l.n - 1
    <3>1. s.l.n \in Int
      BY EndsAre
    <3> QED BY <3>1
  <2>3. s3.l.first = s.l.first /\ s3.l.last = s.l.last /\ s3.l.n = s.l.n + d
    BY ONLY <2>1
  <2>4. (s3.l.first = a => f = next) /\ (s3.l.first # a => f = s3.l.first)
    OBVIOUS
  <2>5. (s3.l.last = a => g = prev) /\ (s3.l.last # a => g = s3.l.last)
    OBVIOUS
  <2> QED BY ONLY <2>1, <2>2, <2>3, <2>4, <2>5
<1>10. \A x \in ElemPlace : t.m[x].prev = IF x = a THEN Nil
                                          ELSE IF x = next /\ x # Nil THEN prev ELSE s.m[x].prev
  <2>1. prev # a /\ next # a
    OBVIOUS
  <2> QED BY ONLY <1>0, <2>1, <1>2, <1>3, <1>4, <1>5, <1>6, <1>7 DEF PrevSet, NextSet, Headed
<1>11. \A x \in ElemPlace : t.m[x].next = IF x = a THEN Nil
                                          ELSE IF x = prev /\ x # Nil THEN next ELSE s.m[x].next
  <2>1. prev # a /\ next # a
    OBVIOUS
  <2> QED BY ONLY <1>0, <2>1, <1>2, <1>3, <1>4, <1>5, <1>6, <1>7 DEF PrevSet, NextSet, Headed
<1> QED BY <1>7, <1>8, <1>9, <1>10, <1>11

-----------------------------------------------------------------------------
(* The list's chain: linked in at either end, and unlinked. *)

Once(q) == \A i, j \in 1 .. Len(q) : q[i] = q[j] => i = j

Linked(m, L) == \A i \in 1 .. Len(L) : /\ m[L[i]].is = "elem"
                                       /\ m[L[i]].prev = (IF i = 1 THEN Nil ELSE L[i - 1])
                                       /\ m[L[i]].next = (IF i = Len(L) THEN Nil ELSE L[i + 1])
Ended(l, L) == /\ l.n = Len(L) /\ l.first = (IF Len(L) = 0 THEN Nil ELSE L[1])
               /\ l.last = (IF Len(L) = 0 THEN Nil ELSE L[Len(L)])
ListIs(s, L) == L \in Seq(ElemAddr) /\ Once(L) /\ Linked(s.m, L) /\ Ended(s.l, L)

\* L without its element j.
Cut(L, j) == [i \in 1 .. Len(L) - 1 |-> IF i < j THEN L[i] ELSE L[i + 1]]

LEMMA CutIs ==
  ASSUME NEW S, NEW L \in Seq(S), NEW j \in 1 .. Len(L)
  PROVE  /\ Cut(L, j) \in Seq(S) /\ Len(Cut(L, j)) = Len(L) - 1
         /\ \A i \in 1 .. Len(L) - 1 : Cut(L, j)[i] = IF i < j THEN L[i] ELSE L[i + 1]
<1>1. Len(L) - 1 \in Nat
  OBVIOUS
<1>2. \A i \in 1 .. Len(L) - 1 : (IF i < j THEN L[i] ELSE L[i + 1]) \in S
  OBVIOUS
<1>3. Cut(L, j) \in [1 .. Len(L) - 1 -> S]
  BY <1>2 DEF Cut
<1>4. Cut(L, j) \in Seq(S) /\ Len(Cut(L, j)) = Len(L) - 1
  BY <1>1, <1>3
<1>5. \A i \in 1 .. Len(L) - 1 : Cut(L, j)[i] = IF i < j THEN L[i] ELSE L[i + 1]
  BY DEF Cut
<1> QED BY <1>4, <1>5

LEMMA CutOnce ==
  ASSUME NEW S, NEW L \in Seq(S), NEW j \in 1 .. Len(L), Once(L)
  PROVE  Once(Cut(L, j)) /\ \A i \in 1 .. Len(L) - 1 : Cut(L, j)[i] # L[j]
<1>1. /\ Len(Cut(L, j)) = Len(L) - 1
      /\ \A i \in 1 .. Len(L) - 1 : Cut(L, j)[i] = IF i < j THEN L[i] ELSE L[i + 1]
  BY CutIs
<1> PICK K, n : K = Cut(L, j) /\ n = Len(L)
  OBVIOUS
<1>2. n \in Nat /\ j \in 1 .. n /\ \A e, f \in 1 .. n : L[e] = L[f] => e = f
  BY DEF Once
<1>3. \A i \in 1 .. n - 1 : /\ i \in 1 .. n /\ i + 1 \in 1 .. n
                            /\ i < j => K[i] = L[i]
                            /\ ~ (i < j) => K[i] = L[i + 1]
  BY <1>1, <1>2
<1>4. ASSUME NEW i \in 1 .. n - 1 PROVE K[i] # L[j]
  <2>2. i < j => i # j
    BY <1>2
  <2>3. ~ (i < j) => i + 1 # j
    BY <1>2
  <2> QED BY ONLY <1>2, <1>3, <2>2, <2>3, i \in 1 .. n - 1
<1>5. ASSUME NEW i \in 1 .. n - 1, NEW k \in 1 .. n - 1, K[i] = K[k] PROVE i = k
  <2>1. CASE i < j /\ k < j
    BY ONLY <1>2, <1>3, <1>5, <2>1
  <2>2. CASE i < j /\ ~ (k < j)
    <3>1. i = k + 1
      BY ONLY <1>2, <1>3, <1>5, <2>2
    <3> QED BY <1>2, <2>2, <3>1
  <2>3. CASE ~ (i < j) /\ k < j
    <3>1. i + 1 = k
      BY ONLY <1>2, <1>3, <1>5, <2>3
    <3> QED BY <1>2, <2>3, <3>1
  <2>4. CASE ~ (i < j) /\ ~ (k < j)
    <3>1. i + 1 = k + 1
      BY ONLY <1>2, <1>3, <1>5, <2>4
    <3> QED BY <3>1
  <2> QED BY <2>1, <2>2, <2>3, <2>4
<1>6. Len(K) = n - 1
  BY <1>1
<1>7. Once(K)
  BY ONLY <1>5, <1>6 DEF Once
<1> QED BY <1>4, <1>7

LEMMA Unlinked ==
  ASSUME NEW s, AsElem(s), NEW L, ListIs(s, L), NEW j \in 1 .. Len(L), NEW a, a = L[j],
         NEW t, t = ElemUnLink(s, a), NEW K, K = Cut(L, j)
  PROVE  AsElem(t) /\ Aside(s, t) /\ Relinked(s.m, t.m) /\ ListIs(t, K)
<1> PICK prev, next : prev = s.m[a].prev /\ next = s.m[a].next
  OBVIOUS
<1> PICK n : n = Len(L)
  OBVIOUS
<1>0. L \in Seq(ElemAddr) /\ n \in Nat /\ j \in 1 .. n /\ a \in ElemAddr /\ a # Nil
  BY PlaceFacts DEF ListIs
<1>1. \A i \in 1 .. n : /\ s.m[L[i]].is = "elem" /\ s.m[L[i]].prev = (IF i = 1 THEN Nil ELSE L[i - 1])
                        /\ s.m[L[i]].next = (IF i = n THEN Nil ELSE L[i + 1])
  BY DEF ListIs, Linked
<1>2. \A i, k \in 1 .. n : L[i] = L[k] => i = k
  BY DEF ListIs, Once
<1>3. \A i \in 1 .. n : L[i] \in ElemAddr /\ L[i] \in ElemPlace /\ L[i] # Nil
  BY <1>0, PlaceFacts
<1>4. prev = (IF j = 1 THEN Nil ELSE L[j - 1]) /\ next = (IF j = n THEN Nil ELSE L[j + 1])
  BY <1>0, <1>1
<1>5. prev # a /\ next # a
  BY <1>0, <1>2, <1>4
<1>6. /\ AsElem(t) /\ Aside(s, t) /\ Relinked(s.m, t.m)
      /\ t.l.first = (IF s.l.first = a THEN next ELSE s.l.first)
      /\ t.l.last = (IF s.l.last = a THEN prev ELSE s.l.last) /\ t.l.n = s.l.n - 1
      /\ \A x \in ElemPlace : t.m[x].prev = IF x = a THEN Nil
                                            ELSE IF x = next /\ x # Nil THEN prev ELSE s.m[x].prev
      /\ \A x \in ElemPlace : t.m[x].next = IF x = a THEN Nil
                                            ELSE IF x = prev /\ x # Nil THEN next ELSE s.m[x].next
  BY <1>0, <1>5, UnLinkIs
<1>7. /\ K \in Seq(ElemAddr) /\ Len(K) = n - 1 /\ Once(K)
      /\ \A i \in 1 .. n - 1 : K[i] = IF i < j THEN L[i] ELSE L[i + 1]
  <2>1. Once(L) /\ K = Cut(L, j) /\ n = Len(L)
    BY DEF ListIs
  <2>2. K \in Seq(ElemAddr) /\ Len(K) = n - 1 /\ \A i \in 1 .. n - 1 : K[i] = IF i < j THEN L[i] ELSE L[i + 1]
    BY ONLY <1>0, <2>1, CutIs
  <2>3. Once(K)
    BY ONLY <1>0, <2>1, CutOnce
  <2> QED BY <2>2, <2>3
<1>8. a = L[j] /\ s.l.n = n /\ s.l.first = (IF n = 0 THEN Nil ELSE L[1]) /\ s.l.last = (IF n = 0 THEN Nil ELSE L[n])
  BY DEF ListIs, Ended
<1>9. ASSUME NEW i \in 1 .. n - 1
      PROVE  /\ t.m[K[i]].is = "elem" /\ t.m[K[i]].prev = (IF i = 1 THEN Nil ELSE K[i - 1])
             /\ t.m[K[i]].next = (IF i = n - 1 THEN Nil ELSE K[i + 1])
  <2> PICK x : x = K[i]
    OBVIOUS
  <2>1. CASE i < j
    <3>1. x = L[i] /\ i \in 1 .. n /\ x # a /\ x # next /\ x \in ElemPlace
      BY <1>0, <1>2, <1>3, <1>4, <1>7, <1>8, <2>1
    <3>2. t.m[x].is = "elem" /\ t.m[x].prev = s.m[x].prev
      BY <1>1, <1>6, <3>1 DEF Relinked
    <3>3. t.m[x].prev = (IF i = 1 THEN Nil ELSE K[i - 1])
      <4>1. s.m[x].prev = (IF i = 1 THEN Nil ELSE L[i - 1])
        BY <1>1, <3>1
      <4>2. i # 1 => K[i - 1] = L[i - 1]
        BY <1>0, <1>7, <2>1
      <4> QED BY <3>2, <4>1, <4>2
    <3>4. t.m[x].next = (IF x = prev THEN next ELSE s.m[x].next)
      BY <1>3, <1>6, <3>1
    <3>5. x = prev <=> i = j - 1
      BY <1>0, <1>2, <1>3, <1>4, <2>1, <3>1
    <3>6. t.m[x].next = (IF i = n - 1 THEN Nil ELSE K[i + 1])
      <4>1. CASE i = j - 1
        BY <1>0, <1>4, <1>7, <3>4, <3>5, <4>1
      <4>2. CASE i # j - 1
        <5>1. s.m[x].next = L[i + 1] /\ K[i + 1] = L[i + 1] /\ i # n - 1
          <6>1. i + 1 \in 1 .. n - 1 /\ i + 1 < j
            BY <1>0, <2>1, <4>2
          <6>2. K[i + 1] = L[i + 1]
            BY <1>7, <6>1
          <6>3. i # n /\ i # n - 1
            BY <1>0, <6>1
          <6> QED BY <1>1, <3>1, <6>2, <6>3
        <5> QED BY <3>4, <3>5, <4>2, <5>1
      <4> QED BY <4>1, <4>2
    <3> QED BY <3>2, <3>3, <3>6
  <2>2. CASE i >= j
    <3>1. x = L[i + 1] /\ i + 1 \in 1 .. n /\ x # a /\ x # prev /\ x \in ElemPlace /\ x # Nil
      <4> PICK k : k = i + 1
        OBVIOUS
      <4>1. k \in 1 .. n /\ k # j /\ (j # 1 => j - 1 \in 1 .. n /\ j - 1 # k)
        BY ONLY <1>0, <2>2, i \in 1 .. n - 1, k = i + 1
      <4>2. x = L[k]
        BY ONLY <1>0, <1>7, <2>2, i \in 1 .. n - 1, k = i + 1, x = K[i]
      <4>3. x \in ElemPlace /\ x # Nil
        BY ONLY <1>3, <4>1, <4>2
      <4>4. x # a
        BY ONLY <1>0, <1>2, <1>8, <4>1, <4>2
      <4>5. x # prev
        BY ONLY <1>2, <1>4, <4>1, <4>2, <4>3
      <4> QED BY ONLY <4>1, <4>2, <4>3, <4>4, <4>5, k = i + 1
    <3>2. t.m[x].is = "elem" /\ t.m[x].next = s.m[x].next
      <4>1. s.m[x].is = "elem"
        BY ONLY <1>1, <3>1
      <4>2. Relinked(s.m, t.m)
        BY <1>6
      <4>3. t.m[x].is = s.m[x].is
        BY ONLY <3>1, <4>2 DEF Relinked
      <4>4. t.m[x].next = IF x = a THEN Nil ELSE IF x = prev /\ x # Nil THEN next ELSE s.m[x].next
        BY ONLY <1>6, <3>1
      <4> QED BY ONLY <3>1, <4>1, <4>3, <4>4
    <3>3. t.m[x].next = (IF i = n - 1 THEN Nil ELSE K[i + 1])
      <4>1. s.m[x].next = (IF i + 1 = n THEN Nil ELSE L[(i + 1) + 1])
        BY <1>1, <3>1
      <4>2. i # n - 1 => K[i + 1] = L[(i + 1) + 1]
        BY <1>0, <1>7, <2>2
      <4> QED BY <3>2, <4>1, <4>2
    <3>4. t.m[x].prev = (IF x = next THEN prev ELSE s.m[x].prev)
      BY <1>6, <3>1
    <3>5. x = next <=> i = j
      BY <1>0, <1>2, <1>3, <1>4, <2>2, <3>1
    <3>6. t.m[x].prev = (IF i = 1 THEN Nil ELSE K[i - 1])
      <4>1. CASE i = j
        BY <1>0, <1>4, <1>7, <3>4, <3>5, <4>1
      <4>2. CASE i # j
        <5>1. s.m[x].prev = L[i] /\ K[i - 1] = L[i] /\ i # 1
          <6>1. i - 1 \in 1 .. n - 1 /\ ~(i - 1 < j)
            BY <1>0, <2>2, <4>2
          <6>2. s.m[x].prev = L[(i + 1) - 1]
            BY <1>0, <1>1, <3>1
          <6>3. K[i - 1] = L[(i - 1) + 1]
            BY <1>7, <6>1
          <6> QED BY <6>1, <6>2, <6>3
        <5> QED BY <3>4, <3>5, <4>2, <5>1
      <4> QED BY <4>1, <4>2
    <3> QED BY <3>2, <3>3, <3>6
  <2> QED BY <1>0, <2>1, <2>2
<1>10. Ended(t.l, K)
  <2>1. t.l.n = n - 1
    BY <1>6, <1>8
  <2>2. t.l.first = (IF n - 1 = 0 THEN Nil ELSE K[1])
    <3>1. s.l.first = L[1] /\ (L[1] = a <=> j = 1)
      BY <1>0, <1>2, <1>8
    <3> QED BY <1>0, <1>4, <1>6, <1>7, <3>1
  <2>3. t.l.last = (IF n - 1 = 0 THEN Nil ELSE K[n - 1])
    <3>1. s.l.last = L[n] /\ (L[n] = a <=> j = n)
      BY <1>0, <1>2, <1>8
    <3> QED BY <1>0, <1>4, <1>6, <1>7, <3>1
  <2> QED BY <1>7, <2>1, <2>2, <2>3 DEF Ended
<1> QED BY <1>6, <1>7, <1>9, <1>10 DEF ListIs, Linked

\* A block linked in before the first.
LEMMA HeadLinked ==
  ASSUME NEW s, AsElem(s), NEW L, ListIs(s, L), NEW a \in ElemAddr, s.m[a].is = "elem",
         \A i \in 1 .. Len(L) : L[i] # a, NEW t, t = ElemLinkIn(s, Nil, a, s.l.first),
         NEW K, K = <<a>> \o L
  PROVE  AsElem(t) /\ Aside(s, t) /\ Relinked(s.m, t.m) /\ ListIs(t, K)
<1> PICK n, next : n = Len(L) /\ next = s.l.first
  OBVIOUS
<1>0. L \in Seq(ElemAddr) /\ n \in Nat /\ a # Nil /\ a \in ElemPlace /\ Nil \in ElemPlace
  BY PlaceFacts DEF ListIs
<1>1. \A i \in 1 .. n : /\ s.m[L[i]].is = "elem" /\ s.m[L[i]].prev = (IF i = 1 THEN Nil ELSE L[i - 1])
                        /\ s.m[L[i]].next = (IF i = n THEN Nil ELSE L[i + 1])
  BY DEF ListIs, Linked
<1>2. \A i, k \in 1 .. n : L[i] = L[k] => i = k
  BY DEF ListIs, Once
<1>3. \A i \in 1 .. n : L[i] \in ElemPlace /\ L[i] # Nil /\ L[i] # a
  BY <1>0, PlaceFacts
<1>4. next = (IF n = 0 THEN Nil ELSE L[1]) /\ s.l.last = (IF n = 0 THEN Nil ELSE L[n]) /\ s.l.n = n
  BY DEF ListIs, Ended
<1>5. next \in ElemPlace /\ next # a /\ Nil # a
  BY <1>0, <1>3, <1>4
<1>6. /\ AsElem(t) /\ Aside(s, t) /\ Relinked(s.m, t.m)
      /\ t.l.first = (IF Nil = Nil THEN a ELSE s.l.first)
      /\ t.l.last = (IF next = Nil THEN a ELSE s.l.last) /\ t.l.n = s.l.n + 1
      /\ \A x \in ElemPlace : t.m[x].prev = IF x = next /\ x # Nil THEN a
                                            ELSE IF x = a THEN Nil ELSE s.m[x].prev
      /\ \A x \in ElemPlace : t.m[x].next = IF x = Nil /\ x # Nil THEN a
                                            ELSE IF x = a THEN next ELSE s.m[x].next
  <2>1. AsElem(s) /\ t = ElemLinkIn(s, Nil, a, next)
    OBVIOUS
  <2>2. LinkedIn(s, Nil, a, next, t)
    BY ONLY <1>0, <1>5, <2>1, LinkInIs
  <2> QED BY <2>2 DEF LinkedIn
<1>7. /\ K \in Seq(ElemAddr) /\ Len(K) = n + 1 /\ K[1] = a /\ \A i \in 2 .. n + 1 : K[i] = L[i - 1]
  BY <1>0
<1>8. Once(K)
  BY <1>0, <1>2, <1>3, <1>7 DEF Once
<1>9. ASSUME NEW i \in 1 .. n + 1
      PROVE  /\ t.m[K[i]].is = "elem" /\ t.m[K[i]].prev = (IF i = 1 THEN Nil ELSE K[i - 1])
             /\ t.m[K[i]].next = (IF i = n + 1 THEN Nil ELSE K[i + 1])
  <2>1. CASE i = 1
    <3>1. t.m[a].is = "elem" /\ t.m[a].prev = Nil /\ t.m[a].next = next
      BY <1>0, <1>5, <1>6 DEF Relinked
    <3>2. n # 0 => K[2] = L[1]
      BY <1>0, <1>7
    <3> QED BY <1>0, <1>4, <1>7, <2>1, <3>1, <3>2
  <2>2. CASE i # 1
    <3> PICK k : k = i - 1
      OBVIOUS
    <3>1. k \in 1 .. n /\ K[i] = L[k] /\ i = k + 1
      BY <1>0, <1>7, <2>2
    <3> PICK x : x = L[k]
      OBVIOUS
    <3>2. x \in ElemPlace /\ x # Nil /\ x # a
      BY <1>3, <3>1
    <3>3. t.m[x].is = "elem" /\ t.m[x].next = s.m[x].next
      <4>1. s.m[x].is = "elem"
        BY ONLY <1>1, <3>1, x = L[k]
      <4>2. Relinked(s.m, t.m)
        BY <1>6
      <4>3. t.m[x].is = s.m[x].is
        BY ONLY <3>2, <4>2 DEF Relinked
      <4>4. t.m[x].next = s.m[x].next
        BY ONLY <1>6, <3>2
      <4> QED BY ONLY <4>1, <4>3, <4>4
    <3>4. t.m[x].prev = (IF x = next THEN a ELSE s.m[x].prev)
      BY <1>6, <3>2
    <3>5. x = next <=> k = 1
      BY <1>0, <1>2, <1>4, <3>1
    <3>6. t.m[x].prev = K[i - 1]
      <4>1. k # 1 => K[k] = L[k - 1]
        BY <1>0, <1>7, <3>1
      <4> QED BY <1>1, <1>7, <3>1, <3>4, <3>5, <4>1
    <3>7. t.m[x].next = (IF i = n + 1 THEN Nil ELSE K[i + 1])
      <4>1. k # n => K[i + 1] = L[k + 1]
        <5>1. ASSUME k # n PROVE K[i + 1] = L[(i + 1) - 1]
          BY <1>0, <1>7, <3>1, <5>1
        <5> QED BY <3>1, <5>1
      <4>2. s.m[x].next = (IF k = n THEN Nil ELSE L[k + 1])
        BY <1>1, <3>1
      <4>3. k = n <=> i = n + 1
        BY <1>0, <3>1
      <4> QED BY <3>3, <4>1, <4>2, <4>3
    <3> QED BY <2>2, <3>1, <3>3, <3>6, <3>7
  <2> QED BY <2>1, <2>2
<1>10. Ended(t.l, K)
  <2>1. n # 0 => K[n + 1] = L[n]
    <3>1. ASSUME n # 0 PROVE K[n + 1] = L[(n + 1) - 1]
      BY <1>0, <1>7, <3>1
    <3> QED BY <1>0, <3>1
  <2>2. t.l.first = a /\ t.l.n = n + 1
    BY <1>4, <1>6
  <2>3. t.l.last = (IF n = 0 THEN a ELSE L[n])
    <3>1. n # 0 => L[1] # Nil
      BY <1>0, <1>3
    <3> QED BY <1>4, <1>6, <3>1
  <2>4. n + 1 # 0
    BY <1>0
  <2>5. t.l.last = K[n + 1]
    <3>1. n = 0 => K[n + 1] = a
      BY <1>7
    <3> QED BY <2>1, <2>3, <3>1
  <2>6. t.l.n = Len(K) /\ Len(K) # 0 /\ t.l.first = K[1] /\ t.l.last = K[Len(K)]
    BY ONLY <1>7, <2>2, <2>4, <2>5
  <2> QED BY ONLY <2>6 DEF Ended
<1>11. ListIs(t, K)
  BY ONLY <1>7, <1>8, <1>9, <1>10 DEF ListIs, Linked
<1> QED BY <1>6, <1>11

\* And after the last.
LEMMA TailLinked ==
  ASSUME NEW s, AsElem(s), NEW L, ListIs(s, L), NEW a \in ElemAddr, s.m[a].is = "elem",
         \A i \in 1 .. Len(L) : L[i] # a, NEW t, t = ElemLinkIn(s, s.l.last, a, Nil)
  PROVE  AsElem(t) /\ Aside(s, t) /\ Relinked(s.m, t.m) /\ ListIs(t, Append(L, a))
<1> PICK n, prev : n = Len(L) /\ prev = s.l.last
  OBVIOUS
<1> PICK K : K = Append(L, a)
  OBVIOUS
<1>0. L \in Seq(ElemAddr) /\ n \in Nat /\ a # Nil /\ a \in ElemPlace /\ Nil \in ElemPlace
  BY PlaceFacts DEF ListIs
<1>1. \A i \in 1 .. n : /\ s.m[L[i]].is = "elem" /\ s.m[L[i]].prev = (IF i = 1 THEN Nil ELSE L[i - 1])
                        /\ s.m[L[i]].next = (IF i = n THEN Nil ELSE L[i + 1])
  BY DEF ListIs, Linked
<1>2. \A i, k \in 1 .. n : L[i] = L[k] => i = k
  BY DEF ListIs, Once
<1>3. \A i \in 1 .. n : L[i] \in ElemPlace /\ L[i] # Nil /\ L[i] # a
  BY <1>0, PlaceFacts
<1>4. s.l.first = (IF n = 0 THEN Nil ELSE L[1]) /\ prev = (IF n = 0 THEN Nil ELSE L[n]) /\ s.l.n = n
  BY DEF ListIs, Ended
<1>5. prev \in ElemPlace /\ prev # a /\ Nil # a
  BY <1>0, <1>3, <1>4
<1>6. /\ AsElem(t) /\ Aside(s, t) /\ Relinked(s.m, t.m)
      /\ t.l.first = (IF prev = Nil THEN a ELSE s.l.first)
      /\ t.l.last = (IF Nil = Nil THEN a ELSE s.l.last) /\ t.l.n = s.l.n + 1
      /\ \A x \in ElemPlace : t.m[x].prev = IF x = Nil /\ x # Nil THEN a
                                            ELSE IF x = a THEN prev ELSE s.m[x].prev
      /\ \A x \in ElemPlace : t.m[x].next = IF x = prev /\ x # Nil THEN a
                                            ELSE IF x = a THEN Nil ELSE s.m[x].next
  <2>1. AsElem(s) /\ t = ElemLinkIn(s, prev, a, Nil)
    OBVIOUS
  <2>2. LinkedIn(s, prev, a, Nil, t)
    BY ONLY <1>0, <1>5, <2>1, LinkInIs
  <2> QED BY <2>2 DEF LinkedIn
<1>7. /\ K \in Seq(ElemAddr) /\ Len(K) = n + 1 /\ K[n + 1] = a /\ \A i \in 1 .. n : K[i] = L[i]
  BY <1>0
<1>8. Once(K)
  BY <1>0, <1>2, <1>3, <1>7 DEF Once
<1>9. ASSUME NEW i \in 1 .. n + 1
      PROVE  /\ t.m[K[i]].is = "elem" /\ t.m[K[i]].prev = (IF i = 1 THEN Nil ELSE K[i - 1])
             /\ t.m[K[i]].next = (IF i = n + 1 THEN Nil ELSE K[i + 1])
  <2>1. CASE i = n + 1
    <3>1. t.m[a].is = "elem" /\ t.m[a].next = Nil /\ t.m[a].prev = prev
      BY <1>0, <1>5, <1>6 DEF Relinked
    <3>2. n # 0 => K[i - 1] = L[n]
      BY <1>0, <1>7, <2>1
    <3> QED BY <1>0, <1>4, <1>7, <2>1, <3>1, <3>2
  <2>2. CASE i # n + 1
    <3>1. i \in 1 .. n /\ K[i] = L[i]
      BY <1>0, <1>7, <2>2
    <3> PICK x : x = L[i]
      OBVIOUS
    <3>2. x \in ElemPlace /\ x # Nil /\ x # a
      BY <1>3, <3>1
    <3>3. t.m[x].is = "elem" /\ t.m[x].prev = s.m[x].prev
      BY <1>1, <1>6, <3>1, <3>2 DEF Relinked
    <3>4. t.m[x].next = (IF x = prev THEN a ELSE s.m[x].next)
      BY <1>6, <3>2
    <3>5. x = prev <=> i = n
      BY <1>0, <1>2, <1>4, <3>1
    <3>6. t.m[x].prev = (IF i = 1 THEN Nil ELSE K[i - 1])
      BY <1>0, <1>1, <1>7, <3>1, <3>3
    <3>7. t.m[x].next = K[i + 1]
      <4>1. i # n => K[i + 1] = L[i + 1]
        BY <1>0, <1>7, <3>1
      <4> QED BY <1>0, <1>1, <1>7, <3>1, <3>4, <3>5, <4>1
    <3> QED BY <2>2, <3>1, <3>3, <3>6, <3>7
  <2> QED BY <2>1, <2>2
<1>10. Ended(t.l, K)
  <2>1. t.l.last = a /\ t.l.n = n + 1
    BY <1>4, <1>6
  <2>2. t.l.first = (IF n = 0 THEN a ELSE L[1])
    <3>1. n # 0 => L[n] # Nil
      BY <1>0, <1>3
    <3> QED BY <1>4, <1>6, <3>1
  <2>3. n + 1 # 0
    BY <1>0
  <2>4. t.l.first = K[1]
    <3>1. n = 0 => K[1] = a
      BY <1>7
    <3>2. n # 0 => K[1] = L[1]
      BY <1>0, <1>7
    <3> QED BY <2>2, <3>1, <3>2
  <2>5. t.l.n = Len(K) /\ Len(K) # 0 /\ t.l.first = K[1] /\ t.l.last = K[Len(K)]
    BY ONLY <1>7, <2>1, <2>3, <2>4
  <2> QED BY ONLY <2>5 DEF Ended
<1>11. ListIs(t, K)
  BY ONLY <1>7, <1>8, <1>9, <1>10 DEF ListIs, Linked
<1> QED BY <1>6, <1>11

-----------------------------------------------------------------------------
(* What the arena holds, and what an allocation does to it. *)

\* Slot i of the chain of blocks B names x.
Names(m, B, i, x) == /\ i \div MaxInline < Len(B)
                     /\ m[B[i \div MaxInline + 1]].slots[i % MaxInline] = x

Extended(m, B) == /\ B \in Seq(ElemPlace) /\ Once(B) /\ Len(B) >= 1 /\ B[1] = Nil
                  /\ \A i \in 2 .. Len(B) : m[B[i]].is = "cont"
                  /\ \A i \in 1 .. Len(B) : m[B[i]].extra = IF i = Len(B) THEN Nil ELSE B[i + 1]
Elems(m, E) == E \in Seq(ElemAddr) /\ Once(E) /\ \A i \in 1 .. Len(E) : m[E[i]].is = "elem"
VectIs(s, B, E) == /\ Extended(s.m, B) /\ Elems(s.m, E) /\ s.n = Len(E)
                   /\ \A i \in 1 .. Len(E) : Names(s.m, B, i - 1, E[i])

Disjoint(L, E) == \A i \in 1 .. Len(L), j \in 1 .. Len(E) : L[i] # E[j]
Stands(c, E) == c # Nil => \E i \in 1 .. Len(E) : c = E[i]
Held(s, L, B, E) == AsElem(s) /\ ListIs(s, L) /\ VectIs(s, B, E) /\ Disjoint(L, E) /\ Stands(s.c, E)

ValsOf(m, q) == [i \in 1 .. Len(q) |-> m[q[i]].val]

Failed(s, t) == /\ AsElem(t) /\ t.m = s.m /\ t.l = s.l /\ t.n = s.n /\ t.c = s.c /\ t.w = s.w
                /\ t.ok = FALSE
Fresh(is, v) == [ElemFree EXCEPT !.is = is, !.val = v]
Taken(s, a, d, t) == a \in ElemAddr /\ s.m[a].is = "free" /\ Wrote(s, a, d, t)

LEMMA Division ==
  ASSUME NEW M \in Nat \ {0}, NEW i \in Nat
  PROVE  i \div M \in Nat /\ i % M \in 0 .. M - 1 /\ i = M * (i \div M) + (i % M)
<1>1. i \div M \in Nat
  OBVIOUS
<1>2. i % M \in 0 .. M - 1
  OBVIOUS
<1>3. i = M * (i \div M) + (i % M)
  OBVIOUS
<1> QED BY <1>1, <1>2, <1>3

LEMMA QuotientsOrdered ==
  ASSUME NEW M \in Nat \ {0}, NEW p \in Nat, NEW q \in Nat, NEW r \in 0 .. M - 1, NEW t \in 0 .. M - 1
  PROVE  /\ M * p + t <= M * q + r => p <= q
         /\ M * q + r = (M * p + t) + 1 => q <= p + 1
<1>1. ASSUME p >= q + 1 PROVE M * p >= M * q + M
  BY <1>1
<1>2. ASSUME q >= p + 2 PROVE M * q >= M * p + M + M
  BY <1>2
<1> QED BY <1>1, <1>2

LEMMA SlotFacts ==
  /\ \A i \in Nat : i \div MaxInline \in Nat /\ i % MaxInline \in Slot
  /\ \A i, j \in Nat : i \div MaxInline = j \div MaxInline /\ i % MaxInline = j % MaxInline => i = j
  /\ \A i, j \in Nat : i <= j => i \div MaxInline <= j \div MaxInline
  /\ \A i \in Nat : (i + 1) \div MaxInline <= i \div MaxInline + 1
  /\ 0 \div MaxInline = 0
<1> PICK M \in Nat \ {0} : M = MaxInline
  BY InlineAssumption
<1>1. ASSUME NEW i \in Nat PROVE i \div M \in Nat /\ i % M \in Slot
  BY Division DEF Slot
<1>2. ASSUME NEW i \in Nat, NEW j \in Nat, i \div M = j \div M, i % M = j % M PROVE i = j
  <2>1. i = M * (i \div M) + (i % M) /\ j = M * (j \div M) + (j % M)
    BY Division
  <2> QED BY ONLY <2>1, <1>2
<1>3. ASSUME NEW i \in Nat, NEW j \in Nat, i <= j PROVE i \div M <= j \div M
  <2> PICK p, q, r, t : p = i \div M /\ q = j \div M /\ t = i % M /\ r = j % M
    OBVIOUS
  <2>1. /\ p \in Nat /\ q \in Nat /\ r \in 0 .. M - 1 /\ t \in 0 .. M - 1
        /\ i = M * p + t /\ j = M * q + r
    BY Division
  <2>2. M * p + t <= M * q + r
    BY <2>1, <1>3
  <2> QED BY <2>1, <2>2, QuotientsOrdered
<1>4. ASSUME NEW i \in Nat PROVE (i + 1) \div M <= i \div M + 1
  <2> PICK j \in Nat : j = i + 1
    OBVIOUS
  <2> PICK p, q, r, t : p = i \div M /\ q = j \div M /\ t = i % M /\ r = j % M
    OBVIOUS
  <2>1. /\ p \in Nat /\ q \in Nat /\ r \in 0 .. M - 1 /\ t \in 0 .. M - 1
        /\ i = M * p + t /\ j = M * q + r
    BY Division
  <2>2. M * q + r = (M * p + t) + 1
    BY <2>1
  <2> QED BY <2>1, <2>2, QuotientsOrdered
<1>5. 0 \div M = 0
  OBVIOUS
<1> QED BY <1>1, <1>2, <1>3, <1>4, <1>5

LEMMA FreeBlock == ElemFree \in ElemBlock
<1>1. Nil \in ElemPlace
  BY PlaceFacts
<1> QED BY <1>1 DEF ElemFree, ElemBlock, ElemKind

LEMMA FreshIs ==
  ASSUME NEW is \in {"elem", "cont"}, NEW v \in ElemValue \cup {None}, NEW d, d = Fresh(is, v)
  PROVE  /\ d \in ElemBlock /\ d.is = is /\ d.val = v /\ d.prev = Nil /\ d.next = Nil /\ d.extra = Nil
         /\ d.is # "vect"
<1> PICK e : e = ElemFree
  OBVIOUS
<1>1. e \in ElemBlock /\ e.prev = Nil /\ e.next = Nil /\ e.extra = Nil
  BY FreeBlock DEF ElemFree
<1>2. d = [[e EXCEPT !.is = is] EXCEPT !.val = v]
  BY DEF Fresh
<1> PICK h : h = [e EXCEPT !.is = is]
  OBVIOUS
<1>3. h \in ElemBlock /\ h.is = is /\ h.prev = Nil /\ h.next = Nil /\ h.extra = Nil
  BY ONLY <1>1, h = [e EXCEPT !.is = is] DEF ElemBlock, ElemKind
<1> QED BY <1>2, <1>3 DEF ElemBlock

LEMMA NewIsFree ==
  ASSUME NEW s, ~ \A a \in ElemAddr : s.m[a].is # "free"
  PROVE  ElemNew(s) \in ElemAddr /\ s.m[ElemNew(s)].is = "free"
<1> DEFINE R == {a \in ElemAddr : s.m[a].is = "free"}
           rank == [a \in R |-> a]
<1>1. IsFiniteSet(ElemAddr) /\ R \subseteq ElemAddr /\ R # {}
  BY FS_Interval, SizeAssumption DEF ElemAddr
<1>2. IsFiniteSet(R)
  BY <1>1, FS_Subset
<1>3. \A a \in R : rank[a] \in Int /\ rank[a] = a
  BY DEF ElemAddr
<1>4. PICK a \in R : \A b \in R : rank[a] <= rank[b]
  <2> HIDE DEF R, rank
  <2> QED BY <1>1, <1>2, <1>3, LeastRank
<1>5. a \in ElemAddr /\ s.m[a].is = "free" /\ a \in Int
  BY DEF ElemAddr
<1>6. ASSUME NEW b \in ElemAddr, b < a PROVE s.m[b].is # "free"
  <2>1. b \in R => a <= b
    BY <1>3, <1>4
  <2> QED BY <1>5, <1>6, <2>1 DEF ElemAddr
<1> QED BY <1>5, <1>6 DEF ElemNew

LEMMA Allocated ==
  ASSUME NEW s, AsElem(s), NEW is \in {"elem", "cont"}, NEW v \in ElemValue \cup {None},
         NEW t, t = ElemAlloc(s, is, v), NEW d, d = Fresh(is, v)
  PROVE  Failed(s, t) \/ (Taken(s, ElemNew(s), d, t) /\ t.ok = s.ok)
<1>1. CASE \A a \in ElemAddr : s.m[a].is # "free"
  <2>1. t = [s EXCEPT !.ok = FALSE]
    BY <1>1 DEF ElemAlloc, ElemThrow
  <2>2. t \in ElemState /\ t.m = s.m /\ t.l = s.l /\ t.n = s.n /\ t.c = s.c /\ t.w = s.w /\ t.ok = FALSE
    BY <2>1 DEF AsElem, ElemState
  <2>3. Arena(t.m)
    BY <2>2 DEF AsElem
  <2>4. AsElem(t)
    BY ONLY <2>2, <2>3 DEF AsElem
  <2> QED BY ONLY <2>2, <2>4 DEF Failed
<1>2. CASE ~ \A a \in ElemAddr : s.m[a].is # "free"
  <2> PICK a : a = ElemNew(s)
    OBVIOUS
  <2>1. a \in ElemAddr /\ s.m[a].is = "free"
    BY <1>2, NewIsFree
  <2>2. d \in ElemBlock /\ d.is # "vect" /\ a \in ElemPlace /\ a # Nil
    BY <2>1, FreshIs, PlaceFacts
  <2>3. t = [s EXCEPT !.m = [s.m EXCEPT ![a] = d]]
    BY <1>2 DEF ElemAlloc, Fresh
  <2>4. Wrote(s, a, d, t)
    <3>1. AsElem(s)
      OBVIOUS
    <3> QED BY ONLY <2>2, <2>3, <3>1, BlockWritten
  <2> QED BY <2>1, <2>4 DEF Taken, Wrote, Aside
<1> QED BY <1>1, <1>2

-----------------------------------------------------------------------------
(* What leaves the list's chain or the vector as it was. *)

LEMMA ListStays ==
  ASSUME NEW s, NEW L, ListIs(s, L), NEW t, t.l = s.l, \A i \in 1 .. Len(L) : t.m[L[i]] = s.m[L[i]]
  PROVE  ListIs(t, L) /\ ValsOf(t.m, L) = ValsOf(s.m, L)
<1>1. Linked(t.m, L)
  BY DEF ListIs, Linked
<1>2. ListIs(t, L)
  BY <1>1 DEF ListIs
<1>3. \A i \in 1 .. Len(L) : t.m[L[i]].val = s.m[L[i]].val
  OBVIOUS
<1> QED BY <1>2, <1>3 DEF ValsOf

\* What the vector reads of its blocks.
SameBlocks(m, n, B) == \A i \in 1 .. Len(B) : /\ n[B[i]].is = m[B[i]].is /\ n[B[i]].extra = m[B[i]].extra
                                              /\ n[B[i]].slots = m[B[i]].slots
SameElems(m, n, E) == \A i \in 1 .. Len(E) : n[E[i]].is = m[E[i]].is /\ n[E[i]].val = m[E[i]].val

LEMMA NamesStays ==
  ASSUME NEW m, NEW n, NEW B, Len(B) \in Nat, SameBlocks(m, n, B), NEW i \in Nat, NEW x, Names(m, B, i, x)
  PROVE  Names(n, B, i, x)
<1> PICK k : k = i \div MaxInline
  OBVIOUS
<1>1. k \in Nat
  BY SlotFacts
<1>2. k < Len(B) /\ m[B[k + 1]].slots[i % MaxInline] = x
  BY DEF Names
<1>3. k + 1 \in 1 .. Len(B)
  BY <1>1, <1>2
<1> QED BY <1>2, <1>3 DEF Names, SameBlocks

LEMMA ExtendedStays ==
  ASSUME NEW m, NEW n, NEW B, Extended(m, B), SameBlocks(m, n, B)
  PROVE  Extended(n, B)
<1>1. Len(B) \in Nat
  BY DEF Extended
<1>2. \A i \in 2 .. Len(B) : i \in 1 .. Len(B)
  BY <1>1
<1> QED BY <1>1, <1>2 DEF Extended, SameBlocks

LEMMA ElemsStay ==
  ASSUME NEW m, NEW n, NEW E, Elems(m, E), SameElems(m, n, E)
  PROVE  Elems(n, E) /\ ValsOf(n, E) = ValsOf(m, E)
BY DEF Elems, SameElems, ValsOf

LEMMA VectStays ==
  ASSUME NEW s, NEW B, NEW E, VectIs(s, B, E), NEW t, t.n = s.n, SameBlocks(s.m, t.m, B), SameElems(s.m, t.m, E)
  PROVE  VectIs(t, B, E) /\ ValsOf(t.m, E) = ValsOf(s.m, E)
<1>1. Extended(t.m, B)
  BY ExtendedStays DEF VectIs
<1>2. Elems(t.m, E) /\ ValsOf(t.m, E) = ValsOf(s.m, E)
  BY ElemsStay DEF VectIs
<1>3. ASSUME NEW i \in 1 .. Len(E) PROVE Names(t.m, B, i - 1, E[i])
  <2>1. Names(s.m, B, i - 1, E[i]) /\ i - 1 \in Nat
    BY DEF VectIs
  <2> PICK m, n, x, k : m = s.m /\ n = t.m /\ x = E[i] /\ k = i - 1
    OBVIOUS
  <2>2. Names(n, B, k, x)
    <3>1. SameBlocks(m, n, B) /\ k \in Nat /\ Names(m, B, k, x)
      BY <2>1
    <3> QED BY ONLY <3>1, NamesStays
  <2> QED BY <2>2
<1> QED BY <1>1, <1>2, <1>3 DEF VectIs

LEMMA HeldFacts ==
  ASSUME NEW s, NEW L, NEW B, NEW E, Held(s, L, B, E)
  PROVE  /\ AsElem(s) /\ ListIs(s, L) /\ VectIs(s, B, E) /\ Disjoint(L, E) /\ Stands(s.c, E)
         /\ L \in Seq(ElemAddr) /\ B \in Seq(ElemPlace) /\ E \in Seq(ElemAddr)
         /\ Len(L) \in Nat /\ Len(B) \in Nat /\ Len(E) \in Nat
         /\ \A i \in 1 .. Len(L) : L[i] \in ElemAddr /\ L[i] \in ElemPlace /\ s.m[L[i]].is = "elem"
         /\ \A i \in 1 .. Len(E) : E[i] \in ElemAddr /\ E[i] \in ElemPlace /\ s.m[E[i]].is = "elem"
         /\ \A i \in 1 .. Len(B) : B[i] \in ElemPlace /\ s.m[B[i]].is \in {"cont", "vect"}
<1>1. AsElem(s) /\ ListIs(s, L) /\ VectIs(s, B, E) /\ Disjoint(L, E) /\ Stands(s.c, E)
  BY DEF Held
<1>2. L \in Seq(ElemAddr) /\ B \in Seq(ElemPlace) /\ E \in Seq(ElemAddr)
  BY <1>1 DEF ListIs, VectIs, Extended, Elems
<1>3. Len(L) \in Nat /\ Len(B) \in Nat /\ Len(E) \in Nat
  BY <1>2
<1>4. \A i \in 1 .. Len(L) : L[i] \in ElemAddr /\ L[i] \in ElemPlace /\ s.m[L[i]].is = "elem"
  BY <1>1, <1>2, PlaceFacts DEF ListIs, Linked
<1>5. \A i \in 1 .. Len(E) : E[i] \in ElemAddr /\ E[i] \in ElemPlace /\ s.m[E[i]].is = "elem"
  BY <1>1, <1>2, PlaceFacts DEF VectIs, Elems
<1>6. ASSUME NEW i \in 1 .. Len(B) PROVE B[i] \in ElemPlace /\ s.m[B[i]].is \in {"cont", "vect"}
  <2>1. B[i] \in ElemPlace
    BY <1>2
  <2>2. CASE i = 1
    BY <1>1, <2>2, PlaceFacts, BlockIs DEF VectIs, Extended
  <2>3. CASE i \in 2 .. Len(B)
    BY <1>1, <2>1, <2>3 DEF VectIs, Extended
  <2> QED BY <1>3, <2>2, <2>3
<1> QED BY <1>1, <1>2, <1>3, <1>4, <1>5, <1>6

\* A call that failed left the arena as it was.
LEMMA FailedHolds ==
  ASSUME NEW s, NEW L, NEW B, NEW E, Held(s, L, B, E), NEW t, Failed(s, t)
  PROVE  Held(t, L, B, E) /\ ValsOf(t.m, L) = ValsOf(s.m, L) /\ ValsOf(t.m, E) = ValsOf(s.m, E)
BY DEF Failed, Held, ListIs, VectIs

\* A block taken is none of those held.
LEMMA TakenHolds ==
  ASSUME NEW s, NEW L, NEW B, NEW E, Held(s, L, B, E), NEW a, NEW d, NEW t, Taken(s, a, d, t)
  PROVE  /\ Held(t, L, B, E) /\ ValsOf(t.m, L) = ValsOf(s.m, L) /\ ValsOf(t.m, E) = ValsOf(s.m, E)
         /\ a \in ElemAddr /\ t.m[a] = d
         /\ (\A i \in 1 .. Len(L) : L[i] # a) /\ (\A i \in 1 .. Len(E) : E[i] # a)
         /\ \A i \in 1 .. Len(B) : B[i] # a
<1>1. /\ a \in ElemAddr /\ s.m[a].is = "free" /\ AsElem(t) /\ t.l = s.l /\ Aside(s, t) /\ t.m[a] = d
      /\ \A x \in ElemPlace : x # a => t.m[x] = s.m[x]
  BY DEF Taken, Wrote
<1>2. (\A i \in 1 .. Len(L) : L[i] # a) /\ (\A i \in 1 .. Len(E) : E[i] # a) /\ \A i \in 1 .. Len(B) : B[i] # a
  <2>1. /\ \A i \in 1 .. Len(L) : s.m[L[i]].is = "elem"
        /\ \A i \in 1 .. Len(E) : s.m[E[i]].is = "elem"
        /\ \A i \in 1 .. Len(B) : s.m[B[i]].is \in {"cont", "vect"}
    BY HeldFacts
  <2> QED BY <1>1, <2>1
<1>3. /\ \A i \in 1 .. Len(L) : t.m[L[i]] = s.m[L[i]]
      /\ \A i \in 1 .. Len(E) : t.m[E[i]] = s.m[E[i]]
      /\ \A i \in 1 .. Len(B) : t.m[B[i]] = s.m[B[i]]
  BY <1>1, <1>2, HeldFacts
<1>4. ListIs(t, L) /\ ValsOf(t.m, L) = ValsOf(s.m, L)
  BY <1>1, <1>3, HeldFacts, ListStays
<1>5. VectIs(t, B, E) /\ ValsOf(t.m, E) = ValsOf(s.m, E)
  <2>1. SameBlocks(s.m, t.m, B) /\ SameElems(s.m, t.m, E)
    BY <1>3 DEF SameBlocks, SameElems
  <2> QED BY <1>1, <2>1, HeldFacts, VectStays DEF Aside
<1>6. Held(t, L, B, E)
  BY <1>1, <1>4, <1>5 DEF Held, Aside
<1> QED BY <1>1, <1>2, <1>4, <1>5, <1>6

\* What changes links alone leaves the vector as it was.
LEMMA RelinkedHolds ==
  ASSUME NEW s, NEW L, NEW B, NEW E, Held(s, L, B, E), NEW t, AsElem(t), Aside(s, t), Relinked(s.m, t.m),
         NEW K, ListIs(t, K), Disjoint(K, E)
  PROVE  Held(t, K, B, E) /\ ValsOf(t.m, E) = ValsOf(s.m, E)
<1>1. SameBlocks(s.m, t.m, B) /\ SameElems(s.m, t.m, E)
  BY HeldFacts DEF Relinked, SameBlocks, SameElems
<1>2. VectIs(t, B, E) /\ ValsOf(t.m, E) = ValsOf(s.m, E)
  BY <1>1, HeldFacts, VectStays DEF Aside
<1> QED BY <1>2, HeldFacts DEF Held, Aside

-----------------------------------------------------------------------------
(* The calls on the list. *)

\* The list is K in t and holds the values P, and the vector is the same.
Listed(s, t, L, B, E, K, P) ==
  Held(t, K, B, E) /\ t.w = s.w /\ ValsOf(t.m, K) = P /\ ValsOf(t.m, E) = ValsOf(s.m, E)

LEMMA Prepended ==
  ASSUME NEW S, NEW v \in S, NEW P \in Seq(S), NEW n \in Nat, Len(P) = n, NEW R, R = <<v>> \o P
  PROVE  R \in Seq(S) /\ Len(R) = n + 1 /\ R[1] = v /\ \A i \in 2 .. n + 1 : R[i] = P[i - 1]
OBVIOUS

LEMMA ValsHead ==
  ASSUME NEW m, NEW L \in Seq(ElemAddr), NEW a \in ElemAddr
  PROVE  ValsOf(m, <<a>> \o L) = <<m[a].val>> \o ValsOf(m, L)
<1> PICK K, P, Q : K = <<a>> \o L /\ P = ValsOf(m, L) /\ Q = ValsOf(m, K)
  OBVIOUS
<1>1. Len(L) \in Nat /\ Len(K) = Len(L) + 1 /\ K[1] = a /\ \A i \in 2 .. Len(L) + 1 : K[i] = L[i - 1]
  OBVIOUS
<1>2. P \in Seq({m[L[i]].val : i \in 1 .. Len(L)}) /\ Len(P) = Len(L) /\ \A i \in 1 .. Len(L) : P[i] = m[L[i]].val
  <2> PICK n, S : n \in Nat /\ n = Len(L) /\ S = {m[L[i]].val : i \in 1 .. Len(L)}
    BY <1>1
  <2>1. P = [i \in 1 .. n |-> m[L[i]].val]
    BY DEF ValsOf
  <2>2. P \in [1 .. n -> S]
    BY <2>1
  <2>3. P \in Seq(S) /\ Len(P) = n
    BY ONLY <2>2, n \in Nat
  <2>4. \A i \in 1 .. n : P[i] = m[L[i]].val
    BY ONLY <2>1
  <2> QED BY <2>3, <2>4
<1> PICK R : R = <<m[a].val>> \o P
  OBVIOUS
<1>3. /\ DOMAIN R = 1 .. Len(L) + 1 /\ R[1] = m[a].val /\ \A i \in 2 .. Len(L) + 1 : R[i] = P[i - 1]
      /\ R = [i \in 1 .. Len(L) + 1 |-> R[i]]
  <2> PICK n, v, S : n = Len(L) /\ v = m[a].val /\ S = {m[L[i]].val : i \in 1 .. n} \cup {v}
    OBVIOUS
  <2>1. n \in Nat /\ v \in S
    BY <1>1
  <2>2. P \in Seq(S) /\ Len(P) = n
    <3>1. P = [i \in 1 .. n |-> m[L[i]].val]
      BY DEF ValsOf
    <3>2. P \in [1 .. n -> S]
      BY <3>1
    <3> QED BY ONLY <2>1, <3>2
  <2>3. R = <<v>> \o P
    OBVIOUS
  <2>4. R \in Seq(S) /\ Len(R) = n + 1 /\ R[1] = v /\ \A i \in 2 .. n + 1 : R[i] = P[i - 1]
    BY ONLY <2>1, <2>2, <2>3, Prepended
  <2>5. DOMAIN R = 1 .. n + 1 /\ R = [i \in 1 .. n + 1 |-> R[i]]
    BY ONLY <2>1, <2>4
  <2> QED BY ONLY <2>4, <2>5, n = Len(L), v = m[a].val
<1>4. \A i \in 1 .. Len(L) + 1 : m[K[i]].val = R[i]
  <2> SUFFICES ASSUME NEW i \in 1 .. Len(L) + 1 PROVE m[K[i]].val = R[i]
    OBVIOUS
  <2>1. CASE i = 1
    BY <1>1, <1>3, <2>1
  <2>2. CASE i # 1
    <3>1. i \in 2 .. Len(L) + 1 /\ i - 1 \in 1 .. Len(L)
      BY <1>1, <2>2
    <3> QED BY <1>1, <1>2, <1>3, <3>1
  <2> QED BY <2>1, <2>2
<1>5. Q = [i \in 1 .. Len(L) + 1 |-> m[K[i]].val]
  BY <1>1 DEF ValsOf
<1> QED BY ONLY <1>3, <1>4, <1>5, K = <<a>> \o L, P = ValsOf(m, L), Q = ValsOf(m, K), R = <<m[a].val>> \o P

LEMMA ValsTail ==
  ASSUME NEW m, NEW L \in Seq(ElemAddr), NEW a \in ElemAddr
  PROVE  ValsOf(m, Append(L, a)) = Append(ValsOf(m, L), m[a].val)
BY DEF ValsOf

LEMMA AddHeadIs ==
  ASSUME NEW s, NEW L, NEW B, NEW E, Held(s, L, B, E), s.ok = TRUE, NEW v \in ElemValue \cup {None},
         NEW t, t = AddHead(s, v)
  PROVE  Failed(s, t) \/ \E a \in ElemAddr :
           t.ok = TRUE /\ Listed(s, t, L, B, E, <<a>> \o L, <<v>> \o ValsOf(s.m, L))
<1> PICK u : u = ElemAlloc(s, "elem", v)
  OBVIOUS
<1> PICK a : a = ElemNew(s)
  OBVIOUS
<1> PICK d : d = Fresh("elem", v)
  OBVIOUS
<1>1. Failed(s, u) \/ (Taken(s, a, d, u) /\ u.ok = s.ok)
  BY HeldFacts, Allocated
<1>2. d.is = "elem" /\ d.val = v
  BY FreshIs
<1>3. CASE Failed(s, u)
  <2>1. t = u
    BY <1>3 DEF AddHead, ElemThen, Failed
  <2> QED BY <1>3, <2>1
<1>4. CASE Taken(s, a, d, u) /\ u.ok = s.ok
  <2>1. t = ElemLinkIn(u, Nil, a, u.l.first)
    BY <1>4 DEF AddHead, ElemThen
  <2>2. /\ Held(u, L, B, E) /\ ValsOf(u.m, L) = ValsOf(s.m, L) /\ ValsOf(u.m, E) = ValsOf(s.m, E)
        /\ a \in ElemAddr /\ u.m[a] = d /\ (\A i \in 1 .. Len(L) : L[i] # a) /\ (\A i \in 1 .. Len(E) : E[i] # a)
    BY <1>4, TakenHolds
  <2> PICK K : K = <<a>> \o L
    OBVIOUS
  <2>3. AsElem(t) /\ Aside(u, t) /\ Relinked(u.m, t.m) /\ ListIs(t, K)
    <3>1. AsElem(u) /\ ListIs(u, L) /\ u.m[a].is = "elem" /\ K = <<a>> \o L
      BY <1>2, <2>2, HeldFacts
    <3> QED BY ONLY <2>1, <2>2, <3>1, HeadLinked
  <2>4. Disjoint(K, E)
    <3>1. L \in Seq(ElemAddr) /\ Disjoint(L, E)
      BY HeldFacts
    <3>2. Len(K) = Len(L) + 1 /\ K[1] = a /\ \A i \in 2 .. Len(L) + 1 : K[i] = L[i - 1] /\ i - 1 \in 1 .. Len(L)
      BY <3>1
    <3>3. Len(L) \in Nat
      BY <3>1
    <3> QED BY ONLY <2>2, <3>1, <3>2, <3>3 DEF Disjoint
  <2>5. Held(t, K, B, E) /\ ValsOf(t.m, E) = ValsOf(u.m, E)
    BY <2>2, <2>3, <2>4, RelinkedHolds
  <2>6. ValsOf(t.m, K) = ValsOf(u.m, K)
    <3>1. \A i \in 1 .. Len(K) : K[i] \in ElemPlace
      BY <2>5, HeldFacts
    <3> QED BY <2>3, <3>1 DEF ValsOf, Relinked
  <2>7. ValsOf(u.m, K) = <<v>> \o ValsOf(u.m, L)
    <3>1. L \in Seq(ElemAddr)
      BY HeldFacts
    <3> PICK m : m = u.m
      OBVIOUS
    <3>2. ValsOf(m, <<a>> \o L) = <<m[a].val>> \o ValsOf(m, L)
      BY ONLY <2>2, <3>1, ValsHead
    <3>3. m[a].val = v
      BY <1>2, <2>2
    <3> QED BY <3>2, <3>3
  <2>8. t.w = s.w /\ t.ok = TRUE
    BY <1>4, <2>3 DEF Aside, Taken, Wrote
  <2> QED BY <2>2, <2>5, <2>6, <2>7, <2>8 DEF Listed
<1> QED BY <1>1, <1>3, <1>4

LEMMA AddTailIs ==
  ASSUME NEW s, NEW L, NEW B, NEW E, Held(s, L, B, E), s.ok = TRUE, NEW v \in ElemValue \cup {None},
         NEW t, t = AddTail(s, v)
  PROVE  Failed(s, t) \/ \E a \in ElemAddr :
           t.ok = TRUE /\ Listed(s, t, L, B, E, Append(L, a), Append(ValsOf(s.m, L), v))
<1> PICK u : u = ElemAlloc(s, "elem", v)
  OBVIOUS
<1> PICK a : a = ElemNew(s)
  OBVIOUS
<1> PICK d : d = Fresh("elem", v)
  OBVIOUS
<1>1. Failed(s, u) \/ (Taken(s, a, d, u) /\ u.ok = s.ok)
  BY HeldFacts, Allocated
<1>2. d.is = "elem" /\ d.val = v
  BY FreshIs
<1>3. CASE Failed(s, u)
  <2>1. t = u
    BY <1>3 DEF AddTail, ElemThen, Failed
  <2> QED BY <1>3, <2>1
<1>4. CASE Taken(s, a, d, u) /\ u.ok = s.ok
  <2>1. t = ElemLinkIn(u, u.l.last, a, Nil)
    BY <1>4 DEF AddTail, ElemThen
  <2>2. /\ Held(u, L, B, E) /\ ValsOf(u.m, L) = ValsOf(s.m, L) /\ ValsOf(u.m, E) = ValsOf(s.m, E)
        /\ a \in ElemAddr /\ u.m[a] = d /\ (\A i \in 1 .. Len(L) : L[i] # a) /\ (\A i \in 1 .. Len(E) : E[i] # a)
    BY <1>4, TakenHolds
  <2>3. AsElem(t) /\ Aside(u, t) /\ Relinked(u.m, t.m) /\ ListIs(t, Append(L, a))
    BY <1>2, <2>1, <2>2, HeldFacts, TailLinked
  <2> PICK K : K = Append(L, a)
    OBVIOUS
  <2>4. Disjoint(K, E)
    <3>1. L \in Seq(ElemAddr) /\ Disjoint(L, E)
      BY HeldFacts
    <3>2. Len(K) = Len(L) + 1 /\ K[Len(L) + 1] = a /\ \A i \in 1 .. Len(L) : K[i] = L[i]
      BY <3>1
    <3>3. Len(L) \in Nat
      BY <3>1
    <3> QED BY ONLY <2>2, <3>1, <3>2, <3>3 DEF Disjoint
  <2>5. Held(t, K, B, E) /\ ValsOf(t.m, E) = ValsOf(u.m, E)
    BY <2>2, <2>3, <2>4, RelinkedHolds
  <2>6. ValsOf(t.m, K) = ValsOf(u.m, K)
    <3>1. \A i \in 1 .. Len(K) : K[i] \in ElemPlace
      BY <2>5, HeldFacts
    <3> QED BY <2>3, <3>1 DEF ValsOf, Relinked
  <2>7. ValsOf(u.m, K) = Append(ValsOf(u.m, L), v)
    <3>1. L \in Seq(ElemAddr)
      BY HeldFacts
    <3> QED BY <1>2, <2>2, <3>1, ValsTail
  <2>8. t.w = s.w /\ t.ok = TRUE
    BY <1>4, <2>3 DEF Aside, Taken, Wrote
  <2> QED BY <2>2, <2>5, <2>6, <2>7, <2>8 DEF Listed
<1> QED BY <1>1, <1>3, <1>4

\* An element dropped, wherever it stands.
LEMMA UnLinkHolds ==
  ASSUME NEW s, NEW L, NEW B, NEW E, Held(s, L, B, E), NEW j \in 1 .. Len(L), NEW t, t = ElemUnLink(s, L[j])
  PROVE  t.ok = s.ok /\ Listed(s, t, L, B, E, Cut(L, j), Cut(ValsOf(s.m, L), j))
<1> PICK K : K = Cut(L, j)
  OBVIOUS
<1>1. L \in Seq(ElemAddr) /\ Len(L) \in Nat /\ Disjoint(L, E)
  BY HeldFacts
<1>2. AsElem(t) /\ Aside(s, t) /\ Relinked(s.m, t.m) /\ ListIs(t, K)
  <2> PICK a : a = L[j]
    OBVIOUS
  <2>1. AsElem(s) /\ ListIs(s, L) /\ t = ElemUnLink(s, a) /\ K = Cut(L, j) /\ j \in 1 .. Len(L) /\ a = L[j]
    BY HeldFacts
  <2> QED BY ONLY <2>1, Unlinked
<1>3. Len(K) = Len(L) - 1 /\ \A i \in 1 .. Len(L) - 1 : K[i] = IF i < j THEN L[i] ELSE L[i + 1]
  BY <1>1, CutIs
<1>4. Disjoint(K, E)
  BY <1>1, <1>3 DEF Disjoint
<1>5. Held(t, K, B, E) /\ ValsOf(t.m, E) = ValsOf(s.m, E)
  BY <1>2, <1>4, RelinkedHolds
<1>6. ValsOf(t.m, K) = Cut(ValsOf(s.m, L), j)
  <2> PICK P : P = ValsOf(s.m, L)
    OBVIOUS
  <2>1. Len(P) = Len(L) /\ \A i \in 1 .. Len(L) : P[i] = s.m[L[i]].val
    BY <1>1 DEF ValsOf
  <2>2. \A i \in 1 .. Len(K) : K[i] \in ElemPlace
    BY <1>5, HeldFacts
  <2>3. ASSUME NEW i \in 1 .. Len(L) - 1 PROVE t.m[K[i]].val = IF i < j THEN P[i] ELSE P[i + 1]
    <3>1. t.m[K[i]].val = s.m[K[i]].val
      BY <1>2, <1>3, <2>2 DEF Relinked
    <3>2. K[i] = (IF i < j THEN L[i] ELSE L[i + 1]) /\ i \in 1 .. Len(L) /\ i + 1 \in 1 .. Len(L)
      BY <1>1, <1>3
    <3> QED BY <2>1, <3>1, <3>2
  <2> QED BY <1>3, <2>1, <2>3 DEF ValsOf, Cut
<1> QED BY <1>2, <1>5, <1>6 DEF Listed, Aside

-----------------------------------------------------------------------------
(* The list emptied, and assigned. *)

LEMMA EmptiedHolds ==
  ASSUME NEW s, NEW L, NEW B, NEW E, Held(s, L, B, E), NEW t, t = ElemEmptied(s)
  PROVE  t.ok = s.ok /\ Listed(s, t, L, B, E, <<>>, <<>>)
<1> PICK n : n = Len(L)
  OBVIOUS
<1>0. n \in Nat /\ s.l.n = n
  BY HeldFacts DEF ListIs, Ended
<1> DEFINE In(u, k) == /\ u.w = s.w /\ u.ok = s.ok /\ ValsOf(u.m, E) = ValsOf(s.m, E)
                       /\ \E K : Len(K) = n - k /\ Held(u, K, B, E)
           D == [k \in 0 .. n |-> {u \in ElemState : In(u, k)}]
           step == [k \in 1 .. n |-> [u \in D[k - 1] |-> OffHead(u)]]
           Is(f) == f = [k \in 0 .. s.l.n |-> IF k = 0 THEN s ELSE OffHead(f[k - 1])]
<1>1. s \in D[0]
  <2>1. s \in ElemState /\ Len(L) = n - 0
    BY <1>0, HeldFacts DEF AsElem
  <2>2. In(s, 0)
    BY <2>1
  <2> QED BY <1>0, <2>1, <2>2
<1>2. ASSUME NEW k \in 1 .. n, NEW u \in D[k - 1] PROVE OffHead(u) \in D[k]
  <2>1. k - 1 \in 0 .. n /\ k \in 0 .. n
    BY <1>0
  <2>2. In(u, k - 1)
    BY <2>1
  <2>9. PICK K : Len(K) = n - (k - 1) /\ Held(u, K, B, E)
    BY <2>2
  <2>3. K \in Seq(ElemAddr) /\ 1 \in 1 .. Len(K) /\ u.l.first = K[1]
    <3>1. K \in Seq(ElemAddr) /\ ListIs(u, K)
      BY <2>9, HeldFacts
    <3>2. Len(K) \in Nat /\ Len(K) >= 1
      BY <1>0, <2>9
    <3>3. u.l.first = K[1]
      BY <3>1, <3>2 DEF ListIs, Ended
    <3> QED BY <3>1, <3>2, <3>3
  <2> PICK v : v = OffHead(u)
    OBVIOUS
  <2>4. v.ok = u.ok /\ Listed(u, v, K, B, E, Cut(K, 1), Cut(ValsOf(u.m, K), 1))
    <3>1. v = ElemUnLink(u, K[1])
      BY <2>3 DEF OffHead
    <3> QED BY <2>3, <2>9, <3>1, UnLinkHolds
  <2>5. Held(v, Cut(K, 1), B, E) /\ v.w = u.w /\ ValsOf(v.m, E) = ValsOf(u.m, E)
    BY <2>4 DEF Listed
  <2>6. Len(Cut(K, 1)) = n - k
    <3>1. Len(Cut(K, 1)) = Len(K) - 1
      BY ONLY <2>3, CutIs
    <3>2. n \in Nat /\ k \in 1 .. n
      BY <1>0
    <3> PICK p, q : p = Len(K) /\ q = Len(Cut(K, 1))
      OBVIOUS
    <3>3. q = p - 1 /\ p = n - (k - 1)
      BY <2>9, <3>1
    <3>4. q = n - k
      BY ONLY <3>2, <3>3
    <3> QED BY <3>4
  <2>7. v \in ElemState
    BY <2>5, HeldFacts DEF AsElem
  <2>8. In(v, k)
    BY <2>2, <2>4, <2>5, <2>6
  <2> HIDE DEF In
  <2> QED BY <2>1, <2>7, <2>8
<1> HIDE DEF In
<1>3. \A k \in 1 .. n : \A u \in D[k - 1] : step[k][u] \in D[k]
  BY <1>2
<1> HIDE DEF D
<1>4. PICK f : Loops(f, n, s, step) /\ \A k \in 0 .. n : f[k] \in D[k]
  <2> HIDE DEF step
  <2>1. n \in Nat /\ s \in D[0]
    BY <1>0, <1>1
  <2> QED BY ONLY <2>1, <1>3, LoopExists
<1>5. Is(f)
  <2>1. \A k \in 1 .. n : k - 1 \in 0 .. n
    BY <1>0
  <2>2. \A k \in 1 .. n : step[k][f[k - 1]] = OffHead(f[k - 1])
    BY <1>4, <2>1
  <2>3. \A k \in 0 .. n : k = 0 \/ k \in 1 .. n
    BY <1>0
  <2>4. [k \in 0 .. n |-> IF k = 0 THEN s ELSE step[k][f[k - 1]]]
          = [k \in 0 .. n |-> IF k = 0 THEN s ELSE OffHead(f[k - 1])]
    <3> HIDE DEF step
    <3> QED BY <2>2, <2>3
  <2> HIDE DEF step
  <2> QED BY <1>0, <1>4, <2>4 DEF Loops
<1> HIDE DEF Is
<1> PICK g : g = CHOOSE h : Is(h)
  OBVIOUS
<1>6. Is(g)
  BY <1>5
<1>7. t = g[s.l.n]
  BY Zenon DEF ElemEmptied, Is
<1>8. \A k \in 0 .. n : g[k] \in D[k]
  <2>1. g[0] = s /\ \A k \in 1 .. n : g[k] = OffHead(g[k - 1])
    <3>1. \A k \in 0 .. n : g[k] = IF k = 0 THEN s ELSE OffHead(g[k - 1])
      BY <1>0, <1>6 DEF Is
    <3> QED BY <1>0, <3>1
  <2>2. g[0] \in D[0] /\ n \in Nat
    BY <1>0, <1>1, <2>1
  <2>3. \A k \in 1 .. n : g[k - 1] \in D[k - 1] => g[k] \in D[k]
    BY <1>2, <2>1
  <2> QED BY ONLY <2>2, <2>3, LoopStays
<1>9. In(t, n)
  BY <1>0, <1>7, <1>8 DEF D
<1>10. PICK K : Len(K) = n - n /\ Held(t, K, B, E)
  BY <1>9 DEF In
<1>11. K = <<>>
  BY <1>0, <1>10, HeldFacts
<1>12. ValsOf(t.m, <<>>) = <<>>
  BY DEF ValsOf
<1> QED BY <1>9, <1>10, <1>11, <1>12 DEF In, Listed

\* The caller's walk changes nothing else.
LEMMA WalkSet ==
  ASSUME NEW s, NEW L, NEW B, NEW E, Held(s, L, B, E), NEW w \in ElemWalks, NEW t, t = [s EXCEPT !.w = w]
  PROVE  Held(t, L, B, E) /\ t.m = s.m /\ t.w = w /\ t.ok = s.ok
<1>1. s \in ElemState /\ Arena(s.m)
  BY HeldFacts DEF AsElem
<1>2. t \in ElemState /\ t.m = s.m /\ t.l = s.l /\ t.n = s.n /\ t.c = s.c /\ t.w = w /\ t.ok = s.ok
  BY <1>1 DEF ElemState
<1>3. AsElem(t)
  BY <1>1, <1>2 DEF AsElem
<1> QED BY <1>2, <1>3 DEF Held, ListIs, VectIs

LEMMA NoWalkIs == NoWalk \in ElemWalks
<1>1. <<>> \in Seq(ElemPlace) /\ Nil \in ElemPlace
  BY PlaceFacts
<1> QED BY <1>1 DEF NoWalk, ElemWalks

\* The first k values of vals; a call that threw has copied some.
Begun(u, vals, k, P) == \E j \in 0 .. k : P = SubSeq(vals, 1, j) /\ (u.ok = TRUE => j = k)

Adding(f, s, vals) == f = [k \in 0 .. Len(vals) |-> IF k = 0 THEN s ELSE ThenAdded(f[k - 1], vals[k])]
Copied(s, t, B, E, vals, k) == /\ t.w = s.w /\ ValsOf(t.m, E) = ValsOf(s.m, E)
                               /\ \E K : Held(t, K, B, E) /\ Begun(t, vals, k, ValsOf(t.m, K))

LEMMA AddedOne ==
  ASSUME NEW s, NEW B, NEW E, NEW V, V = ElemValue \cup {None}, NEW vals \in Seq(V),
         NEW k \in 1 .. Len(vals), NEW u, Copied(s, u, B, E, vals, k - 1), NEW t, t = ThenAdded(u, vals[k])
  PROVE  Copied(s, t, B, E, vals, k)
<1>0. Len(vals) \in Nat /\ k - 1 \in Nat
  OBVIOUS
<1>1. PICK K : Held(u, K, B, E) /\ Begun(u, vals, k - 1, ValsOf(u.m, K))
  BY DEF Copied
<1>2. PICK j \in 0 .. k - 1 : ValsOf(u.m, K) = SubSeq(vals, 1, j) /\ (u.ok = TRUE => j = k - 1)
  BY <1>1 DEF Begun
<1>3. u.w = s.w /\ ValsOf(u.m, E) = ValsOf(s.m, E)
  BY DEF Copied
<1>4. CASE u.ok # TRUE
  <2>1. t = u
    BY <1>4, HeldFacts DEF ThenAdded, ElemThen
  <2>2. j \in 0 .. k
    BY <1>0
  <2>3. Begun(t, vals, k, ValsOf(t.m, K))
    BY <1>2, <1>4, <2>1, <2>2 DEF Begun
  <2> QED BY <1>1, <1>3, <2>1, <2>3 DEF Copied
<1>5. CASE u.ok = TRUE
  <2> PICK v \in V : v = vals[k]
    OBVIOUS
  <2>1. t = AddTail(u, v)
    BY <1>5 DEF ThenAdded, ElemThen
  <2>2. CASE Failed(u, t)
    <3>1. Held(t, K, B, E) /\ ValsOf(t.m, K) = ValsOf(u.m, K) /\ ValsOf(t.m, E) = ValsOf(u.m, E)
      BY <1>1, <2>2, FailedHolds
    <3>2. t.w = u.w /\ t.ok = FALSE
      BY <2>2 DEF Failed
    <3>3. j \in 0 .. k
      BY <1>0
    <3>4. Begun(t, vals, k, ValsOf(t.m, K))
      BY <1>2, <3>1, <3>2, <3>3 DEF Begun
    <3> QED BY <1>3, <3>1, <3>2, <3>4 DEF Copied
  <2>3. ASSUME NEW a \in ElemAddr, t.ok = TRUE,
               Listed(u, t, K, B, E, Append(K, a), Append(ValsOf(u.m, K), v))
        PROVE  Copied(s, t, B, E, vals, k)
    <3> PICK M : M = Append(K, a)
      OBVIOUS
    <3>1. /\ Held(t, M, B, E) /\ t.w = u.w /\ ValsOf(t.m, M) = Append(ValsOf(u.m, K), v)
          /\ ValsOf(t.m, E) = ValsOf(u.m, E)
      BY <2>3 DEF Listed
    <3>2. ValsOf(u.m, K) = SubSeq(vals, 1, k - 1)
      BY <1>2, <1>5
    <3>3. Append(SubSeq(vals, 1, k - 1), v) = SubSeq(vals, 1, k)
      BY <1>0
    <3>4. Begun(t, vals, k, ValsOf(t.m, M))
      BY <1>0, <3>1, <3>2, <3>3 DEF Begun
    <3> QED BY <1>3, <3>1, <3>4 DEF Copied
  <2>4. Failed(u, t) \/ \E a \in ElemAddr :
           t.ok = TRUE /\ Listed(u, t, K, B, E, Append(K, a), Append(ValsOf(u.m, K), v))
    BY <1>1, <1>5, <2>1, AddTailIs
  <2> QED BY <2>2, <2>3, <2>4
<1> QED BY <1>4, <1>5

LEMMA AddingEnds ==
  ASSUME NEW s, NEW B, NEW E, Held(s, <<>>, B, E), NEW V, V = ElemValue \cup {None}, NEW vals \in Seq(V)
  PROVE  /\ \E f : Adding(f, s, vals)
         /\ \A f : Adding(f, s, vals) => Copied(s, f[Len(vals)], B, E, vals, Len(vals))
<1> PICK n \in Nat : n = Len(vals)
  OBVIOUS
<1> DEFINE D == [k \in 0 .. n |-> {u \in ElemState : Copied(s, u, B, E, vals, k)}]
           step == [k \in 1 .. n |-> [u \in D[k - 1] |-> ThenAdded(u, vals[k])]]
<1>1. s \in D[0]
  <2>1. s \in ElemState
    BY HeldFacts DEF AsElem
  <2>2. ValsOf(s.m, <<>>) = SubSeq(vals, 1, 0)
    BY DEF ValsOf
  <2>3. Begun(s, vals, 0, ValsOf(s.m, <<>>))
    BY <2>2 DEF Begun
  <2>4. Copied(s, s, B, E, vals, 0)
    BY <2>3 DEF Copied
  <2> QED BY <2>1, <2>4
<1>2. ASSUME NEW k \in 1 .. n, NEW u \in D[k - 1] PROVE ThenAdded(u, vals[k]) \in D[k]
  <2>1. k - 1 \in 0 .. n /\ k \in 0 .. n
    OBVIOUS
  <2>2. Copied(s, u, B, E, vals, k - 1)
    BY <2>1
  <2> PICK t : t = ThenAdded(u, vals[k])
    OBVIOUS
  <2>3. Copied(s, t, B, E, vals, k)
    BY <2>2, AddedOne
  <2>4. t \in ElemState
    BY <2>3, HeldFacts DEF Copied, AsElem
  <2> QED BY <2>1, <2>3, <2>4
<1>3. \A k \in 1 .. n : \A u \in D[k - 1] : step[k][u] \in D[k]
  BY <1>2
<1> HIDE DEF D
<1>4. PICK f : Loops(f, n, s, step) /\ \A k \in 0 .. n : f[k] \in D[k]
  <2> HIDE DEF step
  <2>1. n \in Nat /\ s \in D[0]
    BY <1>1
  <2> QED BY ONLY <2>1, <1>3, LoopExists
<1>5. Adding(f, s, vals)
  <2>1. \A k \in 1 .. n : k - 1 \in 0 .. n
    OBVIOUS
  <2>2. \A k \in 1 .. n : step[k][f[k - 1]] = ThenAdded(f[k - 1], vals[k])
    BY <1>4, <2>1
  <2>3. \A k \in 0 .. n : k = 0 \/ k \in 1 .. n
    OBVIOUS
  <2> HIDE DEF step
  <2>4. [k \in 0 .. n |-> IF k = 0 THEN s ELSE step[k][f[k - 1]]]
          = [k \in 0 .. n |-> IF k = 0 THEN s ELSE ThenAdded(f[k - 1], vals[k])]
    BY <2>2, <2>3
  <2> QED BY <1>4, <2>4 DEF Loops, Adding
<1>6. ASSUME NEW g, Adding(g, s, vals) PROVE Copied(s, g[n], B, E, vals, n)
  <2>1. g[0] = s /\ \A k \in 1 .. n : g[k] = ThenAdded(g[k - 1], vals[k])
    <3>1. \A k \in 0 .. n : g[k] = IF k = 0 THEN s ELSE ThenAdded(g[k - 1], vals[k])
      BY <1>6 DEF Adding
    <3> QED BY <3>1
  <2>2. g[0] \in D[0] /\ n \in Nat
    BY <1>1, <2>1
  <2>3. \A k \in 1 .. n : g[k - 1] \in D[k - 1] => g[k] \in D[k]
    BY <1>2, <2>1
  <2>4. \A k \in 0 .. n : g[k] \in D[k]
    BY ONLY <2>2, <2>3, LoopStays
  <2> QED BY <2>4 DEF D
<1> QED BY <1>5, <1>6

-----------------------------------------------------------------------------
(* The vector's blocks and slots. *)

\* A sequence of distinct addresses is no longer than the arena.
LEMMA OnceFits ==
  ASSUME NEW q \in Seq(ElemAddr), Once(q)
  PROVE  Len(q) <= ElemSize /\ Cardinality({q[i] : i \in 1 .. Len(q)}) = Len(q)
         /\ IsFiniteSet({q[i] : i \in 1 .. Len(q)})
<1> PICK n \in Nat : n = Len(q)
  OBVIOUS
<1> DEFINE S == 1 .. n
           T == {q[i] : i \in 1 .. n}
           f == [i \in S |-> q[i]]
<1>1. IsFiniteSet(S) /\ Cardinality(S) = n
  <2> PICK i \in Int : i = 1
    OBVIOUS
  <2> PICK k \in Int : k = n
    OBVIOUS
  <2>1. IsFiniteSet(i .. k) /\ Cardinality(i .. k) = IF i > k THEN 0 ELSE k - i + 1
    BY ONLY i \in Int, k \in Int, FS_Interval
  <2> QED BY <2>1
<1>2. IsFiniteSet(ElemAddr) /\ Cardinality(ElemAddr) = ElemSize
  BY FS_Interval, SizeAssumption DEF ElemAddr
<1>3. \A i, j \in S : f[i] = f[j] => i = j
  BY DEF Once
<1>4. f \in [S -> T] /\ \A t \in T : \E i \in S : f[i] = t
  OBVIOUS
<1>5. f \in [S -> ElemAddr]
  OBVIOUS
<1>6. f \in Injection(S, ElemAddr)
  <2> HIDE DEF f, S
  <2> QED BY <1>3, <1>5 DEF Injection, IsInjective
<1>7. f \in Injection(S, T) /\ f \in Surjection(S, T)
  <2> HIDE DEF f, S, T
  <2> QED BY <1>3, <1>4 DEF Injection, Surjection, IsInjective
<1> HIDE DEF S, T, f
<1>8. Cardinality(S) <= Cardinality(ElemAddr)
  BY <1>2, <1>6, FS_Injection
<1>9. IsFiniteSet(T) /\ Cardinality(T) = Cardinality(S)
  BY <1>1, <1>7, FS_Surjection
<1> USE DEF T
<1> QED BY <1>1, <1>2, <1>8, <1>9

LEMMA ExtendedFacts ==
  ASSUME NEW m, NEW B, Extended(m, B)
  PROVE  /\ Len(B) \in Nat /\ Len(B) >= 1 /\ Len(B) - 1 <= ElemSize
         /\ \A i \in 2 .. Len(B) : B[i] \in ElemAddr
<1>1. B \in Seq(ElemPlace) /\ Once(B) /\ Len(B) >= 1 /\ B[1] = Nil
  BY DEF Extended
<1> PICK n \in Nat : n = Len(B)
  BY <1>1
<1>2. \A i \in 2 .. n : B[i] \in ElemAddr
  <2> SUFFICES ASSUME NEW i \in 2 .. n PROVE B[i] \in ElemAddr
    OBVIOUS
  <2>1. i \in 1 .. n /\ 1 \in 1 .. n /\ i # 1
    OBVIOUS
  <2>2. B[i] # Nil
    BY <1>1, <2>1 DEF Once
  <2> QED BY <1>1, <2>1, <2>2 DEF ElemPlace
<1> DEFINE q == [i \in 1 .. n - 1 |-> B[i + 1]]
<1>3. \A i \in 1 .. n - 1 : q[i] = B[i + 1] /\ i + 1 \in 2 .. n /\ i + 1 \in 1 .. n
  OBVIOUS
<1>4. q \in [1 .. n - 1 -> ElemAddr] /\ n - 1 \in Nat
  BY <1>1, <1>2
<1>5. q \in Seq(ElemAddr) /\ Len(q) = n - 1
  <2> HIDE DEF q
  <2> QED BY <1>4
<1> HIDE DEF q
<1>6. \A i, j \in 1 .. n - 1 : q[i] = q[j] => i = j
  <2> SUFFICES ASSUME NEW i \in 1 .. n - 1, NEW j \in 1 .. n - 1, q[i] = q[j] PROVE i = j
    OBVIOUS
  <2>1. i + 1 = j + 1
    BY <1>1, <1>3 DEF Once
  <2> QED BY <2>1
<1>7. Once(q)
  BY <1>5, <1>6 DEF Once
<1> QED BY <1>1, <1>2, <1>5, <1>7, OnceFits

Hops(h, m) == h = [i \in 0 .. ElemSize |-> IF i = 0 THEN Nil ELSE GetExtra(m, h[i - 1])]
Hop(m) == CHOOSE h : Hops(h, m)
Ends(m, h, k) == /\ GetExtra(m, h[k]) = Nil
                 /\ \A j \in DOMAIN h : j < k => GetExtra(m, h[j]) # Nil

LEMMA BlocksOf ==
  ASSUME NEW m
  PROVE  Blocks(m) = [i \in 1 .. (CHOOSE k \in DOMAIN Hop(m) : Ends(m, Hop(m), k)) + 1 |-> Hop(m)[i - 1]]
BY Zenon DEF Blocks, Hop, Hops, Ends

LEMMA BlocksAre ==
  ASSUME NEW m, Arena(m), NEW B, Extended(m, B)
  PROVE  Blocks(m) = B
<1> PICK n \in Nat : n = Len(B)
  BY ExtendedFacts
<1>0. n >= 1 /\ n - 1 <= ElemSize /\ ElemSize \in Nat
  BY ExtendedFacts, SizeAssumption
<1>1. B[1] = Nil /\ \A i \in 1 .. n : B[i] \in ElemPlace /\ m[B[i]].extra = IF i = n THEN Nil ELSE B[i + 1]
  BY DEF Extended
<1>2. \A i \in 2 .. n : B[i] # Nil
  BY ExtendedFacts, PlaceFacts
<1> DEFINE D == [k \in 0 .. ElemSize |-> ElemPlace]
           step == [k \in 1 .. ElemSize |-> [x \in ElemPlace |-> m[x].extra]]
<1>3. Nil \in D[0] /\ \A k \in 1 .. ElemSize : \A x \in D[k - 1] : step[k][x] \in D[k]
  <2>1. \A x \in ElemPlace : m[x].extra \in ElemPlace
    BY DEF Arena, ElemBlock
  <2>2. \A k \in 1 .. ElemSize : k - 1 \in 0 .. ElemSize /\ k \in 0 .. ElemSize
    BY <1>0
  <2> QED BY <1>0, <2>1, <2>2, PlaceFacts
<1>4. PICK f : Loops(f, ElemSize, Nil, step) /\ \A k \in 0 .. ElemSize : f[k] \in D[k]
  <2> HIDE DEF step, D
  <2> QED BY ONLY <1>0, <1>3, LoopExists
<1>5. Hops(f, m)
  <2>1. \A k \in 0 .. ElemSize : f[k] \in ElemPlace
    BY <1>4
  <2>2. \A k \in 1 .. ElemSize : k - 1 \in 0 .. ElemSize
    BY <1>0
  <2>3. \A k \in 1 .. ElemSize : step[k][f[k - 1]] = GetExtra(m, f[k - 1])
    BY <2>1, <2>2 DEF GetExtra
  <2>4. \A k \in 0 .. ElemSize : k = 0 \/ k \in 1 .. ElemSize
    BY <1>0
  <2> HIDE DEF step
  <2>5. [k \in 0 .. ElemSize |-> IF k = 0 THEN Nil ELSE step[k][f[k - 1]]]
          = [k \in 0 .. ElemSize |-> IF k = 0 THEN Nil ELSE GetExtra(m, f[k - 1])]
    BY <2>3, <2>4
  <2> QED BY <1>4, <2>5 DEF Loops, Hops
<1> PICK h : h = Hop(m)
  OBVIOUS
<1>6. Hops(h, m)
  BY <1>5 DEF Hop
<1>7. DOMAIN h = 0 .. ElemSize /\ h[0] = Nil /\ \A k \in 1 .. ElemSize : h[k] = m[h[k - 1]].extra
  <2>1. DOMAIN h = 0 .. ElemSize /\ \A k \in 0 .. ElemSize : h[k] = IF k = 0 THEN Nil ELSE m[h[k - 1]].extra
    BY <1>6 DEF Hops, GetExtra
  <2> QED BY <1>0, <2>1
<1>8. \A k \in 0 .. n - 1 : h[k] = B[k + 1]
  <2> DEFINE G == [k \in 0 .. n - 1 |-> {B[k + 1]}]
  <2>1. h[0] \in G[0] /\ n - 1 \in Nat
    BY <1>0, <1>1, <1>7
  <2>2. ASSUME NEW k \in 1 .. n - 1, h[k - 1] \in G[k - 1] PROVE h[k] \in G[k]
    <3>1. h[k - 1] = B[k] /\ k \in 1 .. ElemSize /\ k \in 1 .. n /\ k # n
      BY <1>0, <2>2
    <3>2. h[k] = m[B[k]].extra
      BY <1>7, <3>1
    <3> QED BY <1>1, <3>1, <3>2
  <2> HIDE DEF G
  <2>3. \A k \in 0 .. n - 1 : h[k] \in G[k]
    BY ONLY <2>1, <2>2, LoopStays
  <2> QED BY <2>3 DEF G
<1>9. \A k \in 0 .. n - 1 : GetExtra(m, h[k]) = IF k = n - 1 THEN Nil ELSE B[k + 2]
  <2> SUFFICES ASSUME NEW k \in 0 .. n - 1 PROVE GetExtra(m, h[k]) = IF k = n - 1 THEN Nil ELSE B[k + 2]
    OBVIOUS
  <2>1. k + 1 \in 1 .. n /\ (k + 1 = n <=> k = n - 1) /\ (k + 1) + 1 = k + 2
    OBVIOUS
  <2> QED BY <1>1, <1>8, <2>1 DEF GetExtra
<1>10. Ends(m, h, n - 1)
  <2>1. n - 1 \in 0 .. n - 1
    BY <1>0
  <2>2. \A j \in DOMAIN h : j < n - 1 => j \in 0 .. n - 1 /\ j # n - 1 /\ j + 2 \in 2 .. n
    BY <1>7
  <2> QED BY <1>2, <1>9, <2>1, <2>2 DEF Ends
<1>11. ASSUME NEW k \in DOMAIN h, Ends(m, h, k) PROVE k = n - 1
  <2>1. k \in Nat /\ n - 1 \in DOMAIN h
    BY <1>0, <1>7
  <2>2. ~(k < n - 1)
    <3>1. k < n - 1 => k \in 0 .. n - 1 /\ k # n - 1 /\ k + 2 \in 2 .. n
      BY <2>1
    <3> QED BY <1>2, <1>9, <1>11, <3>1 DEF Ends
  <2>3. ~(n - 1 < k)
    BY <1>10, <1>11, <2>1 DEF Ends
  <2> QED BY <2>1, <2>2, <2>3
<1>12. (CHOOSE k \in DOMAIN h : Ends(m, h, k)) = n - 1
  <2>1. n - 1 \in DOMAIN h
    BY <1>0, <1>7
  <2> QED BY <1>10, <1>11, <2>1
<1>13. Blocks(m) = [i \in 1 .. n |-> h[i - 1]]
  <2>1. Blocks(m) = [i \in 1 .. (n - 1) + 1 |-> h[i - 1]]
    BY <1>12, BlocksOf
  <2>2. (n - 1) + 1 = n
    BY <1>0
  <2> QED BY <2>1, <2>2
<1>14. \A i \in 1 .. n : h[i - 1] = B[i]
  BY <1>8
<1>15. B = [i \in 1 .. n |-> B[i]]
  BY DEF Extended
<1> QED BY <1>13, <1>14, <1>15

-----------------------------------------------------------------------------
(* A slot read, and one set. *)

LEMMA GetSlotIs ==
  ASSUME NEW m, Arena(m), NEW B, Extended(m, B), NEW i \in Nat, NEW x, Names(m, B, i, x)
  PROVE  GetSlot(m, i) = x
<1> PICK k : k = i \div MaxInline
  OBVIOUS
<1>1. k \in Nat
  BY SlotFacts
<1>2. Blocks(m) = B /\ Len(B) \in Nat
  BY BlocksAre, ExtendedFacts
<1>3. k < Len(B) /\ m[B[k + 1]].slots[i % MaxInline] = x
  BY DEF Names
<1>4. ~ (k >= Len(B))
  BY <1>1, <1>2, <1>3
<1> QED BY <1>2, <1>3, <1>4 DEF GetSlot, SlotOf, GetAlloc

\* The elements of the arena are as they were, and so is all but the arena.
Beside(s, t) == /\ AsElem(t) /\ t.l = s.l /\ Aside(s, t)
                /\ \A x \in ElemPlace : s.m[x].is = "elem" => t.m[x] = s.m[x]

\* From blocks B to blocks C, slot i names a now, and every other what it did.
SlotPut(s, t, B, C, i, a) ==
  /\ Beside(s, t) /\ Extended(t.m, C) /\ Len(B) <= Len(C) /\ Names(t.m, C, i, a)
  /\ \A j \in Nat : \A x : j # i /\ Names(s.m, B, j, x) => Names(t.m, C, j, x)

LEMMA SetAllocIs ==
  ASSUME NEW s, AsElem(s), NEW B, Extended(s.m, B), NEW i \in Nat, i \div MaxInline < Len(B),
         NEW a \in ElemPlace, NEW b, b = B[i \div MaxInline + 1],
         NEW t, t = SetAlloc(s, b, i % MaxInline, a)
  PROVE  SlotPut(s, t, B, B, i, a)
<1> PICK k, p : k = i \div MaxInline /\ p = i % MaxInline
  OBVIOUS
<1>1. k \in Nat /\ p \in Slot
  BY SlotFacts
<1>2. B \in Seq(ElemPlace) /\ Once(B) /\ Len(B) \in Nat /\ k + 1 \in 1 .. Len(B) /\ b = B[k + 1] /\ b \in ElemPlace
  BY <1>1, ExtendedFacts DEF Extended
<1> PICK e : e = s.m[b]
  OBVIOUS
<1> PICK q : q = [e.slots EXCEPT ![p] = a]
  OBVIOUS
<1> PICK d : d = [e EXCEPT !.slots = q]
  OBVIOUS
<1>3. e \in ElemBlock /\ (e.is = "vect" <=> b = Nil)
  BY <1>2, BlockIs
<1>4. e.slots \in [Slot -> ElemPlace]
  BY <1>3 DEF ElemBlock
<1>5. q \in [Slot -> ElemPlace] /\ q[p] = a /\ \A j \in Slot : j # p => q[j] = e.slots[j]
  BY <1>1, <1>4
<1>6. d \in ElemBlock /\ d.is = e.is /\ d.extra = e.extra /\ d.slots = q
  BY <1>3, <1>5 DEF ElemBlock
<1>7. t = [s EXCEPT !.m = [s.m EXCEPT ![b] = d]]
  BY DEF SetAlloc
<1>8. Wrote(s, b, d, t) /\ AsElem(t)
  <2>1. AsElem(s) /\ (d.is = "vect" <=> b = Nil)
    BY <1>3, <1>6
  <2> QED BY ONLY <1>2, <1>6, <1>7, <2>1, BlockWritten
<1>9. t.l = s.l /\ Aside(s, t) /\ t.m[b] = d /\ \A x \in ElemPlace : x # b => t.m[x] = s.m[x]
  BY <1>8 DEF Wrote
<1>10. \A x \in ElemPlace : t.m[x].is = s.m[x].is /\ t.m[x].extra = s.m[x].extra
  BY <1>6, <1>9
<1>11. Extended(t.m, B)
  <2>1. \A j \in 1 .. Len(B) : B[j] \in ElemPlace
    BY <1>2
  <2>2. \A j \in 2 .. Len(B) : j \in 1 .. Len(B)
    BY <1>2
  <2>3. Extended(s.m, B)
    OBVIOUS
  <2> QED BY ONLY <1>10, <2>1, <2>2, <2>3 DEF Extended
<1>12. Names(t.m, B, i, a)
  <2>1. t.m[B[k + 1]].slots[p] = a /\ k < Len(B)
    <3>1. t.m[b].slots[p] = a
      BY ONLY <1>5, <1>6, <1>9
    <3> QED BY <1>1, <1>2, <3>1
  <2>2. i \div MaxInline = k /\ i % MaxInline = p
    OBVIOUS
  <2> QED BY ONLY <2>1, <2>2 DEF Names
<1>13. ASSUME NEW j \in Nat, NEW x, j # i, Names(s.m, B, j, x) PROVE Names(t.m, B, j, x)
  <2> PICK l, r : l = j \div MaxInline /\ r = j % MaxInline
    OBVIOUS
  <2>1. l \in Nat /\ r \in Slot /\ ~ (l = k /\ r = p)
    <3>1. l \in Nat /\ r \in Slot
      BY SlotFacts
    <3>2. ~ (l = k /\ r = p)
      BY <1>13, SlotFacts
    <3> QED BY <3>1, <3>2
  <2>2. l < Len(B) /\ s.m[B[l + 1]].slots[r] = x
    BY <1>13 DEF Names
  <2>3. l + 1 \in 1 .. Len(B) /\ B[l + 1] \in ElemPlace
    BY <1>2, <2>1, <2>2
  <2>4. t.m[B[l + 1]].slots[r] = x
    <3>1. CASE l = k
      <4>1. r # p /\ e.slots[r] = x
        BY <1>2, <2>1, <2>2, <3>1
      <4>2. t.m[b].slots[r] = x
        BY ONLY <1>5, <1>6, <1>9, <2>1, <4>1
      <4> QED BY <1>2, <3>1, <4>2
    <3>2. CASE l # k
      <4>1. B[l + 1] # b
        BY <1>1, <1>2, <2>1, <2>3, <3>2 DEF Once
      <4> QED BY <1>9, <2>2, <2>3, <4>1
    <3> QED BY <3>1, <3>2
  <2> QED BY <2>2, <2>4 DEF Names
<1>14. ASSUME NEW x \in ElemPlace, s.m[x].is = "elem" PROVE t.m[x] = s.m[x]
  <2>1. b # Nil => s.m[b].is = "cont"
    <3>1. k + 1 # 1 => k + 1 \in 2 .. Len(B)
      BY <1>2
    <3> QED BY <1>2, <3>1 DEF Extended
  <2>2. b = Nil => s.m[b].is = "vect"
    BY <1>3
  <2>3. x # b
    BY <1>14, <2>1, <2>2
  <2> QED BY <1>9, <2>3
<1>15. Beside(s, t)
  BY ONLY <1>8, <1>9, <1>14 DEF Beside
<1>16. Len(B) <= Len(B)
  BY <1>2
<1> QED BY ONLY <1>11, <1>12, <1>13, <1>15, <1>16 DEF SlotPut

\* Block b is chained to the blocks B, and every slot names what it did.
Continued(s, t, B, b) ==
  /\ b \in ElemAddr /\ Beside(s, t) /\ t.ok = TRUE /\ Extended(t.m, Append(B, b))
  /\ \A j \in Nat : \A x : Names(s.m, B, j, x) => Names(t.m, Append(B, b), j, x)

\* A continuation made, and chained to the last block.
LEMMA ContinuationIs ==
  ASSUME NEW s, AsElem(s), s.ok = TRUE, NEW B, Extended(s.m, B), NEW t, t = AllocContinuation(s)
  PROVE  Failed(s, t) \/ \E b : Continued(s, t, B, b)
<1> PICK u : u = ElemAlloc(s, "cont", None)
  OBVIOUS
<1> PICK b : b = ElemNew(s)
  OBVIOUS
<1> PICK d : d = Fresh("cont", None)
  OBVIOUS
<1>1. Failed(s, u) \/ (Taken(s, b, d, u) /\ u.ok = s.ok)
  BY Allocated
<1>2. d \in ElemBlock /\ d.is = "cont" /\ d.extra = Nil
  BY FreshIs
<1>3. CASE Failed(s, u)
  <2>1. t = u
    BY <1>3 DEF AllocContinuation, ElemThen, Failed
  <2> QED BY <1>3, <2>1
<1>4. CASE Taken(s, b, d, u) /\ u.ok = s.ok
  <2> PICK n \in Nat : n = Len(B)
    BY ExtendedFacts
  <2> PICK z : z = B[n]
    OBVIOUS
  <2>1. n >= 1 /\ B \in Seq(ElemPlace) /\ Once(B) /\ B[1] = Nil
    BY DEF Extended
  <2>2. Blocks(s.m) = B
    BY BlocksAre DEF AsElem
  <2>3. t = SetExtra(u, z, b)
    BY <1>4, <2>2 DEF AllocContinuation, ElemThen, Seqs!Last
  <2>4. /\ b \in ElemAddr /\ s.m[b].is = "free" /\ AsElem(u) /\ u.l = s.l /\ Aside(s, u) /\ u.m[b] = d
        /\ \A x \in ElemPlace : x # b => u.m[x] = s.m[x]
    BY <1>4 DEF Taken, Wrote
  <2>5. z \in ElemPlace /\ s.m[z].is \in {"vect", "cont"} /\ s.m[z].extra = Nil
    <3>1. n \in 1 .. n /\ (n # 1 => n \in 2 .. n)
      BY <2>1
    <3>2. z = Nil => s.m[z].is = "vect"
      BY BlockIs, PlaceFacts
    <3> QED BY <2>1, <3>1, <3>2 DEF Extended
  <2>6. z # b /\ b \in ElemPlace /\ b # Nil /\ u.m[z] = s.m[z]
    BY <2>4, <2>5, PlaceFacts
  <2> PICK e : e = [u.m[z] EXCEPT !.extra = b]
    OBVIOUS
  <2>7. u.m[z] \in ElemBlock /\ (u.m[z].is = "vect" <=> z = Nil)
    BY <2>4, <2>5, BlockIs
  <2>8. e \in ElemBlock /\ e.is = u.m[z].is /\ e.slots = u.m[z].slots /\ e.extra = b
    BY <2>6, <2>7 DEF ElemBlock
  <2>9. t = [u EXCEPT !.m = [u.m EXCEPT ![z] = e]]
    BY <2>3 DEF SetExtra
  <2>10. Wrote(u, z, e, t) /\ AsElem(t)
    <3>1. e.is = "vect" <=> z = Nil
      BY <2>7, <2>8
    <3> QED BY ONLY <2>4, <2>5, <2>8, <2>9, <3>1, BlockWritten
  <2>11. t.l = u.l /\ Aside(u, t) /\ t.m[z] = e /\ \A x \in ElemPlace : x # z => t.m[x] = u.m[x]
    BY <2>10 DEF Wrote
  <2>12. Beside(s, t) /\ t.ok = TRUE
    <3>1. \A x \in ElemPlace : s.m[x].is = "elem" => x # b /\ x # z
      BY <2>4, <2>5
    <3> QED BY <1>4, <2>4, <2>10, <2>11, <3>1 DEF Beside, Aside
  <2> PICK C : C = Append(B, b)
    OBVIOUS
  <2>13. C \in Seq(ElemPlace) /\ Len(C) = n + 1 /\ C[n + 1] = b /\ \A i \in 1 .. n : C[i] = B[i]
    BY <2>1, <2>6
  <2>14. \A i \in 1 .. n : B[i] \in ElemPlace /\ B[i] # b /\ (B[i] = z <=> i = n)
    <3>1. \A i \in 1 .. n : B[i] \in ElemPlace /\ (B[i] = z <=> i = n)
      BY <2>1 DEF Once
    <3>2. \A i \in 1 .. n : s.m[B[i]].is # "free"
      <4>1. \A i \in 1 .. n : i = 1 \/ i \in 2 .. n
        OBVIOUS
      <4>2. s.m[Nil].is = "vect"
        BY BlockIs, PlaceFacts
      <4> QED BY <2>1, <4>1, <4>2 DEF Extended
    <3> QED BY <2>4, <3>1, <3>2
  <2>15. Once(C)
    <3>1. ASSUME NEW i \in 1 .. n + 1, NEW j \in 1 .. n + 1, C[i] = C[j] PROVE i = j
      <4>1. (i = n + 1 \/ i \in 1 .. n) /\ (j = n + 1 \/ j \in 1 .. n)
        OBVIOUS
      <4>2. \A x, y \in 1 .. n : B[x] = B[y] => x = y
        BY <2>1 DEF Once
      <4>3. CASE i \in 1 .. n /\ j \in 1 .. n
        BY ONLY <2>13, <3>1, <4>2, <4>3
      <4>4. CASE i = n + 1 \/ j = n + 1
        BY ONLY <2>13, <2>14, <3>1, <4>1, <4>4
      <4> QED BY <4>1, <4>3, <4>4
    <3> QED BY ONLY <2>13, <3>1 DEF Once
  <2>16. \A i \in 1 .. n : t.m[B[i]].is = s.m[B[i]].is /\ t.m[B[i]].slots = s.m[B[i]].slots
    <3> SUFFICES ASSUME NEW i \in 1 .. n PROVE t.m[B[i]].is = s.m[B[i]].is /\ t.m[B[i]].slots = s.m[B[i]].slots
      OBVIOUS
    <3>1. CASE B[i] = z
      <4>1. u.m[z].is = s.m[z].is /\ u.m[z].slots = s.m[z].slots
        BY ONLY <2>6
      <4>2. t.m[z].is = u.m[z].is /\ t.m[z].slots = u.m[z].slots
        BY ONLY <2>8, <2>11
      <4> QED BY ONLY <3>1, <4>1, <4>2
    <3>2. CASE B[i] # z
      <4>1. u.m[B[i]] = s.m[B[i]] /\ t.m[B[i]] = u.m[B[i]]
        BY <2>4, <2>11, <2>14, <3>2
      <4> QED BY <4>1
    <3> QED BY <3>1, <3>2
  <2>17. t.m[b].is = "cont" /\ t.m[b].extra = Nil
    BY <1>2, <2>4, <2>6, <2>11
  <2>18. \A i \in 2 .. n + 1 : t.m[C[i]].is = "cont"
    <3>1. \A i \in 2 .. n + 1 : i = n + 1 \/ (i \in 2 .. n /\ i \in 1 .. n)
      OBVIOUS
    <3>2. \A i \in 2 .. n : s.m[B[i]].is = "cont"
      BY DEF Extended
    <3> QED BY <2>13, <2>16, <2>17, <3>1, <3>2
  <2>19. \A i \in 1 .. n + 1 : t.m[C[i]].extra = IF i = n + 1 THEN Nil ELSE C[i + 1]
    <3> SUFFICES ASSUME NEW i \in 1 .. n + 1 PROVE t.m[C[i]].extra = IF i = n + 1 THEN Nil ELSE C[i + 1]
      OBVIOUS
    <3>1. CASE i = n + 1
      BY <2>13, <2>17, <3>1
    <3>2. CASE i = n
      <4>1. C[i] = z /\ t.m[z].extra = b /\ i # n + 1 /\ i + 1 = n + 1
        BY <2>1, <2>8, <2>11, <2>13, <3>2
      <4> QED BY <2>13, <4>1
    <3>3. CASE i \in 1 .. n /\ i # n
      <4>1. C[i] = B[i] /\ C[i + 1] = B[i + 1] /\ i # n + 1
        BY <2>13, <3>3
      <4>2. t.m[B[i]] = s.m[B[i]]
        BY <2>4, <2>11, <2>14, <3>3
      <4>3. s.m[B[i]].extra = B[i + 1]
        BY <3>3 DEF Extended
      <4> QED BY <4>1, <4>2, <4>3
    <3> QED BY <3>1, <3>2, <3>3
  <2>20. Extended(t.m, C)
    <3>1. C[1] = Nil /\ Len(C) >= 1
      BY <2>1, <2>13
    <3> QED BY ONLY <2>13, <2>15, <2>18, <2>19, <3>1 DEF Extended
  <2>21. ASSUME NEW j \in Nat, NEW x, Names(s.m, B, j, x) PROVE Names(t.m, C, j, x)
    <3> PICK l : l = j \div MaxInline
      OBVIOUS
    <3>1. l \in Nat /\ l < n /\ s.m[B[l + 1]].slots[j % MaxInline] = x
      BY <2>21, SlotFacts DEF Names
    <3>2. l + 1 \in 1 .. n /\ l < n + 1
      BY <3>1
    <3> QED BY <2>13, <2>16, <3>1, <3>2 DEF Names
  <2>22. Continued(s, t, B, b)
    BY <2>4, <2>12, <2>20, <2>21 DEF Continued
  <2> QED BY <2>22
<1> QED BY <1>1, <1>3, <1>4

LEMMA BesideTwice ==
  ASSUME NEW s, NEW u, Beside(s, u), NEW t, Beside(u, t)
  PROVE  Beside(s, t)
<1>1. ASSUME NEW x \in ElemPlace, s.m[x].is = "elem" PROVE t.m[x] = s.m[x]
  <2>1. u.m[x] = s.m[x]
    BY <1>1 DEF Beside
  <2>2. t.m[x] = u.m[x]
    BY <1>1, <2>1 DEF Beside
  <2> QED BY <2>1, <2>2
<1> QED BY <1>1 DEF Beside, Aside

Arrived(s, t, B, n) == t = IF n < Len(B) THEN s ELSE AllocContinuation(s)

\* The loop that looks for the block of a slot makes one at most.
LEMMA ReachedIs ==
  ASSUME NEW s, AsElem(s), s.ok = TRUE, NEW B, Extended(s.m, B), NEW n \in Nat, n <= Len(B),
         NEW t, t = Reached(s, n)
  PROVE  Arrived(s, t, B, n)
<1> PICK l \in Nat : l = Len(B)
  BY ExtendedFacts
<1>0. l >= 1 /\ Blocks(s.m) = B
  BY ExtendedFacts, BlocksAre DEF AsElem
<1> DEFINE D == [k \in 0 .. n |-> {IF k < l THEN s ELSE AllocContinuation(s)}]
           step == [k \in 1 .. n |-> [u \in D[k - 1] |-> ToBlock(u, k)]]
           Is(f) == f = [k \in 0 .. n |-> IF k = 0 THEN s ELSE ToBlock(f[k - 1], k)]
<1>1. s \in D[0]
  BY <1>0
<1>2. ASSUME NEW k \in 1 .. n, NEW u \in D[k - 1] PROVE ToBlock(u, k) \in D[k]
  <2>1. k - 1 \in 0 .. n /\ k \in 0 .. n /\ k - 1 < l
    OBVIOUS
  <2>2. u = s
    BY <2>1
  <2>3. ToBlock(s, k) = IF k < l THEN s ELSE AllocContinuation(s)
    <3>1. l > k <=> k < l
      OBVIOUS
    <3> QED BY <1>0, <3>1 DEF ToBlock, ElemThen
  <2> QED BY <2>1, <2>2, <2>3
<1>3. \A k \in 1 .. n : \A u \in D[k - 1] : step[k][u] \in D[k]
  BY <1>2
<1> HIDE DEF D
<1>4. PICK f : Loops(f, n, s, step) /\ \A k \in 0 .. n : f[k] \in D[k]
  <2> HIDE DEF step
  <2>1. n \in Nat /\ s \in D[0]
    BY <1>1
  <2> QED BY ONLY <2>1, <1>3, LoopExists
<1>5. Is(f)
  <2>1. \A k \in 1 .. n : k - 1 \in 0 .. n
    OBVIOUS
  <2>2. \A k \in 1 .. n : step[k][f[k - 1]] = ToBlock(f[k - 1], k)
    BY <1>4, <2>1
  <2>3. \A k \in 0 .. n : k = 0 \/ k \in 1 .. n
    OBVIOUS
  <2> HIDE DEF step
  <2>4. [k \in 0 .. n |-> IF k = 0 THEN s ELSE step[k][f[k - 1]]]
          = [k \in 0 .. n |-> IF k = 0 THEN s ELSE ToBlock(f[k - 1], k)]
    BY <2>2, <2>3
  <2> QED BY <1>4, <2>4 DEF Loops
<1> HIDE DEF Is
<1> PICK g : g = CHOOSE h : Is(h)
  OBVIOUS
<1>6. Is(g)
  BY <1>5
<1>7. t = g[n]
  BY Zenon DEF Reached, Is
<1>8. g[0] = s /\ \A k \in 1 .. n : g[k] = ToBlock(g[k - 1], k)
  <2>1. \A k \in 0 .. n : g[k] = IF k = 0 THEN s ELSE ToBlock(g[k - 1], k)
    BY <1>6 DEF Is
  <2> QED BY <2>1
<1>9. \A k \in 0 .. n : g[k] \in D[k]
  <2>1. g[0] \in D[0] /\ n \in Nat
    BY <1>1, <1>8
  <2>2. \A k \in 1 .. n : g[k - 1] \in D[k - 1] => g[k] \in D[k]
    BY <1>2, <1>8
  <2> QED BY ONLY <2>1, <2>2, LoopStays
<1> QED BY <1>7, <1>9 DEF D, Arrived

LEMMA SetSlotIs ==
  ASSUME NEW s, AsElem(s), s.ok = TRUE, NEW B, Extended(s.m, B), NEW i \in Nat, i \div MaxInline <= Len(B),
         NEW a \in ElemPlace, NEW t, t = ElemSetSlot(s, i, a)
  PROVE  (Failed(s, t) /\ i \div MaxInline = Len(B)) \/ \E C : t.ok = TRUE /\ SlotPut(s, t, B, C, i, a)
<1> PICK k, p : k = i \div MaxInline /\ p = i % MaxInline
  OBVIOUS
<1>1. k \in Nat /\ p \in Slot /\ Len(B) \in Nat /\ k <= Len(B)
  BY SlotFacts, ExtendedFacts
<1> PICK u : u = Reached(s, k)
  OBVIOUS
<1>2. t = ElemThen(u, LAMBDA x : SetAlloc(x, Blocks(x.m)[k + 1], p, a))
  BY DEF ElemSetSlot
<1>3. Arrived(s, u, B, k)
  BY <1>1, ReachedIs
<1>4. CASE k < Len(B)
  <2>1. u = s
    BY <1>3, <1>4 DEF Arrived
  <2>2. Blocks(s.m) = B
    BY BlocksAre DEF AsElem
  <2>3. t = SetAlloc(s, B[k + 1], p, a)
    BY <1>2, <2>1, <2>2 DEF ElemThen
  <2>4. SlotPut(s, t, B, B, i, a)
    BY <1>4, <2>3, SetAllocIs
  <2> QED BY <2>4 DEF SlotPut, Beside, Aside
<1>5. CASE k = Len(B)
  <2>1. u = AllocContinuation(s)
    BY <1>1, <1>3, <1>5 DEF Arrived
  <2>2. CASE Failed(s, u)
    <3>1. t = u
      BY <1>2, <2>2 DEF ElemThen, Failed
    <3> QED BY <1>5, <2>2, <3>1
  <2>3. ASSUME NEW b, Continued(s, u, B, b)
        PROVE  \E C : t.ok = TRUE /\ SlotPut(s, t, B, C, i, a)
    <3>0. /\ b \in ElemAddr /\ Beside(s, u) /\ u.ok = TRUE /\ Extended(u.m, Append(B, b))
          /\ \A j \in Nat : \A x : Names(s.m, B, j, x) => Names(u.m, Append(B, b), j, x)
      BY <2>3 DEF Continued
    <3> PICK C : C = Append(B, b)
      OBVIOUS
    <3>1. Extended(u.m, C) /\ AsElem(u) /\ Len(C) = Len(B) + 1
      <4>1. B \in Seq(ElemPlace)
        BY DEF Extended
      <4> QED BY <3>0, <4>1 DEF Beside
    <3>2. Blocks(u.m) = C
      BY <3>1, BlocksAre DEF AsElem
    <3>3. t = SetAlloc(u, C[k + 1], p, a)
      BY <1>2, <3>0, <3>2 DEF ElemThen
    <3>4. SlotPut(u, t, C, C, i, a)
      <4> PICK e : e = C[k + 1]
        OBVIOUS
      <4>1. /\ AsElem(u) /\ Extended(u.m, C) /\ i \in Nat /\ i \div MaxInline < Len(C) /\ a \in ElemPlace
            /\ e = C[i \div MaxInline + 1] /\ t = SetAlloc(u, e, i % MaxInline, a)
        BY <1>1, <1>5, <3>1, <3>3
      <4> QED BY ONLY <4>1, SetAllocIs
    <3>5. Beside(s, t)
      BY <3>0, <3>4, BesideTwice DEF SlotPut
    <3>6. \A j \in Nat : \A x : j # i /\ Names(s.m, B, j, x) => Names(t.m, C, j, x)
      BY <3>0, <3>4 DEF SlotPut
    <3>7. Extended(t.m, C) /\ Names(t.m, C, i, a) /\ t.ok = TRUE /\ Len(B) <= Len(C)
      BY <1>1, <3>0, <3>1, <3>4 DEF SlotPut, Beside, Aside
    <3>8. SlotPut(s, t, B, C, i, a)
      BY ONLY <3>5, <3>6, <3>7 DEF SlotPut
    <3> QED BY <3>7, <3>8
  <2>4. Failed(s, u) \/ \E b : Continued(s, u, B, b)
    BY <2>1, ContinuationIs
  <2> QED BY <2>2, <2>3, <2>4
<1>6. k < Len(B) \/ k = Len(B)
  BY <1>1
<1> QED BY ONLY <1>4, <1>5, <1>6

-----------------------------------------------------------------------------
(* The shifts. *)

\* The last k elements are one slot further, the last that stayed in two.
Opened(s, u, B, E, k) ==
  /\ Beside(s, u)
  /\ \E C : /\ Extended(u.m, C) /\ Len(B) <= Len(C)
            /\ \A q \in 1 .. Len(E) : q <= Len(E) - k + 1 => Names(u.m, C, q - 1, E[q])
            /\ \A q \in 1 .. Len(E) : q >= Len(E) - k + 1 => Names(u.m, C, q, E[q])

LEMMA NamedBlock ==
  ASSUME NEW m, NEW B, Len(B) \in Nat, NEW i \in Nat, NEW x, Names(m, B, i, x)
  PROVE  i \div MaxInline < Len(B) /\ (i + 1) \div MaxInline <= Len(B)
<1> PICK k, l : k = i \div MaxInline /\ l = (i + 1) \div MaxInline
  OBVIOUS
<1>1. k \in Nat /\ l \in Nat /\ l <= k + 1
  BY SlotFacts
<1>2. k < Len(B)
  BY DEF Names
<1>3. l <= Len(B)
  BY ONLY <1>1, <1>2, Len(B) \in Nat
<1> QED BY <1>2, <1>3

LEMMA OpenedOne ==
  ASSUME NEW s, NEW B, Len(B) \in Nat, NEW E \in Seq(ElemAddr), NEW k \in 1 .. Len(E),
         NEW u, u.ok = TRUE, Opened(s, u, B, E, k - 1),
         NEW t, t = SlotFrom(u, Len(E) - k + 1, Len(E) - k)
  PROVE  (Failed(u, t) /\ k = 1) \/ (t.ok = TRUE /\ Opened(s, t, B, E, k))
<1> PICK N \in Nat : N = Len(E)
  OBVIOUS
<1> PICK i : i = N - k
  OBVIOUS
<1> PICK x : x = E[i + 1]
  OBVIOUS
<1>0. i \in Nat /\ i + 1 \in 1 .. N /\ i + 1 \in Nat /\ i + 1 = N - k + 1 /\ x \in ElemPlace
  BY PlaceFacts
<1>1. PICK C : /\ Extended(u.m, C) /\ Len(B) <= Len(C)
               /\ \A q \in 1 .. N : q <= N - (k - 1) + 1 => Names(u.m, C, q - 1, E[q])
               /\ \A q \in 1 .. N : q >= N - (k - 1) + 1 => Names(u.m, C, q, E[q])
  BY DEF Opened
<1>2. Beside(s, u) /\ AsElem(u) /\ Len(C) \in Nat
  BY <1>1, ExtendedFacts DEF Opened, Beside
<1>3. Names(u.m, C, i, x)
  <2>1. i + 1 <= N - (k - 1) + 1 /\ (i + 1) - 1 = i
    BY <1>0
  <2> QED BY <1>0, <1>1, <2>1
<1>4. GetSlot(u.m, i) = x
  <2> PICK m : m = u.m
    OBVIOUS
  <2>1. Arena(m) /\ Extended(m, C) /\ i \in Nat /\ Names(m, C, i, x)
    BY <1>0, <1>1, <1>2, <1>3 DEF AsElem
  <2>2. GetSlot(m, i) = x
    BY ONLY <2>1, GetSlotIs
  <2> QED BY <2>2
<1>5. t = ElemSetSlot(u, i + 1, x)
  BY <1>0, <1>4 DEF SlotFrom, ElemThen
<1>6. (i + 1) \div MaxInline <= Len(C)
  BY <1>0, <1>2, <1>3, NamedBlock
<1> PICK h : h = i + 1
  OBVIOUS
<1>7. (Failed(u, t) /\ h \div MaxInline = Len(C)) \/ \E K : t.ok = TRUE /\ SlotPut(u, t, C, K, h, x)
  <2>1. AsElem(u) /\ u.ok = TRUE /\ Extended(u.m, C) /\ h \in Nat /\ h \div MaxInline <= Len(C)
        /\ x \in ElemPlace /\ t = ElemSetSlot(u, h, x)
    BY <1>0, <1>1, <1>2, <1>5, <1>6
  <2> QED BY ONLY <2>1, SetSlotIs
<1>8. CASE Failed(u, t) /\ h \div MaxInline = Len(C)
  <2>1. ASSUME k # 1 PROVE FALSE
    <3> PICK y : y = E[h + 1]
      OBVIOUS
    <3>1. h + 1 \in 1 .. N /\ h + 1 <= N - (k - 1) + 1 /\ (h + 1) - 1 = h /\ h \in Nat
      BY <1>0, <2>1
    <3>2. Names(u.m, C, h, y)
      BY <1>1, <3>1
    <3>3. h \div MaxInline < Len(C)
      BY <1>2, <3>1, <3>2, NamedBlock
    <3> QED BY <1>2, <1>8, <3>3
  <2> QED BY <1>8, <2>1
<1>9. ASSUME NEW K, t.ok = TRUE, SlotPut(u, t, C, K, h, x) PROVE Opened(s, t, B, E, k)
  <2>1. /\ Beside(u, t) /\ Extended(t.m, K) /\ Len(C) <= Len(K) /\ Names(t.m, K, h, x)
        /\ \A j \in Nat : \A y : j # h /\ Names(u.m, C, j, y) => Names(t.m, K, j, y)
    BY <1>9 DEF SlotPut
  <2>2. Beside(s, t)
    BY <1>2, <2>1, BesideTwice
  <2>3. Len(B) <= Len(K)
    <3>1. Len(K) \in Nat
      BY <2>1, ExtendedFacts
    <3> QED BY <1>1, <1>2, <2>1, <3>1
  <2>4. ASSUME NEW q \in 1 .. N, q <= N - k + 1 PROVE Names(t.m, K, q - 1, E[q])
    <3>1. q - 1 \in Nat /\ q - 1 # h /\ q <= N - (k - 1) + 1
      BY <1>0, <2>4
    <3> QED BY <1>1, <2>1, <3>1
  <2>5. ASSUME NEW q \in 1 .. N, q >= N - k + 1 PROVE Names(t.m, K, q, E[q])
    <3>1. CASE q = h
      BY <1>0, <2>1, <3>1
    <3>2. CASE q # h
      <4>1. q \in Nat /\ q >= N - (k - 1) + 1
        BY <1>0, <2>5, <3>2
      <4> QED BY <1>1, <2>1, <3>2, <4>1
    <3> QED BY <3>1, <3>2
  <2> QED BY <2>1, <2>2, <2>3, <2>4, <2>5 DEF Opened
<1> QED BY <1>7, <1>8, <1>9

LEMMA ShiftRightIs ==
  ASSUME NEW s, NEW L, NEW B, NEW E, Held(s, L, B, E), s.ok = TRUE, NEW n \in 0 .. Len(E),
         NEW t, t = ShiftRight(s, n)
  PROVE  Failed(s, t) \/ (t.ok = TRUE /\ Opened(s, t, B, E, Len(E) - n))
<1> PICK N \in Nat : N = Len(E)
  BY HeldFacts
<1> PICK r : r = N - n
  OBVIOUS
<1>00. r \in Nat /\ r <= N
  <2>1. n \in 0 .. N
    OBVIOUS
  <2> QED BY ONLY <2>1, N \in Nat, r = N - n
<1>0. /\ AsElem(s) /\ Len(B) \in Nat /\ E \in Seq(ElemAddr) /\ s.n = N /\ Extended(s.m, B) /\ r <= N
      /\ \A q \in 1 .. N : Names(s.m, B, q - 1, E[q])
  <2>1. AsElem(s) /\ VectIs(s, B, E) /\ Len(B) \in Nat /\ E \in Seq(ElemAddr)
    BY HeldFacts
  <2> QED BY ONLY <1>00, <2>1, N = Len(E) DEF VectIs
<1> DEFINE In(u, k) == \/ Failed(s, u) \/ (k = 0 /\ u = s)
                       \/ (k > 0 /\ u.ok = TRUE /\ Opened(s, u, B, E, k))
           D == [k \in 0 .. r |-> {u \in ElemState : In(u, k)}]
           step == [k \in 1 .. r |-> [u \in D[k - 1] |-> SlotFrom(u, s.n - k + 1, s.n - k)]]
           Is(f) == f = [k \in 0 .. s.n - n |-> IF k = 0 THEN s ELSE SlotFrom(f[k - 1], s.n - k + 1, s.n - k)]
<1>1. s \in D[0]
  BY <1>0 DEF AsElem
<1>11. Opened(s, s, B, E, 0)
  <2>1. Beside(s, s)
    BY <1>0 DEF Beside, Aside
  <2>2. \A q \in 1 .. N : ~ (q >= N - 0 + 1)
    OBVIOUS
  <2> QED BY <1>0, <2>1, <2>2 DEF Opened
<1>2. ASSUME NEW k \in 1 .. r, NEW u \in D[k - 1] PROVE SlotFrom(u, s.n - k + 1, s.n - k) \in D[k]
  <2>1. k - 1 \in 0 .. r /\ k \in 0 .. r /\ k > 0 /\ k \in 1 .. N
    BY <1>0
  <2>2. In(u, k - 1)
    BY <2>1
  <2> PICK v : v = SlotFrom(u, N - k + 1, N - k)
    OBVIOUS
  <2>3. CASE Failed(s, u)
    <3>1. v = u
      BY <2>3 DEF SlotFrom, ElemThen, Failed
    <3>2. In(v, k) /\ v \in ElemState
      BY <2>3, <3>1 DEF Failed, AsElem
    <3> QED BY <1>0, <2>1, <3>2
  <2>4. CASE ~ Failed(s, u)
    <3>1. u.ok = TRUE /\ Opened(s, u, B, E, k - 1) /\ (k = 1 => u = s)
      BY <1>11, <2>1, <2>2, <2>4
    <3>2. (Failed(u, v) /\ k = 1) \/ (v.ok = TRUE /\ Opened(s, v, B, E, k))
      <4>1. N = Len(E) /\ Len(B) \in Nat /\ E \in Seq(ElemAddr)
        BY <1>0
      <4> QED BY <2>1, <3>1, <4>1, OpenedOne
    <3>3. In(v, k) /\ AsElem(v)
      BY <2>1, <3>1, <3>2 DEF Failed, Opened, Beside
    <3> QED BY <1>0, <2>1, <3>3 DEF AsElem
  <2> QED BY <2>3, <2>4
<1> HIDE DEF In
<1>3. \A k \in 1 .. r : \A u \in D[k - 1] : step[k][u] \in D[k]
  BY <1>2
<1> HIDE DEF D
<1>4. PICK f : Loops(f, r, s, step) /\ \A k \in 0 .. r : f[k] \in D[k]
  <2> HIDE DEF step
  <2>1. r \in Nat /\ s \in D[0]
    BY <1>1
  <2> QED BY ONLY <2>1, <1>3, LoopExists
<1>5. Is(f)
  <2>1. \A k \in 1 .. r : k - 1 \in 0 .. r
    OBVIOUS
  <2>2. \A k \in 1 .. r : step[k][f[k - 1]] = SlotFrom(f[k - 1], s.n - k + 1, s.n - k)
    BY <1>4, <2>1
  <2>3. \A k \in 0 .. r : k = 0 \/ k \in 1 .. r
    OBVIOUS
  <2> HIDE DEF step
  <2>4. [k \in 0 .. r |-> IF k = 0 THEN s ELSE step[k][f[k - 1]]]
          = [k \in 0 .. r |-> IF k = 0 THEN s ELSE SlotFrom(f[k - 1], s.n - k + 1, s.n - k)]
    BY <2>2, <2>3
  <2> QED BY <1>0, <1>4, <2>4 DEF Loops
<1> HIDE DEF Is
<1> PICK g : g = CHOOSE h : Is(h)
  OBVIOUS
<1>6. Is(g)
  BY <1>5
<1>7. t = g[s.n - n]
  BY Zenon DEF ShiftRight, Is
<1>8. g[0] = s /\ \A k \in 1 .. r : g[k] = SlotFrom(g[k - 1], s.n - k + 1, s.n - k)
  <2>1. \A k \in 0 .. r : g[k] = IF k = 0 THEN s ELSE SlotFrom(g[k - 1], s.n - k + 1, s.n - k)
    BY <1>0, <1>6 DEF Is
  <2> QED BY <2>1
<1>9. \A k \in 0 .. r : g[k] \in D[k]
  <2>1. g[0] \in D[0] /\ r \in Nat
    BY <1>1, <1>8
  <2>2. \A k \in 1 .. r : g[k - 1] \in D[k - 1] => g[k] \in D[k]
    BY <1>2, <1>8
  <2> QED BY ONLY <2>1, <2>2, LoopStays
<1>10. In(t, r)
  BY <1>0, <1>7, <1>9 DEF D
<1>12. CASE r = 0 /\ t = s
  BY <1>11, <1>12
<1> QED BY <1>10, <1>12 DEF In

\* The sequence with a put in after its first n.
Ins(E, n, a) == [j \in 1 .. Len(E) + 1 |-> IF j <= n THEN E[j] ELSE IF j = n + 1 THEN a ELSE E[j - 1]]

Filled(F, E, n, a) == /\ Len(F) = Len(E) + 1 /\ F[n + 1] = a
                      /\ \A j \in 1 .. n : F[j] = E[j]
                      /\ \A j \in n + 2 .. Len(E) + 1 : F[j] = E[j - 1]
Covers(F, E, a) == /\ \A j \in 1 .. Len(F) : F[j] = a \/ \E i \in 1 .. Len(E) : F[j] = E[i]
                   /\ \A i \in 1 .. Len(E) : \E j \in 1 .. Len(F) : F[j] = E[i]
SameAt(m, p, q) == \A i \in 1 .. Len(q) : p[q[i]] = m[q[i]]

LEMMA InsIs ==
  ASSUME NEW S, NEW E \in Seq(S), NEW n \in 0 .. Len(E), NEW a \in S, NEW F, F = Ins(E, n, a)
  PROVE  F \in Seq(S) /\ Filled(F, E, n, a)
<1> PICK N \in Nat : N = Len(E)
  OBVIOUS
<1>1. \A j \in 1 .. N + 1 : F[j] = IF j <= n THEN E[j] ELSE IF j = n + 1 THEN a ELSE E[j - 1]
  BY DEF Ins
<1>2. ASSUME NEW j \in 1 .. N + 1 PROVE F[j] \in S
  <2>1. j <= n \/ j = n + 1 \/ j - 1 \in 1 .. N
    OBVIOUS
  <2> QED BY <1>1, <2>1
<1>3. F = [j \in 1 .. N + 1 |-> F[j]]
  BY DEF Ins
<1>4. F \in [1 .. N + 1 -> S]
  BY ONLY <1>2, <1>3
<1>5. F \in Seq(S)
  BY <1>4
<1>6. Len(F) = N + 1
  BY <1>3, <1>5
<1> QED BY <1>1, <1>5, <1>6 DEF Filled

LEMMA InsOnce ==
  ASSUME NEW S, NEW E \in Seq(S), NEW n \in 0 .. Len(E), NEW a \in S, NEW F, F = Ins(E, n, a),
         Once(E), \A i \in 1 .. Len(E) : E[i] # a
  PROVE  Once(F) /\ Covers(F, E, a)
<1> PICK N \in Nat : N = Len(E)
  OBVIOUS
<1>1. /\ Len(F) = N + 1 /\ F[n + 1] = a
      /\ (\A j \in 1 .. n : F[j] = E[j]) /\ \A j \in n + 2 .. N + 1 : F[j] = E[j - 1]
  <2>1. E \in Seq(S) /\ n \in 0 .. Len(E) /\ a \in S /\ F = Ins(E, n, a)
    OBVIOUS
  <2>2. Filled(F, E, n, a)
    BY ONLY <2>1, InsIs
  <2> QED BY <2>2 DEF Filled
<1>2. \A j \in 1 .. N + 1 : (j \in 1 .. n /\ j \in 1 .. N) \/ j = n + 1 \/ (j \in n + 2 .. N + 1 /\ j - 1 \in 1 .. N)
  OBVIOUS
<1>3. \A j \in 1 .. Len(F) : F[j] = a \/ \E i \in 1 .. N : F[j] = E[i]
  BY <1>1, <1>2
<1>4. ASSUME NEW i \in 1 .. N PROVE \E j \in 1 .. Len(F) : F[j] = E[i]
  <2>1. CASE i \in 1 .. n
    <3>1. i \in 1 .. Len(F)
      BY <1>1
    <3> QED BY <1>1, <2>1, <3>1
  <2>2. CASE i \notin 1 .. n
    <3>1. i + 1 \in 1 .. Len(F) /\ i + 1 \in n + 2 .. N + 1 /\ (i + 1) - 1 = i
      BY <1>1, <2>2
    <3> QED BY <1>1, <3>1
  <2> QED BY <2>1, <2>2
<1>5. ASSUME NEW j \in 1 .. N + 1, NEW k \in 1 .. N + 1, F[j] = F[k] PROVE j = k
  <2>0. \A x, y \in 1 .. N : E[x] = E[y] => x = y
    BY DEF Once
  <2>1. CASE j = n + 1
    BY <1>1, <1>2, <1>5, <2>1
  <2>2. CASE k = n + 1
    BY <1>1, <1>2, <1>5, <2>2
  <2>3. CASE j # n + 1 /\ k # n + 1
    <3>1. CASE j \in 1 .. n /\ k \in 1 .. n
      BY <1>1, <1>5, <2>0, <3>1
    <3>2. CASE j \in n + 2 .. N + 1 /\ k \in n + 2 .. N + 1
      <4>1. j - 1 = k - 1
        BY <1>1, <1>2, <1>5, <2>0, <3>2
      <4> QED BY <4>1
    <3>3. CASE j \in 1 .. n /\ k \in n + 2 .. N + 1
      <4>1. j = k - 1
        BY <1>1, <1>2, <1>5, <2>0, <3>3
      <4> QED BY <3>3, <4>1
    <3>4. CASE k \in 1 .. n /\ j \in n + 2 .. N + 1
      <4>1. k = j - 1
        BY <1>1, <1>2, <1>5, <2>0, <3>4
      <4> QED BY <3>4, <4>1
    <3> QED BY <1>2, <2>3, <3>1, <3>2, <3>3, <3>4
  <2> QED BY <2>1, <2>2, <2>3
<1>6. Once(F)
  BY <1>1, <1>5 DEF Once
<1> QED BY <1>3, <1>4, <1>6 DEF Covers

LEMMA SetItemsIs ==
  ASSUME NEW u, AsElem(u), NEW n \in Int, NEW t, t = SetItems(u, n)
  PROVE  AsElem(t) /\ t.m = u.m /\ t.l = u.l /\ t.n = n /\ t.c = u.c /\ t.w = u.w /\ t.ok = u.ok
<1>1. /\ t \in ElemState /\ t.m = u.m /\ t.l = u.l /\ t.n = n /\ t.c = u.c /\ t.w = u.w /\ t.ok = u.ok
  BY DEF SetItems, AsElem, ElemState
<1>2. AsElem(t)
  BY <1>1 DEF AsElem
<1> QED BY <1>1, <1>2

\* Where the list is the same, the two hold what the slots name.
LEMMA HoldsAgain ==
  ASSUME NEW s, NEW L, ListIs(s, L), NEW t, AsElem(t), t.l = s.l, SameAt(s.m, t.m, L),
         NEW C, Extended(t.m, C), NEW F, Elems(t.m, F), Disjoint(L, F), Stands(t.c, F), t.n = Len(F),
         \A q \in 1 .. Len(F) : Names(t.m, C, q - 1, F[q])
  PROVE  Held(t, L, C, F) /\ ValsOf(t.m, L) = ValsOf(s.m, L)
<1>1. ListIs(t, L) /\ ValsOf(t.m, L) = ValsOf(s.m, L)
  BY ListStays DEF SameAt
<1>2. VectIs(t, C, F)
  BY DEF VectIs
<1> QED BY <1>1, <1>2 DEF Held

\* The vector holds the values Q, and the list is the same.
Vected(s, t, L, C, F, Q) ==
  Held(t, L, C, F) /\ t.w = s.w /\ ValsOf(t.m, L) = ValsOf(s.m, L) /\ ValsOf(t.m, F) = Q

LEMMA BesideElems ==
  ASSUME NEW s, NEW u, Beside(s, u), NEW q \in Seq(ElemAddr), \A i \in 1 .. Len(q) : s.m[q[i]].is = "elem"
  PROVE  SameAt(s.m, u.m, q) /\ ValsOf(u.m, q) = ValsOf(s.m, q)
<1>1. ASSUME NEW i \in 1 .. Len(q) PROVE u.m[q[i]] = s.m[q[i]]
  <2> PICK x : x = q[i]
    OBVIOUS
  <2>1. x \in ElemPlace /\ s.m[x].is = "elem"
    BY PlaceFacts
  <2> QED BY <2>1 DEF Beside
<1> QED BY <1>1 DEF ValsOf, SameAt

-----------------------------------------------------------------------------
(* An element inserted. *)

\* The call threw, and neither sequence has changed; the vector may have got a block.
Refused(s, t, L, E) == t.ok = FALSE /\ t.c = s.c /\ \E C : Vected(s, t, L, C, E, ValsOf(s.m, E))

LEMMA ValsIns ==
  ASSUME NEW m, NEW p, NEW E \in Seq(ElemAddr), NEW n \in 0 .. Len(E), NEW a \in ElemAddr,
         SameAt(m, p, E), NEW v, v = p[a].val
  PROVE  ValsOf(p, Ins(E, n, a)) = Ins(ValsOf(m, E), n, v)
<1> PICK N \in Nat : N = Len(E)
  OBVIOUS
<1> PICK F, Q : F = Ins(E, n, a) /\ Q = ValsOf(m, E)
  OBVIOUS
<1>1. /\ F \in Seq(ElemAddr) /\ Len(F) = N + 1 /\ F[n + 1] = a
      /\ (\A j \in 1 .. n : F[j] = E[j]) /\ \A j \in n + 2 .. N + 1 : F[j] = E[j - 1]
  <2>1. E \in Seq(ElemAddr) /\ n \in 0 .. Len(E) /\ a \in ElemAddr /\ F = Ins(E, n, a)
    OBVIOUS
  <2>2. F \in Seq(ElemAddr) /\ Filled(F, E, n, a)
    BY ONLY <2>1, InsIs
  <2> QED BY <2>2 DEF Filled
<1>2. Q = [i \in 1 .. N |-> m[E[i]].val]
  BY DEF ValsOf
<1>3. Len(Q) = N /\ \A i \in 1 .. N : Q[i] = p[E[i]].val
  <2>1. \A i \in 1 .. N : Q[i] = p[E[i]].val
    BY <1>2 DEF SameAt
  <2>2. Len(Q) = N
    BY ONLY <1>2, N \in Nat
  <2> QED BY <2>1, <2>2
<1>4. \A j \in 1 .. N + 1 : p[F[j]].val = IF j <= n THEN Q[j] ELSE IF j = n + 1 THEN v ELSE Q[j - 1]
  <2> SUFFICES ASSUME NEW j \in 1 .. N + 1
               PROVE p[F[j]].val = IF j <= n THEN Q[j] ELSE IF j = n + 1 THEN v ELSE Q[j - 1]
    OBVIOUS
  <2>1. CASE j <= n
    BY <1>1, <1>3, <2>1
  <2>2. CASE j = n + 1
    <3>1. ~(j <= n)
      BY <2>2
    <3> QED BY <1>1, <2>2, <3>1
  <2>3. CASE j > n + 1
    <3>1. ~(j <= n) /\ j # n + 1 /\ j \in n + 2 .. N + 1 /\ j - 1 \in 1 .. N
      BY <2>3
    <3> QED BY <1>1, <1>3, <3>1
  <2> QED BY <2>1, <2>2, <2>3
<1>5. ValsOf(p, F) = [j \in 1 .. N + 1 |-> p[F[j]].val]
  BY <1>1 DEF ValsOf
<1>6. Ins(Q, n, v) = [j \in 1 .. N + 1 |-> IF j <= n THEN Q[j] ELSE IF j = n + 1 THEN v ELSE Q[j - 1]]
  BY <1>3 DEF Ins
<1>7. ValsOf(p, F) = Ins(Q, n, v)
  BY ONLY <1>4, <1>5, <1>6
<1> QED BY <1>7

LEMMA InsertedIs ==
  ASSUME NEW s, NEW L, NEW B, NEW E, Held(s, L, B, E), s.ok = TRUE, NEW n \in 0 .. Len(E),
         NEW v \in ElemValue \cup {None}, NEW t, t = Inserted(s, n, v)
  PROVE  Refused(s, t, L, E) \/ \E a \in ElemAddr : \E C :
           t.ok = TRUE /\ t.c = s.c /\ Vected(s, t, L, C, Ins(E, n, a), Ins(ValsOf(s.m, E), n, v))
<1> PICK N \in Nat : N = Len(E)
  BY HeldFacts
<1> PICK x : x = ElemAlloc(s, "elem", v)
  OBVIOUS
<1> PICK a : a = ElemNew(s)
  OBVIOUS
<1> PICK d : d = Fresh("elem", v)
  OBVIOUS
<1> PICK u : u = ElemThen(x, LAMBDA y : ShiftRight(y, n))
  OBVIOUS
<1> PICK w : w = ElemThen(u, LAMBDA y : ElemSetSlot(y, n, a))
  OBVIOUS
<1>0. /\ AsElem(s) /\ E \in Seq(ElemAddr) /\ L \in Seq(ElemAddr) /\ Len(B) \in Nat /\ n \in 0 .. N /\ s.n = N
      /\ \A i \in 1 .. Len(L) : s.m[L[i]].is = "elem"
  BY HeldFacts DEF VectIs
<1>1. t = ElemThen(w, LAMBDA y : SetItems(y, s.n + 1))
  BY DEF Inserted
<1>2. Failed(s, x) \/ (Taken(s, a, d, x) /\ x.ok = s.ok)
  BY <1>0, Allocated
<1>3. d.is = "elem" /\ d.val = v
  BY FreshIs
<1>4. CASE Failed(s, x)
  <2>1. t = x
    BY <1>1, <1>4 DEF ElemThen, Failed
  <2>2. Held(t, L, B, E) /\ ValsOf(t.m, L) = ValsOf(s.m, L) /\ ValsOf(t.m, E) = ValsOf(s.m, E)
    BY <1>4, <2>1, FailedHolds
  <2>3. t.ok = FALSE /\ t.c = s.c /\ t.w = s.w
    BY <1>4, <2>1 DEF Failed
  <2> QED BY ONLY <2>2, <2>3 DEF Refused, Vected
<1>5. CASE Taken(s, a, d, x) /\ x.ok = s.ok
  <2>1. /\ Held(x, L, B, E) /\ ValsOf(x.m, L) = ValsOf(s.m, L) /\ ValsOf(x.m, E) = ValsOf(s.m, E)
        /\ a \in ElemAddr /\ x.m[a] = d
        /\ (\A i \in 1 .. Len(L) : L[i] # a) /\ (\A i \in 1 .. Len(E) : E[i] # a)
    BY <1>5, TakenHolds
  <2>2. x.ok = TRUE /\ x.c = s.c /\ x.w = s.w
    BY <1>5 DEF Taken, Wrote, Aside
  <2>3. u = ShiftRight(x, n)
    BY <2>2 DEF ElemThen
  <2>4. Failed(x, u) \/ (u.ok = TRUE /\ Opened(x, u, B, E, N - n))
    BY <2>1, <2>2, <2>3, ShiftRightIs
  <2>5. CASE Failed(x, u)
    <3>1. t = u
      BY <1>1, <2>5 DEF ElemThen, Failed
    <3>2. Held(t, L, B, E) /\ ValsOf(t.m, L) = ValsOf(x.m, L) /\ ValsOf(t.m, E) = ValsOf(x.m, E)
      BY <2>1, <2>5, <3>1, FailedHolds
    <3>3. t.ok = FALSE /\ t.c = s.c /\ t.w = s.w
      BY <2>2, <2>5, <3>1 DEF Failed
    <3> QED BY ONLY <2>1, <3>2, <3>3 DEF Refused, Vected
  <2>6. CASE u.ok = TRUE /\ Opened(x, u, B, E, N - n)
    <3>1. PICK C : /\ Extended(u.m, C)
                   /\ \A q \in 1 .. N : q <= N - (N - n) + 1 => Names(u.m, C, q - 1, E[q])
                   /\ \A q \in 1 .. N : q >= N - (N - n) + 1 => Names(u.m, C, q, E[q])
      BY <2>6 DEF Opened
    <3>2. Beside(x, u) /\ AsElem(u) /\ Len(C) \in Nat /\ Len(C) >= 1
      BY <2>6, <3>1, ExtendedFacts DEF Opened, Beside
    <3>3. w = ElemSetSlot(u, n, a)
      BY <2>6 DEF ElemThen
    <3>4. n \div MaxInline <= Len(C)
      <4>1. CASE n = 0
        BY <3>2, <4>1, SlotFacts
      <4>2. CASE n # 0
        <5> PICK y, i : y = E[n] /\ i = n - 1
          OBVIOUS
        <5>1. n \in 1 .. N /\ n <= N - (N - n) + 1 /\ i \in Nat /\ i + 1 = n
          BY <1>0, <4>2
        <5>2. Names(u.m, C, i, y)
          BY <3>1, <5>1
        <5>3. (i + 1) \div MaxInline <= Len(C)
          BY <3>2, <5>1, <5>2, NamedBlock
        <5> QED BY <5>1, <5>3
      <4> QED BY <4>1, <4>2
    <3>5. (Failed(u, w) /\ n \div MaxInline = Len(C)) \/ \E K : w.ok = TRUE /\ SlotPut(u, w, C, K, n, a)
      <4>1. AsElem(u) /\ u.ok = TRUE /\ Extended(u.m, C) /\ n \in Nat /\ a \in ElemPlace
        BY <1>0, <2>1, <2>6, <3>1, <3>2, PlaceFacts
      <4> QED BY ONLY <3>3, <3>4, <4>1, SetSlotIs
    <3>6. CASE Failed(u, w) /\ n \div MaxInline = Len(C)
      <4>1. n = N
        <5>1. ASSUME n # N PROVE FALSE
          <6> PICK y : y = E[n + 1]
            OBVIOUS
          <6>1. n + 1 \in 1 .. N /\ n + 1 <= N - (N - n) + 1 /\ (n + 1) - 1 = n /\ n \in Nat
            BY <1>0, <5>1
          <6>2. Names(u.m, C, n, y)
            BY <3>1, <6>1
          <6>3. n \div MaxInline < Len(C)
            BY <3>2, <6>1, <6>2, NamedBlock
          <6> QED BY <3>2, <3>6, <6>3
        <5> QED BY <5>1
      <4>2. t = w /\ w.ok = FALSE /\ w.m = u.m /\ w.l = u.l /\ w.n = u.n /\ w.c = u.c /\ w.w = u.w /\ AsElem(w)
        BY <1>1, <3>6 DEF ElemThen, Failed
      <4>3. \A q \in 1 .. N : Names(t.m, C, q - 1, E[q])
        <5>1. \A q \in 1 .. N : q <= N - (N - n) + 1
          BY <1>0, <4>1
        <5> QED BY <3>1, <4>2, <5>1
      <4>4. t.l = x.l /\ t.n = x.n /\ t.c = x.c /\ t.w = x.w
        BY <3>2, <4>2 DEF Beside, Aside
      <4>5. /\ ListIs(x, L) /\ VectIs(x, B, E) /\ Disjoint(L, E) /\ Stands(x.c, E) /\ Elems(x.m, E) /\ x.n = N
            /\ (\A i \in 1 .. Len(L) : x.m[L[i]].is = "elem") /\ \A i \in 1 .. Len(E) : x.m[E[i]].is = "elem"
        <5>1. /\ ListIs(x, L) /\ VectIs(x, B, E) /\ Disjoint(L, E) /\ Stands(x.c, E)
              /\ (\A i \in 1 .. Len(L) : x.m[L[i]].is = "elem") /\ \A i \in 1 .. Len(E) : x.m[E[i]].is = "elem"
          BY <2>1, HeldFacts
        <5> QED BY <5>1 DEF VectIs
      <4>6. SameAt(x.m, t.m, L) /\ SameAt(x.m, t.m, E)
            /\ ValsOf(t.m, E) = ValsOf(x.m, E)
        <5>1. Beside(x, u) /\ t.m = u.m /\ L \in Seq(ElemAddr) /\ E \in Seq(ElemAddr)
          BY <1>0, <3>2, <4>2
        <5>2. SameAt(x.m, u.m, L)
          BY ONLY <4>5, <5>1, BesideElems
        <5>3. SameAt(x.m, u.m, E) /\ ValsOf(u.m, E) = ValsOf(x.m, E)
          BY ONLY <4>5, <5>1, BesideElems
        <5> QED BY ONLY <5>1, <5>2, <5>3
      <4>7. Elems(t.m, E)
        BY <4>5, <4>6 DEF Elems, SameAt
      <4>8. Held(t, L, C, E) /\ ValsOf(t.m, L) = ValsOf(x.m, L)
        <5>1. Extended(t.m, C) /\ t.n = Len(E) /\ Stands(t.c, E) /\ AsElem(t)
              /\ \A q \in 1 .. Len(E) : Names(t.m, C, q - 1, E[q])
          BY <3>1, <4>2, <4>3, <4>4, <4>5
        <5> QED BY ONLY <4>4, <4>5, <4>6, <4>7, <5>1, HoldsAgain
      <4>9. t.c = s.c /\ t.w = s.w /\ t.ok = FALSE /\ ValsOf(t.m, L) = ValsOf(s.m, L) /\ ValsOf(t.m, E) = ValsOf(s.m, E)
        BY <2>1, <2>2, <4>2, <4>4, <4>6, <4>8
      <4> QED BY ONLY <4>8, <4>9 DEF Refused, Vected
    <3>7. ASSUME NEW K, w.ok = TRUE, SlotPut(u, w, C, K, n, a)
          PROVE  t.ok = TRUE /\ t.c = s.c /\ Vected(s, t, L, K, Ins(E, n, a), Ins(ValsOf(s.m, E), n, v))
      <4> PICK F : F = Ins(E, n, a)
        OBVIOUS
      <4>1. /\ Beside(u, w) /\ Extended(w.m, K) /\ Names(w.m, K, n, a)
            /\ \A j \in Nat : \A y : j # n /\ Names(u.m, C, j, y) => Names(w.m, K, j, y)
        BY <3>7 DEF SlotPut
      <4>2. Beside(x, w) /\ AsElem(w)
        <5>1. Beside(x, w)
          BY ONLY <3>2, <4>1, BesideTwice
        <5> QED BY <5>1 DEF Beside
      <4>3. t = SetItems(w, N + 1)
        BY <1>0, <1>1, <3>7 DEF ElemThen
      <4>4. AsElem(t) /\ t.m = w.m /\ t.l = w.l /\ t.n = N + 1 /\ t.c = w.c /\ t.w = w.w /\ t.ok = w.ok
        BY <4>2, <4>3, SetItemsIs
      <4>5. /\ F \in Seq(ElemAddr) /\ Len(F) = N + 1 /\ F[n + 1] = a
            /\ (\A j \in 1 .. n : F[j] = E[j]) /\ \A j \in n + 2 .. N + 1 : F[j] = E[j - 1]
        <5>1. E \in Seq(ElemAddr) /\ n \in 0 .. Len(E) /\ a \in ElemAddr /\ F = Ins(E, n, a)
          BY <1>0, <2>1
        <5>2. F \in Seq(ElemAddr) /\ Filled(F, E, n, a)
          BY ONLY <5>1, InsIs
        <5> QED BY <5>2 DEF Filled
      <4>6. /\ ListIs(x, L) /\ Disjoint(L, E) /\ Stands(x.c, E) /\ Once(E)
            /\ (\A i \in 1 .. Len(L) : x.m[L[i]].is = "elem") /\ \A i \in 1 .. Len(E) : x.m[E[i]].is = "elem"
        BY <2>1, HeldFacts DEF VectIs, Elems
      <4>7. /\ Once(F)
            /\ \A j \in 1 .. Len(F) : F[j] = a \/ \E i \in 1 .. Len(E) : F[j] = E[i]
            /\ \A i \in 1 .. Len(E) : \E j \in 1 .. Len(F) : F[j] = E[i]
        <5>1. E \in Seq(ElemAddr) /\ n \in 0 .. Len(E) /\ a \in ElemAddr /\ F = Ins(E, n, a)
              /\ Once(E) /\ \A i \in 1 .. Len(E) : E[i] # a
          BY <1>0, <2>1, <4>6
        <5>2. Once(F) /\ Covers(F, E, a)
          BY ONLY <5>1, InsOnce
        <5> QED BY <5>2 DEF Covers
      <4>8. SameAt(x.m, t.m, L) /\ SameAt(x.m, t.m, E)
        <5>1. SameAt(x.m, w.m, L) /\ SameAt(x.m, w.m, E)
          BY <1>0, <4>2, <4>6, BesideElems
        <5> QED BY <4>4, <5>1
      <4>9. t.m[a] = d
        <5>1. a \in ElemPlace /\ x.m[a].is = "elem"
          BY <1>3, <2>1, PlaceFacts
        <5> QED BY <2>1, <4>2, <4>4, <5>1 DEF Beside
      <4>10. Elems(t.m, F)
        <5>1. ASSUME NEW j \in 1 .. Len(F) PROVE t.m[F[j]].is = "elem"
          <6>1. F[j] = a \/ \E i \in 1 .. Len(E) : F[j] = E[i]
            BY <4>7
          <6>2. \A i \in 1 .. Len(E) : t.m[E[i]].is = "elem"
            BY <4>6, <4>8 DEF SameAt
          <6> QED BY ONLY <1>3, <4>9, <6>1, <6>2
        <5> QED BY <4>5, <4>7, <5>1 DEF Elems
      <4>11. Disjoint(L, F)
        <5>1. \A i \in 1 .. Len(L), j \in 1 .. Len(E) : L[i] # E[j]
          BY <4>6 DEF Disjoint
        <5>2. \A i \in 1 .. Len(L), j \in 1 .. Len(F) : L[i] # F[j]
          BY <2>1, <4>7, <5>1
        <5> QED BY <5>2 DEF Disjoint
      <4>12. t.l = x.l /\ t.c = x.c /\ t.w = x.w /\ t.ok = TRUE
        BY <3>7, <4>2, <4>4 DEF Beside, Aside
      <4>13. Stands(t.c, F)
        BY <4>6, <4>7, <4>12 DEF Stands
      <4>14. ASSUME NEW q \in 1 .. N + 1 PROVE Names(t.m, K, q - 1, F[q])
        <5>1. CASE q \in 1 .. n
          <6>1. q \in 1 .. N /\ q - 1 \in Nat /\ q - 1 # n /\ q <= N - (N - n) + 1
            BY <1>0, <5>1
          <6>2. Names(w.m, K, q - 1, E[q])
            BY <3>1, <4>1, <6>1
          <6> QED BY <4>4, <4>5, <5>1, <6>2
        <5>2. CASE q = n + 1
          <6>1. q - 1 = n
            BY <1>0, <5>2
          <6> QED BY <4>1, <4>4, <4>5, <5>2, <6>1
        <5>3. CASE q \in n + 2 .. N + 1
          <6> PICK p : p = q - 1
            OBVIOUS
          <6>1. p \in 1 .. N /\ p \in Nat /\ p # n /\ p >= N - (N - n) + 1
            BY <1>0, <5>3
          <6>2. Names(w.m, K, p, E[p])
            BY <3>1, <4>1, <6>1
          <6> QED BY <4>4, <4>5, <5>3, <6>2
        <5> QED BY <1>0, <5>1, <5>2, <5>3
      <4>15. Held(t, L, K, F) /\ ValsOf(t.m, L) = ValsOf(x.m, L)
        <5>1. Extended(t.m, K) /\ t.n = Len(F) /\ t.l = x.l /\ AsElem(t)
              /\ \A q \in 1 .. Len(F) : Names(t.m, K, q - 1, F[q])
          BY <4>1, <4>4, <4>5, <4>12, <4>14
        <5>2. SameAt(x.m, t.m, L)
          BY <4>8
        <5>3. ListIs(x, L)
          BY <4>6
        <5> QED BY ONLY <4>10, <4>11, <4>13, <5>1, <5>2, <5>3, HoldsAgain
      <4>16. ValsOf(t.m, F) = Ins(ValsOf(s.m, E), n, v)
        <5> PICK m, p : m = x.m /\ p = t.m
          OBVIOUS
        <5>1. /\ E \in Seq(ElemAddr) /\ n \in 0 .. Len(E) /\ a \in ElemAddr /\ v = p[a].val
              /\ SameAt(m, p, E)
          BY <1>0, <1>3, <2>1, <4>8, <4>9
        <5>2. ValsOf(p, Ins(E, n, a)) = Ins(ValsOf(m, E), n, v)
          BY ONLY <5>1, ValsIns
        <5> QED BY <2>1, <5>2
      <4>17. t.c = s.c /\ t.w = s.w /\ ValsOf(t.m, L) = ValsOf(s.m, L)
        BY <2>1, <2>2, <4>12, <4>15
      <4> QED BY ONLY <4>12, <4>15, <4>16, <4>17, F = Ins(E, n, a) DEF Vected
    <3> QED BY <2>1, <3>5, <3>6, <3>7
  <2> QED BY <2>4, <2>5, <2>6
<1> QED BY <1>2, <1>4, <1>5

-----------------------------------------------------------------------------
(* An element deleted, and the vector truncated. *)

\* The first k elements behind element n + 1 are one slot nearer, the last of them in two.
Closed(s, u, E, n, k) ==
  /\ Beside(s, u)
  /\ \E C : /\ Extended(u.m, C)
            /\ \A q \in 1 .. Len(E) : q <= n => Names(u.m, C, q - 1, E[q])
            /\ \A q \in 1 .. Len(E) : q >= n + k + 1 => Names(u.m, C, q - 1, E[q])
            /\ \A q \in 1 .. Len(E) : n + 2 <= q /\ q <= n + k + 1 => Names(u.m, C, q - 2, E[q])

LEMMA ClosedOne ==
  ASSUME NEW s, NEW E \in Seq(ElemAddr), NEW n \in Nat, NEW k \in Nat, 1 <= k, n + k + 1 <= Len(E),
         NEW u, u.ok = TRUE, Closed(s, u, E, n, k - 1),
         NEW t, t = SlotFrom(u, n + k - 1, n + k)
  PROVE  t.ok = TRUE /\ Closed(s, t, E, n, k)
<1> PICK N \in Nat : N = Len(E)
  OBVIOUS
<1> PICK i, h : i = n + k /\ h = n + k - 1
  OBVIOUS
<1> PICK x : x = E[i + 1]
  OBVIOUS
<1>0. /\ i \in Nat /\ i + 1 \in 1 .. N /\ h \in Nat /\ h + 1 \in 1 .. N /\ h + 1 = i /\ x \in ElemPlace
      /\ n + k + 1 = i + 1 /\ n + (k - 1) + 1 = h + 1
  BY PlaceFacts
<1>1. PICK C : /\ Extended(u.m, C)
               /\ \A q \in 1 .. N : q <= n => Names(u.m, C, q - 1, E[q])
               /\ \A q \in 1 .. N : q >= n + (k - 1) + 1 => Names(u.m, C, q - 1, E[q])
               /\ \A q \in 1 .. N : n + 2 <= q /\ q <= n + (k - 1) + 1 => Names(u.m, C, q - 2, E[q])
  BY DEF Closed
<1>2. Beside(s, u) /\ AsElem(u) /\ Len(C) \in Nat
  BY <1>1, ExtendedFacts DEF Closed, Beside
<1>3. Names(u.m, C, i, x)
  <2>1. i + 1 >= n + (k - 1) + 1 /\ (i + 1) - 1 = i
    BY <1>0
  <2> QED BY <1>0, <1>1, <2>1
<1>4. GetSlot(u.m, i) = x
  <2> PICK m : m = u.m
    OBVIOUS
  <2>1. Arena(m) /\ Extended(m, C) /\ i \in Nat /\ Names(m, C, i, x)
    BY <1>0, <1>1, <1>2, <1>3 DEF AsElem
  <2>2. GetSlot(m, i) = x
    BY ONLY <2>1, GetSlotIs
  <2> QED BY <2>2
<1>5. t = ElemSetSlot(u, h, x)
  BY <1>0, <1>4 DEF SlotFrom, ElemThen
<1>6. h \div MaxInline < Len(C)
  <2> PICK y : y = E[h + 1]
    OBVIOUS
  <2>1. h + 1 >= n + (k - 1) + 1 /\ (h + 1) - 1 = h
    BY <1>0
  <2>2. Names(u.m, C, h, y)
    BY <1>0, <1>1, <2>1
  <2> QED BY <1>0, <1>2, <2>2, NamedBlock
<1>7. \E K : t.ok = TRUE /\ SlotPut(u, t, C, K, h, x)
  <2>1. h \div MaxInline \in Nat
    BY <1>0, SlotFacts
  <2>2. AsElem(u) /\ u.ok = TRUE /\ Extended(u.m, C) /\ h \in Nat /\ h \div MaxInline <= Len(C)
        /\ x \in ElemPlace /\ t = ElemSetSlot(u, h, x)
    BY <1>0, <1>1, <1>2, <1>5, <1>6, <2>1
  <2>3. (Failed(u, t) /\ h \div MaxInline = Len(C)) \/ \E K : t.ok = TRUE /\ SlotPut(u, t, C, K, h, x)
    BY ONLY <2>2, SetSlotIs
  <2>4. h \div MaxInline # Len(C)
    BY <1>2, <1>6, <2>1
  <2> QED BY ONLY <2>3, <2>4
<1>9. ASSUME NEW K, t.ok = TRUE, SlotPut(u, t, C, K, h, x) PROVE Closed(s, t, E, n, k)
  <2>1. /\ Beside(u, t) /\ Extended(t.m, K) /\ Names(t.m, K, h, x)
        /\ \A j \in Nat : \A y : j # h /\ Names(u.m, C, j, y) => Names(t.m, K, j, y)
    BY <1>9 DEF SlotPut
  <2>2. Beside(s, t)
    BY <1>2, <2>1, BesideTwice
  <2>3. ASSUME NEW q \in 1 .. N, q <= n PROVE Names(t.m, K, q - 1, E[q])
    <3>1. q - 1 \in Nat /\ q - 1 # h
      BY <1>0, <2>3
    <3> QED BY <1>1, <2>1, <2>3, <3>1
  <2>4. ASSUME NEW q \in 1 .. N, q >= n + k + 1 PROVE Names(t.m, K, q - 1, E[q])
    <3>1. q - 1 \in Nat /\ q - 1 # h /\ q >= n + (k - 1) + 1
      BY <1>0, <2>4
    <3> QED BY <1>1, <2>1, <3>1
  <2>5. ASSUME NEW q \in 1 .. N, n + 2 <= q, q <= n + k + 1 PROVE Names(t.m, K, q - 2, E[q])
    <3>1. CASE q = i + 1
      <4>1. q - 2 = h
        BY <1>0, <3>1
      <4> QED BY <1>0, <2>1, <3>1, <4>1
    <3>2. CASE q # i + 1
      <4>1. q - 2 \in Nat /\ q - 2 # h /\ q <= n + (k - 1) + 1
        BY <1>0, <2>5, <3>2
      <4> QED BY <1>1, <2>1, <2>5, <3>2, <4>1
    <3> QED BY <3>1, <3>2
  <2> QED BY <2>1, <2>2, <2>3, <2>4, <2>5 DEF Closed
<1> QED BY <1>7, <1>9

LEMMA ShiftLeftIs ==
  ASSUME NEW s, AsElem(s), s.ok = TRUE, NEW B, Extended(s.m, B), NEW E \in Seq(ElemAddr), s.n = Len(E),
         \A q \in 1 .. Len(E) : Names(s.m, B, q - 1, E[q]),
         NEW n \in Nat, n < Len(E), NEW t, t = ShiftLeft(s, n)
  PROVE  t.ok = TRUE /\ Closed(s, t, E, n, Len(E) - 1 - n)
<1> PICK N \in Nat : N = Len(E)
  OBVIOUS
<1> PICK r : r = N - 1 - n
  OBVIOUS
<1>0. r \in Nat /\ s.n = N /\ n + r + 1 = N
  OBVIOUS
<1> DEFINE In(u, k) == u.ok = TRUE /\ Closed(s, u, E, n, k)
           D == [k \in 0 .. r |-> {u \in ElemState : In(u, k)}]
           step == [k \in 1 .. r |-> [u \in D[k - 1] |-> SlotFrom(u, n + k - 1, n + k)]]
           Is(f) == f = [k \in 0 .. s.n - 1 - n |-> IF k = 0 THEN s ELSE SlotFrom(f[k - 1], n + k - 1, n + k)]
<1>1. s \in D[0]
  <2>1. Beside(s, s)
    BY DEF Beside, Aside
  <2>2. \A q \in 1 .. N : ~ (n + 2 <= q /\ q <= n + 0 + 1)
    OBVIOUS
  <2>3. Closed(s, s, E, n, 0)
    BY <2>1, <2>2 DEF Closed
  <2> QED BY <1>0, <2>3 DEF AsElem
<1>2. ASSUME NEW k \in 1 .. r, NEW u \in D[k - 1] PROVE SlotFrom(u, n + k - 1, n + k) \in D[k]
  <2>1. k - 1 \in 0 .. r /\ k \in 0 .. r /\ k \in Nat /\ 1 <= k /\ n + k + 1 <= N
    BY <1>0
  <2>2. In(u, k - 1)
    BY <2>1
  <2> PICK v : v = SlotFrom(u, n + k - 1, n + k)
    OBVIOUS
  <2>3. v.ok = TRUE /\ Closed(s, v, E, n, k)
    <3>1. E \in Seq(ElemAddr) /\ n \in Nat /\ N = Len(E)
      OBVIOUS
    <3> QED BY ONLY <2>1, <2>2, <3>1, v = SlotFrom(u, n + k - 1, n + k), ClosedOne
  <2>4. v \in ElemState
    BY <2>3 DEF Closed, Beside, AsElem
  <2> QED BY <2>1, <2>3, <2>4
<1> HIDE DEF In
<1>3. \A k \in 1 .. r : \A u \in D[k - 1] : step[k][u] \in D[k]
  BY <1>2
<1> HIDE DEF D
<1>4. PICK f : Loops(f, r, s, step) /\ \A k \in 0 .. r : f[k] \in D[k]
  <2> HIDE DEF step
  <2>1. r \in Nat /\ s \in D[0]
    BY <1>0, <1>1
  <2> QED BY ONLY <2>1, <1>3, LoopExists
<1>5. Is(f)
  <2>1. \A k \in 1 .. r : k - 1 \in 0 .. r
    BY <1>0
  <2>2. \A k \in 1 .. r : step[k][f[k - 1]] = SlotFrom(f[k - 1], n + k - 1, n + k)
    BY <1>4, <2>1
  <2>3. \A k \in 0 .. r : k = 0 \/ k \in 1 .. r
    BY <1>0
  <2> HIDE DEF step
  <2>4. [k \in 0 .. r |-> IF k = 0 THEN s ELSE step[k][f[k - 1]]]
          = [k \in 0 .. r |-> IF k = 0 THEN s ELSE SlotFrom(f[k - 1], n + k - 1, n + k)]
    BY <2>2, <2>3
  <2> QED BY <1>0, <1>4, <2>4 DEF Loops
<1> HIDE DEF Is
<1> PICK g : g = CHOOSE h : Is(h)
  OBVIOUS
<1>6. Is(g)
  BY <1>5
<1>7. t = g[s.n - 1 - n]
  BY Zenon DEF ShiftLeft, Is
<1>8. g[0] = s /\ \A k \in 1 .. r : g[k] = SlotFrom(g[k - 1], n + k - 1, n + k)
  <2>1. \A k \in 0 .. r : g[k] = IF k = 0 THEN s ELSE SlotFrom(g[k - 1], n + k - 1, n + k)
    BY <1>0, <1>6 DEF Is
  <2> QED BY <1>0, <2>1
<1>9. \A k \in 0 .. r : g[k] \in D[k]
  <2>1. g[0] \in D[0] /\ r \in Nat
    BY <1>0, <1>1, <1>8
  <2>2. \A k \in 1 .. r : g[k - 1] \in D[k - 1] => g[k] \in D[k]
    BY <1>2, <1>8
  <2> QED BY ONLY <2>1, <2>2, LoopStays
<1>10. In(t, r)
  BY <1>0, <1>7, <1>9 DEF D
<1> QED BY <1>10 DEF In

LEMMA FreedIs ==
  ASSUME NEW s, AsElem(s), NEW a \in ElemAddr, NEW t, t = FreeElem(s, a)
  PROVE  Wrote(s, a, ElemFree, t) /\ AsElem(t)
<1> PICK d : d = ElemFree
  OBVIOUS
<1>1. a \in ElemPlace /\ a # Nil /\ d \in ElemBlock /\ (d.is = "vect" <=> a = Nil)
  BY PlaceFacts, FreeBlock DEF ElemFree
<1>2. t = [s EXCEPT !.m = [s.m EXCEPT ![a] = d]]
  BY <1>1 DEF FreeElem
<1>3. AsElem(s)
  OBVIOUS
<1> QED BY ONLY <1>1, <1>2, <1>3, BlockWritten, d = ElemFree

LEMMA LeftIs ==
  ASSUME NEW u, AsElem(u), NEW t, t = [u EXCEPT !.c = Nil]
  PROVE  AsElem(t) /\ t.m = u.m /\ t.l = u.l /\ t.n = u.n /\ t.c = Nil /\ t.w = u.w /\ t.ok = u.ok
<1>1. /\ t \in ElemState /\ t.m = u.m /\ t.l = u.l /\ t.n = u.n /\ t.c = Nil /\ t.w = u.w /\ t.ok = u.ok
  BY PlaceFacts DEF AsElem, ElemState
<1>2. AsElem(t)
  BY <1>1 DEF AsElem
<1> QED BY <1>1, <1>2

CutAre(F, E, j) == /\ Len(F) = Len(E) - 1 /\ \A i \in 1 .. Len(E) - 1 : F[i] = IF i < j THEN E[i] ELSE E[i + 1]

LEMMA CutFacts ==
  ASSUME NEW S, NEW E \in Seq(S), NEW j \in 1 .. Len(E), NEW F, F = Cut(E, j)
  PROVE  F \in Seq(S) /\ CutAre(F, E, j)
<1>1. /\ Cut(E, j) \in Seq(S) /\ Len(Cut(E, j)) = Len(E) - 1
      /\ \A i \in 1 .. Len(E) - 1 : Cut(E, j)[i] = IF i < j THEN E[i] ELSE E[i + 1]
  BY CutIs
<1> QED BY <1>1 DEF CutAre

LEMMA ValsCut ==
  ASSUME NEW m, NEW p, NEW E \in Seq(ElemAddr), NEW j \in 1 .. Len(E),
         \A i \in 1 .. Len(E) : i # j => p[E[i]].val = m[E[i]].val
  PROVE  ValsOf(p, Cut(E, j)) = Cut(ValsOf(m, E), j)
<1> PICK N \in Nat : N = Len(E)
  OBVIOUS
<1> PICK F, Q : F = Cut(E, j) /\ Q = ValsOf(m, E)
  OBVIOUS
<1>1. Len(F) = N - 1 /\ \A i \in 1 .. N - 1 : F[i] = IF i < j THEN E[i] ELSE E[i + 1]
  <2>1. E \in Seq(ElemAddr) /\ j \in 1 .. Len(E) /\ F = Cut(E, j)
    OBVIOUS
  <2>2. F \in Seq(ElemAddr) /\ CutAre(F, E, j)
    BY ONLY <2>1, CutFacts
  <2> QED BY <2>2 DEF CutAre
<1>2. Q = [i \in 1 .. N |-> m[E[i]].val]
  BY DEF ValsOf
<1>3. Len(Q) = N
  BY ONLY <1>2, N \in Nat
<1>4. \A i \in 1 .. N - 1 : p[F[i]].val = IF i < j THEN Q[i] ELSE Q[i + 1]
  <2> SUFFICES ASSUME NEW i \in 1 .. N - 1 PROVE p[F[i]].val = IF i < j THEN Q[i] ELSE Q[i + 1]
    OBVIOUS
  <2>1. i \in 1 .. N /\ i + 1 \in 1 .. N
    OBVIOUS
  <2>2. CASE i < j
    <3>1. i # j
      BY <2>2
    <3> QED BY <1>1, <1>2, <2>1, <2>2, <3>1
  <2>3. CASE ~ (i < j)
    <3>1. i + 1 # j
      BY <2>3
    <3> QED BY <1>1, <1>2, <2>1, <2>3, <3>1
  <2> QED BY <2>2, <2>3
<1>5. ValsOf(p, F) = [i \in 1 .. N - 1 |-> p[F[i]].val]
  BY <1>1 DEF ValsOf
<1>6. Cut(Q, j) = [i \in 1 .. N - 1 |-> IF i < j THEN Q[i] ELSE Q[i + 1]]
  BY <1>3 DEF Cut
<1>7. ValsOf(p, F) = Cut(Q, j)
  BY ONLY <1>4, <1>5, <1>6
<1> QED BY <1>7

LEMMA DeletedIs ==
  ASSUME NEW s, NEW L, NEW B, NEW E, Held(s, L, B, E), s.ok = TRUE, NEW n \in Nat, n < Len(E),
         NEW t, t = Deleted(s, n)
  PROVE  t.ok = TRUE /\ t.c = Nil /\ \E C : Vected(s, t, L, C, Cut(E, n + 1), Cut(ValsOf(s.m, E), n + 1))
<1> PICK N \in Nat : N = Len(E)
  BY HeldFacts
<1> PICK a, j, p : a = E[n + 1] /\ j = n + 1 /\ p = N - 1
  OBVIOUS
<1>0. /\ AsElem(s) /\ E \in Seq(ElemAddr) /\ L \in Seq(ElemAddr) /\ Extended(s.m, B) /\ Len(B) \in Nat /\ s.n = N
      /\ ListIs(s, L) /\ Disjoint(L, E) /\ Elems(s.m, E) /\ \A q \in 1 .. N : Names(s.m, B, q - 1, E[q])
  <2>1. /\ AsElem(s) /\ E \in Seq(ElemAddr) /\ L \in Seq(ElemAddr) /\ VectIs(s, B, E) /\ Len(B) \in Nat
        /\ ListIs(s, L) /\ Disjoint(L, E)
    BY HeldFacts
  <2> QED BY <2>1 DEF VectIs
<1>1. /\ (\A i \in 1 .. Len(L) : L[i] \in ElemPlace /\ s.m[L[i]].is = "elem")
      /\ (\A i \in 1 .. Len(E) : E[i] \in ElemPlace /\ s.m[E[i]].is = "elem")
      /\ (\A i \in 1 .. Len(B) : B[i] \in ElemPlace /\ s.m[B[i]].is \in {"cont", "vect"})
  BY HeldFacts
<1>2. j \in 1 .. N /\ a = E[j] /\ a \in ElemAddr /\ a \in ElemPlace /\ j - 1 = n /\ p \in Nat /\ p + 1 = N
  BY <1>0, PlaceFacts
<1>3. GetSlot(s.m, n) = a
  <2> PICK m : m = s.m
    OBVIOUS
  <2>1. Arena(m) /\ Extended(m, B) /\ n \in Nat /\ Names(m, B, n, a)
    BY <1>0, <1>2 DEF AsElem
  <2>2. GetSlot(m, n) = a
    BY ONLY <2>1, GetSlotIs
  <2> QED BY <2>2
<1> PICK x : x = FreeElem(s, a)
  OBVIOUS
<1>4. /\ AsElem(x) /\ x.l = s.l /\ Aside(s, x) /\ x.m[a] = ElemFree
      /\ \A y \in ElemPlace : y # a => x.m[y] = s.m[y]
  <2>1. Wrote(s, a, ElemFree, x)
    BY <1>0, <1>2, FreedIs
  <2> QED BY <2>1 DEF Wrote
<1>5. Extended(x.m, B) /\ \A q \in 1 .. N : Names(x.m, B, q - 1, E[q])
  <2>1. \A i \in 1 .. Len(B) : x.m[B[i]] = s.m[B[i]]
    <3>1. s.m[a].is = "elem"
      BY <1>1, <1>2
    <3> QED BY <1>1, <1>4, <3>1
  <2>2. SameBlocks(s.m, x.m, B)
    BY <2>1 DEF SameBlocks
  <2>3. Extended(x.m, B)
    BY <1>0, <2>2, ExtendedStays
  <2>4. ASSUME NEW q \in 1 .. N PROVE Names(x.m, B, q - 1, E[q])
    <3> PICK i, y : i = q - 1 /\ y = E[q]
      OBVIOUS
    <3>1. i \in Nat /\ Names(s.m, B, i, y)
      BY <1>0
    <3>2. Names(x.m, B, i, y)
      BY ONLY <1>0, <2>2, <3>1, NamesStays
    <3> QED BY <3>2
  <2> QED BY <2>3, <2>4
<1> PICK u : u = ShiftLeft(x, n)
  OBVIOUS
<1>6. u.ok = TRUE /\ Closed(x, u, E, n, N - 1 - n)
  <2>1. /\ AsElem(x) /\ x.ok = TRUE /\ Extended(x.m, B) /\ E \in Seq(ElemAddr) /\ x.n = Len(E) /\ n \in Nat /\ n < Len(E)
        /\ \A q \in 1 .. Len(E) : Names(x.m, B, q - 1, E[q])
    BY <1>0, <1>4, <1>5 DEF Aside
  <2>2. u.ok = TRUE /\ Closed(x, u, E, n, Len(E) - 1 - n)
    BY ONLY <2>1, u = ShiftLeft(x, n), ShiftLeftIs
  <2> QED BY <2>2
<1>7. PICK C : /\ Extended(u.m, C)
               /\ \A q \in 1 .. N : q <= n => Names(u.m, C, q - 1, E[q])
               /\ \A q \in 1 .. N : q >= n + (N - 1 - n) + 1 => Names(u.m, C, q - 1, E[q])
               /\ \A q \in 1 .. N : n + 2 <= q /\ q <= n + (N - 1 - n) + 1 => Names(u.m, C, q - 2, E[q])
  BY <1>6 DEF Closed
<1>8. Beside(x, u) /\ AsElem(u) /\ Len(C) \in Nat
  BY <1>6, <1>7, ExtendedFacts DEF Closed, Beside
<1> PICK w : w = ElemSetSlot(u, p, Nil)
  OBVIOUS
<1>9. PICK K : w.ok = TRUE /\ SlotPut(u, w, C, K, p, Nil)
  <2> PICK y : y = E[N]
    OBVIOUS
  <2>1. N \in 1 .. N /\ N >= n + (N - 1 - n) + 1 /\ N - 1 = p
    BY <1>2
  <2>2. Names(u.m, C, p, y)
    BY <1>7, <2>1
  <2>3. p \div MaxInline < Len(C) /\ p \div MaxInline \in Nat
    BY <1>2, <1>8, <2>2, NamedBlock, SlotFacts
  <2>4. AsElem(u) /\ u.ok = TRUE /\ Extended(u.m, C) /\ p \in Nat /\ p \div MaxInline <= Len(C) /\ Nil \in ElemPlace
    BY <1>2, <1>6, <1>7, <1>8, <2>3, PlaceFacts
  <2>5. (Failed(u, w) /\ p \div MaxInline = Len(C)) \/ \E K : w.ok = TRUE /\ SlotPut(u, w, C, K, p, Nil)
    BY ONLY <2>4, w = ElemSetSlot(u, p, Nil), SetSlotIs
  <2>6. p \div MaxInline # Len(C)
    BY <1>8, <2>3
  <2> QED BY ONLY <2>5, <2>6
<1>10. /\ Beside(u, w) /\ AsElem(w) /\ Extended(w.m, K)
       /\ \A i \in Nat : \A y : i # p /\ Names(u.m, C, i, y) => Names(w.m, K, i, y)
  BY <1>9 DEF SlotPut, Beside
<1>11. Beside(x, w)
  BY ONLY <1>8, <1>10, BesideTwice
<1> PICK z : z = SetItems(w, p)
  OBVIOUS
<1>12. /\ AsElem(z) /\ z.m = w.m /\ z.l = w.l /\ z.n = p /\ z.c = w.c /\ z.w = w.w /\ z.ok = w.ok
  <2>1. AsElem(w) /\ p \in Int
    BY <1>2, <1>10
  <2> QED BY ONLY <2>1, z = SetItems(w, p), SetItemsIs
<1>13. t = [z EXCEPT !.c = Nil]
  BY <1>0, <1>3 DEF Deleted
<1>14. /\ AsElem(t) /\ t.m = w.m /\ t.l = s.l /\ t.n = p /\ t.c = Nil /\ t.w = s.w /\ t.ok = TRUE
  <2>1. /\ AsElem(t) /\ t.m = z.m /\ t.l = z.l /\ t.n = z.n /\ t.c = Nil /\ t.w = z.w /\ t.ok = z.ok
    BY <1>12, <1>13, LeftIs
  <2> QED BY <1>4, <1>9, <1>11, <1>12, <2>1 DEF Beside, Aside
<1> PICK F : F = Cut(E, j)
  OBVIOUS
<1>15. F \in Seq(ElemAddr) /\ Once(F) /\ Len(F) = p /\ \A i \in 1 .. p : F[i] = IF i < j THEN E[i] ELSE E[i + 1]
  <2>1. E \in Seq(ElemAddr) /\ j \in 1 .. Len(E) /\ F = Cut(E, j) /\ Once(E)
    BY <1>0, <1>2 DEF Elems
  <2>2. F \in Seq(ElemAddr) /\ CutAre(F, E, j)
    BY ONLY <2>1, CutFacts
  <2>3. Once(F)
    BY ONLY <2>1, CutOnce
  <2>4. Len(E) - 1 = p
    BY <1>2
  <2> QED BY ONLY <2>2, <2>3, <2>4 DEF CutAre
<1>16. ASSUME NEW i \in 1 .. N, i # j PROVE t.m[E[i]] = s.m[E[i]] /\ t.m[E[i]].is = "elem"
  <2> PICK y : y = E[i]
    OBVIOUS
  <2>1. y # a /\ y \in ElemPlace /\ s.m[y].is = "elem"
    BY <1>0, <1>1, <1>2, <1>16 DEF Elems, Once
  <2>2. x.m[y] = s.m[y]
    BY <1>4, <2>1
  <2>3. w.m[y] = x.m[y]
    BY <1>11, <2>1, <2>2 DEF Beside
  <2> QED BY <1>14, <2>1, <2>2, <2>3
<1>17. SameAt(s.m, t.m, L)
  <2> SUFFICES ASSUME NEW i \in 1 .. Len(L) PROVE t.m[L[i]] = s.m[L[i]]
    BY DEF SameAt
  <2> PICK y : y = L[i]
    OBVIOUS
  <2>1. y # a /\ y \in ElemPlace /\ s.m[y].is = "elem"
    BY <1>0, <1>1, <1>2 DEF Disjoint
  <2>2. x.m[y] = s.m[y]
    BY <1>4, <2>1
  <2>3. w.m[y] = x.m[y]
    BY <1>11, <2>1, <2>2 DEF Beside
  <2> QED BY <1>14, <2>2, <2>3
<1>18. \A i \in 1 .. p : \E e \in 1 .. N : e # j /\ F[i] = E[e]
  <2> SUFFICES ASSUME NEW i \in 1 .. p PROVE \E e \in 1 .. N : e # j /\ F[i] = E[e]
    OBVIOUS
  <2>1. i \in 1 .. N /\ i + 1 \in 1 .. N
    BY <1>2
  <2>2. CASE i < j
    <3>1. i # j
      BY <2>2
    <3> QED BY <1>15, <2>1, <2>2, <3>1
  <2>3. CASE ~ (i < j)
    <3>1. i + 1 # j
      BY <1>2, <2>3
    <3> QED BY <1>15, <2>1, <2>3, <3>1
  <2> QED BY <2>2, <2>3
<1>19. Elems(t.m, F)
  <2>1. \A i \in 1 .. p : t.m[F[i]].is = "elem"
    BY <1>16, <1>18
  <2> QED BY <1>15, <2>1 DEF Elems
<1>20. Disjoint(L, F)
  <2>1. \A i \in 1 .. Len(L), e \in 1 .. N : L[i] # E[e]
    BY <1>0 DEF Disjoint
  <2>2. \A i \in 1 .. Len(L), e \in 1 .. p : L[i] # F[e]
    BY <1>18, <2>1
  <2> QED BY <1>15, <2>2 DEF Disjoint
<1>21. ASSUME NEW q \in 1 .. p PROVE Names(t.m, K, q - 1, F[q])
  <2> PICK i, y : i = q - 1 /\ y = F[q]
    OBVIOUS
  <2>1. i \in Nat /\ i # p /\ q \in 1 .. N
    BY <1>2
  <2>2. CASE q < j
    <3>1. q <= n /\ y = E[q]
      BY <1>2, <1>15, <2>2
    <3>2. Names(u.m, C, i, y)
      BY <1>7, <2>1, <3>1
    <3> QED BY <1>10, <1>14, <2>1, <3>2
  <2>3. CASE ~ (q < j)
    <3> PICK r : r = q + 1
      OBVIOUS
    <3>1. y = E[r] /\ r \in 1 .. N /\ n + 2 <= r /\ r <= n + (N - 1 - n) + 1 /\ r - 2 = i
      BY <1>2, <1>15, <2>3
    <3>2. Names(u.m, C, i, y)
      BY <1>7, <3>1
    <3> QED BY <1>10, <1>14, <2>1, <3>2
  <2> QED BY <2>2, <2>3
<1>22. Held(t, L, K, F) /\ ValsOf(t.m, L) = ValsOf(s.m, L)
  <2>1. /\ ListIs(s, L) /\ AsElem(t) /\ t.l = s.l /\ Extended(t.m, K) /\ Stands(t.c, F) /\ t.n = Len(F)
        /\ \A q \in 1 .. Len(F) : Names(t.m, K, q - 1, F[q])
    BY <1>0, <1>10, <1>14, <1>15, <1>21 DEF Stands
  <2> QED BY ONLY <1>17, <1>19, <1>20, <2>1, HoldsAgain
<1>23. ValsOf(t.m, F) = Cut(ValsOf(s.m, E), j)
  <2> PICK m, o : m = s.m /\ o = t.m
    OBVIOUS
  <2>1. E \in Seq(ElemAddr) /\ j \in 1 .. Len(E) /\ \A i \in 1 .. Len(E) : i # j => o[E[i]].val = m[E[i]].val
    BY <1>0, <1>2, <1>16
  <2>2. ValsOf(o, Cut(E, j)) = Cut(ValsOf(m, E), j)
    BY ONLY <2>1, ValsCut
  <2> QED BY <2>2
<1>24. Vected(s, t, L, K, F, Cut(ValsOf(s.m, E), j))
  BY ONLY <1>14, <1>22, <1>23 DEF Vected
<1> QED BY <1>14, <1>24

LEMMA TruncatedIs ==
  ASSUME NEW s, NEW L, NEW B, NEW E, Held(s, L, B, E), NEW t, t = Truncated(s)
  PROVE  t.ok = s.ok /\ t.c = Nil /\ Vected(s, t, L, <<Nil>>, <<>>, <<>>)
<1>0. /\ AsElem(s) /\ VectIs(s, B, E) /\ ListIs(s, L) /\ Disjoint(L, E)
      /\ \A i \in 1 .. Len(L) : L[i] \in ElemPlace /\ s.m[L[i]].is = "elem"
      /\ \A i \in 1 .. Len(B) : B[i] \in ElemPlace /\ s.m[B[i]].is \in {"cont", "vect"}
  BY HeldFacts
<1>1. Extended(s.m, B) /\ s.n = Len(E) /\ \A q \in 1 .. Len(E) : Names(s.m, B, q - 1, E[q])
  BY <1>0 DEF VectIs
<1>2. Len(E) \in Nat /\ Blocks(s.m) = B /\ B \in Seq(ElemPlace)
  BY <1>0, <1>1, HeldFacts, BlocksAre DEF AsElem
<1>3. ASSUME NEW i \in 0 .. s.n - 1 PROVE GetSlot(s.m, i) = E[i + 1] /\ i + 1 \in 1 .. Len(E)
  <2> PICK m, y, q : m = s.m /\ q = i + 1 /\ y = E[i + 1]
    OBVIOUS
  <2>1. q \in 1 .. Len(E) /\ i \in Nat /\ q - 1 = i
    BY <1>1, <1>2
  <2>2. Arena(m) /\ Extended(m, B) /\ i \in Nat /\ Names(m, B, i, y)
    BY <1>0, <1>1, <2>1 DEF AsElem
  <2>3. GetSlot(m, i) = y
    BY ONLY <2>2, GetSlotIs
  <2> QED BY <2>1, <2>3
<1> PICK given : given = (Seqs!ToSet(Blocks(s.m)) \cup {GetSlot(s.m, i) : i \in 0 .. s.n - 1}) \ {Nil}
  OBVIOUS
<1>4. Nil \notin given /\ \A a \in given : (\E i \in 1 .. Len(B) : a = B[i]) \/ \E i \in 1 .. Len(E) : a = E[i]
  <2>1. \A a \in Seqs!ToSet(B) : \E i \in 1 .. Len(B) : a = B[i]
    BY <1>2 DEF Seqs!ToSet
  <2>2. \A a \in {GetSlot(s.m, i) : i \in 0 .. s.n - 1} : \E i \in 1 .. Len(E) : a = E[i]
    BY <1>3
  <2> QED BY <1>2, <2>1, <2>2
<1>5. \A i \in 1 .. Len(L) : L[i] \notin given
  <2>1. \A i \in 1 .. Len(L), j \in 1 .. Len(B) : L[i] # B[j]
    BY <1>0
  <2>2. \A i \in 1 .. Len(L), j \in 1 .. Len(E) : L[i] # E[j]
    BY <1>0 DEF Disjoint
  <2> QED BY <1>4, <2>1, <2>2
<1> PICK f : f = [a \in ElemPlace |-> IF a \in given THEN ElemFree ELSE s.m[a]]
  OBVIOUS
<1> PICK x : x = [s EXCEPT !.m = f, !.c = Nil]
  OBVIOUS
<1> PICK e : e = [f[Nil] EXCEPT !.extra = Nil]
  OBVIOUS
<1>6. f \in [ElemPlace -> ElemBlock] /\ \A a \in ElemPlace : f[a].is = "vect" <=> a = Nil
  <2>1. \A a \in ElemPlace : s.m[a] \in ElemBlock /\ (s.m[a].is = "vect" <=> a = Nil)
    BY <1>0, BlockIs
  <2>2. ElemFree \in ElemBlock /\ ElemFree.is # "vect"
    BY FreeBlock DEF ElemFree
  <2>3. \A a \in ElemPlace : f[a] \in ElemBlock /\ (f[a].is = "vect" <=> a = Nil)
    <3> SUFFICES ASSUME NEW a \in ElemPlace PROVE f[a] \in ElemBlock /\ (f[a].is = "vect" <=> a = Nil)
      OBVIOUS
    <3>1. CASE a \in given
      BY <1>4, <2>2, <3>1
    <3>2. CASE a \notin given
      BY <2>1, <3>2
    <3> QED BY <3>1, <3>2
  <2>4. f = [a \in ElemPlace |-> f[a]]
    OBVIOUS
  <2> QED BY ONLY <2>3, <2>4
<1>7. /\ AsElem(x) /\ x.m = f /\ x.l = s.l /\ x.n = s.n /\ x.c = Nil /\ x.w = s.w /\ x.ok = s.ok
  <2>1. Nil \in ElemPlace /\ s \in ElemState
    BY <1>0, PlaceFacts DEF AsElem
  <2>2. /\ x \in ElemState /\ x.m = f /\ x.l = s.l /\ x.n = s.n /\ x.c = Nil /\ x.w = s.w /\ x.ok = s.ok
    BY ONLY <1>6, <2>1, x = [s EXCEPT !.m = f, !.c = Nil] DEF ElemState
  <2> QED BY ONLY <1>6, <2>2 DEF AsElem, Arena
<1> PICK y : y = SetExtra(x, Nil, Nil)
  OBVIOUS
<1>8. e \in ElemBlock /\ e.is = "vect" /\ e.extra = Nil /\ Nil \in ElemPlace
  <2>1. f[Nil] \in ElemBlock /\ f[Nil].is = "vect" /\ Nil \in ElemPlace
    BY <1>6, PlaceFacts
  <2> QED BY ONLY <2>1, e = [f[Nil] EXCEPT !.extra = Nil] DEF ElemBlock
<1>9. Wrote(x, Nil, e, y) /\ AsElem(y)
  <2>1. y = [x EXCEPT !.m = [x.m EXCEPT ![Nil] = e]]
    BY <1>7 DEF SetExtra
  <2>2. e.is = "vect" <=> Nil = Nil
    BY <1>8
  <2> QED BY ONLY <1>7, <1>8, <2>1, <2>2, BlockWritten
<1>10. t = SetItems(y, 0)
  <2>1. DOMAIN s.m = ElemPlace
    BY <1>0 DEF AsElem, Arena
  <2>2. x = [s EXCEPT !.m = [a \in DOMAIN s.m |-> IF a \in given THEN ElemFree ELSE s.m[a]], !.c = Nil]
    BY <2>1
  <2> QED BY <2>2 DEF Truncated
<1>11. /\ AsElem(t) /\ t.m = y.m /\ t.l = y.l /\ t.n = 0 /\ t.c = y.c /\ t.w = y.w /\ t.ok = y.ok
  BY <1>9, <1>10, SetItemsIs
<1>12. /\ AsElem(t) /\ t.l = s.l /\ t.n = 0 /\ t.c = Nil /\ t.w = s.w /\ t.ok = s.ok /\ t.m[Nil] = e
       /\ \A a \in ElemPlace : a # Nil => t.m[a] = f[a]
  <2>1. y.m[Nil] = e /\ y.l = x.l /\ y.c = x.c /\ y.w = x.w /\ y.ok = x.ok
        /\ \A a \in ElemPlace : a # Nil => y.m[a] = x.m[a]
    BY <1>9 DEF Wrote, Aside
  <2> QED BY ONLY <1>7, <1>11, <2>1
<1>13. SameAt(s.m, t.m, L)
  <2> SUFFICES ASSUME NEW i \in 1 .. Len(L) PROVE t.m[L[i]] = s.m[L[i]]
    BY DEF SameAt
  <2> PICK a : a = L[i]
    OBVIOUS
  <2>1. a \in ElemPlace /\ a # Nil /\ a \notin given
    <3>1. s.m[Nil].is = "vect"
      BY <1>0, BlockIs, PlaceFacts
    <3> QED BY <1>0, <1>5, <3>1
  <2> QED BY <1>12, <2>1
<1> PICK C : C = <<Nil>>
  OBVIOUS
<1>14. Extended(t.m, C)
  <2>1. C \in Seq(ElemPlace) /\ Len(C) = 1 /\ C[1] = Nil
    BY <1>8
  <2>2. Once(C)
    BY <2>1 DEF Once
  <2>3. \A i \in 2 .. Len(C) : FALSE
    BY <2>1
  <2>4. \A i \in 1 .. Len(C) : i = 1
    BY <2>1
  <2>5. t.m[Nil].extra = Nil
    BY <1>8, <1>12
  <2> QED BY <2>1, <2>2, <2>3, <2>4, <2>5 DEF Extended
<1> PICK F : F = <<>>
  OBVIOUS
<1>15. F \in Seq(ElemAddr) /\ Len(F) = 0 /\ \A i \in 1 .. Len(F) : FALSE
  OBVIOUS
<1>16. Elems(t.m, F) /\ Disjoint(L, F) /\ Stands(t.c, F)
  BY <1>12, <1>15 DEF Elems, Once, Disjoint, Stands
<1>17. Held(t, L, C, F) /\ ValsOf(t.m, L) = ValsOf(s.m, L)
  <2>1. ListIs(s, L) /\ AsElem(t) /\ t.l = s.l /\ t.n = Len(F) /\ \A q \in 1 .. Len(F) : Names(t.m, C, q - 1, F[q])
    BY <1>0, <1>12, <1>15
  <2> QED BY ONLY <1>13, <1>14, <1>16, <2>1, HoldsAgain
<1>18. ValsOf(t.m, <<>>) = <<>>
  BY DEF ValsOf
<1> QED BY <1>12, <1>17, <1>18 DEF Vected

\* The first k of the values are in the vector; a call that threw has put in some.
VectCopied(s, t, L, vals, k) == /\ t.w = s.w /\ ValsOf(t.m, L) = ValsOf(s.m, L)
                                /\ \E C, F : Held(t, L, C, F) /\ Begun(t, vals, k, ValsOf(t.m, F))

LEMMA InsertedOne ==
  ASSUME NEW s, NEW L, NEW V, V = ElemValue \cup {None}, NEW vals \in Seq(V),
         NEW k \in 1 .. Len(vals), NEW u, VectCopied(s, u, L, vals, k - 1), NEW t, t = ThenInserted(u, k - 1, vals[k])
  PROVE  VectCopied(s, t, L, vals, k)
<1>0. Len(vals) \in Nat /\ k - 1 \in Nat
  OBVIOUS
<1>1. PICK B, E : Held(u, L, B, E) /\ Begun(u, vals, k - 1, ValsOf(u.m, E))
  BY DEF VectCopied
<1>2. PICK j \in 0 .. k - 1 : ValsOf(u.m, E) = SubSeq(vals, 1, j) /\ (u.ok = TRUE => j = k - 1)
  BY <1>1 DEF Begun
<1>3. u.w = s.w /\ ValsOf(u.m, L) = ValsOf(s.m, L)
  BY DEF VectCopied
<1>4. CASE u.ok # TRUE
  <2>1. t = u
    BY <1>1, <1>4, HeldFacts DEF ThenInserted, ElemThen
  <2>2. j \in 0 .. k
    BY <1>0
  <2>3. Begun(t, vals, k, ValsOf(t.m, E))
    BY <1>2, <1>4, <2>1, <2>2 DEF Begun
  <2> QED BY <1>1, <1>3, <2>1, <2>3 DEF VectCopied
<1>5. CASE u.ok = TRUE
  <2> PICK v \in V : v = vals[k]
    OBVIOUS
  <2> PICK n \in Nat : n = k - 1
    BY <1>0
  <2> PICK Q : Q = ValsOf(u.m, E)
    OBVIOUS
  <2>1. t = Inserted(u, n, v)
    BY <1>5 DEF ThenInserted, ElemThen
  <2>2. Q = SubSeq(vals, 1, n) /\ Len(Q) = n
    BY <1>0, <1>2, <1>5
  <2>3. Len(E) = n
    <3>1. Len(E) \in Nat
      BY <1>1, HeldFacts
    <3>2. Len(Q) = Len(E)
      BY <3>1 DEF ValsOf
    <3> QED BY <2>2, <3>2
  <2>4. Refused(u, t, L, E) \/ \E a \in ElemAddr : \E C :
           t.ok = TRUE /\ t.c = u.c /\ Vected(u, t, L, C, Ins(E, n, a), Ins(Q, n, v))
    <3>1. Held(u, L, B, E) /\ u.ok = TRUE /\ n \in 0 .. Len(E) /\ v \in ElemValue \cup {None}
      BY <1>1, <1>5, <2>3
    <3> QED BY ONLY <2>1, <3>1, Q = ValsOf(u.m, E), InsertedIs
  <2>5. CASE Refused(u, t, L, E)
    <3>1. PICK C : Vected(u, t, L, C, E, Q) /\ t.ok = FALSE
      BY <2>5 DEF Refused
    <3>2. j \in 0 .. k
      BY <1>0
    <3>3. Begun(t, vals, k, ValsOf(t.m, E))
      BY <1>2, <3>1, <3>2 DEF Begun, Vected
    <3> QED BY <1>3, <3>1, <3>3 DEF VectCopied, Vected
  <2>6. ASSUME NEW a \in ElemAddr, NEW C, t.ok = TRUE, Vected(u, t, L, C, Ins(E, n, a), Ins(Q, n, v))
        PROVE  VectCopied(s, t, L, vals, k)
    <3> PICK F : F = Ins(E, n, a)
      OBVIOUS
    <3>1. Held(t, L, C, F) /\ t.w = u.w /\ ValsOf(t.m, L) = ValsOf(u.m, L) /\ ValsOf(t.m, F) = Ins(Q, n, v)
      BY <2>6 DEF Vected
    <3>2. Ins(Q, n, v) = SubSeq(vals, 1, k)
      <4>1. Ins(Q, n, v) = [i \in 1 .. k |-> IF i <= n THEN Q[i] ELSE IF i = n + 1 THEN v ELSE Q[i - 1]]
        BY <1>0, <2>2 DEF Ins
      <4>2. SubSeq(vals, 1, k) = [i \in 1 .. k |-> vals[i]]
        BY <1>0
      <4>3. \A i \in 1 .. k : (IF i <= n THEN Q[i] ELSE IF i = n + 1 THEN v ELSE Q[i - 1]) = vals[i]
        <5>1. \A i \in 1 .. n : Q[i] = vals[i]
          BY <1>0, <2>2
        <5>2. \A i \in 1 .. k : i \in 1 .. n \/ (i = k /\ i = n + 1 /\ ~ (i <= n))
          BY <1>0
        <5> QED BY <5>1, <5>2
      <4> QED BY ONLY <4>1, <4>2, <4>3
    <3>3. Begun(t, vals, k, ValsOf(t.m, F))
      BY <1>0, <3>1, <3>2 DEF Begun
    <3> QED BY <1>3, <3>1, <3>3 DEF VectCopied
  <2> QED BY <2>4, <2>5, <2>6
<1> QED BY <1>4, <1>5

Inserting(f, s, vals) ==
  f = [k \in 0 .. Len(vals) |-> IF k = 0 THEN s ELSE ThenInserted(f[k - 1], k - 1, vals[k])]

LEMMA InsertingEnds ==
  ASSUME NEW s, NEW L, NEW B, Held(s, L, B, <<>>), NEW V, V = ElemValue \cup {None}, NEW vals \in Seq(V)
  PROVE  /\ \E f : Inserting(f, s, vals)
         /\ \A f : Inserting(f, s, vals) => VectCopied(s, f[Len(vals)], L, vals, Len(vals))
<1> PICK n \in Nat : n = Len(vals)
  OBVIOUS
<1> DEFINE D == [k \in 0 .. n |-> {u \in ElemState : VectCopied(s, u, L, vals, k)}]
           step == [k \in 1 .. n |-> [u \in D[k - 1] |-> ThenInserted(u, k - 1, vals[k])]]
<1>1. s \in D[0]
  <2>1. s \in ElemState
    BY HeldFacts DEF AsElem
  <2>2. ValsOf(s.m, <<>>) = SubSeq(vals, 1, 0)
    BY DEF ValsOf
  <2>3. Begun(s, vals, 0, ValsOf(s.m, <<>>))
    BY <2>2 DEF Begun
  <2>4. VectCopied(s, s, L, vals, 0)
    BY <2>3 DEF VectCopied
  <2> QED BY <2>1, <2>4
<1>2. ASSUME NEW k \in 1 .. n, NEW u \in D[k - 1] PROVE ThenInserted(u, k - 1, vals[k]) \in D[k]
  <2>1. k - 1 \in 0 .. n /\ k \in 0 .. n
    OBVIOUS
  <2>2. VectCopied(s, u, L, vals, k - 1)
    BY <2>1
  <2> PICK t : t = ThenInserted(u, k - 1, vals[k])
    OBVIOUS
  <2>3. VectCopied(s, t, L, vals, k)
    BY <2>2, InsertedOne
  <2>4. t \in ElemState
    BY <2>3, HeldFacts DEF VectCopied, AsElem
  <2> QED BY <2>1, <2>3, <2>4
<1>3. \A k \in 1 .. n : \A u \in D[k - 1] : step[k][u] \in D[k]
  BY <1>2
<1> HIDE DEF D
<1>4. PICK f : Loops(f, n, s, step) /\ \A k \in 0 .. n : f[k] \in D[k]
  <2> HIDE DEF step
  <2>1. n \in Nat /\ s \in D[0]
    BY <1>1
  <2> QED BY ONLY <2>1, <1>3, LoopExists
<1>5. Inserting(f, s, vals)
  <2>1. \A k \in 1 .. n : k - 1 \in 0 .. n
    OBVIOUS
  <2>2. \A k \in 1 .. n : step[k][f[k - 1]] = ThenInserted(f[k - 1], k - 1, vals[k])
    BY <1>4, <2>1
  <2>3. \A k \in 0 .. n : k = 0 \/ k \in 1 .. n
    OBVIOUS
  <2> HIDE DEF step
  <2>4. [k \in 0 .. n |-> IF k = 0 THEN s ELSE step[k][f[k - 1]]]
          = [k \in 0 .. n |-> IF k = 0 THEN s ELSE ThenInserted(f[k - 1], k - 1, vals[k])]
    BY <2>2, <2>3
  <2> QED BY <1>4, <2>4 DEF Loops, Inserting
<1>6. ASSUME NEW g, Inserting(g, s, vals) PROVE VectCopied(s, g[n], L, vals, n)
  <2>1. g[0] = s /\ \A k \in 1 .. n : g[k] = ThenInserted(g[k - 1], k - 1, vals[k])
    <3>1. \A k \in 0 .. n : g[k] = IF k = 0 THEN s ELSE ThenInserted(g[k - 1], k - 1, vals[k])
      BY <1>6 DEF Inserting
    <3> QED BY <3>1
  <2>2. g[0] \in D[0] /\ n \in Nat
    BY <1>1, <2>1
  <2>3. \A k \in 1 .. n : g[k - 1] \in D[k - 1] => g[k] \in D[k]
    BY <1>2, <2>1
  <2>4. \A k \in 0 .. n : g[k] \in D[k]
    BY ONLY <2>2, <2>3, LoopStays
  <2> QED BY <2>4 DEF D
<1> QED BY <1>5, <1>6

=============================================================================
