------------------------------ MODULE MsgElems ------------------------------
(***************************************************************************)
(* The elements of a list and of a vector (MsgList.cpp, MsgVect.cpp and    *)
(* the accessors of P2PmsgVBLock.cpp).  A list links its element blocks    *)
(* both ways between a first and a last and counts them.  A vector keeps   *)
(* the addresses of its elements in slots, MaxInline in its own block and  *)
(* as many in each continuation block chained to it.  One list and one     *)
(* vector share an arena here; each may be filled from the other.  The     *)
(* arena may refuse a block at any allocation; the call then throws, and   *)
(* what it had done stays.                                                 *)
(*                                                                         *)
(* A caller walks the list from either end by a position GetNext or        *)
(* GetPrev moves on before it returns the element, and may drop what it    *)
(* was handed while it walks.                                              *)
(***************************************************************************)
EXTENDS Integers, Sequences, FiniteSets, NoValue

Seqs == INSTANCE SequencesExt

CONSTANTS ElemSize,       \* how many blocks the arena has
          ElemValue,
          MaxInline   \* VBLockVect_MaxInline

ASSUME SizeAssumption == ElemSize \in Nat
ASSUME InlineAssumption == MaxInline \in Nat \ {0}

VARIABLES elemMem,   \* the arena; at address 0, the vector's own block
          list,  \* the list's first, last and count
          items, \* the vector's count
          curs,  \* the element the vector's wrapper stands at (m_pP3PmsgType)
          walk,  \* the caller's walk along the list
          elemOk     \* did the last call return?

elemVars == <<elemMem, list, items, curs, walk, elemOk>>

ElemAddr == 1 .. ElemSize
Slot == 0 .. MaxInline - 1
Nil  == 0   \* no address; as the block of a slot, the vector's own

ElemFree == [is |-> "free", val |-> None, prev |-> Nil, next |-> Nil,
         slots |-> [i \in Slot |-> Nil], extra |-> Nil]
EmptyList == [first |-> Nil, last |-> Nil, n |-> 0]
NoWalk == [on |-> FALSE, back |-> FALSE, pos |-> Nil, seen |-> <<>>]

ElemStart == [m |-> elemMem, l |-> list, n |-> items, c |-> curs, w |-> walk, ok |-> TRUE]
ElemThrow(s) == [s EXCEPT !.ok = FALSE]
\* after a throw the rest of the call is not executed
ElemThen(s, Rest(_)) == IF s.ok THEN Rest(s) ELSE s

ElemNew(s) == CHOOSE a \in ElemAddr : /\ s.m[a].is = "free"
                              /\ \A b \in ElemAddr : b < a => s.m[b].is # "free"
ElemAlloc(s, is, v) == IF \A a \in ElemAddr : s.m[a].is # "free" THEN ElemThrow(s)
                   ELSE [s EXCEPT !.m[ElemNew(s)] = [ElemFree EXCEPT !.is = is, !.val = v]]

-----------------------------------------------------------------------------
(* the list *)

(* VBLockItem_SetPrev and _SetNext, VBLockList_SetItems *)
SetPrev(s, a, b) == IF a = Nil THEN s ELSE [s EXCEPT !.m[a].prev = b]
SetNext(s, a, b) == IF a = Nil THEN s ELSE [s EXCEPT !.m[a].next = b]
ElemAddItems(s, d) == [s EXCEPT !.l.n = @ + d]

(* VBLockList_SetFirst and _SetLast: the element linked in is the list's first, or its last, or both *)
AtEnds(s, prev, a, next) ==
  [s EXCEPT !.l.first = IF prev = Nil THEN a ELSE @, !.l.last = IF next = Nil THEN a ELSE @]

(* slip: what follows does not lead back to the new element *)
LinkInOneWay(s, prev, a, next) ==
  ElemAddItems(AtEnds(SetNext(SetNext(SetPrev(s, a, prev), prev, a), a, next), prev, a, next), 1)

(* P2PmsgList_LinkinItem *)
ElemLinkIn(s, prev, a, next) ==
  ElemAddItems(AtEnds(SetPrev(SetNext(SetNext(SetPrev(s, a, prev), prev, a), a, next), next, a),
                      prev, a, next), 1)

(* the element unlinked is the first or the last no longer *)
OffEnds(s, prev, a, next) ==
  [s EXCEPT !.l.first = IF @ = a THEN next ELSE @, !.l.last = IF @ = a THEN prev ELSE @]

(* P2PmsgList_UnLinkItem: the block is not given back *)
ElemUnLink(s, a) ==
  LET prev == s.m[a].prev
      next == s.m[a].next
  IN SetNext(SetPrev(OffEnds(ElemAddItems(SetPrev(SetNext(s, prev, next), next, prev), -1), prev, a, next),
                     a, Nil), a, Nil)

(* P3PmsgList::AddListHead and AddListTail: the block, the copy of the data, the links *)
AddHead(s, v) ==
  ElemThen(ElemAlloc(s, "elem", v), LAMBDA t : ElemLinkIn(t, Nil, ElemNew(s), t.l.first))
AddTail(s, v) ==
  ElemThen(ElemAlloc(s, "elem", v), LAMBDA t : ElemLinkIn(t, t.l.last, ElemNew(s), Nil))

(* the addresses of the list's elements, from the first on *)
ChainOf(m, l) == LET f[i \in 1 .. l.n] == IF i = 1 THEN l.first ELSE m[f[i - 1]].next IN f
Chain == ChainOf(elemMem, list)

(* P3PmsgList::Truncate: the head is dropped as long as there is one *)
OffHead(s) == ElemUnLink(s, s.l.first)
ElemEmptied(s) == LET f[k \in 0 .. s.l.n] == IF k = 0 THEN s ELSE OffHead(f[k - 1]) IN f[s.l.n]

-----------------------------------------------------------------------------
(* the vector *)

GetAlloc(m, b, i) == m[b].slots[i]
SetAlloc(s, b, i, a) == [s EXCEPT !.m[b].slots[i] = a]
GetExtra(m, b) == m[b].extra
SetExtra(s, b, a) == [s EXCEPT !.m[b].extra = a]
SetItems(s, n) == [s EXCEPT !.n = n]

(* the vector's own block and its continuations, in the order of the chain *)
Blocks(m) ==
  LET hop[i \in 0 .. ElemSize] == IF i = 0 THEN Nil ELSE GetExtra(m, hop[i - 1])
      n == CHOOSE k \in DOMAIN hop : GetExtra(m, hop[k]) = Nil /\ \A j \in DOMAIN hop : j < k => GetExtra(m, hop[j]) # Nil
  IN [i \in 1 .. n + 1 |-> hop[i - 1]]

(* P3PmsgVect::GetSlot: no continuation, no element *)
SlotOf(m, blocks, i) ==
  IF i \div MaxInline >= Len(blocks) THEN Nil
  ELSE GetAlloc(m, blocks[i \div MaxInline + 1], i % MaxInline)
GetSlot(m, i) == SlotOf(m, Blocks(m), i)

(* P3PmsgVect::AllocContinuation, chained to the last block *)
AllocContinuation(s) ==
  ElemThen(ElemAlloc(s, "cont", None), LAMBDA t : SetExtra(t, Seqs!Last(Blocks(s.m)), ElemNew(s)))

(* P3PmsgVect::SetSlot: a continuation is made where the next one the slot asks for is missing *)
ToBlock(s, k) == IF Len(Blocks(s.m)) > k THEN s ELSE ElemThen(s, AllocContinuation)
Reached(s, n) == LET f[k \in 0 .. n] == IF k = 0 THEN s ELSE ToBlock(f[k - 1], k) IN f[n]
ElemSetSlot(s, i, a) ==
  ElemThen(Reached(s, i \div MaxInline),
           LAMBDA t : SetAlloc(t, Blocks(t.m)[i \div MaxInline + 1], i % MaxInline, a))

(* slot i takes what slot j holds *)
SlotFrom(s, i, j) == ElemThen(s, LAMBDA t : ElemSetSlot(t, i, GetSlot(t.m, j)))

(* slip: the gap is opened from the front, where each slot overwrites the next *)
ShiftOver(s, n) ==
  LET f[k \in 0 .. s.n - n] == IF k = 0 THEN s ELSE SlotFrom(f[k - 1], n + k, n + k - 1) IN f[s.n - n]

(* the shift that opens a gap at n, from the end down *)
ShiftRight(s, n) ==
  LET f[k \in 0 .. s.n - n] == IF k = 0 THEN s ELSE SlotFrom(f[k - 1], s.n - k + 1, s.n - k)
  IN f[s.n - n]

(* P3PmsgVect::InsertAt at n, not past the end: the element first, then its place *)
Inserted(s, n, v) ==
  ElemThen(ElemThen(ElemThen(ElemAlloc(s, "elem", v),
                             LAMBDA t : ShiftRight(t, n)),
                    LAMBDA t : ElemSetSlot(t, n, ElemNew(s))),
           LAMBDA t : SetItems(t, s.n + 1))

(* P3PmsgVect::FreeElemDeep *)
FreeElem(s, a) == IF a = Nil THEN s ELSE [s EXCEPT !.m[a] = ElemFree]

(* the shift that closes the gap at n *)
ShiftLeft(s, n) ==
  LET f[k \in 0 .. s.n - 1 - n] == IF k = 0 THEN s ELSE SlotFrom(f[k - 1], n + k - 1, n + k)
  IN f[s.n - 1 - n]

(* slip: the wrapper stays where it stood *)
DeletedUnder(s, n) ==
  SetItems(ElemSetSlot(ShiftLeft(FreeElem(s, GetSlot(s.m, n)), n), s.n - 1, Nil), s.n - 1)

(* P3PmsgVect::Delete *)
Deleted(s, n) ==
  [SetItems(ElemSetSlot(ShiftLeft(FreeElem(s, GetSlot(s.m, n)), n), s.n - 1, Nil), s.n - 1)
   EXCEPT !.c = Nil]

(* P3PmsgVect::Truncate: the elements, then the continuations; the slots keep what they held *)
Truncated(s) ==
  LET given == (Seqs!ToSet(Blocks(s.m)) \cup {GetSlot(s.m, i) : i \in 0 .. s.n - 1}) \ {Nil}
  IN SetItems(SetExtra([s EXCEPT !.m = [a \in DOMAIN @ |-> IF a \in given THEN ElemFree ELSE @[a]],
                                 !.c = Nil], Nil, Nil), 0)

-----------------------------------------------------------------------------
(* the calls *)

(* Addresses have no meaning of their own: after a call the blocks are renumbered, those of the *)
(* list first, then the vector's, then those that are lost, so that states that differ only by *)
(* the arena's choices are one: block n is the one that was at p[n].  What a slot past the count *)
(* holds is never read, and forgotten. *)
ElemRank(s) ==
  LET known == ChainOf(s.m, s.l) \o Tail(Blocks(s.m)) \o [i \in 1 .. s.n |-> GetSlot(s.m, i - 1)]
      at(a) == {i \in DOMAIN known : known[i] = a}
  IN [a \in ElemAddr |-> IF at(a) # {} THEN CHOOSE i \in at(a) : \A j \in at(a) : i <= j
                         ELSE Len(known) + a + IF s.m[a].is = "free" THEN ElemSize ELSE 0]
ElemMoved(s, p) ==
  LET to == [a \in ElemAddr \cup {Nil} |-> IF a = Nil THEN Nil ELSE CHOOSE n \in ElemAddr : p[n] = a]
      read == {GetSlot(s.m, i) : i \in 0 .. s.n - 1}
  IN [s EXCEPT !.m = [n \in ElemAddr \cup {Nil} |->
                        [s.m[IF n = Nil THEN Nil ELSE p[n]] EXCEPT
                           !.prev = to[@], !.next = to[@], !.extra = to[@],
                           !.slots = [i \in Slot |-> IF @[i] \in read THEN to[@[i]] ELSE Nil]]],
               !.l.first = to[@], !.l.last = to[@], !.c = to[@], !.w.pos = to[@],
               !.w.seen = [i \in DOMAIN @ |-> to[@[i]]]]
Numberings == {p \in [ElemAddr -> ElemAddr] : \A a \in ElemAddr : \E n \in ElemAddr : p[n] = a}
ElemOrders(rank) == {p \in Numberings : \A n \in 1 .. ElemSize - 1 : rank[p[n]] < rank[p[n + 1]]}
ElemRenumbered(s) == {ElemMoved(s, p) : p \in ElemOrders(ElemRank(s))}

ElemCall(s) ==
  \E t \in ElemRenumbered(s) :
    elemMem' = t.m /\ list' = t.l /\ items' = t.n /\ curs' = t.c /\ walk' = t.w /\ elemOk' = t.ok

AddListHead(v) == (walk.on => walk.back /\ walk.pos # Nil) /\ ElemCall(AddHead(ElemStart, v))
AddListTail(v) == (walk.on => ~ walk.back /\ walk.pos # Nil) /\ ElemCall(AddTail(ElemStart, v))

(* P3PmsgList::DropHead, DropTail and Delete; a caller that walks drops what it has been handed *)
Forgotten(s, i) == [s EXCEPT !.w.seen = Seqs!RemoveAt(@, i)]
ElemDrop(a) == \/ ~ walk.on /\ ElemCall(ElemUnLink(ElemStart, a))
               \/ \E i \in DOMAIN walk.seen :
                    walk.seen[i] = a /\ ElemCall(Forgotten(ElemUnLink(ElemStart, a), i))
DropHead == list.n > 0 /\ ElemDrop(list.first)
DropTail == list.n > 0 /\ ElemDrop(list.last)
ElemDelete(a) == a \in Seqs!ToSet(Chain) /\ ElemDrop(a)

TruncateList == list.n > 0 /\ ElemCall([ElemEmptied(ElemStart) EXCEPT !.w = NoWalk])

(* P3PmsgList::operator =, from the vector's values *)
ThenAdded(s, v) == ElemThen(s, LAMBDA t : AddTail(t, v))
AssignList(vals) ==
  LET f[k \in 0 .. Len(vals)] == IF k = 0 THEN [ElemEmptied(ElemStart) EXCEPT !.w = NoWalk]
                                 ELSE ThenAdded(f[k - 1], vals[k])
  IN ElemCall(f[Len(vals)])

(* GetHeadPos or GetTailPos, then GetNext or GetPrev *)
ElemWalk(w) == ElemCall([ElemStart EXCEPT !.w = w, !.ok = elemOk])
StartWalk(back) ==
  /\ list.n > 0 /\ ~ walk.on
  /\ ElemWalk([on |-> TRUE, back |-> back, pos |-> IF back THEN list.last ELSE list.first,
           seen |-> <<>>])
GetNext == /\ walk.on /\ ~ walk.back /\ walk.pos # Nil
           /\ ElemWalk([walk EXCEPT !.pos = elemMem[walk.pos].next, !.seen = Append(@, walk.pos)])
GetPrev == /\ walk.on /\ walk.back /\ walk.pos # Nil
           /\ ElemWalk([walk EXCEPT !.pos = elemMem[walk.pos].prev, !.seen = Append(@, walk.pos)])
EndWalk == walk.on /\ walk.pos = Nil /\ ElemWalk(NoWalk)

ElemAt(s, n) == [s EXCEPT !.c = IF n < 0 THEN Nil ELSE GetSlot(s.m, n)]

(* the wrapper goes to the element inserted *)
InsertAt(n, v) == ElemCall(ElemThen(Inserted(ElemStart, n, v), LAMBDA s : ElemAt(s, n)))

(* the wrapper is left with nothing *)
DeleteAt(n)  == n < items /\ ElemCall(Deleted(ElemStart, n))
TruncateVect == ElemCall(Truncated(ElemStart))
Goto(n)      == ElemCall([ElemAt(ElemStart, IF n < items THEN n ELSE -1) EXCEPT !.ok = elemOk])

(* P3PmsgVect::operator =, from the list's values; the wrapper goes to the last *)
ThenInserted(s, n, v) == ElemThen(s, LAMBDA t : Inserted(t, n, v))
AtLast(s) == ElemAt(s, s.n - 1)
AssignVect(vals) ==
  LET f[k \in 0 .. Len(vals)] == IF k = 0 THEN Truncated(ElemStart)
                                 ELSE ThenInserted(f[k - 1], k - 1, vals[k])
  IN ElemCall(AtLast(f[Len(vals)]))

ListVals == [i \in 1 .. list.n |-> elemMem[Chain[i]].val]
VectVals == [i \in 1 .. items |-> elemMem[GetSlot(elemMem, i - 1)].val]

ElemInit == /\ elemMem = [a \in ElemAddr \cup {Nil} |-> [ElemFree EXCEPT !.is = IF a = Nil THEN "vect" ELSE "free"]]
        /\ list = EmptyList
        /\ items = 0 /\ curs = Nil /\ walk = NoWalk /\ elemOk = TRUE

ElemNext ==
  \/ \E v \in ElemValue : AddListHead(v) \/ AddListTail(v) \/ \E n \in 0 .. items : InsertAt(n, v)
  \/ DropHead \/ DropTail \/ TruncateList \/ TruncateVect
  \/ \E a \in ElemAddr : ElemDelete(a)
  \/ \E back \in BOOLEAN : StartWalk(back)
  \/ GetNext \/ GetPrev \/ EndWalk
  \/ \E n \in 0 .. items : DeleteAt(n) \/ Goto(n)
  \/ AssignList(VectVals) \/ AssignVect(ListVals)

ElemSpec == ElemInit /\ [][ElemNext]_elemVars

-----------------------------------------------------------------------------
ElemUsed == {a \in ElemAddr : elemMem[a].is # "free"}
ElemHeld == Seqs!ToSet(Chain) \cup {GetSlot(elemMem, i) : i \in 0 .. items - 1} \cup (Seqs!ToSet(Blocks(elemMem)) \ {Nil})

(* The shape of the state. *)
ElemTypeOK ==
  /\ \A a \in ElemAddr \cup {Nil} : LET b == elemMem[a] IN
       /\ b.is \in {"free", "elem", "cont", "vect"} /\ (b.is = "vect" <=> a = Nil)
       /\ b.val \in ElemValue \cup {None} /\ {b.prev, b.next, b.extra} \subseteq ElemAddr \cup {Nil}
       /\ b.slots \in [Slot -> ElemAddr \cup {Nil}]
  /\ list.n \in 0 .. ElemSize /\ {list.first, list.last} \subseteq ElemAddr \cup {Nil}
  /\ items \in 0 .. ElemSize /\ curs \in ElemAddr \cup {Nil} /\ elemOk \in BOOLEAN

(* The two never share a block, neither keeps one that was freed, and the vector's wrapper stands *)
(* at an element the vector has: the shifts of InsertAt and Delete lose and repeat no slot. *)
Apart ==
  /\ ElemHeld \subseteq ElemUsed
  /\ Cardinality(ElemHeld) = list.n + items + Len(Blocks(elemMem)) - 1
  /\ curs # Nil => \E i \in 0 .. items - 1 : curs = GetSlot(elemMem, i)

(* A walk from either end that comes to its end has handed out every element the list then has, *)
(* once and in order, though its caller dropped some of those it had been handed and appended at *)
(* the far end (MsgList.cpp:172-261). *)
WalkWhole == walk.on /\ walk.pos = Nil =>
               walk.seen = IF walk.back THEN Seqs!Reverse(Chain) ELSE Chain

(* The list and the vector are sound in the one arena they share, and a walk misses nothing. *)
ElemSound == ElemTypeOK /\ Apart /\ WalkWhole

(* Both containers implement sequences: insertions past a full block, deletions before a *)
(* continuation and calls the arena refuses half way included. *)
Elem == INSTANCE ElemSeq WITH Value <- ElemValue, ok <- elemOk, lst <- ListVals, vec <- VectVals
ElemImplements == Elem!Spec

=============================================================================
