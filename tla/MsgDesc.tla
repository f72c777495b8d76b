------------------------------ MODULE MsgDesc ------------------------------
(***************************************************************************)
(* The descendants of an item (MsgDesc.cpp) and the cursors that walk them *)
(* (MsgCurs.cpp).  Items are blocks of the arena threaded on a doubly      *)
(* linked chain whose head, tail and count live in the collection's own    *)
(* block.  Every wrapper of the collection keeps a cursor of its own, and  *)
(* a caller may make more: a cursor caches an ordinal and an address, and  *)
(* a move it can answer from the cache never looks at the chain again.     *)
(* MsgAttr.cpp repeats the same code for attributes.                       *)
(*                                                                         *)
(* The model is of a build without assertions: where the code ends in      *)
(* ASSERT(0), the statements after it are executed.  The contents of an    *)
(* item (its own collections, its data) are left out; so is the lazy       *)
(* creation of the collection's block.                                     *)
(***************************************************************************)
EXTENDS Integers, Sequences, FiniteSets, NoValue

Seqs == INSTANCE SequencesExt

CONSTANTS Addr,       \* addresses of item blocks, as numbers
          Name,       \* names in use: sequences of letters (numbers)
          Pattern,    \* wildcards, as the sets of names they match
          Curs,       \* the cursors taken on the collection
          Own,        \* the cursor the collection keeps for itself
          Duplicates, \* may a caller push a name a sorted collection has?
          Beyond      \* INT_MAX-1, the ordinal past every end

ASSUME CursAssumption == Own \in Curs /\ None \notin Addr /\ Addr \subseteq Nat /\ IsFiniteSet(Addr)
ASSUME NameAssumption == Name \subseteq Seq(Nat)
ASSUME BeyondAssumption == Beyond \in Nat /\ \A n \in 0 .. Cardinality(Addr) : n < Beyond
ASSUME FlagAssumption == Duplicates \in BOOLEAN

VARIABLES desc,   \* the collection's block: first, last, count, SORT permission
          item,   \* the item blocks: linked or free, name, links
          curs,   \* the cursors: ordinal and address
          job     \* the loop in progress, if any

vars == <<desc, item, curs, job>>

Idle == [op |-> "idle"]
Blank == [n |-> 0, at |-> None]
Free == [linked |-> FALSE, name |-> <<>>, prev |-> None, next |-> None]

(* the chain: the k-th block from the head, and from the tail *)
FromFirst[k \in 0 .. Cardinality(Addr)] ==
    IF k = 0 THEN desc.first
    ELSE IF FromFirst[k-1] = None THEN None ELSE item[FromFirst[k-1]].next
FromLast[k \in 0 .. Cardinality(Addr)] ==
    IF k = 0 THEN desc.last
    ELSE IF FromLast[k-1] = None THEN None ELSE item[FromLast[k-1]].prev

Linked == {a \in Addr : item[a].linked}
NameAt(k) == item[FromFirst[k]].name

(* a cursor still true to the chain: on no item, or on the item of its ordinal *)
Exact(r) == r.at # None =>
  r.at \in Linked /\ r.n \in 0 .. desc.items - 1 /\ FromFirst[r.n] = r.at

(* P3PmsgName::operator < compares the letters both names have; operator > is its negation *)
Shorter(s, t) == IF Len(s) < Len(t) THEN Len(s) ELSE Len(t)
Less(s, t) == \E k \in 1 .. Shorter(s, t) :
                  s[k] < t[k] /\ \A j \in 1 .. k-1 : s[j] = t[j]
Greater(s, t) == ~ Less(s, t)

(* CString::CompareNoCase, what P2PmsgMgr_Sort asks: the whole of both names *)
Before(s, t) == Less(s, t) \/ Seqs!IsStrictPrefix(s, t)
Ascending == \A k \in 1 .. desc.items - 1 : ~ Before(NameAt(k), NameAt(k-1))

-----------------------------------------------------------------------------
(* P2PmsgDesc_LinkinItem: the block between two others; a missing neighbour makes it an end *)
LinkIn(nm, p, a, q) ==
  /\ item' = [b \in Addr |->
       CASE b = a -> [linked |-> TRUE, name |-> nm, prev |-> p, next |-> q]
         [] OTHER -> [item[b] EXCEPT !.next = IF b = p THEN a ELSE @,
                                     !.prev = IF b = q THEN a ELSE @]]
  /\ desc' = [desc EXCEPT !.first = IF p = None THEN a ELSE @,
                          !.last  = IF q = None THEN a ELSE @,
                          !.items = @ + 1]

(* P2PmsgDesc_UnLinkItem, and the Free that follows it in P3PmsgCurs::Delete; what a freed *)
(* block still holds is left out *)
UnLink(a) ==
  LET p == item[a].prev   q == item[a].next IN
  /\ item' = [b \in Addr |->
       IF b = a THEN Free
       ELSE [item[b] EXCEPT !.next = IF b = p THEN q ELSE @,
                            !.prev = IF b = q THEN p ELSE @]]
  /\ desc' = [desc EXCEPT !.first = IF @ = a THEN q ELSE @,
                          !.last  = IF @ = a THEN p ELSE @,
                          !.items = @ - 1]

(* P2PmsgDesc_SortinItem's search: one pass, and the bounds it narrows to *)
Narrow(nm, b) ==
  LET mid == (b[1] + b[2]) \div 2 IN
  IF b[2] <= b[1] + 1 THEN b
  ELSE IF Less(NameAt(mid), nm) THEN <<mid + 1, b[2]>>
  ELSE IF Greater(NameAt(mid), nm) THEN <<b[1], mid - 1>>
  ELSE <<mid, b[2]>>
Narrowed(nm) ==
  LET f[k \in 0 .. desc.items] ==
          IF k = 0 THEN <<0, desc.items - 1>> ELSE Narrow(nm, f[k-1])
  IN f[desc.items]

(* slip: only the lower bound of the search is looked at *)
SortPlaceShort(nm) ==
  LET b == Narrowed(nm)   lo == FromFirst[b[1]] IN
  CASE desc.items = 0 -> <<None, None>>
    [] desc.items > 0 /\ Less(nm, NameAt(0)) -> <<None, desc.first>>
    [] OTHER -> IF Less(nm, item[lo].name) THEN <<item[lo].prev, lo>>
                ELSE <<lo, item[lo].next>>

(* P2PmsgDesc_SortinItem: where the new block goes; <<None, None>> where the code asserts *)
SortPlace(nm) ==
  LET b == Narrowed(nm)   lo == FromFirst[b[1]]   hi == FromFirst[b[2]] IN
  CASE desc.items = 0 -> <<None, None>>
    [] desc.items > 0 /\ Less(nm, NameAt(0)) -> <<None, desc.first>>
    [] desc.items > 0 /\ ~ Less(nm, NameAt(0)) /\ Greater(nm, NameAt(desc.items - 1))
         -> <<FromFirst[desc.items - 1], None>>
    [] OTHER -> IF Less(nm, item[lo].name) THEN <<item[lo].prev, lo>>
                ELSE IF Less(nm, item[hi].name) THEN <<item[hi].prev, hi>>
                ELSE IF Less(item[hi].name, nm) THEN <<hi, item[hi].next>>
                ELSE <<None, None>>

(* the block the arena hands out: the lowest that is free *)
Alloc == CHOOSE a \in Addr \ Linked : \A b \in Addr \ Linked : a <= b

(* P3PmsgDesc::PushBack: the block allocated goes where the permission says *)
Push(nm) == LET place == IF desc.sorted THEN SortPlace(nm) ELSE <<desc.last, None>>
            IN Linked # Addr /\ LinkIn(nm, place[1], Alloc, place[2])

-----------------------------------------------------------------------------
(* slip: the tail is taken for the ordinal that is the count *)
IndexedByCount(r, i) ==
  LET x == IF i <= desc.items \div 2 THEN FromFirst[i]
           ELSE IF i <= desc.items THEN FromLast[desc.items - i] ELSE None
  IN IF r.n = i /\ r.at # None THEN r
     ELSE IF x = None THEN [n |-> desc.items, at |-> None] ELSE [n |-> i, at |-> x]

(* P3PmsgCurs::Goto(int): the cache answers first; otherwise the shorter way along the chain *)
Indexed(r, i) ==
  LET x == IF i <= desc.items \div 2 THEN FromFirst[i]
           ELSE IF i < desc.items THEN FromLast[desc.items - 1 - i] ELSE None
  IN IF r.n = i /\ r.at # None THEN r
     ELSE IF x = None THEN [n |-> desc.items, at |-> None] ELSE [n |-> i, at |-> x]

(* P3PmsgCurs::Goto(name): the item it stands on answers first; otherwise the first of that name *)
NamedItem(r, nm) ==
  LET hits == {k \in DOMAIN FromFirst : FromFirst[k] # None /\ NameAt(k) = nm}
      k == CHOOSE i \in hits : \A j \in hits : i <= j
  IN IF r.at # None /\ item[r.at].name = nm THEN r
     ELSE IF hits = {} THEN Blank ELSE [n |-> k, at |-> FromFirst[k]]

Seek(c, r) == curs' = [curs EXCEPT ![c] = r]

GotoIndex(c, i) == Seek(c, Indexed(curs[c], i)) /\ UNCHANGED <<desc, item, job>>

GotoName(c, nm) == Seek(c, NamedItem(curs[c], nm)) /\ UNCHANGED <<desc, item, job>>

(* P3PmsgCurs::operator -- : refused before the start; an ordinal past the end is pulled back *)
StepBack(c) ==
  LET n == IF curs[c].n > desc.items THEN desc.items ELSE curs[c].n IN
  /\ curs[c].n >= 0
  /\ Seek(c, IF curs[c].n = 0 \/ desc.items = 0 THEN [n |-> -1, at |-> None]
             ELSE Indexed(curs[c], n - 1))
  /\ UNCHANGED <<desc, item, job>>

(* P3PmsgCurs::operator ++ : refused past the end; the last item leads to nowhere *)
StepOn(c) ==
  /\ curs[c].n < desc.items
  /\ Seek(c, IF curs[c].n >= desc.items - 1 THEN [n |-> Beyond, at |-> None]
             ELSE Indexed(curs[c], curs[c].n + 1))
  /\ UNCHANGED <<desc, item, job>>

(* P3PmsgCurs::Delete; through a cursor left on a freed block it is out of the model *)
DeleteAt(c, at) == at \in Linked /\ UnLink(at) /\ Seek(c, Blank)

Delete(c) == DeleteAt(c, curs[c].at) /\ UNCHANGED job

-----------------------------------------------------------------------------
(* P3PmsgDesc::operator += *)
PushBack(nm) ==
  /\ desc.sorted /\ ~ Duplicates => \A a \in Linked : item[a].name # nm
  /\ Push(nm)
  /\ UNCHANGED <<curs, job>>

(* P3PmsgDesc::DeclareItem: found by the own cursor, or pushed and then found *)
DeclareItem(nm) ==
  LET r == NamedItem(curs[Own], nm) IN
  /\ \/ r.at # None /\ Seek(Own, r) /\ UNCHANGED <<desc, item>>
     \/ /\ r.at = None /\ Push(nm)
        /\ Seek(Own, [n |-> CHOOSE k \in DOMAIN FromFirst : FromFirst'[k] = Alloc, at |-> Alloc])
  /\ UNCHANGED job

(* P3PmsgDesc::Delete(name) *)
DeleteName(nm) == DeleteAt(Own, NamedItem(curs[Own], nm).at) /\ UNCHANGED job

(* slip: an adjacent pair is treated as two items apart *)
SwapApart(a, b) ==
  LET twin(x) == IF x = a THEN b ELSE IF x = b THEN a ELSE x IN
  /\ desc' = [desc EXCEPT !.first = twin(@), !.last = twin(@)]
  /\ item' = [x \in Addr |->
       IF x \in {a, b} THEN [item[x] EXCEPT !.prev = item[twin(x)].prev, !.next = item[twin(x)].next]
       ELSE IF x \in Linked THEN [item[x] EXCEPT !.prev = twin(@), !.next = twin(@)]
       ELSE item[x]]

(* P2PmsgDesc_Swap: the ends, then each neighbour, with the adjacent pair apart *)
SwapLinks(a, b) ==
  LET twin(x) == IF x = a THEN b ELSE IF x = b THEN a ELSE x IN
  /\ desc' = [desc EXCEPT !.first = twin(@), !.last = twin(@)]
  /\ item' = [x \in Addr |->
       LET old == IF x \in {a, b} THEN item[twin(x)] ELSE item[x] IN
       IF x \in Linked
         THEN [item[x] EXCEPT !.prev = twin(old.prev), !.next = twin(old.next)]
         ELSE item[x]]

Swap(a, b) == {a, b} \subseteq Linked /\ a # b /\ SwapLinks(a, b) /\ UNCHANGED <<curs, job>>

-----------------------------------------------------------------------------
(* the loops: each keeps its ordinal, a cursor of its own or the collection's *)

(* P2PmsgDesc_WCDelete: Goto(i), Delete if the name matches, i++ *)
WCDelete(P) == job' = [op |-> "wild", i |-> 0, cur |-> Blank, names |-> P]
               /\ UNCHANGED <<desc, item, curs>>
WildStep ==
  LET r == Indexed(job.cur, job.i) IN
  /\ job.op = "wild" /\ UNCHANGED curs
  /\ IF r.at = None THEN job' = Idle /\ UNCHANGED <<desc, item>>
     ELSE IF item[r.at].name \in job.names
       THEN UnLink(r.at) /\ job' = [job EXCEPT !.i = @ + 1, !.cur = Blank]
       ELSE job' = [job EXCEPT !.i = @ + 1, !.cur = r] /\ UNCHANGED <<desc, item>>

(* P3PmsgDesc::Truncate: while Goto(0) Delete; then the own cursor is deleted *)
Truncate == /\ Indexed(curs[Own], 0).at \in Linked \cup {None}
            /\ job' = [op |-> "truncate"] /\ UNCHANGED <<desc, item, curs>>
TruncateStep ==
  LET r == Indexed(curs[Own], 0) IN
  /\ job.op = "truncate"
  /\ IF r.at = None THEN Seek(Own, Blank) /\ job' = Idle /\ UNCHANGED <<desc, item>>
                    ELSE DeleteAt(Own, r.at) /\ UNCHANGED job

(* P3PmsgDesc::Delete(item): Goto(i) until the position is the item's *)
DeleteItem(a) ==
  /\ a \in Linked
  /\ job' = [op |-> "delete", i |-> 0, item |-> a, sure |-> Exact(curs[Own])]
  /\ UNCHANGED <<desc, item, curs>>
DeleteStep ==
  LET r == Indexed(curs[Own], job.i) IN
  /\ job.op = "delete"
  /\ IF r.at = job.item THEN DeleteAt(Own, r.at) /\ job' = Idle
     ELSE /\ Seek(Own, r) /\ UNCHANGED <<desc, item>>
          /\ job' = IF r.at = None THEN Idle ELSE [job EXCEPT !.i = @ + 1]

(* P2PmsgMgr_Sort: swap the first pair out of order and start again *)
Sort == /\ desc.items > 1
        /\ job' = [op |-> "sort", i |-> 1, cur |-> Blank]
        /\ UNCHANGED <<desc, item, curs>>
(* slip: the sort goes on instead of starting again *)
SortStepOn ==
  LET here == Indexed(job.cur, job.i)
      back == Indexed(here, job.i - 1) IN
  /\ job.op = "sort" /\ UNCHANGED curs
  /\ IF here.at = None THEN job' = Idle /\ UNCHANGED <<desc, item>>
     ELSE IF Before(item[here.at].name, item[back.at].name)
       THEN SwapLinks(back.at, here.at) /\ job' = [job EXCEPT !.i = @ + 1, !.cur = back]
       ELSE job' = [job EXCEPT !.i = @ + 1, !.cur = back] /\ UNCHANGED <<desc, item>>

(* slip: equal names are swapped too *)
SortStepEqual ==
  LET here == Indexed(job.cur, job.i)
      back == Indexed(here, job.i - 1) IN
  /\ job.op = "sort" /\ UNCHANGED curs
  /\ IF here.at = None THEN job' = Idle /\ UNCHANGED <<desc, item>>
     ELSE IF ~ Before(item[back.at].name, item[here.at].name)
       THEN /\ SwapLinks(back.at, here.at)
            /\ job' = [job EXCEPT !.i = 1, !.cur = Indexed(back, 0)]
       ELSE job' = [job EXCEPT !.i = @ + 1, !.cur = back] /\ UNCHANGED <<desc, item>>

SortStep ==
  LET here == Indexed(job.cur, job.i)
      back == Indexed(here, job.i - 1) IN
  /\ job.op = "sort" /\ UNCHANGED curs
  /\ IF here.at = None THEN job' = Idle /\ UNCHANGED <<desc, item>>
     ELSE IF Before(item[here.at].name, item[back.at].name)
       THEN /\ SwapLinks(back.at, here.at)
            /\ job' = [job EXCEPT !.i = 1, !.cur = Indexed(back, 0)]
       ELSE job' = [job EXCEPT !.i = @ + 1, !.cur = back] /\ UNCHANGED <<desc, item>>

-----------------------------------------------------------------------------
Init ==
  /\ desc \in [first : {None}, last : {None}, items : {0}, sorted : BOOLEAN]
  /\ item = [a \in Addr |-> Free]
  /\ curs = [c \in Curs |-> Blank]
  /\ job = Idle

Step == WildStep \/ TruncateStep \/ DeleteStep \/ SortStep

Call ==
  \/ \E c \in Curs \ {Own} : \/ \E i \in 0 .. Cardinality(Addr) : GotoIndex(c, i)
                             \/ StepOn(c) \/ StepBack(c) \/ Delete(c)
  \/ \E c \in Curs, nm \in Name : GotoName(c, nm)
  \/ \E nm \in Name : PushBack(nm) \/ DeclareItem(nm) \/ DeleteName(nm)
  \/ \E a, b \in Addr : Swap(a, b)
  \/ \E P \in Pattern : WCDelete(P)
  \/ \E a \in Addr : DeleteItem(a)
  \/ Truncate \/ Sort

Next == Step \/ (job = Idle /\ Call)

Spec == Init /\ [][Next]_vars /\ WF_vars(Step)

-----------------------------------------------------------------------------
(* the shape of the state *)
TypeOK ==
  LET Link == Addr \cup {None}
      Cursor == [n : -1 .. Cardinality(Addr) \cup {Beyond}, at : Link] IN
  /\ desc \in [first : Link, last : Link, items : 0 .. Cardinality(Addr), sorted : BOOLEAN]
  /\ item \in [Addr -> [linked : BOOLEAN, name : Name \cup {<<>>}, prev : Link, next : Link]]
  /\ curs \in [Curs -> Cursor]
  /\ job.op \in {"idle", "wild", "truncate", "delete", "sort"}

(* Forward and backward the chain visits the same blocks, every linked block is on it and the *)
(* count is its length (what P3PmsgDesc::AssertValid walks the chain to find out). *)
Threaded ==
  /\ Linked = {FromFirst[k] : k \in 0 .. desc.items - 1}
  /\ Cardinality(Linked) = desc.items
  /\ FromFirst[desc.items] = None /\ FromLast[desc.items] = None
  /\ \A k \in 0 .. desc.items - 1 : FromFirst[k] = FromLast[desc.items - 1 - k]

(* The chain is sound: of the type it has, and one ring of the items the count counts. *)
ChainSound == TypeOK /\ Threaded

(* A collection with the SORT permission stays in order, unless the caller swaps items himself: *)
(* P2PmsgDesc_SortinItem's search never puts an item past one it should precede. *)
SortedIn == [][(desc.sorted /\ Ascending /\ ~ \E a, b \in Addr : Swap(a, b)) => Ascending']_vars

(* Whatever a cursor still true to the chain is asked next is answered right: an ordinal from *)
(* whichever end P3PmsgCurs::Goto starts, a name with an item that bears it *)
(* if there is one. *)
GotoRight ==
  \A c \in Curs : Exact(curs[c]) =>
    /\ \A i \in 0 .. Cardinality(Addr) :
         Indexed(curs[c], i) = IF i < desc.items THEN [n |-> i, at |-> FromFirst[i]]
                                                 ELSE [n |-> desc.items, at |-> None]
    /\ \A nm \in Name : LET r == NamedItem(curs[c], nm) IN
         /\ Exact(r) /\ (r.at # None => item[r.at].name = nm)
         /\ r.at = None => \A a \in Linked : item[a].name # nm

(* Each loop does what it is for when it ends: Truncate leaves nothing, P2PmsgMgr_Sort leaves *)
(* the names in order, and Delete(item) has removed the item when the own cursor was true to *)
(* the chain at the call. *)
LoopsDeliver ==
  [][(job # Idle /\ job' = Idle) =>
       CASE job.op = "truncate" -> Linked' = {}
         [] job.op = "sort" -> Ascending'
         [] job.op = "delete" -> job.sure => ~ item'[job.item].linked
         [] OTHER -> TRUE]_vars

(* Every loop ends, though each runs on what its own deletions and swaps leave of the chain. *)
LoopsEnd == []<>(job = Idle)

(* The loops keep order and do their work, and none runs for ever. *)
LoopsSound == SortedIn /\ LoopsDeliver /\ LoopsEnd

=============================================================================
