------------------------------ MODULE DataCell ------------------------------
(***************************************************************************)
(* P3PmsgData: a typed value in the data space of a VBLock (P2Pmsg.cpp,    *)
(* P2PmsgVBLock.cpp).  A value that outgrows the space of its block moves  *)
(* to a data block of its own, and the cell keeps the address: the cell is *)
(* chained.  A growth frees the old chained block BEFORE it asks for the   *)
(* new one, and the heap may refuse.                                       *)
(*                                                                         *)
(* Cells and data blocks are VBLocks alike: mem[x] is the space x has and  *)
(* the descriptor in it.  Sizes are in units of two bytes; a value is a    *)
(* member of Value with a length; the bytes themselves, and the NULL mark  *)
(* no operation here decides by, are not modelled.                         *)
(***************************************************************************)
EXTENDS Integers, FiniteSets, NoValue

CONSTANTS Cell,       \* P3PmsgData cells: local objects or items of a message
          CellBlock,      \* a bound on the data blocks alive at once
          CellValue,      \* contents of text and blob cells
          CellLen,        \* Len[v]: the length of v
          Number,     \* contents of a scalar cell
          Hdr,        \* sizeof uDataAttr and uDataType
          Ptr,        \* sizeof the chain address in the heap's address mode
          CellHead,       \* Head[w]: sizeof vBlob08, vBlob16 or vBlob32
          MaxOf,      \* MaxOf[w]: the longest content that width can count
          LocalRoom,  \* the data space of a cell that is not in a message
          Slack,      \* what Alloc may add to a request
          CellKind        \* the kinds of text and blob that cells are made of

Width == DOMAIN CellHead
Widest == CHOOSE w \in Width : \A u \in Width : u <= w

\* BSTR and WSTR are laid out alike: TEXT.  The 'var' kinds keep their whole
\* capacity when they are copied.
BlobType == [fam : {"TEXT", "BLOB"}, w : Width, var : BOOLEAN]

ASSUME CellAssumption ==
  /\ Cell \cap CellBlock = {} /\ None \notin Cell \cup CellBlock \cup CellValue \cup Number
  /\ CellLen \in [CellValue -> Nat]
  /\ Hdr \in Nat /\ Ptr \in Nat \ {0} /\ LocalRoom \in Nat /\ Slack \in Nat
  /\ Widest \in Nat \ {0} /\ Width = 1 .. Widest
  /\ CellHead \in [Width -> Nat] /\ MaxOf \in [Width -> Nat \ {0}]
  /\ \A u, w \in Width : u < w => CellHead[u] <= CellHead[w] /\ MaxOf[u] <= MaxOf[w]
  /\ Hdr + CellHead[Widest] <= LocalRoom /\ Hdr + Ptr <= LocalRoom /\ Hdr < LocalRoom
  /\ CellKind \subseteq BlobType

VARIABLES cellMem,   \* the blocks: cells and data blocks
          want,  \* what the last write that returned left in each cell
          lost,  \* cells whose chain was freed for a growth that was refused,
                 \* and copies of those
          stray  \* data blocks left behind with nothing leading to them

cellVars == <<cellMem, want, lost, stray>>
-----------------------------------------------------------------------------
\* Types.
Plain(f) == [fam |-> f, w |-> 1, var |-> FALSE]
NullType == Plain("NULL")
IntType == Plain("INT")
CellChained == Plain("CHAIN")
Type == BlobType \cup {NullType, IntType, CellChained}
IsBlob(t) == t.fam \in {"TEXT", "BLOB"}

Larger(a, b) == IF a > b THEN a ELSE b
Smaller(a, b) == IF a < b THEN a ELSE b

\* VBLockData_Sizeof of a type with n units of content.
SizeofMin == Hdr + Ptr
SizeofUv(t, n) == CASE t.fam = "NULL" -> 0
                    [] t.fam = "INT" -> 1
                    [] t.fam = "CHAIN" -> Ptr
                    [] OTHER -> CellHead[t.w] + n
Sizeof(t, n) == Larger(Hdr + SizeofUv(t, n), SizeofMin)

\* VBLockData_Sizeof of a cell: what it uses; for a var blob, its capacity.
SizeofData(d) == Sizeof(d.type, IF d.type.fam = "BLOB" /\ d.type.var THEN d.size ELSE d.used)

\* (A mutant: the clamp tests the space and not what the descriptor leaves.)
CapacityOfSpace(t, n) == IF n > MaxOf[t.w] THEN MaxOf[t.w] ELSE n - Hdr - CellHead[t.w]
\* (A mutant: no clamp.)
CapacityUnclamped(t, n) == IF n < Hdr + CellHead[t.w] THEN MaxOf[t.w] ELSE n - Hdr - CellHead[t.w]
\* The capacity InitBlob derives from n units of space.  The subtraction is
\* unsigned: with less than a descriptor it wraps, and the clamp answers.
Capacity(t, n) == IF n < Hdr + CellHead[t.w] THEN MaxOf[t.w]
                  ELSE Smaller(MaxOf[t.w], n - Hdr - CellHead[t.w])
InitFits(t, n) == IsBlob(t) => n >= CellHead[t.w]
Described(x, t, n) ==
  IF IsBlob(t) THEN [x EXCEPT !.type = t, !.size = Capacity(t, n), !.used = 0, !.val = None]
               ELSE [x EXCEPT !.type = t, !.val = None]

\* WidenBlob: the narrowest width of the family, from this one up, that counts n.
Widened(t, n) == [t EXCEPT !.w = CHOOSE u \in t.w .. Widest :
                    /\ MaxOf[u] >= n \/ u = Widest
                    /\ \A s \in t.w .. u - 1 : MaxOf[s] < n]

Gone == [live |-> FALSE, room |-> 0, type |-> NullType,
         size |-> 0, used |-> 0, val |-> None, next |-> None]
CellRoom(n) == [Gone EXCEPT !.live = TRUE, !.room = n]

\* (A mutant: the space inline is written although the value is chained.)
Here(m, c) == c
\* P2PmsgObject_pData: the block that holds c's value.
CellAt(m, c) == IF m[c].type = CellChained THEN m[c].next ELSE c
Data(m, c) == m[CellAt(m, c)]
\* c_str, c_wstr, c_vBlob: the content that is there.
Reads(m, c) == Data(m, c).val

\* NewVBLockData first frees the chained block.  Its type comes inline; the
\* zeroed address lies over the size; the count of what is used may lie past it.
\* (A mutant: the chained block is forgotten, not freed.)
UnchainOnly(m, c) ==
  IF m[c].type # CellChained THEN m
  ELSE [m EXCEPT ![c] = [@ EXCEPT !.type = Data(m, c).type,
                                  !.size = 0, !.used = 0, !.val = None, !.next = None]]
Unchain(m, c) ==
  IF m[c].type # CellChained THEN m
  ELSE [m EXCEPT ![c] = [@ EXCEPT !.type = Data(m, c).type,
                                  !.size = 0, !.used = 0, !.val = None, !.next = None],
                 ![m[c].next] = Gone]

\* NewVBLockData(n): refused, or a block of at least n described for n units
\* under the cell's own type.  A descriptor that does not fit throws with the
\* block allocated and nothing leading to it.
Stale(m, c) == IF IsBlob(m[c].type) /\ CellHead[m[c].type.w] - 1 > Ptr THEN {0, 1} ELSE {0}
CellRefused(m, c) ==
  LET m0 == Unchain(m, c)
  IN IF m[c].type # CellChained THEN {[ok |-> FALSE, m |-> m, b |-> None]}
     ELSE {[ok |-> FALSE, m |-> [m0 EXCEPT ![c].used = n], b |-> None] : n \in Stale(m0, c)}
Offered(m, c, n, b, r) ==
  IF InitFits(m[c].type, n)
  THEN [ok |-> TRUE, b |-> b,
        m |-> [m EXCEPT ![b] = Described(CellRoom(r), m[c].type, n),
                        ![c] = [@ EXCEPT !.type = CellChained, !.size = 0, !.used = 0,
                                         !.val = None, !.next = b]]]
  ELSE [ok |-> FALSE, b |-> b, m |-> [m EXCEPT ![b] = CellRoom(r)]]
Granted(m, c, n) ==
  LET m0 == Unchain(m, c)
  IN {Offered(m0, c, n, b, r) : b \in {x \in CellBlock : ~m0[x].live}, r \in n .. n + Slack}
Grown(m, c, n) == CellRefused(m, c) \cup Granted(m, c, n)

\* BlobCopy: the bytes and their count.
BlobCopied(x, v) == [x EXCEPT !.used = CellLen[v], !.val = v]

\* VBLockData_Copy into x, past its check of the two sizes.
Copied(x, s) == [x EXCEPT !.type = s.type, !.used = s.used, !.val = s.val,
                          !.size = IF s.type.var THEN s.size ELSE s.used]

-----------------------------------------------------------------------------
\* What a write leaves that returns, and one that throws for want of a block.
\* An empty write to a cell that lost its value finds room in no space at all.
DescriptorFits(d) == IsBlob(d.type) => Hdr + CellHead[d.type.w] <= d.room
Wrote(c, m, v) ==
  /\ cellMem' = m /\ want' = [want EXCEPT ![c] = v]
  /\ lost' = IF DescriptorFits(Data(m, c)) THEN lost \ {c} ELSE lost
  /\ UNCHANGED stray
CopiedOf(c, m, s) ==
  /\ cellMem' = m /\ want' = [want EXCEPT ![c] = Reads(cellMem, s)]
  /\ lost' = IF s \in lost THEN lost \cup {c} ELSE lost \ {c}
  /\ UNCHANGED stray
Failed(c, g) ==
  /\ cellMem' = g.m
  /\ lost' = IF cellMem[c].type = CellChained THEN lost \cup {c} ELSE lost
  /\ stray' = stray \cup ({g.b} \ {None})
  /\ UNCHANGED want

\* (A mutant: the cell is given the wider type before the heap has agreed.)
WriteAsAtOnce(c, t, v) ==
  LET a == CellAt(cellMem, c)
      typed == [cellMem EXCEPT ![a].type = t]
  IN IF Data(cellMem, c).size >= CellLen[v]
     THEN Wrote(c, [cellMem EXCEPT ![a] = BlobCopied(@, v)], v)
     ELSE IF MaxOf[t.w] < CellLen[v] THEN UNCHANGED cellVars
     ELSE \E g \in Grown(typed, c, Sizeof(t, CellLen[v])) :
            IF g.ok THEN Wrote(c, [g.m EXCEPT ![g.b] = BlobCopied(Described(@, t, @.room), v)], v)
                    ELSE Failed(c, g)
\* c_memcpy and c_wcscpy (t: the cell's type) and c_vBlob (t: widened).
WriteAs(c, t, v) ==
  LET a == CellAt(cellMem, c)
      blob(m, b) == [m EXCEPT ![b] = BlobCopied(Described(@, t, @.room), v)]
  IN IF Data(cellMem, c).size >= CellLen[v]
     THEN Wrote(c, [cellMem EXCEPT ![a] = BlobCopied(@, v)], v)
     ELSE IF MaxOf[t.w] < CellLen[v]
     THEN UNCHANGED cellVars                              \* "Buffer overrun ... blocked"
     ELSE \E g \in Grown(cellMem, c, Sizeof(t, CellLen[v])) :
            IF g.ok THEN Wrote(c, blob(g.m, g.b), v) ELSE Failed(c, g)

Memcpy(c, v) ==
  /\ cellMem[c].live /\ IsBlob(Data(cellMem, c).type)
  /\ WriteAs(c, Data(cellMem, c).type, v)
WriteBlob(c, v) ==
  /\ cellMem[c].live /\ IsBlob(Data(cellMem, c).type)
  /\ WriteAs(c, Widened(Data(cellMem, c).type, CellLen[v]), v)

\* The typed writers throw on any other type.
SetNumber(c, i) ==
  /\ cellMem[c].live /\ Data(cellMem, c).type = IntType
  /\ Wrote(c, [cellMem EXCEPT ![CellAt(cellMem, c)] = [@ EXCEPT !.val = i]], i)

\* operator =
CellAssign(c, s) ==
  /\ c # s /\ cellMem[c].live /\ cellMem[s].live
  /\ LET src == Data(cellMem, s)
         n == SizeofData(src)
     IN IF Data(cellMem, c).room >= n
        THEN CopiedOf(c, [cellMem EXCEPT ![CellAt(cellMem, c)] = Copied(@, src)], s)
        ELSE \E g \in Grown(cellMem, c, n) :
               IF g.ok THEN CopiedOf(c, [g.m EXCEPT ![g.b] = Copied(@, src)], s)
                       ELSE Failed(c, g)

\* Constructors of a cell of its own; a longer content than the type can
\* count throws, and there is no cell.
NewNumber(c, i) ==
  /\ ~cellMem[c].live
  /\ Wrote(c, [cellMem EXCEPT ![c] = [CellRoom(LocalRoom) EXCEPT !.type = IntType, !.val = i]], i)
NewBlob(c, t, v) ==
  /\ ~cellMem[c].live /\ CellLen[v] <= MaxOf[t.w]
  /\ LET m == [cellMem EXCEPT ![c] = Described(CellRoom(LocalRoom), t, LocalRoom)]
     IN IF m[c].size >= CellLen[v]
        THEN Wrote(c, [m EXCEPT ![c] = BlobCopied(@, v)], v)
        ELSE \E g \in Granted(m, c, Sizeof(t, CellLen[v])) :
               g.ok /\ Wrote(c, [g.m EXCEPT ![g.b] = BlobCopied(Described(@, t, @.room), v)], v)

\* PushBack: the item is sized for s's value, initialised as s's type and
\* assigned from s.  The data space is what the item's name leaves of it, and
\* the two that lay it out have to agree on its size.
SizeofItem(src) == SizeofData(src)
InitItem(src, r) == Described(CellRoom(r), src.type, SizeofData(src))
Declare(c, s) ==
  /\ ~cellMem[c].live /\ cellMem[s].live
  /\ LET src == Data(cellMem, s)
     IN \E r \in SizeofItem(src) .. SizeofItem(src) + Slack :
          CopiedOf(c, [cellMem EXCEPT ![c] = Copied(InitItem(src, r), src)], s)

\* The destructor of a local cell, or DropData and the item's own Free.
CellDrop(c) ==
  /\ cellMem[c].live
  /\ Wrote(c, [Unchain(cellMem, c) EXCEPT ![c] = Gone], None)

CellInit ==
  /\ cellMem = [x \in Cell \cup CellBlock |-> Gone]
  /\ want = [c \in Cell |-> None]
  /\ lost = {} /\ stray = {}

CellNext == \E c \in Cell :
  \/ \E v \in CellValue : Memcpy(c, v) \/ WriteBlob(c, v)
  \/ \E i \in Number : SetNumber(c, i) \/ NewNumber(c, i)
  \/ \E s \in Cell : CellAssign(c, s) \/ Declare(c, s)
  \/ \E t \in CellKind, v \in CellValue : NewBlob(c, t, v)
  \/ CellDrop(c)

CellSpec == CellInit /\ [][CellNext]_cellVars
-----------------------------------------------------------------------------
VBLockSet == [live : BOOLEAN, room : Nat, type : Type, size : Nat,
              used : Nat, val : CellValue \cup Number \cup {None}, next : CellBlock \cup {None}]

\* Every block and every descriptor in it is well formed, and a width counts
\* what its descriptors declare.
CellTypeOK ==
  /\ cellMem \in [Cell \cup CellBlock -> VBLockSet]
  /\ \A x \in Cell \cup CellBlock : IsBlob(cellMem[x].type) => cellMem[x].size <= MaxOf[cellMem[x].type.w]
  /\ want \in [Cell -> CellValue \cup Number \cup {None}]
  /\ lost \subseteq Cell /\ stray \subseteq CellBlock

\* The capacity a text or blob descriptor declares lies within the space of
\* its block, and its content within the capacity: InitBlob, the copies and
\* the growth agree on what a block holds (P2PmsgVBLock.cpp:1339).
Contained == \A c \in Cell \ lost :
  LET d == Data(cellMem, c)
  IN cellMem[c].live /\ IsBlob(d.type) =>
       Hdr + CellHead[d.type.w] + d.size <= d.room /\ d.used <= d.size

\* A data block belongs to one cell, chains are one link long, and every live
\* block is reached or was left by a throw: growing, assigning and dropping
\* cells neither share a block nor forget one.
CellOneOwner ==
  /\ \A c \in Cell : cellMem[c].type = CellChained =>
       /\ cellMem[c].next \in CellBlock /\ cellMem[cellMem[c].next].live
       /\ cellMem[cellMem[c].next].type # CellChained
  /\ \A c, d \in Cell : cellMem[c].type = CellChained /\ cellMem[d].type = CellChained
                          /\ cellMem[c].next = cellMem[d].next => c = d
  /\ {b \in CellBlock : cellMem[b].live} =
       {cellMem[c].next : c \in {d \in Cell : cellMem[d].type = CellChained}} \cup stray

\* A cell reads what the last write that returned put there, whatever was
\* refused, grown, widened or dropped meanwhile, in this cell or another; a
\* cell whose growth was refused after its chain was freed reads what was
\* written since, or nothing that ever was.
CellReadsBack == \A c \in Cell : cellMem[c].live =>
  Reads(cellMem, c) \in IF c \in lost THEN {None, want[c]} ELSE {want[c]}

\* The cells are sound: what they declare they have, what they chain to is
\* theirs alone, and what they read is what was written.
CellSound == CellTypeOK /\ Contained /\ CellOneOwner /\ CellReadsBack
=============================================================================
