---------------------------- MODULE MsgObject ----------------------------
(***************************************************************************)
(* P3PmsgObject (P2Pmsg.cpp): the handle every field, list, vector, name   *)
(* and value is built on.  An object names a block, and the block is       *)
(* either in the object's own array m_oVBLock or on a heap the object      *)
(* holds a counted reference on.  A standalone VALUE is copied with its    *)
(* object; a standalone ITEM is moved to a heap before it is first shared, *)
(* so that the copy is a second name for one item.  A value that outgrows  *)
(* its block keeps a chain pointer to a payload block on the heap.         *)
(*                                                                         *)
(* The state is the set of live objects, what each names and holds, the    *)
(* content of every array and block, and the heaps' reference counts.      *)
(***************************************************************************)
EXTENDS Naturals, FiniteSets, NoValue

CONSTANTS
    Object,      \* places in memory where a P3PmsgObject can live
    Heap,        \* heaps that can be created
    ObjectBlock,       \* addresses of blocks on the heaps; numbers, handed out in order
    CopyRefused  \* may the heap refuse the block a copied payload needs?

ASSUME ObjectAssumption ==
    /\ ObjectBlock \subseteq Nat
    /\ None \notin Object \cup Heap \cup ObjectBlock
    /\ IsFiniteSet(Object) /\ Object \cap ObjectBlock = {}
    /\ CopyRefused \in BOOLEAN

VARIABLE objectMem

Place == Object \cup ObjectBlock

\* m_aVBLock is "at", m_hVBList is "heap"; "content" and "chain" are what an
\* array or block holds, "home" the heap a block is allocated on, "refs" the
\* count of a heap, "owner" the field that made the object as a part of itself.
Memory == [live    : SUBSET Object,
           at      : [Object -> Place \cup {None}],
           heap    : [Object -> Heap \cup {None}],
           owner   : [Object -> Object \cup {None}],
           content : [Place -> {"free", "item", "value", "payload"}],
           chain   : [Place -> ObjectBlock \cup {None}],
           home    : [ObjectBlock -> Heap \cup {None}],
           refs    : [Heap -> Nat]]

ObjectInit == objectMem = [live    |-> {},
               at      |-> [o \in Object |-> None],
               heap    |-> [o \in Object |-> None],
               owner   |-> [o \in Object |-> None],
               content |-> [p \in Place |-> "free"],
               chain   |-> [p \in Place |-> None],
               home    |-> [b \in ObjectBlock |-> None],
               refs    |-> [h \in Heap |-> 0]]

Inline(s, o) == s.at[o] = o
Void(s, o) == s.at[o] = None /\ s.heap[o] = None

-----------------------------------------------------------------------------
(* The heap, as far as its holders see it.                                 *)

Spare(s) == {b \in ObjectBlock : s.home[b] = None}
Unborn(s) == {h \in Heap : s.refs[h] = 0}

ObjectAlloc(s, h, b, what) ==
    [s EXCEPT !.home[b] = h, !.content[b] = what, !.chain[b] = None]

ObjectFresh(s) == CHOOSE b \in Spare(s) : \A c \in Spare(s) : b <= c

ObjectFree(s, b) ==
    [s EXCEPT !.home[b] = None, !.content[b] = "free", !.chain[b] = None]

AddRef(s, h) == IF h = None THEN s ELSE [s EXCEPT !.refs[h] = @ + 1]

\* The last holder takes the heap and every block on it away.
Close(s, h) ==
    IF h = None THEN s
    ELSE LET gone == {b \in ObjectBlock : s.refs[h] = 1 /\ s.home[b] = h}
         IN  [s EXCEPT !.refs[h] = @ - 1,
                       !.home = [b \in ObjectBlock |-> IF b \in gone THEN None ELSE @[b]],
                       !.content = [p \in Place |-> IF p \in gone THEN "free" ELSE @[p]],
                       !.chain = [p \in Place |-> IF p \in gone THEN None ELSE @[p]]]

CreateSYS(s, o) ==
    LET h == CHOOSE g \in Unborn(s) : TRUE
    IN  [s EXCEPT !.heap[o] = h, !.refs[h] = 1]

-----------------------------------------------------------------------------
(* The private steps the operations share.                                 *)

\* RehomeInlineItem: the item leaves the array for a block on a heap; a value
\* block stays, and so does a block that is on a heap already.
\* A slip: declining because the object has a heap, wherever its block is.
RehomeByHeap(s, o) ==
    IF ~ Inline(s, o) \/ s.content[o] # "item" \/ s.heap[o] # None THEN s
    ELSE LET c == CreateSYS(s, o)
             b == ObjectFresh(s)
         IN  [ObjectAlloc(c, c.heap[o], b, "item") EXCEPT !.at[o] = b, !.content[o] = "free"]

RehomeInlineItem(s, o) ==
    IF ~ Inline(s, o) \/ s.content[o] # "item" THEN s
    ELSE LET c == IF s.heap[o] = None THEN CreateSYS(s, o) ELSE s
             b == ObjectFresh(s)
         IN  [ObjectAlloc(c, c.heap[o], b, "item") EXCEPT !.at[o] = b, !.content[o] = "free"]

\* CopyHeapVBLock: one more block like b, on the same heap.
CopyHeapVBLock(s, b) == ObjectAlloc(s, s.home[b], ObjectFresh(s), s.content[b])

\* PrivatiseInlineChain: the copy gets a payload of its own.  (The readers
\* loop over the links; growth keeps a chain one link long.)
PrivatiseInlineChain(s, o) ==
    IF s.heap[o] = None \/ ~ Inline(s, o) \/ s.chain[o] = None THEN s
    ELSE [CopyHeapVBLock(s, s.chain[o]) EXCEPT !.chain[o] = ObjectFresh(s)]

\* ReleaseInlineChain: gives the payload of an inline value back.
\* A slip: closing the heap only, as the destructor once did.
KeepInlineChain(s, o) == s

ReleaseInlineChain(s, o) ==
    IF s.heap[o] = None \/ ~ Inline(s, o) \/ s.chain[o] = None THEN s
    ELSE ObjectFree([s EXCEPT !.chain[o] = None], s.chain[o])

ObjectEmptied(s, o) ==
    [s EXCEPT !.at[o] = None, !.heap[o] = None, !.content[o] = "free", !.chain[o] = None]

\* Nullify.
Nullified(s, o) == ObjectEmptied(Close(ReleaseInlineChain(s, o), s.heap[o]), o)

\* The memcpy of a value's inline block, with the heap its payload is on.
ValueCopied(s, o, r) ==
    [s EXCEPT !.heap[o] = s.heap[r], !.at[o] = o,
              !.content[o] = s.content[r], !.chain[o] = s.chain[r]]

\* The share arm of Connect and of the copy constructor: a second name.
\* A slip: naming the block without a reference on its heap.
NamedUncounted(s, o, h, b) ==
    Close([ReleaseInlineChain(s, o) EXCEPT !.heap[o] = h, !.at[o] = b,
             !.content[o] = "free", !.chain[o] = None], s.heap[o])

Named(s, o, h, b) ==
    LET c == AddRef(ReleaseInlineChain(s, o), h)
    IN  Close([c EXCEPT !.heap[o] = h, !.at[o] = b,
                        !.content[o] = "free", !.chain[o] = None], s.heap[o])

\* Can the payload of r be copied?  Only if r keeps one on a heap.
Answers(s, r) == IF CopyRefused /\ Inline(s, r) /\ s.chain[r] # None THEN BOOLEAN ELSE {TRUE}

-----------------------------------------------------------------------------
(* The operations.  Each leaves the next state in mem.                     *)

Dead == Object \ objectMem.live

Born(s, o) == [s EXCEPT !.live = @ \cup {o}, !.owner[o] = None]

\* P3PmsgObject(): void.
Construct(o) == o \in Dead /\ objectMem' = Born(objectMem, o)

\* ConnectVBLock: a standalone value, in its own array.
ConnectVBLock(o) ==
    /\ o \in objectMem.live /\ Void(objectMem, o)
    /\ objectMem' = [objectMem EXCEPT !.at[o] = o, !.content[o] = "value"]

\* P3PmsgField::RenderThisSafe: a floating item, in its own array.
RenderThisSafe(o) ==
    /\ o \in objectMem.live /\ Void(objectMem, o)
    /\ objectMem' = [objectMem EXCEPT !.at[o] = o, !.content[o] = "item"]

\* The copy constructor.  When the heap refuses the payload the constructor
\* throws: there is no object to destroy, and the reference stays counted.
CopyConstruct(o, r, ok) ==
    /\ o \in Dead /\ r \in objectMem.live
    /\ ok \in Answers(objectMem, r)
    /\ LET s == RehomeInlineItem(objectMem, r)
           v == AddRef(ValueCopied(s, o, r), s.heap[r])
       IN  objectMem' = IF Void(s, r) THEN Born(s, o)
                  ELSE IF ~ Inline(s, r)
                       THEN [Born(AddRef(s, s.heap[r]), o) EXCEPT
                               !.at[o] = s.at[r], !.heap[o] = s.heap[r]]
                  ELSE IF ok THEN PrivatiseInlineChain(Born(v, o), o)
                  ELSE ObjectEmptied(v, o)

\* Connect(const P3PmsgObject&), from the state s.  When the heap refuses the
\* payload the call throws with the source's chain pointer in this object.
Connected(s, o, r, ok) ==
    LET q == RehomeInlineItem(s, r)
        v == ValueCopied(Nullified(AddRef(q, q.heap[r]), o), o, r)
    IN  IF o = r THEN s
        ELSE IF Void(s, r) THEN Nullified(s, o)
        ELSE IF Inline(q, r)
             THEN IF ok THEN PrivatiseInlineChain(v, o) ELSE v
        ELSE Named(q, o, q.heap[r], q.at[r])

Connect(o, r, ok) ==
    /\ {o, r} \subseteq objectMem.live
    /\ ok \in Answers(objectMem, r)
    /\ objectMem' = Connected(objectMem, o, r, ok)

\* operator=: Nullify, then Connect.
ObjectAssign(o, r, ok) ==
    /\ {o, r} \subseteq objectMem.live
    /\ ok \in Answers(objectMem, r)
    /\ objectMem' = IF o = r THEN objectMem ELSE Connected(Nullified(objectMem, o), o, r, ok)

\* Connectx: the object becomes a name for a block of the heap h.
Attached(s, o, h, b) ==
    IF s.heap[o] # h THEN Named(s, o, h, b)
    ELSE [ReleaseInlineChain(s, o) EXCEPT
            !.at[o] = b, !.content[o] = "free", !.chain[o] = None]

ObjectItems(h) == {b \in ObjectBlock : h # None /\ objectMem.home[b] = h /\ objectMem.content[b] = "item"}

Connectx(o, r, b) ==
    /\ {o, r} \subseteq objectMem.live
    /\ b \in ObjectItems(objectMem.heap[r])
    /\ objectMem' = Attached(objectMem, o, objectMem.heap[r], b)

\* GetParent, GetParentItem and GetObject answer with a new object that names
\* a block of this one's heap.
GetObject(o, r, b) ==
    /\ o \in Dead /\ r \in objectMem.live
    /\ b \in ObjectItems(objectMem.heap[r])
    /\ objectMem' = Attached(Born(objectMem, o), o, objectMem.heap[r], b)

Nullify(o) == o \in objectMem.live /\ objectMem.owner[o] = None /\ objectMem' = Nullified(objectMem, o)

\* r_Attr, r_Desc, r_Stck: a part the field makes and deletes itself, which
\* holds the field's heap.
MakePart(o, p) ==
    /\ o \in objectMem.live /\ p \in Dead
    /\ objectMem.owner[o] = None /\ objectMem.at[o] \in ObjectBlock
    /\ LET c == AddRef(Born(objectMem, p), objectMem.heap[o])
       IN  objectMem' = [c EXCEPT !.owner[p] = o, !.heap[p] = objectMem.heap[o], !.at[p] = objectMem.at[o]]

Parts(o) == {p \in objectMem.live : objectMem.owner[p] = o}

\* The destructor; a field's deletes the parts first.
Destroyed(s, o) == [Nullified(s, o) EXCEPT !.live = @ \ {o}, !.owner[o] = None]

Destroy(o) ==
    /\ o \in objectMem.live /\ Parts(o) = {}
    /\ objectMem' = Destroyed(objectMem, o)

\* A write that no longer fits: NewVBLockData frees the old payload, then
\* AllocVBLock makes the heap if there is none -- and moves the item onto it --
\* and allocates the new one, or is refused.
AllocVBLock(s, o) == IF s.heap[o] = None THEN RehomeInlineItem(CreateSYS(s, o), o) ELSE s

Grow(o, ok) ==
    /\ o \in objectMem.live /\ objectMem.at[o] # None
    /\ ok \in BOOLEAN
    /\ LET old == objectMem.chain[objectMem.at[o]]
           f == IF old = None THEN objectMem
                ELSE ObjectFree([objectMem EXCEPT !.chain[objectMem.at[o]] = None], old)
           s == AllocVBLock(f, o)
       IN  objectMem' = IF ok THEN [ObjectAlloc(s, s.heap[o], ObjectFresh(s), "payload") EXCEPT
                                !.chain[s.at[o]] = ObjectFresh(s)]
                  ELSE s

\* The bounds: a call is taken only while the model has the two blocks and
\* the one heap that a call can ask for.
ObjectRoom == Cardinality(Spare(objectMem)) >= 2 /\ Unborn(objectMem) # {}

ObjectNext ==
    /\ ObjectRoom
    /\ \E o \in Object :
         \/ Construct(o) \/ ConnectVBLock(o) \/ RenderThisSafe(o)
         \/ Nullify(o) \/ Destroy(o)
         \/ \E ok \in BOOLEAN : Grow(o, ok)
         \/ \E r \in Object :
              \/ MakePart(o, r)
              \/ \E b \in ObjectBlock : Connectx(o, r, b) \/ GetObject(o, r, b)
              \/ \E ok \in BOOLEAN : CopyConstruct(o, r, ok) \/ Connect(o, r, ok) \/ ObjectAssign(o, r, ok)

ObjectSpec == ObjectInit /\ [][ObjectNext]_objectMem

-----------------------------------------------------------------------------
(* IsSole and HeapHolders: the references a field and its parts hold.      *)

\* A slip: counting the field's own object twice.
HoldersTwice(o, h) == Cardinality({p \in {o} \cup Parts(o) : objectMem.heap[p] = h}) + 1

HeapHolders(o, h) == Cardinality({p \in {o} \cup Parts(o) : objectMem.heap[p] = h})

IsSole(o) ==
    /\ objectMem.at[o] # None
    /\ Inline(objectMem, o) \/ (objectMem.heap[o] # None /\ objectMem.refs[objectMem.heap[o]] = HeapHolders(o, objectMem.heap[o]))

-----------------------------------------------------------------------------
ObjectTypeOK == objectMem \in Memory

(***************************************************************************)
(* No object reads another object's array: what a live object names is its *)
(* own array or a block of the heap it holds.  (The copy that outlived the *)
(* local it was taken from read a dead stack frame.)  And an item is in an *)
(* array only until its object has a heap, so that every copy of it is a   *)
(* second name and never a second item.                                    *)
(***************************************************************************)
NoBorrowedArray ==
    \A o \in objectMem.live : objectMem.at[o] # None =>
        IF objectMem.at[o] = o THEN objectMem.content[o] = "item" => objectMem.heap[o] = None
        ELSE objectMem.at[o] \in ObjectBlock /\ objectMem.heap[o] # None /\ objectMem.home[objectMem.at[o]] = objectMem.heap[o]

(***************************************************************************)
(* Every payload has exactly one block that chains to it, and is on the    *)
(* heap that block's holder keeps open: copies do not alias, and a grown   *)
(* value copied and dropped leaves nothing behind on a heap still open.    *)
(***************************************************************************)
Holds(p) == IF p \in ObjectBlock THEN objectMem.home[p] ELSE objectMem.heap[p]
ObjectChained == {p \in Place : objectMem.chain[p] # None}

ObjectOneOwner ==
    /\ \A p, q \in ObjectChained : objectMem.chain[p] = objectMem.chain[q] => p = q
    /\ \A p \in ObjectChained : Holds(p) # None /\ objectMem.home[objectMem.chain[p]] = Holds(p)
    /\ \A b \in ObjectBlock : objectMem.content[b] = "payload" => \E p \in ObjectChained : objectMem.chain[p] = b

(***************************************************************************)
(* A heap's count is the number of objects that name it, so it closes with *)
(* its last holder, no sooner and no later.                                *)
(***************************************************************************)
Counted == \A h \in Heap : objectMem.refs[h] = Cardinality({o \in objectMem.live : objectMem.heap[o] = h})

(***************************************************************************)
(* "TRUE IS A GUARANTEE": while IsSole answers true, no object but the     *)
(* field and the parts it made names its block or its payload.             *)
(***************************************************************************)
SoleIsAlone ==
    \A o \in objectMem.live : IsSole(o) =>
        \A p \in objectMem.live \ ({o} \cup Parts(o)) :
            objectMem.at[p] # None =>
               /\ objectMem.at[p] # objectMem.at[o]
               /\ objectMem.chain[objectMem.at[p]] = None \/ objectMem.chain[objectMem.at[p]] # objectMem.chain[objectMem.at[o]]

(***************************************************************************)
(* The objects are sound: what each names is its own or its heap's, every  *)
(* payload and every heap has the holders it counts, and the one answer    *)
(* that permits a change in place is true.                                 *)
(***************************************************************************)
ObjectSafe == ObjectTypeOK /\ NoBorrowedArray /\ ObjectOneOwner /\ Counted /\ SoleIsAlone

=============================================================================
