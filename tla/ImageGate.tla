------------------------------ MODULE ImageGate ------------------------------
(***************************************************************************)
(* The gate an image passes when a store is loaded, and the handle that    *)
(* comes out of it.  CreateIOMAGE(image, length) and its BSTRio twin walk  *)
(* the image under P2PmsgHeap_UntrustedGate, where a walk only answers     *)
(* yes or no; Load refuses the file on a no.  Here the image is the one    *)
(* the allocator of VBHeap has just written, whatever calls came before,   *)
(* and the handle made from it goes on allocating.                         *)
(***************************************************************************)
EXTENDS MCVBHeap

CONSTANT Sync      \* sizeof(VBListIOmage::oSync), the part of First ahead of the root

ASSUME SyncAssumption == Sync \in Nat /\ Sync < First

VARIABLES form,     \* the layout: "IOMAGE", a message's, or "BSTRio", a manager's
          loaded    \* the heap at hand came out of a file

gvars == <<vars, form, loaded>>
-----------------------------------------------------------------------------
(* The walks.  A header is an image's own when an address is in Blocks.    *)

\* P2PmsgHeap_BlockFits: a whole control block of the heap's mode lies at a.
BlockFits(a) == a > 0 /\ a < end /\ a \in Blocks /\ a + VBHeapMin <= end

\* P2PmsgHeap_AssertValidFree: a is free, and its two neighbours on the list
\* are free blocks that lead back to it.
ValidFree(a) ==
  /\ BlockFits(a) /\ a \in Free
  /\ prev[a] # 0 => BlockFits(prev[a]) /\ prev[a] \in Free /\ next[prev[a]] = a
  /\ next[a] # 0 => BlockFits(next[a]) /\ next[a] \in Free /\ prev[next[a]] = a

\* P2PmsgHeap_ValidAllocBSTRio, which is the IOMAGE arm's too.
ValidAlloc(a) == BlockFits(a) /\ a \in Used

\* The walk of the free list: its k-th block, 0 once it has ended or met an
\* address that is no block.
FreeWalk[k \in 0 .. MaxBlocks] ==
  IF k = 0 THEN root.free
  ELSE IF BlockFits(FreeWalk[k - 1]) THEN next[FreeWalk[k - 1]] ELSE 0

Listed == {FreeWalk[k] : k \in 0 .. MaxBlocks} \ {0}

\* P2PmsgHeap_AssertValidIOMAGE, P2PmsgHeap_AssertValidBSTRio: the root's two
\* ends agree, every block listed is a valid free one, the list ends within
\* MaxBlocks, and the root's figures are what the walk counted.
FreeListHolds ==
  /\ root.free = 0 <=> root.freeLast = 0
  /\ FreeWalk[MaxBlocks] = 0
  /\ \A a \in Listed : /\ ValidFree(a)
                       /\ a = root.free => prev[a] = 0
                       /\ a = root.freeLast => next[a] = 0
  /\ root.freeSize = SumFunctionOnSet(size, Listed)
  /\ root.freeItems = Cardinality(Listed)

\* The walk by step: the k-th header met from First, 0 past the end of the
\* arena and -1 once a header does not fit or its step leads nowhere.
StepWalk[k \in 0 .. MaxBlocks] ==
  IF k = 0 THEN First
  ELSE LET a == StepWalk[k - 1] IN
         IF a <= 0 THEN a
         ELSE IF ~BlockFits(a) \/ size[a] = 0 \/ size[a] > end THEN -1
         ELSE IF After(a) < end THEN After(a) ELSE 0

Stepped == {StepWalk[k] : k \in 0 .. MaxBlocks} \ {0, -1}

\* P2PmsgHeap_AssertVBlocksIOMAGE: every header met is a valid block of its
\* sort, and the root's four counters are the walk's.
BlocksHold ==
  /\ StepWalk[MaxBlocks] = 0
  /\ \A a \in Stepped : ValidFree(a) \/ ValidAlloc(a)
  /\ root.freeSize = SumFunctionOnSet(size, Stepped \cap Free)
  /\ root.allocSize = SumFunctionOnSet(size, Stepped \cap Used)
  /\ root.freeItems = Cardinality(Stepped \cap Free)
  /\ root.allocItems = Cardinality(Stepped \cap Used)

\* What CreateIOMAGE(image, length) asks of an image: the two walks, and that
\* the block Load will connect to is one in use.
AcceptsIOMAGE ==
  FreeListHolds /\ BlocksHold /\ (root.alloc # 0 => ValidAlloc(root.alloc))

\* What CreateBSTRio(image, length) asks: the three root offsets point among
\* the blocks, and the walk by step (P2PmsgHeap_AssertVBlocksBSTRio) holds.
AcceptsBSTRio ==
  /\ \A a \in {root.alloc, root.free, root.freeLast} \ {0} : First <= a /\ a < end
  /\ BlocksHold
-----------------------------------------------------------------------------
(* The handle of a loaded heap.                                            *)

\* CreateIOMAGE(image) counts the root among the bytes in use, and takes the
\* free bytes off; CreateBSTRio(image) takes the root's own figure.
UsedOfIOMAGEWhole == end - Sync
UsedOfIOMAGE ==
  LET whole == end - Sync IN
    IF root.freeSize <= whole THEN whole - root.freeSize ELSE whole
UsedOfBSTRio == root.allocSize

\* ... and mends a root that names no block in use ("swapover").
Swapover ==
  LET a == IF root.alloc = 0 THEN First ELSE root.alloc IN
    [root EXCEPT !.alloc = IF a = root.free THEN 0 ELSE a]

\* P2PmsgHeap_pIOmage: the length the sync header declares.
Declared == end

\* The bytes in the file: a message is written out whole by its sender, a
\* manager writes P2PmsgHeap_Sizeof bytes of the image it holds.
Written == IF form = "IOMAGE" /\ loaded THEN used ELSE Declared

\* Load of the file just written.  The tags were scrubbed from the image, and
\* nothing restores them in the copy.
Load ==
  /\ op.pc = "saving" /\ Declared <= Written
  /\ \/ /\ form = "IOMAGE" /\ AcceptsIOMAGE
        /\ used' = UsedOfIOMAGE /\ UNCHANGED root
     \/ /\ form = "BSTRio" /\ AcceptsBSTRio
        /\ used' = UsedOfBSTRio /\ root' = Swapover
  /\ Finish("ok")
  /\ loaded' = TRUE
  /\ UNCHANGED <<st, size, prev, next, foot, end, form>>

\* The block Load connects to, the root item of the manager, is never freed:
\* only the chains hung from it are.
KeepsRoot == root.alloc # 0 => st'[root.alloc] = "used"

GInit == Init /\ form \in {"IOMAGE", "BSTRio"} /\ loaded = FALSE
GNext == \/ Next /\ KeepsRoot /\ UNCHANGED <<form, loaded>>
         \/ Load
GSpec == GInit /\ [][GNext]_gvars
-----------------------------------------------------------------------------
\* "a round-trip case sitting next to the adversarial ones" (note in
\* CreateBSTRio): whatever was allocated, freed, merged and grown, the image
\* Save writes passes the gate of its layout, so that no store becomes
\* unreadable.
OwnImagePasses ==
  op.pc = "saving" => IF form = "IOMAGE" THEN AcceptsIOMAGE ELSE AcceptsBSTRio

\* "write the full image to a sibling temp file" (note in P2PmsgMgr::Save):
\* the file is as long as the image in it declares, which Load insists on.
FileHoldsImage == op.pc = "saving" => Declared <= Written

\* The guard of P2PmsgHeap_pIOmage ("the two CreateIOMAGE paths count
\* nSizeofUsed differently"): at any time the live bytes and the sync header
\* fit in the image, on a heap made here and on one loaded any number of times.
RoomForSync == used + Sync <= end

\* A loaded heap counts more bytes in use than it handed out; still a call is
\* never turned away at the door while a free block could serve it, or while
\* the arena could grow by what it asks for.
DoorIsHonest ==
  [][\A req \in Requests :
       LET n == Larger(req + Hdr, VBHeapMin) IN
         AllocCall(req) /\ outcome' = "full"
           => n > ArenaRoom /\ \A a \in Free : size[a] < n]_gvars

\* Before the first load the books are exact: counters, free list order and
\* tags are those of the blocks, also while the image is read or written.
KeptUntilLoad == ~loaded => Conserved /\ Accounting /\ GrowthOrder /\ TagsCurrent
=============================================================================
