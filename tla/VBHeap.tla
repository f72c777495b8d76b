------------------------------- MODULE VBHeap -------------------------------
(***************************************************************************)
(* The VBHeap allocator of MsgVBHeap.cpp, on an image this process built.  *)
(* The IOMAGE and the BSTRio arm run the same algorithm over two layouts;  *)
(* this module is both.  An image is a row of blocks from First to end.    *)
(* Free blocks are chained through their own prev/next fields, and a free  *)
(* block large enough keeps its size in its last bytes as well (the        *)
(* boundary tag), which is how Free finds the block before the one it is   *)
(* given.                                                                  *)
(*                                                                         *)
(* Addresses and sizes are small numbers; a block's payload is not         *)
(* modelled, except that a tag left inside it stays until it is written.   *)
(* The code is sequential.  Its loops (the free-list walk, and the "goto   *)
(* TOP" of Collate) are steps of their own, driven by op.pc.               *)
(***************************************************************************)
EXTENDS Integers, FiniteSets

CONSTANTS First,            \* offset of the first block: the end of the root
          SizeMax,          \* nSizeofMax, of the creator or of the addressing width
          InitSizes,        \* the nSizeInitial a heap may be created with
          Word,             \* sizeof(VBLsize), and the bytes Create adds
          Hdr,              \* P2PmsgHeap_Sizeof_Hdr
          VBHeapMin,        \* VBList_VBHeapMin: header and the two links
          FootMin,          \* P2PmsgHeap_FootMin: the same and a tag
          MaxFitWalk,       \* kMaxFitWalk
          MaxAllocResizes,  \* kMaxAllocResizes
          Requests,         \* the nSizeofBlock of callers
          Misuse            \* TRUE: callers may free a block twice

ASSUME LayoutAssumption ==
  /\ First \in Nat \ {0} /\ SizeMax \in Nat /\ Word \in Nat \ {0}
  /\ Hdr \in Nat \ {0} /\ VBHeapMin \in Nat /\ FootMin \in Nat
  /\ Hdr < VBHeapMin /\ VBHeapMin < FootMin

\* Create refuses an nSizeInitial above nSizeMax, and the image must hold its
\* root and a block.
ASSUME CreateAssumption ==
  \A s \in InitSizes : s \in Nat /\ s <= SizeMax /\ First + VBHeapMin <= s + Word

ASSUME CallAssumption ==
  /\ Requests \subseteq Nat
  /\ MaxFitWalk \in Nat \ {0} /\ MaxAllocResizes \in Nat
  /\ Misuse \in BOOLEAN

VARIABLES st,       \* what the header at an address says: "none", "free", "used"
          size,     \* the size in that header
          prev,     \* the links of a free block
          next,
          foot,     \* foot[e]: the size in the tag that ends just before e, or 0
          end,      \* nSizeofAlloc
          root,     \* the root's keys: aFree, aFreeLast, aAlloc and the counters
          used,     \* nSizeofUsed
          op,       \* the call being served
          outcome   \* how the last call ended

vars == <<st, size, prev, next, foot, end, root, used, op, outcome>>
-----------------------------------------------------------------------------
\* Create pads nSizeInitial after testing it, and the image it builds is
\* rounded up once more: no arena is larger than this.
Addr == First .. SizeMax + 2 * Word

Free == {a \in Addr : st[a] = "free"}
Used == {a \in Addr : st[a] = "used"}
Blocks == Free \cup Used

After(a) == a + size[a]
Larger(m, n) == IF m >= n THEN m ELSE n
Smaller(m, n) == IF m <= n THEN m ELSE n
RoundUp(n) == n + ((Word - (n % Word)) % Word)

NoOp == [pc |-> "idle", n |-> 0, cur |-> 0, best |-> 0, bestSize |-> 0,
         fits |-> 0, walked |-> 0, limit |-> 0, firstFit |-> FALSE, resizes |-> 0]

\* A new heap: one free block, with no tag yet.  nSizeofAlloc is the padded
\* size; the block is measured on that size rounded up.
Init ==
  \E s \in InitSizes :
    LET block == RoundUp(s + Word) - First IN
      /\ end = s + Word
      /\ st = [a \in Addr |-> IF a = First THEN "free" ELSE "none"]
      /\ size = [a \in Addr |-> IF a = First THEN block ELSE 0]
      /\ prev = [a \in Addr |-> 0]
      /\ next = [a \in Addr |-> 0]
      /\ foot = [a \in Addr |-> 0]
      /\ root = [free |-> First, freeLast |-> First, alloc |-> 0,
                 freeSize |-> block, freeItems |-> 1,
                 allocSize |-> 0, allocItems |-> 0]
      /\ used = 0
      /\ op = NoOp
      /\ outcome = "none"
-----------------------------------------------------------------------------
\* P2PmsgHeap_StampFoot: the tags f after the free block a of n bytes is
\* tagged, in an arena that stops at lim.
StampFoot(f, a, n, lim) ==
  IF n >= FootMin /\ a + n <= lim THEN [f EXCEPT ![a + n] = n] ELSE f

\* P2PmsgHeap_PrevFree: the free block that ends where a begins, if a tag
\* says so and the header it leads to agrees; 0 otherwise.
PrevFreeNever(a) == 0
PrevFree(a) ==
  LET p == a - foot[a] IN
    IF foot[a] >= FootMin /\ p \in Free /\ size[p] = foot[a] THEN p ELSE 0

\* P2PmsgHeap_IsolateIOMAGE / BSTRio: block b leaves the free list.
IsolatedNextDropsTail(b) ==
  [x \in Addr |-> IF x = b \/ x = prev[b] THEN 0 ELSE next[x]]
IsolatedPrevOneSided(b) == [prev EXCEPT ![b] = 0]
IsolatedNext(b) ==
  [x \in Addr |-> IF x = b THEN 0 ELSE IF x = prev[b] THEN next[b] ELSE next[x]]
IsolatedPrev(b) ==
  [x \in Addr |-> IF x = b THEN 0 ELSE IF x = next[b] THEN prev[b] ELSE prev[x]]
Isolated(b) ==
  LET back == IF prev[b] # 0 THEN prev[b] ELSE next[b]
      forth == IF next[b] # 0 THEN next[b] ELSE prev[b] IN
    [root EXCEPT !.alloc = IF @ = b THEN back ELSE @,
                 !.free = IF @ = b THEN back ELSE @,
                 !.freeLast = IF @ = b THEN forth ELSE @,
                 !.freeSize = @ - size[b],
                 !.freeItems = @ - 1]

\* P2PmsgHeap_ArenaRoom, and the growth Resize asks CapGrowth for: a fifth of
\* the arena when that is more than needed, clamped to the room.
ArenaRoomIgnoresEnd == SizeMax
ArenaRoom == IF SizeMax > end THEN SizeMax - end ELSE 0
CapGrowthBumpOnly(n) == Smaller(Larger(1, (end * 2) \div 10), ArenaRoom)
CapGrowth(n) == Smaller(Larger(n, (end * 2) \div 10), ArenaRoom)

\* P2PmsgHeap_MaxBlocks: more blocks than this cannot be in the arena.
MaxBlocksByPair == end \div (VBHeapMin + FootMin)
MaxBlocks == end \div Hdr + 1

\* The call ends.  Fields a block walk no longer needs are dropped.
Finish(how) == op' = NoOp /\ outcome' = how

\* The walk goes back to the head of the free list ("goto TOP").
Restart(o, head) ==
  [o EXCEPT !.pc = "visit", !.cur = head, !.best = 0, !.bestSize = 0,
            !.fits = 0, !.walked = 0]
-----------------------------------------------------------------------------
(* Collate: the free block op.cur absorbs the free blocks that follow it.  *)

\* Collate goes on: the next block is in the arena, free, and not empty.
CanAbsorbAny(a) == After(a) < end /\ After(a) \in Blocks
CanAbsorb(a) == After(a) < end /\ After(a) \in Free /\ size[After(a)] > 0

\* One pass of Collate's loop.  The absorbed header's defs byte is zeroed, so
\* its address is no block any more (the size left there is never read: 0).
AbsorbNoProgress ==
  op.pc \in {"collateA", "collateF", "collateP"} /\ CanAbsorb(op.cur) /\ UNCHANGED vars
Absorb ==
  /\ op.pc \in {"collateA", "collateF", "collateP"}
  /\ CanAbsorb(op.cur)
  /\ LET a == op.cur
         b == After(a)
         whole == size[a] + size[b] IN
       /\ root' = [Isolated(b) EXCEPT !.freeSize = @ + size[b]]
       /\ next' = IsolatedNext(b)
       /\ prev' = IsolatedPrev(b)
       /\ st' = [st EXCEPT ![b] = "none"]
       /\ size' = [x \in Addr |-> IF x = a THEN whole ELSE IF x = b THEN 0 ELSE size[x]]
       /\ foot' = StampFoot(foot, a, whole, end)
  /\ UNCHANGED <<end, used, op, outcome>>

\* The end of Collate: the block is tagged when a block in use follows it, and
\* left as it is when it ends the arena or no header follows.
CollatedFootUntagged(a) == foot
CollatedFoot(a) ==
  IF After(a) < end /\ After(a) \in Used THEN StampFoot(foot, a, size[a], end) ELSE foot
-----------------------------------------------------------------------------
(* P2PmsgHeap_Alloc *)

\* The call: the header is added, the size raised to the least block, and the
\* live figure tested.  The walk is bounded by P2PmsgHeap_MaxBlocks.
AllocCall(req) ==
  /\ op.pc = "idle"
  /\ LET n == Larger(req + Hdr, VBHeapMin) IN
       IF used + n > SizeMax
         THEN Finish("full")
         ELSE /\ op' = Restart([NoOp EXCEPT !.n = n, !.limit = MaxBlocks], root.free)
              /\ outcome' = "none"
  /\ UNCHANGED <<st, size, prev, next, foot, end, root, used>>

\* A free block is reached; it will be collated before it is measured.
Visit ==
  /\ op.pc = "visit" /\ op.cur # 0
  /\ IF op.walked + 1 > op.limit
       THEN Finish("cyclic")
       ELSE /\ op' = [op EXCEPT !.pc = "collateA", !.walked = @ + 1]
            /\ UNCHANGED outcome
  /\ UNCHANGED <<st, size, prev, next, foot, end, root, used>>

\* What would remain of a free block makes a block of its own.
SplittableToNothing(a) == size[a] - op.n > 0
Splittable(a) == size[a] - op.n >= VBHeapMin

\* Collate has returned to the walk.
Measured == op.pc = "collateA" /\ ~CanAbsorb(op.cur)

\* The block is too small: the walk goes on, and does not count it as a fit.
SkipSmallGivesUp ==
  /\ Measured /\ size[op.cur] < op.n
  /\ op' = [op EXCEPT !.pc = "visit", !.cur = 0]
  /\ foot' = CollatedFoot(op.cur)
  /\ UNCHANGED <<st, size, prev, next, end, root, used, outcome>>
SkipSmall ==
  /\ Measured /\ size[op.cur] < op.n
  /\ op' = [op EXCEPT !.pc = "visit", !.cur = next[op.cur]]
  /\ foot' = CollatedFoot(op.cur)
  /\ UNCHANGED <<st, size, prev, next, end, root, used, outcome>>

\* The block is taken at once: it cannot be split, or this is the first-fit pass.
TakeAtOnce ==
  /\ Measured /\ size[op.cur] >= op.n
  /\ op.firstFit \/ ~Splittable(op.cur)
  /\ op' = [op EXCEPT !.pc = "chosen", !.best = op.cur]
  /\ foot' = CollatedFoot(op.cur)
  /\ UNCHANGED <<st, size, prev, next, end, root, used, outcome>>

\* The block fits; the smallest of the first MaxFitWalk that fit is kept.
KeepBest ==
  /\ Measured /\ size[op.cur] >= op.n
  /\ ~op.firstFit /\ Splittable(op.cur)
  /\ LET better == op.best = 0 \/ size[op.cur] < op.bestSize
         last == op.fits + 1 >= MaxFitWalk IN
       op' = [op EXCEPT !.best = IF better THEN op.cur ELSE @,
                        !.bestSize = IF better THEN size[op.cur] ELSE @,
                        !.fits = @ + 1,
                        !.pc = IF last THEN "chosen" ELSE "visit",
                        !.cur = IF last THEN @ ELSE next[op.cur]]
  /\ foot' = CollatedFoot(op.cur)
  /\ UNCHANGED <<st, size, prev, next, end, root, used, outcome>>

\* The list ends with a candidate in hand.
WalkEnds ==
  /\ op.pc = "visit" /\ op.cur = 0 /\ op.best # 0
  /\ op' = [op EXCEPT !.pc = "chosen"]
  /\ UNCHANGED <<st, size, prev, next, foot, end, root, used, outcome>>

\* The list ends with none: the arena grows by CapGrowth, as a free block at
\* the tail of the list, and the walk starts again.
Grow ==
  /\ op.pc = "visit" /\ op.cur = 0 /\ op.best = 0
  /\ op.n <= ArenaRoom
  /\ IF op.resizes + 1 > MaxAllocResizes
       THEN /\ Finish("unsatisfied")
            /\ UNCHANGED <<st, size, prev, next, foot, end, root>>
       ELSE LET extra == CapGrowth(op.n)
                last == root.freeLast
                head == IF root.free = 0 THEN end ELSE root.free IN
              /\ end' = end + extra
              /\ st' = [st EXCEPT ![end] = "free"]
              /\ size' = [size EXCEPT ![end] = extra]
              /\ prev' = [prev EXCEPT ![end] = last]
              /\ next' = [x \in Addr |-> IF x = end THEN 0
                                         ELSE IF x = last THEN end ELSE next[x]]
              /\ foot' = StampFoot(foot, end, extra, end + extra)
              /\ root' = [root EXCEPT !.free = head, !.freeLast = end,
                                      !.freeSize = @ + extra, !.freeItems = @ + 1]
              /\ op' = Restart([op EXCEPT !.resizes = @ + 1], head)
              /\ UNCHANGED outcome
  /\ UNCHANGED used

\* The same, when the arena may not grow by what is needed.  The bound on the
\* number of resizes is tested first.
GrowRefused ==
  /\ op.pc = "visit" /\ op.cur = 0 /\ op.best = 0
  /\ op.n > ArenaRoom
  /\ Finish(IF op.resizes + 1 > MaxAllocResizes THEN "unsatisfied" ELSE "full")
  /\ UNCHANGED <<st, size, prev, next, foot, end, root, used>>

\* The re-check of the choice: the block the walk chose may have been absorbed
\* by a block visited later.
SurvivedUnchecked == op.best # 0
Survived == op.best \in Free /\ size[op.best] >= op.n

\* It was: one more pass, first fit.
Retry ==
  /\ op.pc = "chosen" /\ ~Survived
  /\ IF op.firstFit
       THEN Finish("lost")
       ELSE /\ op' = Restart([op EXCEPT !.firstFit = TRUE], root.free)
            /\ UNCHANGED outcome
  /\ UNCHANGED <<st, size, prev, next, foot, end, root, used>>

\* The counters and aAlloc after a block of n bytes at a is handed out.
AllocatedUncounted(r, a, n) ==
  [r EXCEPT !.allocSize = @ + n, !.alloc = IF @ = 0 THEN a ELSE @]
Allocated(r, a, n) ==
  [r EXCEPT !.allocSize = @ + n, !.allocItems = @ + 1,
            !.alloc = IF @ = 0 THEN a ELSE @]

\* SplitAlloc answers the size it handed out through its reference argument.
AdoptedAsAsked(a) == op.n
Adopted(a) == size[a]

\* SplitAlloc, the remainder too small for a block: the whole is handed over.
Adopt ==
  /\ op.pc = "chosen" /\ Survived
  /\ ~Splittable(op.best)
  /\ LET a == op.best IN
       /\ st' = [st EXCEPT ![a] = "used"]
       /\ next' = IsolatedNext(a)
       /\ prev' = IsolatedPrev(a)
       /\ root' = Allocated(Isolated(a), a, Adopted(a))
       /\ used' = used + Adopted(a)
  /\ Finish("ok")
  /\ UNCHANGED <<size, foot, end>>

\* SplitAlloc: the front is handed out, the remainder takes its place in the list.
Split ==
  /\ op.pc = "chosen" /\ Survived
  /\ Splittable(op.best)
  /\ LET a == op.best
         e == a + op.n
         extra == size[a] - op.n IN
       /\ st' = [st EXCEPT ![a] = "used", ![e] = "free"]
       /\ size' = [size EXCEPT ![a] = op.n, ![e] = extra]
       /\ next' = [x \in Addr |-> IF x = e THEN next[a] ELSE IF x = a THEN 0
                                  ELSE IF x = prev[a] THEN e ELSE next[x]]
       /\ prev' = [x \in Addr |-> IF x = e THEN prev[a] ELSE IF x = a THEN 0
                                  ELSE IF x = next[a] THEN e ELSE prev[x]]
       /\ root' = Allocated([root EXCEPT !.free = IF @ = a THEN e ELSE @,
                                         !.freeLast = IF @ = a THEN e ELSE @,
                                         !.freeSize = @ - op.n], a, op.n)
       /\ foot' = StampFoot(foot, e, extra, end)
  /\ used' = used + op.n
  /\ Finish("ok")
  /\ UNCHANGED end
-----------------------------------------------------------------------------
(* P2PmsgHeap_Free *)

\* A block in use goes to the head of the free list, and is collated.
FreeCall(a) ==
  /\ op.pc = "idle" /\ a \in Used
  /\ st' = [st EXCEPT ![a] = "free"]
  /\ prev' = [x \in Addr |-> IF x = a THEN 0 ELSE IF x = root.free THEN a ELSE prev[x]]
  /\ next' = [next EXCEPT ![a] = root.free]
  /\ root' = [root EXCEPT !.free = a,
                          !.freeLast = IF @ = 0 THEN a ELSE @,
                          !.freeSize = @ + size[a], !.freeItems = @ + 1,
                          !.allocSize = @ - size[a], !.allocItems = @ - 1]
  /\ used' = used - size[a]
  /\ op' = [NoOp EXCEPT !.pc = "collateF", !.cur = a]
  /\ outcome' = "none"
  /\ UNCHANGED <<size, foot, end>>

\* The forward merge is done: the block before is looked for, and merges next.
Released ==
  /\ op.pc = "collateF" /\ ~CanAbsorb(op.cur)
  /\ foot' = CollatedFoot(op.cur)
  /\ LET p == PrevFree(op.cur) IN
       IF p # 0 THEN op' = [op EXCEPT !.pc = "collateP", !.cur = p] /\ UNCHANGED outcome
                ELSE Finish("ok")
  /\ UNCHANGED <<st, size, prev, next, end, root, used>>

Rejoined ==
  /\ op.pc = "collateP" /\ ~CanAbsorb(op.cur)
  /\ foot' = CollatedFoot(op.cur)
  /\ Finish("ok")
  /\ UNCHANGED <<st, size, prev, next, end, root, used>>

\* A second Free of a block already free: the live figure is lowered first,
\* then the block is found not to be allocated and the call throws.  (The
\* ASSERT that nSizeofUsed covers the block is taken as a bound.)
FreeRefusedUnchecked(a) ==
  /\ Misuse /\ op.pc = "idle" /\ a \in Free
  /\ next' = [next EXCEPT ![a] = root.free]
  /\ root' = [root EXCEPT !.free = a]
  /\ Finish("ok")
  /\ UNCHANGED <<st, size, prev, foot, end, used>>
FreeRefused(a) ==
  /\ Misuse /\ op.pc = "idle" /\ a \in Free
  /\ used >= size[a]
  /\ used' = used - size[a]
  /\ Finish("notAllocated")
  /\ UNCHANGED <<st, size, prev, next, foot, end, root>>
-----------------------------------------------------------------------------
(* The caller's own writes, and P2PmsgMgr::Save.  *)

\* The caller fills its block: a tag left in it is gone.
WritePayload(a) ==
  /\ op.pc = "idle" /\ a \in Used
  /\ foot' = [e \in Addr |-> IF e \in a + 1 .. After(a) THEN 0 ELSE foot[e]]
  /\ UNCHANGED <<st, size, prev, next, end, root, used, op, outcome>>

\* A free block whose tag ScrubFoots takes out.
Tagged(a) == size[a] >= FootMin /\ After(a) <= end

\* P2PmsgHeap_ScrubFoots ahead of the write: the image is now what goes to disk.
SaveScrub ==
  /\ op.pc = "idle"
  /\ foot' = [e \in Addr |-> IF \E a \in Free : Tagged(a) /\ After(a) = e THEN 0 ELSE foot[e]]
  /\ op' = [NoOp EXCEPT !.pc = "saving"]
  /\ outcome' = "none"
  /\ UNCHANGED <<st, size, prev, next, end, root, used>>

\* The guard's destructor, after the write or on any throw before it.
SaveRestore ==
  /\ op.pc = "saving"
  /\ foot' = [e \in Addr |->
                IF \E a \in Free : Tagged(a) /\ After(a) = e
                  THEN size[CHOOSE a \in Free : Tagged(a) /\ After(a) = e] ELSE foot[e]]
  /\ Finish("ok")
  /\ UNCHANGED <<st, size, prev, next, end, root, used>>
-----------------------------------------------------------------------------
Call == \/ \E req \in Requests : AllocCall(req)
        \/ \E a \in Addr : FreeCall(a) \/ FreeRefused(a) \/ WritePayload(a)
        \/ SaveScrub

\* What a call in progress does next: exactly one of these, with no choice.
Continue == \/ Absorb \/ Visit \/ SkipSmall \/ TakeAtOnce \/ KeepBest \/ WalkEnds
            \/ Grow \/ GrowRefused \/ Retry \/ Adopt \/ Split
            \/ Released \/ Rejoined \/ SaveRestore

Next == Call \/ Continue

Spec == Init /\ [][Next]_vars

\* A call runs to its end: the code is straight-line between its steps.
FairSpec == Spec /\ WF_vars(Continue)
-----------------------------------------------------------------------------
(* What the allocator keeps true. *)

\* The root's keys, and the locals of the call in progress.
RootType == [free : Addr \cup {0}, freeLast : Addr \cup {0}, alloc : Addr \cup {0},
             freeSize : Int, freeItems : Int, allocSize : Int, allocItems : Int]
OpType == [pc : {"idle", "visit", "collateA", "chosen", "collateF", "collateP", "saving"},
           n : Nat, cur : Addr \cup {0}, best : Addr \cup {0}, bestSize : Nat,
           fits : Nat, walked : Nat, limit : Nat, firstFit : BOOLEAN, resizes : Nat]

\* Every variable has its type; in particular every address stored in a header
\* or in the root is one the image can hold.
TypeOK ==
  /\ st \in [Addr -> {"none", "free", "used"}]
  /\ size \in [Addr -> Nat]
  /\ prev \in [Addr -> Addr \cup {0}] /\ next \in [Addr -> Addr \cup {0}]
  /\ foot \in [Addr -> Nat]
  /\ end \in Addr
  /\ root \in RootType
  /\ used \in Int
  /\ op \in OpType
  /\ outcome \in {"none", "ok", "full", "cyclic", "unsatisfied", "lost", "notAllocated"}

\* The blocks B of sizes sz fill an arena that stops at lim: each is large
\* enough to go back on the list, and ends where the next begins or where the
\* arena does.
Tiles(B, sz, lim) ==
  /\ First \in B
  /\ \A a \in B : /\ sz[a] >= VBHeapMin
                  /\ a + sz[a] = lim \/ (a + sz[a] \in B /\ a + sz[a] < lim)
                  /\ \A b \in B : b > a => b >= a + sz[a]

\* The blocks tile the arena through every split, merge and growth (SplitAlloc,
\* Collate, Resize): no byte is lost and none belongs to two blocks.
Tiling == Tiles(Blocks, size, end)

\* Growth adds its block "at the end of the existing" arena (note on
\* P2PmsgHeap_ResizeBSTRio): no two blocks in use share a byte.
LiveDisjoint == \A a, b \in Used : a < b => After(a) <= b

\* The links nx and pv chain the blocks F and nothing else: they are mutually
\* inverse, and head and last are the blocks without a neighbour.
Chained(F, nx, pv, head, last) ==
  /\ \A a \in F : /\ nx[a] \in F \cup {0} /\ pv[a] \in F \cup {0}
                  /\ nx[a] # 0 => pv[nx[a]] = a
                  /\ pv[a] # 0 => nx[pv[a]] = a
                  /\ (nx[a] = 0) <=> (last = a)
                  /\ (pv[a] = 0) <=> (head = a)
  /\ head \in F \cup {0} /\ last \in F \cup {0}
  /\ (head = 0) <=> (last = 0)

\* The links and the root's two ends describe the free blocks, in the middle of
\* a call as between calls (Isolate, SplitAlloc, Resize, Free).
Linked == Chained(Free, next, prev, root.free, root.freeLast)

\* The root's byte counters cover the arena after its root, and nSizeofUsed is
\* the allocated share of it, whatever was split, merged, grown or freed.
Conserved == root.freeSize + root.allocSize = end - First /\ used = root.allocSize

\* The throws that blame the image ("it is cyclic", "did not survive the walk",
\* "resizes did not satisfy") are not reached on a heap this allocator built.
NoFalseAlarm == outcome \notin {"cyclic", "lost", "unsatisfied"}

\* One grow-and-retry is enough, as the comment on kMaxAllocResizes says.
OneResize == op.resizes <= 1

\* Between calls every free block that can carry a tag and lies before a block
\* in use does carry its own, so a Free of that block will find it.
TagsCurrent ==
  op.pc = "idle" =>
    \A a \in Free : size[a] >= FootMin /\ After(a) \in Used => PrevFree(After(a)) = a

\* The arena stays inside what its addressing width can reach.
InsideCeiling == end <= SizeMax

\* Whenever the heap turns a request away in its walk, no free block could have
\* served it: giving up the walk early never costs an allocation.
FullIsHonest == [][GrowRefused => \A a \in Free : size[a] < op.n]_vars

\* A block in use keeps its address and its size until its own Free, whatever
\* is allocated, freed, merged or grown around it.
LiveUntouched ==
  [][\A a \in Used : (a \in Used' /\ size'[a] = size[a]) \/ FreeCall(a)]_vars

\* Every call comes back to its caller.
Terminates == op.pc # "idle" ~> op.pc = "idle"
=============================================================================
