------------------------------ MODULE MCVBHeap ------------------------------
(* VBHeap on small arenas, with the properties only TLC evaluates. *)
EXTENDS VBHeap, Functions

\* The free list from its head: Chain[k] is the k-th block, 0 past the end.
Chain[k \in 0 .. Cardinality(Addr)] ==
  IF k = 0 THEN root.free ELSE IF Chain[k - 1] = 0 THEN 0 ELSE next[Chain[k - 1]]
Position(a) == CHOOSE k \in DOMAIN Chain : Chain[k] = a

\* Every free block is reached from the head, and the list comes to an end: a
\* block off the list is lost to every later Alloc, a cycle stops one.
ListComplete == /\ {Chain[k] : k \in DOMAIN Chain} = Free \cup {0}
                /\ Chain[Cardinality(Free)] = 0

\* The root's four counters and nSizeofUsed are what a walk of the blocks would
\* count, in the middle of a call as between calls.
Accounting == /\ root.freeSize = SumFunctionOnSet(size, Free)
              /\ root.freeItems = Cardinality(Free)
              /\ root.allocSize = SumFunctionOnSet(size, Used)
              /\ root.allocItems = Cardinality(Used)
              /\ used = root.allocSize

\* Two free neighbours may be left apart by growth, but only in an order that
\* makes the next walk merge them before it can hand out the second.
GrowthOrder ==
  op.pc = "idle" =>
    \A x \in Free : size[x] >= FootMin /\ After(x) \in Free
                      => Position(x) < Position(After(x))

\* A block is handed out with the size the caller needs and less than a free
\* block more; a live block is never moved, resized or overlapped.
Promise == INSTANCE AbstractHeap WITH
             Starts <- {s + Word : s \in InitSizes},
             Needs <- {Larger(req + Hdr, VBHeapMin) : req \in Requests},
             Slack <- VBHeapMin,
             live <- {<<a, size[a]>> : a \in Used},
             arena <- end,
             pending <- op.n
Implements == Promise!ASpec
=============================================================================
