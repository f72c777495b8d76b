---------------------------- MODULE AbstractHeap ----------------------------
(***************************************************************************)
(* What a Msgcore heap promises its callers, with no free list, no tags    *)
(* and no walk: an arena that only grows, a set of live extents in it that *)
(* never overlap, and at most one allocation being served.  VBHeap, the    *)
(* model of MsgVBHeap.cpp, is shown to implement this specification.       *)
(***************************************************************************)
EXTENDS Integers

CONSTANTS First,      \* the first address a block may have (end of the root)
          SizeMax,    \* nSizeofMax: what the addressing width can reach
          Starts,     \* the arena sizes a heap may be created with
          Needs,      \* block sizes callers may ask for, header included
          Slack       \* VBList_VBHeapMin: a smaller remainder is handed over

VARIABLES live,       \* the extents <<address, size>> callers hold
          arena,      \* nSizeofAlloc: the first address past the arena
          pending     \* the block size Alloc is serving, 0 between calls

avars == <<live, arena, pending>>

AInit == live = {} /\ arena \in Starts /\ pending = 0

\* The bytes of an extent.
Bytes(x) == x[1] .. x[1] + x[2] - 1

\* P2PmsgHeap_Alloc is called for a block of n bytes.
Request == /\ pending = 0
           /\ pending' \in Needs
           /\ UNCHANGED <<live, arena>>

\* The arena is made larger, never past its ceiling.
Extend == /\ pending # 0
          /\ arena' \in arena + 1 .. SizeMax
          /\ UNCHANGED <<live, pending>>

\* The call returns a block no live block shares a byte with: at least what
\* was asked for, and less than a whole free block more.
Serve == /\ pending # 0
         /\ \E a \in First .. arena - 1, n \in pending .. pending + Slack - 1 :
              /\ a + n <= arena
              /\ \A x \in live : Bytes(x) \cap Bytes(<<a, n>>) = {}
              /\ live' = live \cup {<<a, n>>}
         /\ pending' = 0
         /\ UNCHANGED arena

\* The call throws: only when the arena may not grow by what was asked for.
Refuse == /\ pending > SizeMax - arena
          /\ pending # 0
          /\ pending' = 0
          /\ UNCHANGED <<live, arena>>

\* P2PmsgHeap_Free gives one extent back, and touches no other.
Release == /\ pending = 0
           /\ \E x \in live : live' = live \ {x}
           /\ UNCHANGED <<arena, pending>>

ANext == Request \/ Extend \/ Serve \/ Refuse \/ Release

ASpec == AInit /\ [][ANext]_avars
=============================================================================
