---------------------------- MODULE InodeTable -----------------------------
(***************************************************************************)
(* Checked inodes (MsgVBHeap.cpp, Msgcore_c.cpp): an address a heap hands  *)
(* out again after a free, with two tags beside it, how often that address *)
(* was freed and which open of a store it belongs to.  The inode resolves  *)
(* while both tags match.                                                  *)
(*                                                                         *)
(* Every block has an identity the program does not have: a number never   *)
(* used twice, so that "the node it was minted for" can be said.           *)
(***************************************************************************)
EXTENDS Naturals

CONSTANTS
    Store,       \* managers open at a time
    Pos,         \* addresses of a heap
    Generations, \* free counts an inode can tell apart: 65536
    Stamps,      \* stamps the counter goes through, zero among them: 65536
    MaxNode      \* bound on the blocks ever allocated

ASSUME InodeAssumption ==
    /\ Generations \in Nat \ {0} /\ Stamps \in Nat \ {0}
    /\ MaxNode \in Nat
    /\ 0 \notin Pos

VARIABLES
    block,    \* per store and address, the block there; 0 when it is free
    field,    \* the blocks that are a field: what an inode can name
    stamp,    \* nInodeStamp of a store's heap; 0 before the first inode
    inodeFreed,    \* pGenerations: the frees of an address since the stamp
    stamps,   \* s_nNextStamp
    nodes,    \* the blocks ever allocated
    minted    \* the inodes handed out, each with the block it was minted for

inodeVars == <<block, field, stamp, inodeFreed, stamps, nodes, minted>>

Nowhere == [p \in Pos |-> 0]

InodeInit ==
    /\ block = [s \in Store |-> Nowhere]
    /\ field = {}
    /\ stamp = [s \in Store |-> 0]
    /\ inodeFreed = [s \in Store |-> Nowhere]
    /\ stamps = 0 /\ nodes = 0
    /\ minted = {}

\* An allocation at an address the heap finds free.
Alloc(s, p, isField) ==
    /\ block[s][p] = 0 /\ nodes < MaxNode
    /\ nodes' = nodes + 1
    /\ block' = [block EXCEPT ![s][p] = nodes']
    /\ field' = IF isField THEN field \cup {nodes'} ELSE field
    /\ UNCHANGED <<stamp, inodeFreed, stamps, minted>>

\* P2PmsgHeap_Free: the free is counted once inodes are in use.
\* The guard is the header's limit: a count that wrapped tells nothing.
\* A slip: the count is kept by an arm that is not always taken.
FreeUncounted(s, p) ==
    /\ block[s][p] # 0
    /\ block' = [block EXCEPT ![s][p] = 0]
    /\ UNCHANGED <<field, stamp, inodeFreed, stamps, nodes, minted>>

InodeFree(s, p) ==
    /\ block[s][p] # 0
    /\ inodeFreed[s][p] + 1 < Generations
    /\ block' = [block EXCEPT ![s][p] = 0]
    /\ inodeFreed' = IF stamp[s] = 0 THEN inodeFreed ELSE [inodeFreed EXCEPT ![s][p] = @ + 1]
    /\ UNCHANGED <<field, stamp, stamps, nodes, minted>>

\* P2PmsgHeap_InodeStamp, the stamp minted on first use.  Below the limit
\* the 16 bits of the counter are the counter.
Stamped(s) ==
    IF stamp[s] # 0 THEN UNCHANGED <<stamp, inodeFreed, stamps>>
    ELSE /\ stamps + 1 < Stamps
         /\ stamps' = stamps + 1
         /\ stamp' = [stamp EXCEPT ![s] = stamps' % Stamps]
         /\ inodeFreed' = [inodeFreed EXCEPT ![s] = Nowhere]

\* msgcore_field_get_inode, of a field there is.
GetInode(s, p) ==
    /\ block[s][p] # 0 /\ block[s][p] \in field
    /\ Stamped(s)
    /\ minted' = minted \cup {[stamp |-> stamp'[s], gen |-> inodeFreed'[s][p] % Generations,
                               pos |-> p, node |-> block[s][p]]}
    /\ UNCHANGED <<block, field, nodes>>

\* msgcore_mgr_inode2field asks for the stamp too, and mints it.
Inode2Field(s) ==
    /\ minted # {}
    /\ Stamped(s)
    /\ UNCHANGED <<block, field, nodes, minted>>

\* Load, a defragmenting Save and a reopen put another handle in the old
\* one's place.  Its blocks are new ones: they come by Alloc.
Replace(s) ==
    /\ block' = [block EXCEPT ![s] = Nowhere]
    /\ stamp' = [stamp EXCEPT ![s] = 0]
    /\ inodeFreed' = [inodeFreed EXCEPT ![s] = Nowhere]
    /\ UNCHANGED <<field, stamps, nodes, minted>>

InodeNext ==
    \E s \in Store :
      \/ \E p \in Pos, isField \in BOOLEAN : Alloc(s, p, isField)
      \/ \E p \in Pos : InodeFree(s, p) \/ GetInode(s, p)
      \/ Inode2Field(s) \/ Replace(s)

InodeSpec == InodeInit /\ [][InodeNext]_inodeVars

-----------------------------------------------------------------------------
\* msgcore_mgr_inode2field: the tags first, then the block.
Resolves(s, m) ==
    /\ stamp[s] = m.stamp /\ stamp[s] # 0
    /\ inodeFreed[s][m.pos] % Generations = m.gen
    /\ block[s][m.pos] # 0 /\ block[s][m.pos] \in field

Inodes == [stamp : Nat, gen : Nat, pos : Pos, node : Nat \ {0}]

InodeTypeOK ==
    /\ block \in [Store -> [Pos -> Nat]]
    /\ field \subseteq Nat
    /\ stamp \in [Store -> Nat]
    /\ inodeFreed \in [Store -> [Pos -> Nat]]
    /\ stamps \in Nat /\ nodes \in Nat
    /\ minted \subseteq Inodes

(***************************************************************************)
(* "It never resolves to a node other than the one it was minted for", in  *)
(* any store and however the address was freed and used again; and it does *)
(* resolve for as long as that node is where it was.                       *)
(***************************************************************************)
Faithful ==
    \A s \in Store : \A m \in minted : Resolves(s, m) <=> block[s][m.pos] = m.node
=============================================================================
