# Msgcore in TLA+

Msgcore is a C++ library for tree-shaped messages that live in one relocatable
memory image: nodes, lists, vectors and strings are blocks of a small heap (the
VBHeap) inside that image, addressed by offsets, so that a message is saved,
loaded and sent as one run of bytes. This directory holds TLA+ modules of the
parts of it that can be checked, the TLC configurations that check them on
small instances, and theorems that TLAPS proves for every instance.

`PROJECT.json` lists the components, the runs, the source lines each definition
stands for, the hazards of the code and the properties that cover them.

## 1. Inventory

| Component (source) | State it keeps | Operations | What makes it hard |
|---|---|---|---|
| VBHeap allocator (`MsgVBHeap.cpp`) | the image: root keys, block headers, free list threaded through free blocks, boundary tags; on the handle: `nSizeofAlloc`, `nSizeofUsed`, reference count, generations, triggers | Create, Alloc, Free, Resize, Collate, Isolate, ScrubFoots, the gate on images, AddRef/Close, triggers | long sequences of legal calls; tags that go stale; sizes at the ceiling; walks over links rewritten by their own body; sinks called from within a walk |
| VBLock (`P2PmsgVBLock.cpp`) | the fields of every kind of block, in three widths; data descriptors | field access, sizing, chaining, copying | values cut off at a width; spaces of different capacity |
| P3Pmsg tree (`P2Pmsg.cpp`, `P2Pmsg_Ext.cpp`, `P2PmsgBSTR.cpp`) | items, collections and snapshots in blocks; objects that name a block or hold a private one | create, copy, drop, push, pop, move, rename, path and selection; connect, share, rehome | an allocation refused half way; two names of one block; growth of a heap under an object |
| Containers (`MsgList`, `MsgVect`, `MsgStck`, `MsgCurs`, `MsgAttr`, `MsgDesc`) | element links, slots, cursor positions | insert, sort, swap, remove, step | cursors that outlive what they point at; loops over a chain they change |
| P2PmsgMgr (`P2PmsgMgr.cpp`, `Platform/p2pfile.h`) | the manager's heap and root object; on disk: the store, its lock file, its temporary file | Save, Load, defragment, paging, triggers, sort | several processes on one path; crash and loss of power; failing calls |
| C ABI (`Msgcore_c.cpp`) | registry of handles, paging records keyed by address | create, destroy, wrappers that turn throws into codes | threads that create and destroy; addresses that are reused |
| Exceptions (`Msgexception.cpp`) | the thread's last event; the process's latch, configuration, log path | make, throw, cancel, display, configure | ownership by hand; first use from several threads |
| Completion port (`p2piocp.cpp`, `p2piocp_epoll.cpp`) | a ring, a queue of posted packets, descriptor and ring registries | associate, get, post, read/write, cancel, accept, close | threads other than the owner hand work over; descriptors are reused |
| Threads, events, handles (`p2pthread.h`, `p2ptypes.h`) | event counters and generations, thread control blocks, a free list of handles | create, set, reset, wait, join, close | two waiters; a reset between poll and read |
| Kernel32 helpers, field references, other shims | nothing that lasts between calls, but for the CList and CMap that triggers are kept in | | |

**How they interact.** The tree and the containers call the VBHeap for blocks and
keep offsets into its image; the VBHeap calls back the triggers registered on a
block when it changes. Objects hold a counted reference on their heap. `P2PmsgMgr`
owns a VBHeap and writes its whole image to disk, scrubbing the boundary tags
around the write; Load puts an image from a file in its place if the gate lets it
pass. The C ABI wraps managers and objects in handles. The platform layer gives
all of them Windows's file, thread and completion calls on POSIX. The library
itself is single-threaded per message; concurrency enters with several processes
on one store, with the C ABI's tables, with diagnostics and with the platform
layer.

**What makes each correct.** The heap: blocks tile the arena, live blocks are
never disturbed, the free list holds exactly the free blocks, the counters are
what a recount would give, a request is refused only when nothing could serve
it, every call ends, and what it writes its own gate accepts. The store: a path
leads to one caller's whole image at every instant, after a crash too; a reader
sees one image; a Save returns and leaves no files; a heap lives exactly as long
as it has holders. Cells: a value reads back as written or as nothing. Tree,
lists and vectors: the abstract value changes as the call says, also when the
call throws; paths lead back. The handles: one destroy frees once, a stale handle
reaches nothing. Events: each is deleted once, by its owner. The completion port:
every operation completes once and on its own key; a post is always heard.

## 2. Modules

| Module | Models | Source |
|---|---|---|
| `AbstractHeap` | what a heap promises: an arena that grows, live extents that never overlap | - |
| `VBHeap` | Alloc, Free, Resize, Collate, tags, the scrub around Save, both arms (BSTRio, IOMAGE) | `MsgVBHeap.cpp` |
| `MCVBHeap`, `VBHeap_proof` | recounts and the refinement, for TLC; theorems | - |
| `ImageGate` (`VBHeap_proof`) | the gate on images, the handle made of one; extends `MCVBHeap`, so that every image it sees is one the allocator wrote | `MsgVBHeap.cpp` |
| `AtomicStore` | what Save and Load promise: a value replaced in one instant | - |
| `StoreSave` (`MCStoreSave`, `StoreSave_proof`) | Save and Load of one path by several processes, on POSIX | `P2PmsgMgr.cpp`, `p2pfile.h` |
| `StoreLoad` (`Host_proof`) | how a manager gets and loses its heap and its buffer | `P2PmsgMgr.cpp` |
| `CompletionPort` (`MCCompletionPort`, `CompletionPort_proof`) | one port over io_uring: the pump, other threads, the kernel's side | `p2piocp.cpp` |
| `MsgDesc` (`MCMsgDesc`, `Contents_proof`) | the chain of a collection, its cursors, the loops over it | `MsgDesc.cpp`, `MsgCurs.cpp` |
| `DataCell` (`Contents_proof`) | typed values: sizes, growth, chains, copies | `P2Pmsg.cpp`, `P2PmsgVBLock.cpp` |
| `ImageFields` (`Contents_proof`) | every number of an image in the three widths | `P2PmsgVBLock.cpp`, `MsgVBHeap.cpp` |
| `ElemSeq`, `MsgElems` (`ElemCalls_proof`, `MsgElems_proof`) | two sequences; the list and the vector that implement them | `MsgList.cpp`, `MsgVect.cpp` |
| `MsgValue`, `MsgTree` | a message as one value; the tree of blocks that implements it | `P2Pmsg.cpp`, `MsgDesc.cpp`, `MsgAttr.cpp`, `MsgStck.cpp` |
| `MsgObject` (`Contents_proof`) | objects, the blocks they name, the heaps they count | `P2Pmsg.cpp`, `MsgVBHeap.cpp` |
| `MCContents` | `DataCell`, `ImageFields`, `MsgElems`, `MsgTree`, `MsgObject` side by side | - |
| `HandleTable` (`Host_proof`) | the registry of handles, every entry point by what it takes and makes | `Msgcore_c.cpp` |
| `PagingSinks` (`Host_proof`) | paging and populate registrations and their record | `Msgcore_c.cpp`, `P2PmsgMgr.cpp` |
| `InodeTable` (`Host_proof`) | checked inodes: generation and stamp | `MsgVBHeap.cpp`, `Msgcore_c.cpp` |
| `P2PEvent` (`Host_proof`) | an event, its setters and waiters | `p2pthread.h` |
| `EventReport` (`Host_proof`) | where a diagnostic's text goes, under several threads | `Msgexception.cpp` |
| `EventLife` (`Host_proof`) | who owns an event and deletes it | `Msgexception.cpp` |
| `Triggers` (`Host_proof`) | trigger lists, walks and the sinks called from them | `MsgVBHeap.cpp`, `P2PmsgMgr.cpp`, `mfcshim.h` |
| `MCHost` | the last seven and `StoreLoad` side by side | - |
| `NoValue` | the absent value they share | - |
| `SumTheorems` | sums over finite sets, bounded walks and folds, for the proofs | - |

`MCContents` and `MCHost` are sums: their components share no state at the grain
they are modelled at, so a behaviour picks one (`part`) and runs it while the
others stay as they start. One run then checks them all, and no interleaving of
strangers is enumerated. Where components do act on each other the module
contains both: `ImageGate` the allocator and the loader, `Triggers` the heap's
lists and the host's sinks, `HandleTable` the registry and the paging records,
`StoreLoad` the manager, its objects and the heaps.

### VBHeap and ImageGate

An image is a row of blocks from `First` (the end of the root) to `end`
(`nSizeofAlloc`). `st`, `size`, `prev`, `next` are the header fields at each
address; `foot[e]` is the size in a boundary tag that ends just before `e`;
`root` holds the root's keys; `used` is `nSizeofUsed` on the handle. The two arms
of the code run one algorithm over two layouts and are written "deliberately the
same shape"; the module is both. A block's size is its units of address; the
payload is not modelled, except that a tag left inside it by the heap stays
until the caller writes over it (`WritePayload`).

The code is sequential, but its loops are where it can go wrong, so the free-list
walk and the `goto TOP` of Collate are steps, driven by `op`, the locals of the
call in progress: `AllocCall` is the entry and the early test, `Visit` a block
reached by the walk, `Absorb` one pass of Collate, `SkipSmall`, `TakeAtOnce`,
`KeepBest` the three ways a measured block is judged, `Grow` and `GrowRefused`
Resize, `Retry` the second pass after the choice was absorbed, `Adopt` and
`Split` SplitAlloc. `FreeCall` puts a block on the list, `Absorb` merges it
forwards, `Released` looks for the block before it and `Rejoined` ends the merge
backwards. `SaveScrub` and `SaveRestore` are the guard that Save holds.

`ImageGate` adds `form`, the layout, and `Load`: while a save has the image in
hand, the file is read back, the two walks of the gate (`FreeListHolds`,
`BlocksHold`) judge it, and a handle is made of it whose `used` follows the rule
of its layout and whose tags are gone. The handle goes on allocating, may be saved
and loaded again. The root item Load connects to is never freed.

A caller types and links its block before it frees it (Alloc stamps the type). Of
images from outside nothing is claimed: the gate is asked only about images this
code wrote. The SYS arm (malloc) has no free list.

### StoreSave and StoreLoad

In `StoreSave` a path is a variable that holds an inode or `None`; an open
descriptor is an inode and outlives the path. An inode's content is its parts,
each `Nil` until a `write(2)` puts an image's part there; `synced` is what the
disk has of it. Each saver walks `P2PmsgMgr::Save` from the lock to its release
with one action per system call: open and flock of the lock file are two steps,
open of the temporary file truncates before its flock is tried, `CloseHandle`
unlinks the lock's path before it closes the descriptor. Every call that can fail
has its failing action (`LockFails`, `LockBusy`, `TempFails`, `TempBusy`,
`WriteFails`, `RenameFails`). flock belongs to the descriptor, so who holds it is
derived (`LockedBy`). `Crash` ends a process between two steps; `PowerLoss` keeps
the store's old or new name and any subset of what was not flushed; `DirSync` is
the file system's own write-back of a directory.

`StoreLoad` takes one process and looks at memory: `mgr` is what each manager
points to, `refs` the counts the code keeps by hand, `image` and `frees` what
became of each buffer a file was read into. Load is cut at each place where it
can throw: before the old heap has gone, after, with the buffer still its own,
with the buffer handed over, and when the root does not connect.

### CompletionPort

`file` is the process's table of descriptors: which socket a number stands for
now. A socket is opened once and is its own key; numbers are used again, the
lowest first, as POSIX does. `ov` holds the OVERLAPPEDs and, beside the code's
fields, one the code does not have: the socket the operation was asked for (`on`). `ring` joins what the code keeps of
a ring (prepared entries, `submit_pending`, `evfd_armed`, `cancel_dups`) and what
the kernel keeps (operations in flight and the file each holds, completions, the
eventfd and its multishot poll). The kernel's operators are read off how the
code uses it and its comments: an entry's descriptor is looked up when the entry
is issued, a cancel aborts what is in flight on its file, a submission may be
refused while completions wait and then nothing of it went in.

The pump walks `GetQueuedCompletionStatus` with one action per step another
thread can come between: `GetCall` (the first caller becomes the owner), `Flush`,
`Arm`, `Drain` (one step, as it holds the queue's lock), and one action for each
kind of completion. Reads, posts and closes of other threads are a first step
under the application's own order, a push, and a write to the eventfd; a close
then returns to close(2). The operators `GetSqe`, `RingSubmit`, `SubmitNow` give
the set of rings that may come out, because every submission may be refused.
Writes have `Parts` units and may be short. An application may have one
operation per OVERLAPPED, does not start one on a socket it is closing, and does
not close a socket another of its threads is in the middle of a call on.

### Contents of a message

`MsgDesc` keeps each item's `next` and `prev`, the collection's block and the
cached ordinal and address of every cursor. Calls that answer at once are one
action; Truncate, Delete of an item, WCDelete and Sort are loops, and each round
is a step (`job`), because each round works on what the round before left. The
build is one without assertions: what follows an `ASSERT(0)` is executed.

`DataCell` keeps for each block the space it has and the descriptor in it. A value
that outgrows its space moves to a block of its own, and the cell keeps a chain
pointer; a growth gives the old chain back before it asks for the new block, and
the heap may refuse at that point. Sizes are in units of two bytes, in the
proportions of the code's descriptors.

`ImageFields` has a record for each family of setters: those that test a link
against 16, 32 and 48 bits, those that test what the field holds, those that do
not test, counts that are signed, counts that are cast, sums of sizes. `meant` is
what the callers were told, `Get` what a read returns.

`MsgElems` keeps blocks with links or slots; a call threads a state through the
code's steps, so that a throw leaves behind what had been done. `MsgTree` does the
same with items, attribute and descendant collections and snapshots. Blocks are
numbered anew after each call in the order the tree is walked (`TreeRenumbered`,
`ElemRenumbered`): addresses are compared by the code only for equality.
`MsgValue` and `ElemSeq` are what they promise; a call that throws may leave what
it was writing half done and nothing else.

`MsgObject` keeps what each object names (a heap's block, or its own array), the
content and the chain of every block, and each heap's count. The share and the
value arm of `Connect`, rehoming, privatising, release, growth and destruction are
actions; `HeapHolders` and `IsSole` are asked in every state.

### Host

`HandleTable` reduces each entry point to what handles it takes and makes and
whether the new object points into the old one; the lookups, the body, `new` and
the registration are steps, and a destroy is a lookup, the paging record, the
registration and the delete. `Orderly` says that callers destroy what points into
an object before the object, `Recycled` that an address may be given out again
while another thread's call still has it. `P2PEvent` cuts a set in two and a wait
in three steps. `EventReport` keeps a stack of places per thread: every read or
write of a shared variable that the lock does not cover is a step. `EventLife`
and `Triggers` keep the call stack of one thread, because the sinks they call come
back into them.

## 3. Runs

| Run | Question | Distinct states |
|---|---|---|
| `heap_safety` | Does every interleaving of steps, saves and loads keep the heap's invariants, and does its gate accept its own images? | 120,594 |
| `heap_promise` | Does VBHeap implement AbstractHeap and return, with a long list and callers that free twice? | 330,096 |
| `store_atomic` | Is a Save atomic for readers, crashes and losses of power, with thread ids that differ? | 129,023 |
| `store_returns` | Does every Save return and clean up, with a shared temporary name? | 16,347 |
| `port_once` | Is everything promised in exactly one place, on its own key, with reused descriptors and a ring that refuses? | 2,883,845 |
| `port_answers` | Is every operation on a closed socket answered and every post heard? | 295,910 |
| `desc` | Do a collection's chain, cursors and loops stay true to each other? | 743,130 |
| `contents` | Are cells, fields, elements, trees and objects sound, and do they implement their abstract values, when the heap may refuse? | 177,883 |
| `host` | Do handles, sinks, inodes, events, diagnostics, triggers and loads stay sound? | 1,420,414 |
| `store_processes` | Violation: two processes' first threads share a temporary name | - |
| `desc_prefix` | Violation: a name that begins another breaks the chain of a sorted collection | - |
| `gate_resaved` | Violation: a message image loaded into a manager and saved again is cut off | - |

Each property is a conjunction of named parts where a component has several
questions, and every property is broken by a plausible slip of the code: the
mutants in `PROJECT.json`, whose definitions stand beside the ones they replace.

**What each property is about.** `KeptUntilLoad` joins the counters
(`Conserved`, `Accounting`), the order of the free list (`GrowthOrder`) and the tags
(`TagsCurrent`); it ends with the first load because a loaded handle counts the root
among the used bytes and its tags are not restored. `FullIsHonest` and `DoorIsHonest`
say when a refusal is true, `RoomForSync` and `OwnImagePasses` that the two rules for
"used" never make an image its own gate refuses. `SavesEnd` is `Tidy` and `SaveReturns`;
`PortWhole` is `OnePlace`, `CancelKeepsFile` and `OwnAborts`; `Delivered` is
`Answered` and `PostHeard`; `LoopsSound` is `SortedIn`, `LoopsDeliver` and `LoopsEnd`.
The properties of `contents` and `host` are described at their definitions.

**Bounds and why they are enough.** *Heap.* Word 2, header 1, least block 2, tag from
3 on, two request sizes and an arena that starts with one block and grows to 11
units past the root. Within that the arena holds up to five blocks, splits with
and without a tagged remainder, adoption, a merge forwards, backwards and both,
growth clamped and unclamped, the choice absorbed by a later visit, both refusals,
and a load followed by calls on what was loaded; `MaxFitWalk` is 2 where the code
has its own constant, so that the walk stops early. `heap_promise` tags only
blocks of five units or more, so that most free neighbours stay unmerged and lists are
long, and lets the arena grow to nine units. *Store.* Two
savers (the lock and the names are pairwise), one loader, two images in two parts
(so that a mixed or partial file exists), one retry where the code makes fifty
(`MaxTries`), and as many inodes as paths and descriptors can hold at once. `View`
names an inode by the first descriptor or path that leads to it and drops locals of
calls that are over; the images are symmetric. The liveness run uses no symmetry
and one image. *Port.* One descriptor number and two sockets that use it one after the
other, which is what reuse takes. `port_once` has one other thread, a read, a write in
two parts, a post, and a submission queue of two where the code has 256, so that it
is full, a flush is refused and a request is left without an entry; `PortView` joins
the states that differ only in how the last packet ended, which no step reads.
`port_answers`
has two other threads, and nine entries, more than are ever prepared at once (five):
a cancel that finds no entry is logged by the code as lost, and no answer can be
asked for after that; its transfers have one part (section 5, remainder).
`MayRefuse` is the kernel's -EBUSY; it is not asked to end, but it needs a completion
that waits, and the pump takes those. Each packet is posted once: posts go before
completions, by design, and an endless series of them would starve the sockets.
*Desc.* Three items and two cursors: an item has a neighbour on both sides, a cursor
can stand on, before and behind what another deletes; the names neither begin each
other nor are equal, because `desc_prefix` shows what happens then, with four items.
*Contents.* Two cells, two data blocks, four lengths that fall below, at and above each
capacity; four element blocks with two slots to a block, so that a vector needs a
continuation block and the arena runs out in the middle of a shift; seven tree blocks
and three calls, from an empty store and from a loaded one with an item and its
attribute; three objects, three heaps, four blocks: the third is the one a share is
seen by. `FieldValue` holds the first value a 16-bit field cannot hold and the first
one a 64-bit link's test refuses; the limits 4, 8, 16, 64 stand for 2^16, 2^32, 2^48,
2^64 and keep their order. *Host.* Two threads and three addresses; two stores, two positions,
and counts modulo 3 where the code has 65,536, bounded so that they do not wrap
(`MaxNode`); two setters and two waiters with three rounds; two threads with two
diagnostic calls each; three events, two sinks deep; two blocks, two windows, nested
walks of two; two managers, three heaps, two buffers. Both runs are symmetric only
in what the code never orders (`Twins`: cells and data blocks).

CHECK_DEADLOCK is FALSE where a bound ends a behaviour (`contents`: calls that are
used up).

**Fairness.** `VBHeap!FairSpec`: a call that has begun goes on (`Continue`; straight
sequential code); callers need never call. `MsgDesc!Spec`: a loop that has begun goes
on (`Step`), for the same reason. `StoreSave!FairSpec`: each Save takes its next step
when it has one (its thread is scheduled; every system call returns). No fairness is
asked of new calls, crashes or the directory's write-back. A Save that finds the lock
held has a step (close, sleep, retry), so weak fairness is enough.
`CompletionPort!FairSpec`: the pump calls GetQueuedCompletionStatus again and again and
takes its next step when it has one (a wait without a completion is not one, and the
timeout is not relied on); a thread inside a call goes on. Nothing is asked of the
kernel's operations, of peers or of new calls.

## 4. What is proved

The eight modules with theorems (`SumTheorems` and the seven `_proof` modules) are checked
by TLAPS to the last leaf, for every value of the constants under the named assumptions
of the modules. A premise a theorem has beyond those is named here.

**SumTheorems.** The provers cannot instantiate an induction theorem over a predicate,
but they can over a set: the sets (or numbers) for which a claim holds are collected, and
the collection is shown to hold all of them. So sums over the blocks, walks of the list
under a budget and folds over a queue can be proved about: a walk is a function
of its steps (`WalkExists`), a fold a sequence of its partial results (`FoldExists`),
unfolded one entry at a time.

**VBHeap.** `Tiling` and `Linked` are not inductive by themselves: a step of the walk
relies on its cursor being on a free block, and "links mutually inverse" is local
and would admit a ring beside the list. The inductive invariant is
`IInv == TypeOK /\ Tiling /\ Linked /\ Acyclic /\ Cursor`. The way the code changes
the list (isolate, append, push, replace) and the tiling (merge, grow, split) are
lemmas about sets, sizes and links alone; one step lemma per action cites them.
All theorems assume `Aligned`: a creation size that needs no rounding (section 5).
From `IInv`: `TypeCorrect`, `TilingHolds`, `LiveAreDisjoint`, `LinkedHolds`,
`ListIsAcyclic`, and the action property `LiveUntouchedHolds`. `ConservedHolds` adds
the counters, for callers that free a block once (a second Free lowers `nSizeofUsed`
before it is refused). `CeilingHolds` assumes that the padded creation size is inside
the ceiling: a heap created with `nSizeInitial = nSizeMax` starts one header past it.

What a call promises, in the second half of `VBHeap_proof`. The walk of the free list has a
budget, `MaxBlocks`, which is more blocks than the arena can hold; the invariant `Walk` says
that the whole list, and the block one growth may add, fits in it, that the rest of the list
is ahead of the cursor, and that what was skipped was too small. After a growth some free
block is large enough. From it `NoFalseAlarmHolds`, `OneResizeHolds`, `FullIsHonestHolds` and
`HeapImplements`, that every step of VBHeap is a step of `AbstractHeap` or a stutter; their
premise is that one resize is allowed (`MaxAllocResizes >= 1`). `ListCompleteHolds` turns the
rank of `Acyclic` into the walk that the recount of `MCVBHeap` makes. `TagsAndOrderHold`
(premise `Misuse = FALSE`) needs both at once (`Order`): free neighbours stand in
the list as in the arena, all but the block whose merge is not over yet, what the walk has
left behind is merged with what follows it, and the walk's choice carries no tag in use.

**ImageGate.** The same claims on a handle that was saved and loaded, any number of times.
The invariant `GInv` adds to `IInv`: the counters are sums over the blocks, the live bytes leave room for the sync header, and the root item's
block is in use. The gate's two walks are then shown to end where they should on every
image the allocator wrote. Premises `Aligned` and `Misuse = FALSE`. Theorems:
`LoadedInvariant`, `LoadedHeapIsWhole`, `OwnImageIsAccepted`, `RoomForSyncHolds`,
`LoadedIsNotBlamed`, `LoadedRefusalIsHonest`, `LoadedBlocksStay`, `KeptUntilLoadHolds`, and
`DoorIsHonestHolds` for creation sizes that leave a word below the ceiling of sizes.

**StoreSave.** The inductive invariant `WInv` says: an inode that the store's path, the
disk's directory or a loader leads to is whole and flushed; a temporary name leads
to an inode that nothing else leads to; and that inode holds exactly the parts its
Save has written so far. Premises: no two savers share a thread id (`UniqueIds`;
`store_processes` shows it cannot go) and fsync does not fail. The lock is not used:
two savers can be past it at once, and the argument is the private inode and the
rename. From `WInv`: `StoreIsWhole`, `ReadersReadWhole`, and `PromiseKept`, that
StoreSave implements AtomicStore. `TypeCorrect` needs neither premise.

`NothingLeft` is the other half of a Save, `Tidy`: when no Save is in progress, no lock file
and no temporary file is there. The invariant `TidyInv` says who will remove each: the
path of the lock leads to an inode that some saver has open and is still to unlink, a
temporary name has a saver before its rename or its discard, a saver that has unlinked the
lock does not have the one that is there now, and no inode is both. So a lock unlinked
under the others, and made anew by a third, is still somebody's to remove. Premises:
nobody crashes (`MayCrash = FALSE`), and flock fails only where the lock is held
(`FlockMayFail = FALSE`, section 5); thread ids may be shared.

**CompletionPort.** `KeysAreBound`: a completion carries the key of the socket its
operation was asked for. The inductive invariant `KInv` says that a descriptor no
thread is closing has the key of the socket it stands for, that one being closed
is still open and has one closer, and that an OVERLAPPED's key is its socket's.
What the ring and the kernel do is not needed: whichever completion comes next,
its key was bound when the operation was asked for.

`PortIsWhole`: every operation and post that was promised is in exactly one place, an
abort comes only for a socket that was closed, and a cancel keeps the file that the
kernel holds. The inductive invariant `WInv` counts: the places an OVERLAPPED can be in
(the owner's queue, the ring with or without an entry, the kernel, the completions, the
hands of one thread) add up to one while it is pending and to none after, through
submissions that are refused, short writes and rearmed entries. `Drain` and `Flush` are
loops and their effect is a fold; each is unfolded one entry at a time, and the
invariant holds between the entries. The sockets that are closed or being closed only
grow, and until a socket is among them its operations' descriptors stand for it. There is
no premise beyond `PortAssumption`.

**HandleTable.** `RegistryIsSafe`, `RegistryTruthful`, `DestroysDeleteOnce`: an object is
registered, or in the hands of the one call that makes or deletes it; the
registration passes from the one to the other in one locked step. It holds whether
or not addresses are given out under unfinished calls (`Recycled`) and in whatever
order owners are destroyed (`Orderly`), for any number of threads. `CallsAreSafe`: a body
runs on live objects of the kinds its entry point asked for. Its premise is `Orderly`, the
header's rule to callers; `Recycled` stays arbitrary.

**InodeTable.** `InodesFaithful`, `InodesTyped`: identities of blocks are never used
twice, a stamp belongs to one open of one store, and under its own stamp a count
that has moved on never comes back while it does not wrap.

**PagingSinks.** `KeysHeld`, for hosts that do not push (`~Pushes`).

**P2PEvent.** `WaitsAreSound`, from `SpinsEnd` and `WaitsOrdered`: what a waiter spins for
has been done or is the next thing some setter does, and the generation it takes
belongs to a signal.

**EventLife.** `LivesAreSound`: no event is used after its delete, deleted twice or
lost. The invariant: what a frame of the call stack, the slot or an owner holds is alive, what
is alive is held by one of them, and only an exception in flight is held twice, by its
frame and by the slot. Premises: no sink parks an event from within a
Cancel (`"park" \notin Inner`, section 5) and nesting is allowed at all
(`LifeMaxDepth >= 1`).

**StoreLoad.** `LoadIsSound`: a heap's count is the number of places that name it, in every
step of every call, and a buffer is in one hand. No premise.

**EventReport.** `ReportsAreSound`. The invariant has three layers: a thread's stack of places
tells how often it holds the lock (`Control`); what is shown carries the number of a
call already begun, so that the next starts unseen (`Displayed`); and for a host that
resolves the latch first, the main thread's first call goes through its stages while
no other thread has begun, after which the latch, the name and the file stay what they are
(`SettledInv`). No premise.

**ImageFields.** `FieldsReadBack`. The invariant says of each family which numbers it may
hold: a count from zero up, a tally on both sides of zero, a sum of sizes below the heap's
ceiling, a tested link anything its width can hold; each of them comes back through the
type its getter answers in. The premise is that no size reaches 2 GiB
(`FieldSize \subseteq 1 .. Half - 1`): above, a block's size and its negation, the mark of a
free block, are told apart no more.

**MsgObject.** `ObjectsAreSafe`. The invariant `ObjectInv` gives an object one of four seats (dead;
with its own array; with a block of the heap it holds; with nothing) and a block one
keeper: it is free, an item, or a payload that exactly one item or array chains to. A heap's count
is its holders plus the references that the call in progress has taken and not placed
yet: two of them at most, the parameters of `ObjectInv`, and both absent between calls. Every
action is a chain of the same steps (take a heap, detach, adopt, copy a payload, drop a
chain), each with a lemma that says which references it takes and which it gives back.
The premise is the run's, `CopyRefused = FALSE`: that the heap has the block a
copied payload asks for (`P2Pmsg.cpp:2624` goes on without it).

**MsgDesc.** `ChainIsSound`, `GotoIsRight`, `SortedInHolds`, `LoopsDeliverHolds`. The chain is at
every moment some ring: a function from ordinals to blocks that `next` and `prev`
follow, injective below the count and absent past it. Linking in, unlinking and swapping
(adjacent or not) are each one change of that function, so what a cursor caches or a
loop has passed can be said of ordinals. The inductive invariant `DescInv` adds: a
loop's own cursor stands behind its ordinal, so that its next Goto reads the chain and
not what it saw before; a Delete(item) that set out from a true cursor still has its
item ahead; the names a sort has passed are in order. The binary search keeps the new name
between the names outside its bounds, from which its place follows. Two premises, the
run's: no name in use begins another (`Apart`; `desc_prefix` shows that the chain is lost
without it, and why) and nobody pushes a name twice (`Duplicates = FALSE`).

**Triggers.** `WalksAreSafe`, `TriggersAreSound`. A list of registrations holds each of them
once; a walk stands before a registration of its list, or at its end, and the list is
held by a live block, or by the walk that took it out of the map and deletes it. So what a
sink fires, frees or drops takes no registration from under a walk below it on the stack:
`Purged` removes from a list what one window dropped, and those that stay keep their
order. A sweep's keys behind its position are cleaned of what it sweeps. Premises: one
call may be open (`TriggerMaxDepth >= 1`), and for `TriggersAreSound` the chained map
(`Vector = FALSE`; the vector map's sweep skips a key, section 5). `WalksAreSafe` is the
part that holds for the map of either kind. That sinks drop only what they are called for is
in the model's actions.

**DataCell.** `CellsAreSound`. Whatever block a cell's value is in, its own or the one it
chains to, that block *Keeps* what the last write left: the descriptor lies inside
the space and counts no more than it declares, and in a cell whose growth was
refused after its chain was given back (`lost`) it has no capacity or one that fits. No cell
leads to another's block, and a live block nothing leads to is in `stray`. Every operation is a
chain of three moves, each a lemma: put a record where the value is (`PutWhereItIs`), chain
the cell to a new block (`ChainedTo`), give the chain back (`LetGoOf`). A refusal comes between
the last and the second, which is why the invariant has to hold in between. The premise
is `TextFixed`: no text kind is 'var' (section 5). The constants say that
widths are numbered from one and that each can count at least one unit.

**MsgElems.** `ElemsAreSound`, `ElemsImplement`: the list, the vector and the caller's walk, and
that each call is a step of `ElemSeq`. The inductive invariant `ElemInv` names three
sequences of addresses that the state holds (`Held`): the elements L of the list, linked from either
end; the blocks B of the vector, each chained to the next; and the vector's elements E, slot
by slot across B, with no element in both. The part of L behind the walk's position is what
the walk has handed out (`WalkIs`). `ElemCalls_proof` has a lemma for each operation, one
change of a link or a slot at a time: linking in at an end, unlinking, a slot set beyond the last
block, and the two shifts, of which is said what has moved after k rounds, and that a
refusal between two rounds leaves L, B and E as they were. `MsgElems_proof` puts the calls
together. After a call blocks are numbered anew, which renames L, B and E
alike. The assumptions are the module's own: an arena of some size (`ElemSize \in Nat`) and a
slot or more to a block. The loops of `MsgElems` are recursive functions of the round, which is
what lets them be proved about.

**Only model-checked.**
- Liveness (`Terminates`, `SavesEnd`, `Delivered`, `LoopsSound`): TLAPS does not prove
  liveness under fairness, nor ENABLED. What `SavesEnd` and `LoopsSound` say
  of safety is proved: `NothingLeft`, `SortedInHolds`, `LoopsDeliverHolds`.
- `TreeSound` and `TreeImplements`: `MsgTree` copies and drops subtrees by RECURSIVE
  operators, and no module with a theorem may reach one. A copy that is refused stops
  half way and keeps what it had made, so that the operators cannot be replaced by a closure over
  the tree; the run has them on trees of seven blocks.

## 5. What the checks show about the code

**Findings**, each a violation run with the comment quoted in `PROJECT.json`: two
processes' savers share a temporary name and the lock does not keep them apart
(`store_processes`); the sorted insert leaves its search by neither arm for some names
of which one begins another, and the chain is lost (`desc_prefix`); a message image
that is loaded and saved again is written without the free bytes its header declares,
and does not load any more (`gate_resaved`).

**Met while modelling**, without a run of their own. Where a premise or a bound of the
checked properties follows from one, it is named.

*Heap.*
- `MsgVBHeap.cpp:3135`: the first block is built on the rounded creation size, the
  arena's end is recorded unrounded (2299); the first growth then starts inside the
  block. Premise `Aligned`.
- `MsgVBHeap.cpp:1157`: the scrub ahead of Save clears the tags of the blocks that are
  free now; tags of blocks merged away stay in the slack that is written, against 1110.
- A second Free lowers `nSizeofUsed` although it is refused (4199, 4957). Premise
  `Misuse = FALSE` of the counters.
- `-(int)nSizeof` (4142) turns the sign of blocks of 2 GiB. `FieldSize` stays below.
- Triggers are "only available for BSTRio heap types" (`MsgVBHeap.h:72`); nothing refuses
  them on an IOMAGE heap, whose handle keeps its root where the map's pointer would be
  (`MsgVBHeap.cpp:859-887`, 5328). `Triggers` is a BSTRio heap's.
*Store.*
- `P2PmsgMgr.cpp:492`: the result of the flush is not looked at. Premise
  `FlushMayFail = FALSE`.
- The rename is not followed by a flush of the directory; `AtomicStore` allows the
  disk to lag. The lock admits two savers at once (harmless with distinct ids). An
  flock that fails with another error than "held" leaves the lock file behind
  (`FlockMayFail = FALSE` in `store_returns`).
- `msgcore_mgr_open_file` (`Msgcore_c.cpp:250`) returns a handle also when the load
  failed, against `Msgcore_c.h:138`; a Save of that manager dereferences a null handle
  (`MsgVBHeap.cpp:3872`). In `StoreLoad` such a manager has no heap and no Save.
*Port.*
- A read queued for the pump is issued on a descriptor number that may be another
  socket's by then (`p2piocp.cpp:323`); no property forbids it.
- The remainder of a short write can be submitted after the cancel that should have
  ended it (501). `port_answers` has `Parts = 1`.
*Messages.*
- `P2Pmsg.cpp:2624`: the value arm of `Connect` copies the chain pointer and then
  privatises it; if that throws, two objects free one block. `CopyRefused = FALSE`.
- `P2Pmsg.cpp:8756`: the test that keeps a move out of its own subtree climbs by
  GetParentItem, which has no answer for lists, vectors and collections not yet made;
  it misses some destinations below the item, and the copy has no end, against 8791.
  `Endless` names those moves and they are left out.
- `MsgCurs.cpp:439`: a cursor answers from its cache after its item was deleted by
  another, against `stack_paths.md:3801`. `GotoRight` is stated for cursors still true to the
  chain (`Exact`).
- DropHead, DropTail, Delete and Truncate of a list unlink the element and never free
  its block (`P2Pmsg.cpp:7041`). A vector's Delete frees the element (`MsgVect.cpp:499`) and keeps
  the continuation blocks, which Truncate frees (539-566). `ElemRenumbered` gives lost
  blocks new numbers and does not collect them: they stay used until the arena is full.
- `P2PmsgVBLock.cpp:2236`: a copy of a 'var' text kind keeps the source's whole capacity
  (2204-2260), but its room is asked for by its content only (1565-1587), so that the target may
  declare more than its block holds. No constructor makes such a cell unless asked for
  the kind (`P2Pmsg.cpp:236`). Premise `TextFixed`; `MCKind` has one fixed text kind
  and one 'var' blob.
*Host.*
- `Msgexception.cpp:1239`: SetLogFile asks for the configuration first, but the test
  (`P2PcfgEnsure`) is made without the lock and not made again under it, so that
  another thread's first diagnostic can undo the path just set; the seed of the
  text latch (1443-1458) can be written over an answer in the same way. `SettledNamed`,
  `SettledText` and `ForceStands` are stated for hosts that resolve the latch before they start threads
  (`settled`).
- A sink that parks an event from within Cancel of the thread's last one leaves the
  slot pointing to memory that is then deleted (`Msgexception.cpp:111`, 2449): with
  "park" in `Inner`, `NoneDangles` fails.
- `P2PmsgMgr.cpp:730`: PageRegistrationPush saves the registration and leaves it in
  place, against `Msgcore_c.h:1077`. Premise `Pushes = FALSE`.
- Two waiters on an auto-reset event may both have polled before either reads, and one
  signal then releases both, where `p2pthread.h:72` says it releases one; and a generation
  left by an earlier signal lets a waiter through before the release of the signal that woke it
  (106). `WaitsSound` claims neither: a wait is ordered after some signal. The run has
  `Manual = TRUE`; the theorems have no such premise.
- `P2PmsgHeap_DropTriggers` (`MsgVBHeap.cpp:5447`) removes a key while it iterates a
  map whose positions are indices into a vector of keys (`mfcshim.h:276`), and skips the
  next one. `Vector = FALSE`. A sink that drops or fires again on a DELETE pass makes the
  walk stale; `Triggers` lets sinks drop only for what they are called for.
- The header asks a caller to destroy what points into an object first
  (`Msgcore_c.h:84`); nothing checks it. Premise `Orderly = TRUE` of `CallsSafe`.

## 6. What is left

1. The rest of `CompletionPort`: accepts, `p2p_iocp_cancel`, the end of a port against
   late posts; the epoll variant.
2. Threads and handles of `p2ptypes.h`: reuse of a retired handle, join against close,
   time-outs of a wait.
3. The tree over `AbstractHeap` instead of an arena of equal blocks; cells inside the
   tree.
4. Proofs about `MsgTree`, with its recursion as functions of the depth.

## 7. What is not modelled

The byte order and the parse of images that come from outside, Windows's file system,
the SYS and CHUNK arms beyond their counts, formatting, text conversion and the
wording of errors, wildcard comparison (a pattern is the set of names it matches), the
cryptographic, serial, service and socket shims (one to one wrappers without state),
`Kernel32_Ext` and `MsgFieldRef` (no state of their own), serialisation to text, and
what section 6 has left. Tests and fuzzers were read for what the code promises.
