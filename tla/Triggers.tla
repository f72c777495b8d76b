------------------------------ MODULE Triggers ------------------------------
(***************************************************************************)
(* Change notification (src/MsgVBHeap.cpp, src/P2PmsgMgr.cpp).  A heap maps *)
(* the address of a block to the list of the registrations armed on it.     *)
(* Firing walks that list and calls the host's sink for each registration   *)
(* that the mask names; the sink runs in the middle of the walk, on the     *)
(* same thread, and may call back into the same lists.  The walk holds the  *)
(* list and the node it goes to next, and the frame keeps whether either was *)
(* freed under it.                                                          *)
(*                                                                         *)
(* A registration is one window (None: the headless host) and one type: the *)
(* manager registers the types of a mask one by one, and a second           *)
(* registration of the same window and type reuses the node.               *)
(***************************************************************************)
EXTENDS Naturals, Sequences, FiniteSets, NoValue

CONSTANTS
    Addrs,       \* blocks a trigger can be armed on
    Windows,     \* who is notified
    Masks,       \* masks of types that are armed, fired and dropped
    SinkDoes,    \* what the host's sink does: subset of SinkActs
    Vector,      \* the map is the one of mfcshim.h (its keys are in a vector)
    TriggerMaxDepth,    \* bound: nested walks
    MaxList      \* bound: registrations of one block

Types == <<"insert", "update", "delete", "active">>

\* Arm another trigger, fire another one, drop the one it is called for.
SinkActs == {"arm", "fire", "drop"}

Nodes == [win : Windows, type : {Types[i] : i \in DOMAIN Types}]

ASSUME TriggerAssumption ==
    /\ None \notin Addrs \cup Nodes
    /\ Masks \subseteq SUBSET {Types[i] : i \in DOMAIN Types}
    /\ SinkDoes \subseteq SinkActs /\ Vector \in BOOLEAN /\ {TriggerMaxDepth, MaxList} \subseteq Nat

VARIABLES
    live,        \* the blocks that are allocated
    order,       \* the keys of the map, in the order they were set
    regs,        \* per block: its registrations, << >> when it has no list
    triggerFrames,      \* the walks under way, innermost first
    sweep        \* the drop under way over every key, at a position or at None

triggerVars == <<live, order, regs, triggerFrames, sweep>>

Elements(s) == {s[i] : i \in DOMAIN s}
NoSweep == [on |-> FALSE, win |-> None, mask |-> {}, pos |-> None]

TriggerTypeOK ==
    /\ live \subseteq Addrs /\ regs \in [Addrs -> Seq(Nodes)]
    /\ \A i \in DOMAIN order : order[i] \in Addrs
    /\ Len(triggerFrames) <= TriggerMaxDepth
    /\ sweep.on \in BOOLEAN /\ sweep.mask \subseteq Elements(Types)

TriggerInit ==
    /\ live = {} /\ order = << >> /\ triggerFrames = << >> /\ sweep = NoSweep
    /\ regs = [a \in Addrs |-> << >>]

-----------------------------------------------------------------------------
(* Lists and the map *)

\* The element after n, None at the end.
After(s, n) ==
    LET i == CHOOSE j \in DOMAIN s : s[j] = n
    IN  IF i < Len(s) THEN s[i + 1] ELSE None

\* The sequence s without what is in S (RemoveAt for each of it).
Purged(s, S) ==
    LET f[k \in 0 .. Len(s)] ==
            IF k = 0 THEN << >> ELSE IF s[k] \in S THEN f[k - 1] ELSE Append(f[k - 1], s[k])
    IN  f[Len(s)]

\* The list with a node for every type of the mask, new ones at its tail.
Arm(s, win, mask) ==
    LET new == Purged(Types, {t \in Elements(Types) : t \in mask => [win |-> win, type |-> t] \in Elements(s)})
    IN  s \o [i \in DOMAIN new |-> [win |-> win, type |-> new[i]]]

\* The registrations a drop takes: of that window, and of a type in the mask.
Taken(s, win, mask) == {n \in Elements(s) : n.win = win /\ n.type \in mask}

\* Mutant: the key of an empty list stays in the map.
KeysKept(a, rest) == order

\* An empty list is deleted, and its key leaves the map.
KeysLeft(a, rest) ==
    IF rest = << >> THEN Purged(order, {a}) ELSE order

\* The walks that stand before a freed node, or on a freed list.
Touched(fs, a, nodes, whole) ==
    [i \in DOMAIN fs |->
        IF fs[i].addr # a THEN fs[i]
        ELSE [fs[i] EXCEPT !.stale = @ \/ fs[i].next \in nodes,
                           !.list = @ /\ ~whole]]

TakeOut(a, nodes, fs) ==
    LET rest == Purged(regs[a], nodes)
    IN  /\ regs' = [regs EXCEPT ![a] = rest]
        /\ order' = KeysLeft(a, rest)
        /\ triggerFrames' = Touched(fs, a, nodes, rest = << >>)

-----------------------------------------------------------------------------
(* Who calls: the host, or its sink from within a walk *)

TriggerTop == Head(triggerFrames)
Outside == triggerFrames = << >> /\ ~sweep.on
InSink == triggerFrames # << >> /\ TriggerTop.at = "sink"
May(act) == Outside \/ (InSink /\ act \in SinkDoes)

\* A block is allocated.
Allocate ==
    /\ Outside /\ \E a \in Addrs \ live : live' = live \cup {a}
    /\ UNCHANGED <<order, regs, triggerFrames, sweep>>

\* P2PmsgMgr::CreateTrigger, P2PmsgHeap_CreateTrigger.
CreateTrigger ==
    /\ May("arm")
    /\ \E a \in live, win \in Windows, mask \in Masks :
          /\ Len(Arm(regs[a], win, mask)) <= MaxList
          /\ regs' = [regs EXCEPT ![a] = Arm(@, win, mask)]
          /\ order' = IF a \in Elements(order) \/ Arm(regs[a], win, mask) = << >> THEN order
                      ELSE Append(order, a)
    /\ UNCHANGED <<live, triggerFrames, sweep>>

\* P2PmsgHeap_ProcTriggers begins, for a caller's mask or for a freed block.
Begin(a, mask) ==
    triggerFrames' = IF regs[a] = << >> THEN triggerFrames
              ELSE <<[at |-> "walk", addr |-> a, next |-> Head(regs[a]), mask |-> mask,
                      node |-> None, stale |-> FALSE, list |-> TRUE]>> \o triggerFrames

FireTrigger ==
    /\ May("fire") /\ Len(triggerFrames) < TriggerMaxDepth
    /\ \E a \in live, mask \in Masks :
          \* a sink fires for another block than the ones being walked
          /\ \A i \in DOMAIN triggerFrames : triggerFrames[i].addr # a
          /\ Begin(a, mask)
    /\ UNCHANGED <<live, order, regs, sweep>>

\* P2PmsgHeap_FreeBSTRio fires DELETE for the block it has just freed.
TriggerFree ==
    /\ Outside
    /\ \E a \in live : live' = live \ {a} /\ Begin(a, {"delete"})
    /\ UNCHANGED <<order, regs, sweep>>

\* Mutant: the walk stands on the node while its sink runs.
StayOn(s, n) == n

\* The cursor is past the node before the node's sink runs.
StepOn(s, n) == After(s, n)

\* One registration: step on first, then notify when the mask names its type.
Visit ==
    /\ triggerFrames # << >> /\ TriggerTop.at = "walk" /\ TriggerTop.next # None
    /\ ~TriggerTop.stale
    /\ triggerFrames' = <<[TriggerTop EXCEPT !.next = StepOn(regs[TriggerTop.addr], TriggerTop.next), !.node = TriggerTop.next,
                               !.at = IF TriggerTop.next.type \in TriggerTop.mask THEN "sink" ELSE "walk"]>>
                 \o Tail(triggerFrames)
    /\ UNCHANGED <<live, order, regs, sweep>>

SinkReturns ==
    /\ InSink
    /\ triggerFrames' = <<[TriggerTop EXCEPT !.at = "walk"]>> \o Tail(triggerFrames)
    /\ UNCHANGED <<live, order, regs, sweep>>

\* Mutant: a pass for DELETE drops only the registrations it has notified.
DroppedNotified(s, mask) ==
    IF "delete" \in mask THEN {n \in Elements(s) : n.type \in mask} ELSE {}

\* A pass for DELETE drops every registration of the block.
Dropped(s, mask) == IF "delete" \in mask THEN Elements(s) ELSE {}

\* The end of the list.
Ends ==
    /\ triggerFrames # << >> /\ TriggerTop.at = "walk" /\ TriggerTop.next = None
    /\ IF Dropped(regs[TriggerTop.addr], TriggerTop.mask) = {}
       THEN triggerFrames' = Tail(triggerFrames) /\ UNCHANGED <<order, regs>>
       ELSE TakeOut(TriggerTop.addr, Dropped(regs[TriggerTop.addr], TriggerTop.mask), Tail(triggerFrames))
    /\ UNCHANGED <<live, sweep>>

\* The sink takes its own registration out, except in a pass for DELETE.
DropOwn ==
    /\ InSink /\ "drop" \in SinkDoes /\ "delete" \notin TriggerTop.mask
    /\ TakeOut(TriggerTop.addr, Taken(regs[TriggerTop.addr], TriggerTop.node.win, {TriggerTop.node.type}), triggerFrames)

\* P2PmsgHeap_DropTrigger: of one block.
DropTrigger ==
    /\ \/ Outside /\ \E a \in Addrs, win \in Windows, mask \in Masks :
             TakeOut(a, Taken(regs[a], win, mask), triggerFrames)
       \/ DropOwn
    /\ UNCHANGED <<live, sweep>>

-----------------------------------------------------------------------------
(* P2PmsgHeap_DropTriggers: of every block *)

\* Mutant: the chained map counts its keys as the vector does.
NextCounted(pos) ==
    LET rest == Purged(order, {pos})
    IN  IF Vector THEN IF pos < Len(order) THEN pos + 1 ELSE None
        ELSE IF Len(rest) > 1 THEN rest[2] ELSE None

\* The position after pos: an index into the vector of keys, or the next entry
\* of the chained map itself.
NextPos(pos) ==
    IF Vector THEN IF pos < Len(order) THEN pos + 1 ELSE None
    ELSE After(order, pos)

DropTriggers ==
    /\ Outside /\ order # << >>
    /\ \E win \in Windows, mask \in Masks :
          sweep' = [on |-> TRUE, win |-> win, mask |-> mask,
                    pos |-> IF Vector THEN 1 ELSE Head(order)]
    /\ UNCHANGED <<live, order, regs, triggerFrames>>

\* The cursor steps on before the entry leaves the map.
SweepOne ==
    /\ sweep.on /\ sweep.pos # None
    /\ Vector => sweep.pos \in DOMAIN order
    /\ LET a == IF Vector THEN order[sweep.pos] ELSE sweep.pos
       IN  TakeOut(a, Taken(regs[a], sweep.win, sweep.mask), triggerFrames)
    /\ sweep' = [sweep EXCEPT !.pos = NextPos(@)]
    /\ UNCHANGED live

SweepEnds ==
    /\ sweep.on /\ sweep.pos = None
    /\ sweep' = NoSweep
    /\ UNCHANGED <<live, order, regs, triggerFrames>>

TriggerNext ==
    \/ Allocate \/ CreateTrigger \/ FireTrigger \/ TriggerFree \/ Visit \/ SinkReturns
    \/ Ends \/ DropTrigger \/ DropTriggers \/ SweepOne \/ SweepEnds

TriggerSpec == TriggerInit /\ [][TriggerNext]_triggerVars

-----------------------------------------------------------------------------
(* Properties *)

\* A walk never goes on to a node, nor deletes a list, that the sink it called
\* has had freed under it (a sink that arms, that notifies of another block, or
\* that drops the registration it is called for).
NoStaleWalk ==
    \A i \in DOMAIN triggerFrames :
        ~triggerFrames[i].stale /\ ("delete" \in triggerFrames[i].mask => triggerFrames[i].list)

\* A block that was freed leaves no registration to the block that is given its
\* address next: once no walk is under way, only live blocks are armed.
NoneInherited == Outside => \A a \in Addrs : regs[a] # << >> => a \in live

\* The keys a sweep goes through are the blocks that have a registration, each
\* once: no empty list stays in the map, and no list is out of a sweep's sight.
KeysMatch ==
    /\ Len(order) = Cardinality(Elements(order))
    /\ Elements(order) = {a \in Addrs : regs[a] # << >>}

\* When a sweep ends, nothing of what it was asked to drop is left.
SweptClean ==
    sweep.on /\ sweep.pos = None =>
        \A a \in Addrs : Taken(regs[a], sweep.win, sweep.mask) = {}

\* All together: what a sink arms, fires and drops from within a walk.
TriggersSound == TriggerTypeOK /\ NoStaleWalk /\ NoneInherited /\ KeysMatch /\ SweptClean
=============================================================================
