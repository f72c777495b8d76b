------------------------------ MODULE MsgTree ------------------------------
(***************************************************************************)
(* The message tree (P2Pmsg.cpp, MsgAttr.cpp, MsgDesc.cpp, MsgStck.cpp).   *)
(* An item is a block of the arena.  It may have a block for its           *)
(* attributes, one for its descendants, and a stack of snapshots of itself *)
(* as it stood at each Push, the newest first.  A collection block knows   *)
(* the item it hangs off; an item knows the collection it is linked into,  *)
(* and a snapshot the item it was pushed from.                             *)
(*                                                                         *)
(* Every call below is one action that threads a state s = [m, ok] through *)
(* the code's steps: the arena may run out at any allocation, the call     *)
(* then throws, and what it had done stays.  The order of a collection is  *)
(* that of its links (MsgDesc); cells and element blocks are the concern   *)
(* of DataCell and MsgElems: here an item's data, or the elements of a list, *)
(* are one value.  A wrapper is made anew for each call, as                *)
(* P3PmsgField::RewindCurs asks of callers that keep several.              *)
(***************************************************************************)
EXTENDS Integers, Sequences, FiniteSets, NoValue

LOCAL INSTANCE SequencesExt
LOCAL INSTANCE FiniteSetsExt

CONSTANTS TreeAddr,    \* addresses of blocks, as numbers
          Root,    \* the root item
          TreeKind,    \* the kinds of item in use, of "field", "list", "vect"
          Name, Datum,
          Tag,     \* the names given to attributes
          Repush,  \* may a caller push what is itself a snapshot?
          Loaded,  \* the trees a store may be loaded with
          Calls    \* bound on the calls made

ASSUME RootAssumption == Root \in TreeAddr /\ TreeAddr \subseteq Nat /\ None \notin TreeAddr
ASSUME KindAssumption == "field" \in TreeKind /\ TreeKind \subseteq {"field", "list", "vect"}
ASSUME RepushAssumption == Repush \in BOOLEAN

VARIABLES treeMem,   \* the arena
          treeOk,    \* did the last call return?
          calls  \* how many were made

treeVars == <<treeMem, treeOk, calls>>

Side == {"attr", "desc"}
TreeItems == {"field", "list", "vect"}

TreeFree == [is |-> "free", name |-> None, val |-> None, up |-> None, stack |-> None,
         attr |-> None, desc |-> None, kids |-> <<>>]

TreeStart == [m |-> treeMem, ok |-> TRUE]
TreeUsed == {a \in TreeAddr : treeMem[a].is # "free"}
Item == {a \in TreeAddr : treeMem[a].is \in TreeItems}
Coll == {a \in TreeAddr : treeMem[a].is \in Side}

(* the blocks an item or a collection keeps, itself included *)
RECURSIVE Below(_, _)
Below(m, x) ==
  LET parts == ({m[x].attr, m[x].desc, m[x].stack} \ {None}) \cup {m[x].kids[i] : i \in DOMAIN m[x].kids}
  IN {x} \cup UNION {Below(m, y) : y \in parts}

-----------------------------------------------------------------------------
(* the steps of a call; after a throw the rest of the call is not executed *)

Put(s, x, field, v) == [s EXCEPT !.m[x][field] = v]

TreeThrow(s) == [s EXCEPT !.ok = FALSE]
TreeThen(s, Rest(_)) == IF s.ok THEN Rest(s) ELSE s

(* the block an allocation is given: the lowest that is free *)
TreeNew(s) == CHOOSE a \in TreeAddr : /\ s.m[a].is = "free"
                              /\ \A b \in TreeAddr : b < a => s.m[b].is # "free"

(* AllocVBLock and the initialisation of the block's head; throws when the arena is full *)
TreeAlloc(s, is, nm, up) ==
  IF \A a \in TreeAddr : s.m[a].is # "free" THEN TreeThrow(s)
  ELSE [s EXCEPT !.m[TreeNew(s)] = [TreeFree EXCEPT !.is = is, !.name = nm, !.up = up]]

(* P3PmsgDesc::Create and P3PmsgAttr::Create, for the item x *)
CreateDesc(s, x) ==
  IF s.m[x].desc # None \/ ~ s.ok THEN s
  ELSE TreeThen(TreeAlloc(s, "desc", None, x), LAMBDA t : Put(t, x, "desc", TreeNew(s)))
CreateAttr(s, x) ==
  IF s.m[x].attr # None \/ ~ s.ok THEN s
  ELSE TreeThen(TreeAlloc(s, "attr", None, x), LAMBDA t : Put(t, x, "attr", TreeNew(s)))
Create(s, x, side) == IF side = "desc" THEN CreateDesc(s, x) ELSE CreateAttr(s, x)

(* P2PmsgDesc_UnLinkItem, P2PmsgAttr_UnLinkItem *)
TreeUnLink(s, x) ==
  LET c == s.m[x].up IN
  Put(Put(s, c, "kids", SelectSeq(s.m[c].kids, LAMBDA y : y # x)), x, "up", None)

OffChain(s, x) ==
  IF s.m[x].up # None /\ s.m[s.m[x].up].is \in Side THEN TreeUnLink(s, x) ELSE s

(* P2PmsgDesc_LinkinItem, P2PmsgAttr_LinkinItem, at the end of the chain *)
TreeLinkIn(s, c, x) == Put(Put(s, c, "kids", Append(s.m[c].kids, x)), x, "up", c)

RECURSIVE TreeDrop(_, _), DropStack(_, _), Truncate(_, _), DropColl(_, _, _)

(* MsgStck::Drop: the head first, each generation taken off the stack before it is dropped *)
DropStack(s, x) ==
  LET g == s.m[x].stack IN
  IF g = None THEN s
  ELSE DropStack(TreeDrop(Put(Put(Put(s, x, "stack", s.m[g].stack), g, "stack", None), g, "up", None), g), x)

(* slip: the block is given back with its head still written *)
DropDirty(s, x) ==
  [OffChain(DropStack(DropColl(DropColl(s, x, "attr"), x, "desc"), x), x) EXCEPT !.m[x].is = "free"]

(* P3PmsgField::Drop, P3PmsgList::Drop, P3PmsgVect::Drop *)
TreeDrop(s, x) ==
  [OffChain(DropStack(DropColl(DropColl(s, x, "attr"), x, "desc"), x), x) EXCEPT !.m[x] = TreeFree]

(* P3PmsgDesc::Truncate, P3PmsgAttr::Truncate: P3PmsgCurs::Delete of the first, until none *)
Truncate(s, c) ==
  IF c = None \/ s.m[c].kids = <<>> THEN s
  ELSE LET x == Head(s.m[c].kids) IN Truncate(TreeDrop(TreeUnLink(s, x), x), c)

(* P3PmsgDesc::Drop, P3PmsgAttr::Drop *)
DropColl(s, x, side) ==
  LET c == s.m[x][side] IN
  IF c = None THEN s ELSE [Put(Truncate(s, c), x, side, None) EXCEPT !.m[c] = TreeFree]

(* P3PmsgCurs::Delete *)
TreeDelete(s, x) ==
  TreeDrop(TreeUnLink(Truncate(Truncate(s, s.m[x].desc), s.m[x].attr), x), x)

RECURSIVE Copy(_, _, _), CopyColl(_, _, _, _), CopyStack(_, _, _), AppendAll(_, _, _)

(* P3PmsgDesc::PushBack and P3PmsgAttr::PushBack of an item that stands in the arena: linked, *)
(* then filled *)
PushBackDesc(s, c, x) ==
  TreeThen(TreeAlloc(s, s.m[x].is, s.m[x].name, None),
           LAMBDA t : Copy(TreeLinkIn(t, c, TreeNew(s)), TreeNew(s), x))
PushBackAttr(s, c, x) ==
  TreeThen(TreeAlloc(s, s.m[x].is, s.m[x].name, None),
           LAMBDA t : Copy(TreeLinkIn(t, c, TreeNew(s)), TreeNew(s), x))
PushBack(s, c, x) == IF ~ s.ok THEN s
                     ELSE IF s.m[c].is = "desc" THEN PushBackDesc(s, c, x) ELSE PushBackAttr(s, c, x)

AppendAll(s, c, xs) ==
  IF xs = <<>> \/ ~ s.ok THEN s ELSE AppendAll(PushBack(s, c, Head(xs)), c, Tail(xs))

(* P3PmsgDesc::operator =, P3PmsgAttr::operator =, from the item x to the item d *)
CopyColl(s, d, x, side) ==
  IF ~ s.ok THEN s
  ELSE IF s.m[x][side] = None \/ s.m[s.m[x][side]].kids = <<>> THEN Truncate(s, s.m[d][side])
  ELSE TreeThen(Create(Truncate(s, s.m[d][side]), d, side),
                LAMBDA t : AppendAll(t, t.m[d][side], t.m[s.m[x][side]].kids))

(* MsgStck__AllocItem of the head of x's stack: rhs.r_item() throws unless x is a field *)
AllocGen(s, d, x) ==
  IF s.m[x].is # "field" THEN TreeThrow(s)
  ELSE TreeThen(TreeAlloc(s, s.m[x].is, s.m[x].name, None), LAMBDA t : Put(t, d, "stack", TreeNew(s)))

(* MsgStck::operator = *)
CopyStack(s, d, x) ==
  IF ~ s.ok THEN s
  ELSE IF s.m[x].stack = None THEN DropStack(s, d)
  ELSE TreeThen(IF s.m[d].stack = None THEN AllocGen(s, d, x) ELSE s,
                LAMBDA t : Copy(t, t.m[d].stack, s.m[x].stack))

(* the name, and the data of a field; the elements of a list or a vector come last *)
CopyHead(s, d, x) ==
  Put(Put(s, d, "name", s.m[x].name), d, "val", IF s.m[x].is = "field" THEN s.m[x].val ELSE None)

(* slip: the stack of what is overwritten is kept *)
CopyKeeping(s, d, x) ==
  LET stacked(t) == IF t.m[x].stack # None THEN CopyStack(t, d, x) ELSE t IN
  TreeThen(stacked(CopyColl(CopyColl(CopyHead(s, d, x), d, x, "attr"), d, x, "desc")),
           LAMBDA t : Put(t, d, "val", s.m[x].val))

(* P3PmsgField::operator =; a list or a vector is emptied first and given its elements last *)
Copy(s, d, x) ==
  TreeThen(CopyStack(CopyColl(CopyColl(CopyHead(s, d, x), d, x, "attr"), d, x, "desc"), d, x),
           LAMBDA t : Put(t, d, "val", s.m[x].val))

(* MsgStck__CopyParts, then MsgStck__CopyElems for a list or a vector *)
CopyParts(s, d, x, restore) ==
  LET part(t, side) == IF t.m[x][side] # None THEN CopyColl(t, d, x, side)
                       ELSE IF restore /\ t.ok THEN DropColl(t, d, side) ELSE t
  IN TreeThen(part(part(CopyHead(s, d, x), "attr"), "desc"), LAMBDA t : Put(t, d, "val", s.m[x].val))

(* the first of a collection that bears a name: P3PmsgCurs::Goto by a fresh cursor *)
Find(m, c, nm) ==
  IF c = None THEN None
  ELSE LET hits == SelectSeq(m[c].kids, LAMBDA y : m[y].name = nm)
       IN IF hits = <<>> THEN None ELSE hits[1]

-----------------------------------------------------------------------------
(* paths: sequences of names and of the delimiters ".", "@" and "^" *)

(* P3Pmsg_GetStckDepth: how many generations down the owner's stack x is, 0 if it is not on it *)
RECURSIVE DepthFrom(_, _, _, _)
DepthFrom(m, x, g, n) == IF g = None THEN 0 ELSE IF g = x THEN n ELSE DepthFrom(m, x, m[g].stack, n + 1)
StckDepth(m, x, owner) == IF m[owner].is \in TreeItems THEN DepthFrom(m, x, m[owner].stack, 1) ELSE 0

RECURSIVE Path(_, _)
(* P3Pmsg_GetAttrPath, P3Pmsg_GetDescPath: the owner's own path, but of no vector *)
OwnerPath(m, o) == IF m[o].is = "vect" THEN <<"Unknown">> ELSE Path(m, o)
(* slip: the generation of a snapshot is not said *)
PathOnce(m, x) ==
  LET up == m[x].up IN
  CASE up = None                             -> <<".", m[x].name>>
    [] up # None /\ m[up].is = "desc"        -> OwnerPath(m, m[up].up) \o <<".", m[x].name>>
    [] up # None /\ m[up].is = "attr"        -> OwnerPath(m, m[up].up) \o <<"@", m[x].name>>
    [] up # None /\ StckDepth(m, x, up) # 0  -> Path(m, up) \o <<"^">>
    [] OTHER                                 -> Path(m, up) \o <<".", m[x].name>>
(* P3Pmsg_GetPath of an item: floating, a snapshot, a descendant or an attribute *)
ItemPath(m, x) ==
  LET up == m[x].up IN
  CASE up = None                             -> <<".", m[x].name>>
    [] up # None /\ m[up].is = "desc"        -> OwnerPath(m, m[up].up) \o <<".", m[x].name>>
    [] up # None /\ m[up].is = "attr"        -> OwnerPath(m, m[up].up) \o <<"@", m[x].name>>
    [] up # None /\ StckDepth(m, x, up) # 0  -> Path(m, up) \o [i \in 1 .. StckDepth(m, x, up) |-> "^"]
    [] OTHER                                 -> Path(m, up) \o <<".", m[x].name>>
(* P3Pmsg_GetPath of an attribute collection, and of a descendant collection *)
AttrPath(m, c) == Path(m, m[c].up) \o <<"@">>
DescPath(m, c) == Path(m, m[c].up) \o <<".">>
Path(m, x) == CASE m[x].is = "attr" -> AttrPath(m, x)
                [] m[x].is = "desc" -> DescPath(m, x)
                [] OTHER            -> ItemPath(m, x)

Delim == {".", "@", "^"}
(* P3Pmsg_IsPathDelimiter: a delimiter or the end *)
AtDelimiter(p) == p = <<>> \/ (p # <<>> /\ Head(p) \in Delim)

RECURSIVE Recurse(_, _, _)
(* what is left of the path is read against y, if there is a y *)
Onward(m, y, p) == IF p = <<>> THEN y ELSE Recurse(m, y, p)

(* P3Pmsg_SelectObjectRecurse, items, lists and vectors *)
RecurseItem(m, x, p) ==
  CASE p = <<>> -> None
    [] p # <<>> /\ Head(p) = "." -> IF AtDelimiter(Tail(p)) THEN Onward(m, m[x].desc, Tail(p))
                                                            ELSE Recurse(m, x, Tail(p))
    [] p # <<>> /\ Head(p) = "@" -> Onward(m, m[x].attr, Tail(p))
    [] p # <<>> /\ Head(p) = "^" -> Onward(m, m[x].stack, Tail(p))
    [] OTHER -> Onward(m, Find(m, m[x].desc, Head(p)), Tail(p))

(* slip: '^' is taken for the snapshot itself *)
RecurseOwner(m, c, p) ==
  CASE p = <<>> \/ Head(p) \in {".", "@"} -> None
    [] p # <<>> /\ Head(p) = "^" -> LET g == m[m[c].up].stack IN
                                    IF g = None THEN None ELSE Onward(m, g, Tail(p))
    [] OTHER -> Onward(m, Find(m, c, Head(p)), Tail(p))

(* the same, attribute collections: '^' is the owner's snapshot's own collection *)
RecurseAttr(m, c, p) ==
  CASE p = <<>> \/ Head(p) \in {".", "@"} -> None
    [] p # <<>> /\ Head(p) = "^" -> LET g == m[m[c].up].stack IN
                                    IF g = None THEN None ELSE Onward(m, m[g].attr, Tail(p))
    [] OTHER -> Onward(m, Find(m, c, Head(p)), Tail(p))

(* the same, descendant collections: '.' enters the collection it is in *)
RecurseDesc(m, c, p) ==
  CASE p = <<>> -> None
    [] p # <<>> /\ Head(p) = "@" -> None
    [] p # <<>> /\ Head(p) = "." -> Recurse(m, c, Tail(p))
    [] p # <<>> /\ Head(p) = "^" -> LET g == m[m[c].up].stack IN
                                    IF g = None THEN None ELSE Onward(m, m[g].desc, Tail(p))
    [] OTHER -> Onward(m, Find(m, c, Head(p)), Tail(p))

Recurse(m, x, p) == CASE x = None -> None
                      [] x # None /\ m[x].is = "attr" -> RecurseAttr(m, x, p)
                      [] x # None /\ m[x].is = "desc" -> RecurseDesc(m, x, p)
                      [] OTHER -> RecurseItem(m, x, p)

(* P3Pmsg_SelectObject: a leading '.' and a name, on what has no parent, must be its own name *)
Select(m, x, p) ==
  IF Head(p) # "." \/ AtDelimiter(Tail(p)) THEN Recurse(m, x, p)
  ELSE IF m[x].is \in Side THEN Onward(m, Find(m, x, p[2]), SubSeq(p, 3, Len(p)))
  ELSE IF m[x].up # None THEN Recurse(m, x, p)
  ELSE IF m[x].name # p[2] THEN None
  ELSE Onward(m, x, SubSeq(p, 3, Len(p)))

(* P3PmsgObject::GetParentItem: the owner of a collection, the owner of an item's collection; *)
(* an item's parent is taken for a collection, and a list or a vector has none *)
RECURSIVE ParentItem(_, _)
ParentItem(m, x) == CASE m[x].is \in Side -> m[x].up
                      [] m[x].is = "field" -> IF m[x].up = None THEN None ELSE ParentItem(m, m[x].up)
                      [] OTHER -> None

(* P3PmsgRefactor__IsWithin *)
RECURSIVE IsWithin(_, _, _)
IsWithin(m, y, x) == CASE y = None -> FALSE
                       [] y = x    -> TRUE
                       [] y = Root -> FALSE
                       [] OTHER    -> IsWithin(m, ParentItem(m, y), x)
-----------------------------------------------------------------------------
(* the calls *)

(* Addresses have no meaning of their own: after a call the blocks are renumbered in the order *)
(* the tree is walked, what is out of the tree last, so that states that differ only by the *)
(* arena's choices are one. *)
RECURSIVE TreeWalk(_, _, _)
TreeWalk(m, seen, x) ==
  IF x = None \/ x \in ToSet(seen) THEN seen
  ELSE FoldLeft(LAMBDA acc, y : TreeWalk(m, acc, y), Append(seen, x),
                <<m[x].attr, m[x].desc, m[x].stack>> \o m[x].kids)
TreeMoved(m, order, place) ==
  [n \in TreeAddr |->
     [m[order[n]] EXCEPT !.up = place[@], !.stack = place[@], !.attr = place[@], !.desc = place[@],
                         !.kids = [i \in DOMAIN @ |-> place[@[i]]]]]
TreeOrdered(m, order) ==
  TreeMoved(m, order, [a \in TreeAddr \cup {None} |->
                         IF a = None THEN None ELSE CHOOSE n \in TreeAddr : order[n] = a])
TreeListed(m, tree) ==
  LET after(first) == SelectSeq(SetToSeq(TreeAddr \ ToSet(tree)), LAMBDA a : (m[a].is = "free") # first)
  IN TreeOrdered(m, tree \o after(TRUE) \o after(FALSE))
TreeRenumbered(m) == TreeListed(m, TreeWalk(m, <<>>, Root))

TreeCall(s) == treeMem' = TreeRenumbered(s.m) /\ treeOk' = s.ok /\ calls' = calls + 1

(* a new item made by the caller, pushed back *)
TreeFresh(s, c, kind, nm, v) ==
  TreeThen(TreeAlloc(s, kind, nm, None),
           LAMBDA t : Put(TreeLinkIn(t, c, TreeNew(s)), TreeNew(s), "val", v))

(* P3PmsgDesc::operator += of a field, a list or a vector that holds nothing yet *)
Add(x, kind, nm) ==
  TreeCall(TreeThen(Create(TreeStart, x, "desc"), LAMBDA s : TreeFresh(s, s.m[x].desc, kind, nm, None)))

(* P3PmsgDesc::DeclareItem: an item that is there is written to if asked, or if it holds nothing *)
DeclareDesc(x, nm, v, update) ==
  LET y == Find(treeMem, treeMem[x].desc, nm)
      write(s) == IF y = None THEN TreeFresh(s, s.m[x].desc, "field", nm, v)
                  ELSE IF update \/ s.m[y].val = None THEN Put(s, y, "val", v) ELSE s IN
  /\ y # None => treeMem[y].is = "field"
  /\ TreeCall(TreeThen(Create(TreeStart, x, "desc"), write))

(* P3PmsgAttr::DeclareItem: only if asked *)
DeclareAttr(x, nm, v, update) ==
  LET y == Find(treeMem, treeMem[x].attr, nm)
      write(s) == IF y = None THEN TreeFresh(s, s.m[x].attr, "field", nm, v)
                  ELSE IF update THEN Put(s, y, "val", v) ELSE s IN
  /\ y # None => treeMem[y].is = "field"
  /\ TreeCall(TreeThen(Create(TreeStart, x, "attr"), write))

(* operator += of an item of the tree; into the item itself or what it keeps the code has no end *)
AddCopy(x, side, y) ==
  /\ x \notin Below(treeMem, y)
  /\ TreeCall(TreeThen(Create(TreeStart, x, side), LAMBDA s : PushBack(s, s.m[x][side], y)))

(* P3PmsgAttr::operator += of another collection *)
AddAttrs(x, y) ==
  /\ x # y /\ treeMem[y].attr # None /\ x \notin Below(treeMem, treeMem[y].attr)
  /\ TreeCall(TreeThen(Create(TreeStart, x, "attr"),
                       LAMBDA s : AppendAll(s, s.m[x].attr, s.m[s.m[y].attr].kids)))

(* operator = of two items of one kind, neither inside the other *)
TreeAssign(d, x) ==
  /\ treeMem[d].is = treeMem[x].is /\ d \notin Below(treeMem, x) /\ x \notin Below(treeMem, d)
  /\ TreeCall(Copy(TreeStart, d, x))

(* P3PmsgData::operator =, or a change of a container's elements *)
SetData(x, v) == treeMem[x].val # v /\ TreeCall(Put(TreeStart, x, "val", v))

(* P3PmsgDesc::Delete(name), P3PmsgAttr::Delete(name) *)
DeleteDesc(x, nm) == LET y == Find(treeMem, treeMem[x].desc, nm) IN y # None /\ TreeCall(TreeDelete(TreeStart, y))
DeleteAttr(x, nm) == LET y == Find(treeMem, treeMem[x].attr, nm) IN y # None /\ TreeCall(TreeDelete(TreeStart, y))

(* P3PmsgRefactor_Delete: as long as the name exists *)
RECURSIVE DeleteAll(_, _, _)
DeleteAll(s, c, nm) ==
  LET y == Find(s.m, c, nm) IN IF y = None THEN s ELSE DeleteAll(TreeDelete(s, y), c, nm)
Purge(x, side, nm) == Find(treeMem, treeMem[x][side], nm) # None /\ TreeCall(DeleteAll(TreeStart, treeMem[x][side], nm))

(* P3PmsgField::Truncate *)
TruncateItem(x) ==
  /\ {treeMem[x].attr, treeMem[x].desc, treeMem[x].stack} # {None}
  /\ TreeCall(DropStack(DropColl(DropColl(TreeStart, x, "attr"), x, "desc"), x))

(* may x be pushed? *)
Pushable(x) == Repush \/ \A y \in Item : treeMem[y].stack # x

(* slip: the older generations are forgotten *)
PushOver(x) ==
  LET g == TreeNew(TreeStart)
      filled(s) == CopyParts(Put(s, x, "stack", g), g, x, FALSE) IN
  Pushable(x) /\ TreeCall(TreeThen(TreeAlloc(TreeStart, treeMem[x].is, treeMem[x].name, x), filled))

(* MsgStck::Push: linked in front of the older generations, then filled *)
Push(x) ==
  LET g == TreeNew(TreeStart)
      filled(s) == CopyParts(Put(Put(s, g, "stack", treeMem[x].stack), x, "stack", g), g, x, FALSE) IN
  Pushable(x) /\ TreeCall(TreeThen(TreeAlloc(TreeStart, treeMem[x].is, treeMem[x].name, x), filled))

(* slip: the generation below is severed *)
UnlinkAll(s, x, g) == TreeDrop(Put(Put(Put(s, x, "stack", None), g, "stack", None), g, "up", None), g)
(* MsgStck__Unlink, then Drop of the generation *)
UnlinkGen(s, x, g) == TreeDrop(Put(Put(Put(s, x, "stack", s.m[g].stack), g, "stack", None), g, "up", None), g)
(* MsgStck::Pop: the head restored, then unlinked and dropped *)
Pop(x) ==
  LET g == treeMem[x].stack IN
  g # None /\ TreeCall(TreeThen(CopyParts(TreeStart, x, g, TRUE), LAMBDA s : UnlinkGen(s, x, g)))

DropStck(x) == treeMem[x].stack # None /\ TreeCall(DropStack(TreeStart, x))

(* P3PmsgRefactor_Rename: every one of that name *)
Rename(x, side, nm, nm2) ==
  LET c == treeMem[x][side] IN
  /\ nm # nm2 /\ Find(treeMem, c, nm) # None
  /\ TreeCall([TreeStart EXCEPT !.m = [a \in TreeAddr |->
        IF \E i \in DOMAIN treeMem[c].kids : treeMem[c].kids[i] = a /\ treeMem[a].name = nm
        THEN [treeMem[a] EXCEPT !.name = nm2] ELSE treeMem[a]]])

(* the object a destination is tested by: an item, or its collection of attributes *)
Destin(y, side) == IF side = "desc" THEN y ELSE treeMem[y].attr

(* P3PmsgRefactor__Move's refusals *)
TreeRefused(z, y, side) ==
  \/ Find(treeMem, treeMem[y][side], treeMem[z].name) # None
  \/ treeMem[z].is # "field"
  \/ IsWithin(treeMem, Destin(y, side), z)

(* P3PmsgRefactor__Move of what it should refuse and does not: the copy has no end *)
Endless(z, y, side) == ~ TreeRefused(z, y, side) /\ y \in Below(treeMem, z)

(* P3PmsgRefactor__Move: copied, and then deleted at the source *)
Move(x, from, y, to, nm) ==
  \E z \in {Find(treeMem, treeMem[x][from], nm)} \ {None} :
    /\ ~ Endless(z, y, to)
    /\ TreeCall(IF TreeRefused(z, y, to) THEN TreeThrow(TreeStart)
                ELSE TreeThen(TreeThen(Create(TreeStart, y, to), LAMBDA s : PushBack(s, s.m[y][to], z)),
                              LAMBDA s : TreeDelete(s, z)))

-----------------------------------------------------------------------------
TreeInit == /\ treeMem \in Loaded
        /\ treeOk = TRUE /\ calls = 0

Some ==
  \/ \E x \in Item :
       \/ \E nm \in Name, kind \in TreeKind : Add(x, kind, nm)
       \/ \E v \in Datum, update \in BOOLEAN :
            \/ \E nm \in Name : DeclareDesc(x, nm, v, update)
            \/ \E nm \in Tag : DeclareAttr(x, nm, v, update)
       \/ \E v \in Datum : SetData(x, v)
       \/ \E nm \in Name : DeleteDesc(x, nm)
       \/ \E nm \in Tag : DeleteAttr(x, nm)
       \/ \E side \in Side, nm \in Name \cup Tag : Purge(x, side, nm)
       \/ \E side \in Side, nm, nm2 \in Name \cup Tag : Rename(x, side, nm, nm2)
       \/ Push(x) \/ Pop(x) \/ DropStck(x) \/ TruncateItem(x)
  \/ \E x, y \in Item :
       \/ TreeAssign(x, y) \/ AddAttrs(x, y)
       \/ \E side \in Side : y # Root /\ AddCopy(x, side, y)
       \/ \E from, to \in Side, nm \in Name \cup Tag : Move(x, from, y, to, nm)

TreeNext == calls < Calls /\ Some

TreeSpec == TreeInit /\ [][TreeNext]_treeVars

-----------------------------------------------------------------------------
(* the shape of the state *)
TreeTypeOK ==
  LET Link == TreeAddr \cup {None} IN
  /\ treeOk \in BOOLEAN /\ calls \in 0 .. Calls
  /\ \A a \in TreeAddr : LET b == treeMem[a] IN
       /\ b.is \in TreeItems \cup Side \cup {"free"}
       /\ {b.up, b.stack, b.attr, b.desc} \subseteq Link /\ ToSet(b.kids) \subseteq TreeAddr
       /\ b.name \in Name \cup Tag \cup {"root", None} /\ b.val \in Datum \cup {None}
       /\ b.is = "free" => b = TreeFree

(* After any call, returned or thrown, every block allocated hangs in the tree, once, and every *)
(* link upward is the reverse of the one downward: nothing leaks, nothing is freed that is still *)
(* reached (what stack_paths.md:38-42 found MsgStck::Drop to leak). *)
NoOrphans ==
  /\ Below(treeMem, Root) = TreeUsed
  /\ \A a \in Item : /\ treeMem[a].attr # None => treeMem[treeMem[a].attr].is = "attr" /\ treeMem[treeMem[a].attr].up = a
                     /\ treeMem[a].desc # None => treeMem[treeMem[a].desc].is = "desc" /\ treeMem[treeMem[a].desc].up = a
                     /\ treeMem[a].stack # None => /\ treeMem[treeMem[a].stack].is = treeMem[a].is
                                              /\ treeMem[treeMem[a].stack].kids = <<>>
  /\ \A c \in Coll : \A i, j \in DOMAIN treeMem[c].kids :
        treeMem[treeMem[c].kids[i]].up = c /\ (treeMem[c].kids[i] = treeMem[c].kids[j] => i = j)

(* an object whose place is on record all the way up: no generation without its owner on the *)
(* way, no earlier sibling of the same name, no vector *)
RECURSIVE Recorded(_)
Recorded(x) ==
  IF x = Root THEN TRUE
  ELSE LET up == treeMem[x].up IN
       /\ up # None /\ Recorded(up)
       /\ x \in Item /\ up \in Coll => treeMem[treeMem[up].up].is # "vect" /\ Find(treeMem, up, treeMem[x].name) = x

(* P3Pmsg_SelectObject leads the path P3Pmsg_GetPath gives an object back to that object, through *)
(* attributes, descendants, snapshots and both kinds of collections in any order. *)
PathLeadsBack == \A x \in TreeUsed : Recorded(x) => Select(treeMem, Root, Path(treeMem, x)) = x

(* "^" commutes with "." and "@" (stack_paths.md, section 9): the snapshot's collection and the *)
(* collection's snapshot are one object. *)
Commutes == \A x \in Item : treeMem[x].stack # None =>
  /\ treeMem[x].attr # None => Select(treeMem, x, <<"@", "^">>) = Select(treeMem, x, <<"^", "@">>)
  /\ treeMem[x].desc # None => Select(treeMem, x, <<".", "^">>) = Select(treeMem, x, <<"^", ".">>)

(* The tree is sound after every call, thrown or not: one tree of blocks, whose paths lead where *)
(* they were taken and whose snapshots answer the same in whatever order they are asked. *)
TreeSound == TreeTypeOK /\ NoOrphans /\ PathLeadsBack /\ Commutes

-----------------------------------------------------------------------------
(* what a caller can tell of the item x *)
RECURSIVE Val(_, _)
Val(m, x) ==
  LET of(c) == IF c = None THEN <<>> ELSE [i \in DOMAIN m[c].kids |-> Val(m, m[c].kids[i])]
  IN [is |-> m[x].is, name |-> m[x].name, val |-> m[x].val, attr |-> of(m[x].attr), desc |-> of(m[x].desc),
      stack |-> IF m[x].stack = None THEN <<>> ELSE <<Val(m, m[x].stack)>>]

(* The tree implements MsgValue: a copy is deep, Pop undoes Push, every call changes the one place *)
(* it was made on, and one that throws half way spares what it was not writing. *)
TreeValue == INSTANCE MsgValue WITH ok <- treeOk, tree <- Val(treeMem, Root)
TreeImplements == TreeValue!Spec
=============================================================================
