----------------------------- MODULE MCContents -----------------------------
(***************************************************************************)
(* What a message is made of, checked side by side: the objects, the typed *)
(* cells, the fields of an image, the elements of lists and vectors, and   *)
(* the tree.  Each keeps a memory of its own at the grain it is modelled   *)
(* at, so a behaviour runs one of them, `part', and leaves the others as   *)
(* they start.                                                             *)
(***************************************************************************)
EXTENDS DataCell, MsgElems, MsgTree, MsgObject, ImageFields, TLC

VARIABLE part

ContentsParts == {"cell", "elem", "tree", "object", "field"}

ContentsInit ==
    /\ part \in ContentsParts
    /\ CellInit /\ ElemInit /\ TreeInit /\ ObjectInit /\ FieldInit
    /\ part # "tree" => treeMem = CHOOSE t \in Loaded : TRUE
    /\ part # "field" => mode = 32 /\ DOMAIN image = NameChain

\* The part p takes a step, and every other component stays where it is.
Only(p) ==
    /\ part = p /\ UNCHANGED part
    /\ p # "cell" => UNCHANGED cellVars
    /\ p # "elem" => UNCHANGED elemVars
    /\ p # "tree" => UNCHANGED treeVars
    /\ p # "object" => UNCHANGED objectMem
    /\ p # "field" => UNCHANGED fieldVars

ContentsNext ==
    \/ Only("cell") /\ CellNext
    \/ Only("elem") /\ ElemNext
    \/ Only("tree") /\ TreeNext
    \/ Only("object") /\ ObjectNext
    \/ Only("field") /\ FieldNext

contentsVars == <<part, cellVars, elemVars, treeVars, objectMem, fieldVars>>

ContentsSpec == ContentsInit /\ [][ContentsNext]_contentsVars

-----------------------------------------------------------------------------
(* Cells in the proportions of a 32-bit heap: a header of one unit, an      *)
(* address of two, and the descriptors of the 8-bit and the 32-bit kinds.   *)
MCHead == <<2, 5>>
MCMaxOf == <<2, 5>>
MCLen == ("empty" :> 0) @@ ("short" :> 1) @@ ("long" :> 4) @@ ("huge" :> 6)
MCKind == {[fam |-> "TEXT", w |-> 1, var |-> FALSE], [fam |-> "BLOB", w |-> 1, var |-> TRUE]}
Twins == Permutations(Cell) \cup Permutations(CellBlock)

(* A store that was just created, and one loaded with an item that has an   *)
(* attribute.                                                               *)
Stored(S) ==
    [a \in TreeAddr |-> IF \E b \in S : b.at = a
                        THEN (CHOOSE b \in S : b.at = a).is ELSE TreeFree]

Bare == Stored({[at |-> 1, is |-> [TreeFree EXCEPT !.is = "field", !.name = "root"]]})

Grove == Stored({
    [at |-> 1, is |-> [TreeFree EXCEPT !.is = "field", !.name = "root", !.desc = 2]],
    [at |-> 2, is |-> [TreeFree EXCEPT !.is = "desc", !.up = 1, !.kids = <<3>>]],
    [at |-> 3, is |-> [TreeFree EXCEPT !.is = "field", !.name = "a", !.val = "1", !.up = 2,
                                       !.attr = 4]],
    [at |-> 4, is |-> [TreeFree EXCEPT !.is = "attr", !.up = 3, !.kids = <<5>>]],
    [at |-> 5, is |-> [TreeFree EXCEPT !.is = "field", !.name = "t", !.val = "1", !.up = 4]]})

MCLoaded == {Bare, Grove}
=============================================================================
