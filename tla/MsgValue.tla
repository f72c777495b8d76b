------------------------------ MODULE MsgValue ------------------------------
(***************************************************************************)
(* What the message tree promises its caller: a store is one value, and a  *)
(* call changes it at one place.  An item's value is its kind, name and    *)
(* data, the sequences of its attributes' and of its descendants' values,  *)
(* and its stack: empty, or the one value it had when it was last pushed,  *)
(* with the stack it had then.  A collection that was never made and an    *)
(* empty one are the same.                                                 *)
(*                                                                         *)
(* A call that throws may leave what it was writing half written, but      *)
(* nothing else: a Push that throws keeps the item and its older           *)
(* snapshots, a Pop that throws keeps the snapshot, and an append that     *)
(* throws keeps what was in the collection.                                *)
(***************************************************************************)
EXTENDS Integers, Sequences

Seqs == INSTANCE SequencesExt

VARIABLES tree,  \* the value of the root
          ok     \* did the last call return?

vars == <<tree, ok>>

Part == {"attr", "desc", "stack"}
Side == {"attr", "desc"}

(* the places of a value, each as the steps that lead to it, and what stands there *)
RECURSIVE Places(_), At(_, _), With(_, _, _)
Places(v) == {<<>>} \cup UNION {UNION {{<<[part |-> s, n |-> i]>> \o p : p \in Places(v[s][i])}
                                       : i \in DOMAIN v[s]} : s \in Part}
At(v, p) == IF p = <<>> THEN v ELSE At(v[p[1].part][p[1].n], Tail(p))
With(v, p, w) == IF p = <<>> THEN w ELSE [v EXCEPT ![p[1].part][p[1].n] = With(@, Tail(p), w)]

(* what a call that returns makes of the value v it was made on *)
Pushed(v) == [v EXCEPT !.stack = <<v>>]
Popped(v) == v.stack[1]
Bare(v)   == [v EXCEPT !.attr = <<>>, !.desc = <<>>, !.stack = <<>>]
Without(s, i) == SubSeq(s, 1, i - 1) \o SubSeq(s, i + 1, Len(s))
Added(v, side, ws) == [v EXCEPT ![side] = @ \o ws]
Taken(v, side, i)  == [v EXCEPT ![side] = Without(@, i)]
Purged(v, side, nm) == [v EXCEPT ![side] = SelectSeq(@, LAMBDA w : w.name # nm)]
Named(v, side, nm, nm2) == [v EXCEPT ![side] =
  [i \in DOMAIN @ |-> IF @[i].name = nm THEN [@[i] EXCEPT !.name = nm2] ELSE @[i]]]

IsNew(w) == w.attr = <<>> /\ w.desc = <<>> /\ w.stack = <<>>

(* is s the beginning of the sequence t, but for its last member, which may be half written? *)
Begun(s, t) == /\ Len(s) <= Len(t)
               /\ \A i \in DOMAIN s : i < Len(s) => s[i] = t[i]

(* is w what is left of v when the values ws could not all be added to it? *)
Torn(v, w, side, ws) ==
  /\ [w EXCEPT ![side] = v[side]] = v
  /\ Seqs!IsPrefix(v[side], w[side])
  /\ Begun(SubSeq(w[side], Len(v[side]) + 1, Len(w[side])), ws)

(* is w what is left of v when it could not all be overwritten with u?  The attributes are *)
(* written before the descendants, and the stack last. *)
Smudged(v, w, u) ==
  /\ w.is = v.is /\ w.name = u.name
  /\ Begun(w.attr, u.attr)
  /\ IF w.attr # u.attr THEN w.desc = v.desc ELSE Begun(w.desc, u.desc)
  /\ w.attr # u.attr \/ w.desc # u.desc => w.stack = v.stack

-----------------------------------------------------------------------------
Init == ok = TRUE

(* nothing was to be done, or nothing was done *)
Idle == tree' = tree

(* the call on the place p, and nothing else of the tree *)
There(p, Whole(_, _), Half(_, _)) ==
  /\ p \in Places(tree')
  /\ LET v == At(tree, p)
         w == At(tree', p) IN
     IF ok' THEN Whole(v, w) /\ tree' = With(tree, p, w)
            ELSE Half(v, w) /\ With(tree', p, v) = tree

Never(v, w) == FALSE

Write(p)  == There(p, LAMBDA v, w : w = [v EXCEPT !.val = w.val], Never)
Push(p)   == There(p, LAMBDA v, w : w = Pushed(v),
                      LAMBDA v, w : w.stack # <<>> /\ w = [v EXCEPT !.stack = w.stack]
                                                   /\ w.stack[1].stack = v.stack)
Pop(p)    == There(p, LAMBDA v, w : v.stack # <<>> /\ w = Popped(v),
                      LAMBDA v, w : v.stack # <<>> /\ w.stack = v.stack /\ Smudged(v, w, Popped(v)))
Drop(p)   == There(p, LAMBDA v, w : w \in {Bare(v), [v EXCEPT !.stack = <<>>]}, Never)
Append1(p)  == There(p, LAMBDA v, w : \E side \in Side :
                          /\ w[side] # <<>> /\ IsNew(w[side][Len(w[side])])
                          /\ w = Added(v, side, <<w[side][Len(w[side])]>>), Never)
Delete(p) == There(p, LAMBDA v, w : \E side \in Side : \E i \in DOMAIN v[side] :
                        w \in {Taken(v, side, i), Purged(v, side, v[side][i].name)}, Never)
Rename(p) == There(p, LAMBDA v, w : \E side \in Side : \E i \in DOMAIN v[side] \cap DOMAIN w[side] :
                        w = Named(v, side, v[side][i].name, w[side][i].name), Never)

(* the place p is given a copy of the place q, or of its attributes, or gets q itself *)
Assign(p, q) == There(p, LAMBDA v, w : w = At(tree, q), LAMBDA v, w : Smudged(v, w, At(tree, q)))
Copy(p, q) == LET new == {<<At(tree, q)>>, At(tree, q).attr} IN
              There(p, LAMBDA v, w : \E side \in Side, ws \in new : w = Added(v, side, ws),
                       LAMBDA v, w : \E side \in Side, ws \in new : Torn(v, w, side, ws))
Move(p, q, side, i) ==
  /\ ok' = TRUE
  /\ \E to \in Side :
       tree' = LET t == With(tree, p, Added(At(tree, p), to, <<At(tree, q)[side][i]>>))
               IN With(t, q, Taken(At(t, q), side, i))

Next == /\ ok' \in BOOLEAN
        /\ \/ Idle
           \/ \E p \in Places(tree) :
                Write(p) \/ Push(p) \/ Pop(p) \/ Drop(p) \/ Append1(p) \/ Delete(p) \/ Rename(p)
           \/ \E p, q \in Places(tree) :
                \/ Assign(p, q) \/ Copy(p, q)
                \/ \E side \in Side : \E i \in DOMAIN At(tree, q)[side] : Move(p, q, side, i)

Spec == Init /\ [][Next]_vars
=============================================================================
