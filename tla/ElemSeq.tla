------------------------------ MODULE ElemSeq ------------------------------
(***************************************************************************)
(* What a list and a vector promise: each is a sequence of values.  A call *)
(* that throws changes nothing, but for an assignment, which empties what  *)
(* it assigns to first and may then have copied a beginning only.          *)
(***************************************************************************)
EXTENDS Integers, Sequences

Seqs == INSTANCE SequencesExt

CONSTANT Value

VARIABLES lst, vec, ok

vars == <<lst, vec, ok>>

(* a change of one sequence that ends well *)
Grown(s, t)  == \E i \in 1 .. Len(s) + 1, v \in Value : t = Seqs!InsertAt(s, i, v)
Shrunk(s, t) == \E i \in DOMAIN s : t = Seqs!RemoveAt(s, i)

Init == lst = <<>> /\ vec = <<>> /\ ok = TRUE

ListStep == /\ vec' = vec
            /\ \/ ok' /\ \E v \in Value : lst' \in {<<v>> \o lst, Append(lst, v)}
               \/ ok' /\ Shrunk(lst, lst')
               \/ ok' /\ lst' = <<>>
VectStep == /\ lst' = lst
            /\ \/ ok' /\ (Grown(vec, vec') \/ Shrunk(vec, vec') \/ vec' = <<>>)

(* an assignment of src, all of it or a beginning *)
Assign(old, new, src) == IF ok' THEN new = src ELSE new = old \/ Seqs!IsPrefix(new, src)

Nothing == lst' = lst /\ vec' = vec /\ ok' \in BOOLEAN

Next == \/ Nothing \/ ListStep \/ VectStep
        \/ vec' = vec /\ Assign(lst, lst', vec)
        \/ lst' = lst /\ Assign(vec, vec', lst)

Spec == Init /\ [][Next]_vars
=============================================================================
