---------------------------- MODULE HandleTable ----------------------------
(***************************************************************************)
(* The handle registry of the C ABI (Msgcore_c.cpp).  A handle is the      *)
(* address of a C++ object; s_mapHandle says which addresses are handles   *)
(* and of what kind, and every entry point looks its arguments up there    *)
(* before it runs.  The registry is locked; what it guards is not: one     *)
(* store is its caller's to serialise, except that two threads may race to *)
(* destroy one handle.                                                     *)
(*                                                                         *)
(* A call is several steps of its thread: the lookups, the body, and for a *)
(* factory the new object and its registration; for a destroy the lookup,  *)
(* the paging record, the registration and the delete.  Every entry point  *)
(* is one of the signatures below: what it takes and what it makes.        *)
(***************************************************************************)
EXTENDS Naturals, Sequences, NoValue

CONSTANTS
    Addr,      \* addresses the C++ allocator hands out, and hands out again
    Thread,    \* threads of the host program
    Orderly,   \* does the caller keep what an object points into until the object is gone?
    Recycled   \* may an address be handed out while an unfinished call still has it?

ASSUME HandleAssumption ==
    /\ None \notin Addr
    /\ Orderly \in BOOLEAN /\ Recycled \in BOOLEAN

Kind == {"Mgr", "Field", "List", "Vect", "Attr", "Desc", "Curs", "Stck", "Recurs"}
Kinds == Kind \cup {"none"}

-----------------------------------------------------------------------------
(* The entry points, block by block of the file.  keeps: the object made   *)
(* holds a pointer to the argument's object, not a copy of it.             *)

Entry(takes, makes) == [takes |-> takes, makes |-> makes, keeps |-> FALSE]
Keeper(takes, makes) == [takes |-> takes, makes |-> makes, keeps |-> TRUE]
Answers(k) == Entry(<<k>>, "none")

MgrFactories == {Entry(<<>>, "Mgr")}
MgrCalls == {Answers("Mgr")}
FieldFactories == {Entry(<<"Mgr">>, "Field"), Entry(<<>>, "Field"), Entry(<<"Field">>, "Field")}
FieldTree == {Entry(<<"Field">>, "Field"), Answers("Field")}
FieldValues == {Answers("Field")}
ListCalls == {Entry(<<"Field">>, "List"), Answers("List")}
VectCalls == {Entry(<<"Field">>, "Vect"), Answers("Vect"), Entry(<<"Vect">>, "Field")}
AttrCalls == {Keeper(<<"Field">>, "Attr"), Answers("Attr"), Entry(<<"Attr">>, "Field")}
DescCalls == {Keeper(<<"Field">>, "Desc"), Answers("Desc"), Entry(<<"Desc">>, "Field")}
CursCalls == {Entry(<<"Field">>, "Curs"), Keeper(<<"Attr">>, "Curs"), Keeper(<<"Desc">>, "Curs"),
              Answers("Curs"), Entry(<<"Curs">>, "Field")}
LiveCalls == {Entry(<<"Mgr">>, "Field"), Entry(<<"Field">>, "Field"), Answers("Field"), Answers("Mgr")}
Refactors == {Answers("Field"), Entry(<<"Field", "Field">>, "none")}
TypedValues == {Entry(<<"Field">>, "Field"), Answers("Field")}
TriggerCalls == {Answers("Mgr")}
Declared == {Entry(<<"Field">>, "List"), Entry(<<"Field">>, "Vect"),
             Entry(<<"Attr">>, "List"), Entry(<<"Attr">>, "Vect")}
Selected == Declared \cup {Entry(<<"Desc">>, "List"), Entry(<<"Desc">>, "Vect")}
ListCells == {Answers("List")}
VectCells == {Answers("Vect"), Entry(<<"Vect">>, "List"), Entry(<<"Vect">>, "Vect"),
              Entry(<<"Vect", "Field">>, "none")}
Connecting == Entry(<<"Stck", "Field">>, "none")
StckCalls == {Entry(<<>>, "Stck"), Connecting, Keeper(<<"Field">>, "Stck"), Answers("Stck"),
              Entry(<<"Stck">>, "Field"), Entry(<<"Stck">>, "List"), Entry(<<"Stck">>, "Vect")}
RecursCalls == {Entry(<<"Field">>, "Recurs"), Keeper(<<"Attr">>, "Recurs"), Answers("Recurs"),
                Entry(<<"Recurs">>, "Field"), Entry(<<"Recurs">>, "List"), Entry(<<"Recurs">>, "Vect")}
PageCalls == {Answers("Mgr"), Entry(<<"Mgr", "Field">>, "none")}

Entries == UNION {MgrFactories, MgrCalls, FieldFactories, FieldTree, FieldValues, ListCalls,
                  VectCalls, AttrCalls, DescCalls, CursCalls, LiveCalls, Refactors, TypedValues,
                  TriggerCalls, Declared, Selected, ListCells, VectCells, StckCalls, RecursCalls,
                  PageCalls}

-----------------------------------------------------------------------------
VARIABLES
    table,    \* s_mapHandle: the kind registered at an address
    object,   \* the kind of the live C++ object at an address
    handleOwner,    \* what the object at an address keeps a pointer to
    paged,    \* s_mapPaging: the addresses with a record
    handleCall      \* what each thread is in the middle of

handleVars == <<table, object, handleOwner, paged, handleCall>>

HandleIdle == [step |-> "idle"]
Steps == {"idle", "body", "made", "paging", "forget", "delete"}

HandleInit ==
    /\ table = [a \in Addr |-> "none"]
    /\ object = [a \in Addr |-> "none"]
    /\ handleOwner = [a \in Addr |-> None]
    /\ paged = {}
    /\ handleCall = [t \in Thread |-> HandleIdle]

\* The addresses a thread's unfinished call has in hand.
HandleHeld(t) ==
    CASE handleCall[t].step = "idle" -> {}
      [] handleCall[t].step = "body" -> {handleCall[t].args[i] : i \in DOMAIN handleCall[t].args}
      [] handleCall[t].step = "made" -> {handleCall[t].at, handleCall[t].on} \ {None}
      [] OTHER -> {handleCall[t].at}

Destroying(t) == handleCall[t].step \in {"paging", "forget", "delete"}

\* toMgr, toField, ...: a live handle of exactly this kind.
Is(a, k) == a \in Addr /\ table[a] = k

\* Rule 1 of the header: no two calls on one store at a time.
Alone(t, as) == \A u \in Thread \ {t} : HandleHeld(u) \cap as = {}

-----------------------------------------------------------------------------
(* Entry points.                                                           *)

\* The guard.  A refused call returns at once and changes nothing.
\* A slip: an argument that is not looked up.
EnterUnchecked(t, e, args) ==
    /\ handleCall[t] = HandleIdle
    /\ Alone(t, {args[i] : i \in DOMAIN args})
    /\ args # <<>> => Is(args[1], e.takes[1])
    /\ handleCall' = [handleCall EXCEPT ![t] = [step |-> "body", entry |-> e, args |-> args]]
    /\ UNCHANGED <<table, object, handleOwner, paged>>

Enter(t, e, args) ==
    /\ handleCall[t] = HandleIdle
    /\ Alone(t, {args[i] : i \in DOMAIN args})
    /\ \A i \in DOMAIN args : Is(args[i], e.takes[i])
    /\ handleCall' = [handleCall EXCEPT ![t] = [step |-> "body", entry |-> e, args |-> args]]
    /\ UNCHANGED <<table, object, handleOwner, paged>>

\* The body of a call that makes nothing, or that threw: its result object,
\* if it had made one, is deleted before the call returns NULL.
HandleReturn(t) ==
    /\ handleCall[t].step = "body"
    /\ handleCall' = [handleCall EXCEPT ![t] = HandleIdle]
    /\ UNCHANGED <<table, object, handleOwner, paged>>

\* new: the address may have been a handle before.
HandleFree == {a \in Addr : object[a] = "none" /\ (Recycled \/ \A u \in Thread : a \notin HandleHeld(u))}

Make(t, a) ==
    /\ handleCall[t].step = "body" /\ handleCall[t].entry.makes # "none"
    /\ a \in HandleFree
    /\ object' = [object EXCEPT ![a] = handleCall[t].entry.makes]
    /\ handleOwner' = [handleOwner EXCEPT ![a] = IF handleCall[t].entry.keeps THEN handleCall[t].args[1] ELSE None]
    /\ handleCall' = [handleCall EXCEPT ![t] = [step |-> "made", at |-> a,
                                    on |-> IF handleCall[t].args = <<>> THEN None ELSE handleCall[t].args[1]]]
    /\ UNCHANGED <<table, paged>>

\* MsgcoreHandleAdd.
Add(t) ==
    /\ handleCall[t].step = "made"
    /\ table' = [table EXCEPT ![handleCall[t].at] = object[handleCall[t].at]]
    /\ handleCall' = [handleCall EXCEPT ![t] = HandleIdle]
    /\ UNCHANGED <<object, handleOwner, paged>>

\* msgcore_stck_connect: both handles are looked up.
Connect(t) ==
    /\ handleCall[t].step = "body" /\ handleCall[t].entry = Connecting
    /\ handleOwner' = [handleOwner EXCEPT ![handleCall[t].args[1]] = handleCall[t].args[2]]
    /\ handleCall' = [handleCall EXCEPT ![t] = HandleIdle]
    /\ UNCHANGED <<table, object, paged>>

\* msgcore_mgr_set_paging_sinks, msgcore_mgr_set_populate_sink: the record of
\* a manager is made, or erased with its last sink.
SetSinks(t, set) ==
    /\ handleCall[t].step = "body" /\ handleCall[t].entry = Answers("Mgr")
    /\ paged' = IF set THEN paged \cup {handleCall[t].args[1]} ELSE paged \ {handleCall[t].args[1]}
    /\ handleCall' = [handleCall EXCEPT ![t] = HandleIdle]
    /\ UNCHANGED <<table, object, handleOwner>>

-----------------------------------------------------------------------------
(* msgcore_mgr_destroy and the other destroys.                             *)

\* Another thread may be in a destroy of the same handle.
\* With Orderly, nothing still points into what is destroyed.
HandleDestroy(t, a) ==
    /\ handleCall[t] = HandleIdle
    /\ table[a] # "none"
    /\ \A u \in Thread \ {t} : a \in HandleHeld(u) => Destroying(u)
    /\ Orderly => \A b \in Addr : object[b] # "none" => handleOwner[b] # a
    /\ handleCall' = [handleCall EXCEPT ![t] = [step |-> IF table[a] = "Mgr" THEN "paging" ELSE "forget",
                                    at |-> a, kind |-> table[a]]]
    /\ UNCHANGED <<table, object, handleOwner, paged>>

\* The destroy goes on to its next step.
Go(t, step) == handleCall' = [handleCall EXCEPT ![t] = [step |-> step, at |-> handleCall[t].at, kind |-> handleCall[t].kind]]

\* MsgcorePagingForget.  A slip: the record stays behind.
PagingKept(t) ==
    /\ handleCall[t].step = "paging"
    /\ Go(t, "forget")
    /\ UNCHANGED <<table, object, handleOwner, paged>>

PagingForget(t) ==
    /\ handleCall[t].step = "paging"
    /\ paged' = paged \ {handleCall[t].at}
    /\ Go(t, "forget")
    /\ UNCHANGED <<table, object, handleOwner>>

\* MsgcoreHandleForget: true only for the caller that removes the entry.
\* A slip: the delete goes ahead whoever removed it.
ForgetAnyhow(t) ==
    /\ handleCall[t].step = "forget"
    /\ table' = [table EXCEPT ![handleCall[t].at] = "none"]
    /\ Go(t, "delete")
    /\ UNCHANGED <<object, handleOwner, paged>>

\* A slip: found, and not erased.
ForgetNot(t) ==
    /\ handleCall[t].step = "forget"
    /\ IF Is(handleCall[t].at, handleCall[t].kind) THEN Go(t, "delete") ELSE handleCall' = [handleCall EXCEPT ![t] = HandleIdle]
    /\ UNCHANGED <<table, object, handleOwner, paged>>

Forget(t) ==
    /\ handleCall[t].step = "forget"
    /\ IF Is(handleCall[t].at, handleCall[t].kind)
       THEN /\ table' = [table EXCEPT ![handleCall[t].at] = "none"]
            /\ Go(t, "delete")
       ELSE /\ handleCall' = [handleCall EXCEPT ![t] = HandleIdle]
            /\ UNCHANGED table
    /\ UNCHANGED <<object, handleOwner, paged>>

HandleDelete(t) ==
    /\ handleCall[t].step = "delete"
    /\ object' = [object EXCEPT ![handleCall[t].at] = "none"]
    /\ handleOwner' = [handleOwner EXCEPT ![handleCall[t].at] = None]
    /\ handleCall' = [handleCall EXCEPT ![t] = HandleIdle]
    /\ UNCHANGED <<table, paged>>

Args(e) == [DOMAIN e.takes -> Addr]

HandleNext ==
    \E t \in Thread :
      \/ \E e \in Entries : \E args \in Args(e) : Enter(t, e, args)
      \/ HandleReturn(t)
      \/ \E a \in Addr : Make(t, a) \/ HandleDestroy(t, a)
      \/ Add(t) \/ Connect(t)
      \/ \E set \in BOOLEAN : SetSinks(t, set)
      \/ PagingForget(t) \/ Forget(t) \/ HandleDelete(t)

HandleSpec == HandleInit /\ [][HandleNext]_handleVars

-----------------------------------------------------------------------------
HandleCalls == [step : {"idle"}]
    \cup [step : {"body"}, entry : Entries, args : UNION {[1..n -> Addr] : n \in 0..2}]
    \cup [step : {"made"}, at : Addr, on : Addr \cup {None}]
    \cup [step : {"paging", "forget", "delete"}, at : Addr, kind : Kind]

HandleTypeOK ==
    /\ table \in [Addr -> Kinds]
    /\ object \in [Addr -> Kinds]
    /\ handleOwner \in [Addr -> Addr \cup {None}]
    /\ paged \subseteq Addr
    /\ handleCall \in [Thread -> HandleCalls]

(***************************************************************************)
(* The registry tells the truth: a registered address is a live object of  *)
(* the registered kind, however its address was used before; and a live    *)
(* object that is not registered is in the hands of exactly one call, the  *)
(* one making it or the one deleting it.                                   *)
(***************************************************************************)
Making(t, a) == handleCall[t].step \in {"made", "delete"} /\ handleCall[t].at = a

Registered ==
    \A a \in Addr :
        /\ table[a] # "none" => object[a] = table[a] /\ \A t \in Thread : ~ Making(t, a)
        /\ object[a] # "none" /\ table[a] = "none" => \E t \in Thread : Making(t, a)

(***************************************************************************)
(* Two threads racing one destroy cannot both reach delete: what a thread  *)
(* is about to delete is alive, and no other thread is about to delete it. *)
(***************************************************************************)
DeletedOnce ==
    \A t \in Thread : handleCall[t].step = "delete" =>
        /\ object[handleCall[t].at] = handleCall[t].kind
        /\ \A u \in Thread \ {t} : ~ Making(u, handleCall[t].at)

\* Both together: whatever order two threads destroy, create and reuse an
\* address in, a handle means one live object and is deleted once.
RegistrySafe == Registered /\ DeletedOnce

(***************************************************************************)
(* A body runs on live objects of the kinds its entry point takes, and so  *)
(* is every object those keep a pointer to: "a recycled address must take  *)
(* the NEW kind", and no handle is used that was not looked up.            *)
(***************************************************************************)
Alive(a, k) == object[a] = k /\ (handleOwner[a] # None => object[handleOwner[a]] \in {"Field", "Attr", "Desc"})

Typed ==
    \A t \in Thread : handleCall[t].step = "body" =>
        \A i \in DOMAIN handleCall[t].args : Alive(handleCall[t].args[i], handleCall[t].entry.takes[i])

(***************************************************************************)
(* No paging record outlives its manager, to be found by a later manager   *)
(* at the same address.                                                    *)
(***************************************************************************)
NoStaleRecord == \A a \in paged : object[a] = "Mgr"

\* A call runs on what it looked up, and so does a paging sink: no body on a
\* dead object or on one of another kind, no record of a dead manager.
CallsSafe == HandleTypeOK /\ Typed /\ NoStaleRecord
=============================================================================
