----------------------------- MODULE Host_proof -----------------------------
(***************************************************************************)
(* Proofs about the components behind the C boundary that MCHost checks    *)
(* side by side, each from its own specification: for any number of        *)
(* threads, addresses, stores and events, and any limits.                  *)
(***************************************************************************)
EXTENDS HandleTable, PagingSinks, InodeTable, P2PEvent,
        EventLife, Triggers, StoreLoad, EventReport,
        SumTheorems, FiniteSetTheorems, TLAPS

-----------------------------------------------------------------------------
(***************************************************************************)
(* The handle table.  An object is either registered or in the hands of    *)
(* the one call that makes or deletes it, and the registration passes from *)
(* the one to the other in one locked step: whether or not addresses are   *)
(* handed out again under an unfinished call, and whatever order owners    *)
(* and what points into them are destroyed in.                             *)
(***************************************************************************)

\* The variables are functions, and a call in hand names an address.
HandleShape ==
    /\ table = [a \in Addr |-> table[a]]
    /\ object = [a \in Addr |-> object[a]]
    /\ handleCall = [t \in Thread |-> handleCall[t]]
    /\ \A t \in Thread :
          handleCall[t].step \in {"made", "paging", "forget", "delete"} => handleCall[t].at \in Addr
    /\ \A t \in Thread : handleCall[t].step \in {"paging", "forget", "delete"} => handleCall[t].kind # "none"

\* What a call has in hand is alive, and no other call has it.
InHand ==
    /\ \A t \in Thread, a \in Addr : Making(t, a) => object[a] # "none"
    /\ \A t \in Thread : handleCall[t].step = "delete" => object[handleCall[t].at] = handleCall[t].kind
    /\ \A t, u \in Thread, a \in Addr : Making(t, a) /\ Making(u, a) => t = u

HandleInv == HandleShape /\ Registered /\ InHand

-----------------------------------------------------------------------------
(***************************************************************************)
(* The invariant holds the two properties.                                 *)
(***************************************************************************)
LEMMA HandleDeletedOnce == HandleInv => DeletedOnce
  BY DEF HandleInv, HandleShape, InHand, DeletedOnce, Making

LEMMA HandleInvInit == HandleInit => HandleInv
  BY DEF HandleInit, HandleIdle, HandleInv, HandleShape, Registered, InHand, Making

(***************************************************************************)
(* A step that leaves the registry and the objects, and moves one thread   *)
(* between calls that have no object in hand.                              *)
(***************************************************************************)
LEMMA Elsewhere ==
  ASSUME HandleInv, NEW t \in Thread, NEW c,
         UNCHANGED <<table, object>>, handleCall' = [handleCall EXCEPT ![t] = c],
         handleCall[t].step \notin {"made", "delete"}, c.step \notin {"made", "delete"},
         c.step \in {"paging", "forget"} => c.at \in Addr /\ c.kind # "none"
  PROVE  HandleInv'
<1> USE DEF HandleInv, HandleShape
<1>1. handleCall'[t] = c /\ \A u \in Thread : u # t => handleCall'[u] = handleCall[u]
  OBVIOUS
<1>2. \A u \in Thread, a \in Addr : Making(u, a)' <=> Making(u, a)
  BY <1>1 DEF Making
<1>3. HandleShape'
  <2>1. handleCall' = [u \in Thread |-> handleCall'[u]]
    OBVIOUS
  <2> QED
    BY <1>1, <2>1
<1>4. Registered'
  BY <1>2 DEF Registered
<1>5. InHand'
  BY <1>1, <1>2 DEF InHand
<1> QED
  BY <1>3, <1>4, <1>5

LEMMA MakeInv ==
  ASSUME HandleInv, NEW t \in Thread, NEW a \in Addr, Make(t, a)
  PROVE  HandleInv'
<1> USE DEF HandleInv, HandleShape
<1> DEFINE c == [step |-> "made", at |-> a,
                 on |-> IF handleCall[t].args = <<>> THEN None ELSE handleCall[t].args[1]]
<1>1. handleCall' = [handleCall EXCEPT ![t] = c] /\ c.step = "made" /\ c.at = a
  BY DEF Make
<1> HIDE DEF c
<1>2. /\ object[a] = "none" /\ object'[a] = handleCall[t].entry.makes /\ object'[a] # "none"
      /\ \A b \in Addr : b # a => object'[b] = object[b]
      /\ table' = table /\ handleCall[t].step = "body"
  BY DEF Make, HandleFree
<1>3. handleCall'[t] = c /\ \A u \in Thread : u # t => handleCall'[u] = handleCall[u]
  BY <1>1
<1>4. \A u \in Thread, b \in Addr : Making(u, b)' <=> (Making(u, b) \/ (u = t /\ b = a))
  BY <1>1, <1>2, <1>3 DEF Making
<1>5. \A u \in Thread : ~ Making(u, a)
  BY <1>2 DEF InHand
<1>6. table[a] = "none"
  BY <1>2 DEF Registered
<1>7. HandleShape'
  <2>1. handleCall' = [u \in Thread |-> handleCall'[u]] /\ object' = [b \in Addr |-> object'[b]]
    BY <1>1 DEF Make
  <2> QED
    BY <1>1, <1>2, <1>3, <2>1
<1>8. Registered'
  BY <1>2, <1>4, <1>6 DEF Registered
<1>9. InHand'
  <2>1. \A u \in Thread, b \in Addr : Making(u, b)' => object'[b] # "none"
    BY <1>2, <1>4 DEF InHand
  <2>2. ASSUME NEW u \in Thread, handleCall'[u].step = "delete"
        PROVE  object'[handleCall'[u].at] = handleCall'[u].kind
    <3>1. u # t /\ handleCall'[u] = handleCall[u] /\ handleCall[u].at # a
      BY <1>1, <1>3, <1>5, <2>2 DEF Making
    <3> QED
      BY <1>2, <2>2, <3>1 DEF InHand
  <2>3. \A u, v \in Thread, b \in Addr : Making(u, b)' /\ Making(v, b)' => u = v
    BY <1>4, <1>5 DEF InHand
  <2> QED
    BY <2>1, <2>2, <2>3 DEF InHand
<1> QED
  BY <1>7, <1>8, <1>9

LEMMA AddInv ==
  ASSUME HandleInv, NEW t \in Thread, Add(t)
  PROVE  HandleInv'
<1> USE DEF HandleInv, HandleShape
<1> DEFINE a == handleCall[t].at
<1>1. /\ a \in Addr /\ handleCall[t].step = "made" /\ object' = object
      /\ table'[a] = object[a] /\ \A b \in Addr : b # a => table'[b] = table[b]
      /\ handleCall'[t] = HandleIdle /\ \A u \in Thread : u # t => handleCall'[u] = handleCall[u]
  BY DEF Add
<1>2. Making(t, a)
  BY <1>1 DEF Making
<1>3. \A u \in Thread, b \in Addr : Making(u, b)' <=> (Making(u, b) /\ u # t)
  BY <1>1 DEF Making, HandleIdle
<1>4. \A u \in Thread : Making(u, a) => u = t
  BY <1>1, <1>2 DEF InHand
<1>5. HandleShape'
  <2>1. handleCall' = [u \in Thread |-> handleCall'[u]] /\ table' = [b \in Addr |-> table'[b]]
    BY DEF Add
  <2> QED
    BY <1>1, <2>1 DEF HandleIdle
<1>6. Registered'
  <2>1. \A b \in Addr : b # a => ~ Making(t, b)
    BY DEF Making
  <2> QED
    BY <1>1, <1>2, <1>3, <1>4, <2>1 DEF Registered
<1>7. InHand'
  BY <1>1, <1>3 DEF InHand, HandleIdle
<1> QED
  BY <1>5, <1>6, <1>7

LEMMA ForgetInv ==
  ASSUME HandleInv, NEW t \in Thread, Forget(t)
  PROVE  HandleInv'
<1> USE DEF HandleInv, HandleShape
<1> DEFINE a == handleCall[t].at
<1>1. handleCall[t].step = "forget" /\ a \in Addr /\ handleCall[t].kind # "none"
  BY DEF Forget
<1>2. CASE ~ Is(a, handleCall[t].kind)
  <2>1. UNCHANGED <<table, object>> /\ handleCall' = [handleCall EXCEPT ![t] = HandleIdle]
    BY <1>2 DEF Forget
  <2> QED
    BY <1>1, <2>1, Elsewhere DEF HandleIdle
<1>3. CASE Is(a, handleCall[t].kind)
  <2> DEFINE c == [step |-> "delete", at |-> handleCall[t].at, kind |-> handleCall[t].kind]
  <2>1. /\ table' = [table EXCEPT ![a] = "none"] /\ object' = object
        /\ handleCall' = [handleCall EXCEPT ![t] = c]
    BY <1>3 DEF Forget, Go
  <2>2. /\ table'[a] = "none" /\ \A b \in Addr : b # a => table'[b] = table[b]
        /\ handleCall'[t] = c /\ \A u \in Thread : u # t => handleCall'[u] = handleCall[u]
    BY <1>1, <2>1
  <2>3. c.step = "delete" /\ c.at = a /\ c.kind = handleCall[t].kind
    OBVIOUS
  <2>4. table[a] = handleCall[t].kind /\ object[a] = handleCall[t].kind /\ \A u \in Thread : ~ Making(u, a)
    BY <1>1, <1>3 DEF Is, Registered
  <2>5. \A u \in Thread, b \in Addr : Making(u, b)' <=> (Making(u, b) \/ (u = t /\ b = a))
    BY <1>1, <2>2, <2>3 DEF Making
  <2> HIDE DEF c
  <2>6. HandleShape'
    <3>1. handleCall' = [u \in Thread |-> handleCall'[u]] /\ table' = [b \in Addr |-> table'[b]]
      BY <2>1
    <3> QED
      BY <1>1, <2>1, <2>2, <2>3, <3>1
  <2>7. Registered'
    BY <1>1, <2>1, <2>2, <2>4, <2>5 DEF Registered
  <2>8. InHand'
    BY <1>1, <2>1, <2>2, <2>3, <2>4, <2>5 DEF InHand
  <2> QED
    BY <2>6, <2>7, <2>8
<1> QED
  BY <1>2, <1>3

LEMMA DeleteInv ==
  ASSUME HandleInv, NEW t \in Thread, HandleDelete(t)
  PROVE  HandleInv'
<1> USE DEF HandleInv, HandleShape
<1> DEFINE a == handleCall[t].at
<1>1. /\ a \in Addr /\ handleCall[t].step = "delete" /\ table' = table
      /\ object'[a] = "none" /\ \A b \in Addr : b # a => object'[b] = object[b]
      /\ handleCall'[t] = HandleIdle /\ \A u \in Thread : u # t => handleCall'[u] = handleCall[u]
  BY DEF HandleDelete
<1>2. Making(t, a)
  BY <1>1 DEF Making
<1>3. \A u \in Thread, b \in Addr : Making(u, b)' <=> (Making(u, b) /\ u # t)
  BY <1>1 DEF Making, HandleIdle
<1>4. \A u \in Thread : Making(u, a) => u = t
  BY <1>1, <1>2 DEF InHand
<1>5. table[a] = "none"
  BY <1>1, <1>2 DEF Registered
<1>6. \A b \in Addr : b # a => ~ Making(t, b)
  BY DEF Making
<1>7. HandleShape'
  <2>1. handleCall' = [u \in Thread |-> handleCall'[u]] /\ object' = [b \in Addr |-> object'[b]]
    BY DEF HandleDelete
  <2> QED
    BY <1>1, <2>1 DEF HandleIdle
<1>8. Registered'
  BY <1>1, <1>3, <1>5, <1>6 DEF Registered
<1>9. InHand'
  <2>1. \A u \in Thread, b \in Addr : Making(u, b)' => object'[b] # "none"
    BY <1>1, <1>3, <1>4 DEF InHand
  <2>2. ASSUME NEW u \in Thread, handleCall'[u].step = "delete"
        PROVE  object'[handleCall'[u].at] = handleCall'[u].kind
    <3>1. u # t /\ handleCall'[u] = handleCall[u] /\ handleCall[u].at # a
      BY <1>1, <1>4, <2>2 DEF Making, HandleIdle
    <3> QED
      BY <1>1, <2>2, <3>1 DEF InHand
  <2>3. \A u, v \in Thread, b \in Addr : Making(u, b)' /\ Making(v, b)' => u = v
    BY <1>3 DEF InHand
  <2> QED
    BY <2>1, <2>2, <2>3 DEF InHand
<1> QED
  BY <1>7, <1>8, <1>9

-----------------------------------------------------------------------------
(***************************************************************************)
(* Every step of every thread keeps the invariant.                         *)
(***************************************************************************)
LEMMA HandleInvNext == HandleInv /\ [HandleNext]_handleVars => HandleInv'
<1> SUFFICES ASSUME HandleInv, [HandleNext]_handleVars PROVE HandleInv'
  OBVIOUS
<1>1. ASSUME NEW t \in Thread, NEW e \in Entries, NEW args \in Args(e), Enter(t, e, args)
      PROVE  HandleInv'
  <2> DEFINE c == [step |-> "body", entry |-> e, args |-> args]
  <2>1. /\ UNCHANGED <<table, object>> /\ handleCall' = [handleCall EXCEPT ![t] = c]
        /\ handleCall[t].step = "idle" /\ c.step = "body"
    BY <1>1 DEF Enter, HandleIdle
  <2> HIDE DEF c
  <2> QED
    BY <2>1, Elsewhere
<1>2. ASSUME NEW t \in Thread, HandleReturn(t) \/ Connect(t) \/ \E set \in BOOLEAN : SetSinks(t, set)
      PROVE  HandleInv'
  <2>1. /\ UNCHANGED <<table, object>> /\ handleCall' = [handleCall EXCEPT ![t] = HandleIdle]
        /\ handleCall[t].step = "body" /\ HandleIdle.step = "idle"
    BY <1>2 DEF HandleReturn, Connect, SetSinks, HandleIdle
  <2> QED
    BY <2>1, Elsewhere
<1>3. ASSUME NEW t \in Thread, NEW a \in Addr, Make(t, a) PROVE HandleInv'
  BY <1>3, MakeInv
<1>4. ASSUME NEW t \in Thread, NEW a \in Addr, HandleDestroy(t, a) PROVE HandleInv'
  <2> DEFINE c == [step |-> IF table[a] = "Mgr" THEN "paging" ELSE "forget",
                   at |-> a, kind |-> table[a]]
  <2>1. /\ UNCHANGED <<table, object>> /\ handleCall' = [handleCall EXCEPT ![t] = c]
        /\ handleCall[t].step = "idle" /\ table[a] # "none"
    BY <1>4 DEF HandleDestroy, HandleIdle
  <2>2. c.step \in {"paging", "forget"} /\ c.at = a /\ c.kind = table[a]
    OBVIOUS
  <2> HIDE DEF c
  <2> QED
    BY <2>1, <2>2, Elsewhere
<1>5. ASSUME NEW t \in Thread, Add(t) PROVE HandleInv'
  BY <1>5, AddInv
<1>6. ASSUME NEW t \in Thread, PagingForget(t) PROVE HandleInv'
  <2> DEFINE c == [step |-> "forget", at |-> handleCall[t].at, kind |-> handleCall[t].kind]
  <2>1. /\ UNCHANGED <<table, object>> /\ handleCall' = [handleCall EXCEPT ![t] = c]
        /\ handleCall[t].step = "paging"
    BY <1>6 DEF PagingForget, Go
  <2>2. c.step = "forget" /\ c.at \in Addr /\ c.kind # "none"
    BY <2>1 DEF HandleInv, HandleShape
  <2> HIDE DEF c
  <2> QED
    BY <2>1, <2>2, Elsewhere
<1>7. ASSUME NEW t \in Thread, Forget(t) PROVE HandleInv'
  BY <1>7, ForgetInv
<1>8. ASSUME NEW t \in Thread, HandleDelete(t) PROVE HandleInv'
  BY <1>8, DeleteInv
<1>9. CASE UNCHANGED handleVars
  BY <1>9 DEF handleVars, HandleInv, HandleShape, Registered, InHand, Making
<1> QED
  BY <1>1, <1>2, <1>3, <1>4, <1>5, <1>6, <1>7, <1>8, <1>9 DEF HandleNext

LEMMA HandleInvAlways == HandleSpec => []HandleInv
  BY HandleInvInit, HandleInvNext, PTL DEF HandleSpec

(***************************************************************************)
(* A registered handle is a live object of its registered kind, and a live *)
(* object without a registration is in the hands of a call.                *)
(***************************************************************************)
THEOREM RegistryTruthful == HandleSpec => []Registered
<1>1. HandleInv => Registered
  BY DEF HandleInv
<1> QED
  BY <1>1, HandleInvAlways, PTL

(***************************************************************************)
(* However destroys race, each object is deleted once.                     *)
(***************************************************************************)
THEOREM DestroysDeleteOnce == HandleSpec => []DeletedOnce
  BY HandleInvAlways, HandleDeletedOnce, PTL

(***************************************************************************)
(* Both: a handle means one live object and is deleted once.               *)
(***************************************************************************)
THEOREM RegistryIsSafe == HandleSpec => []RegistrySafe
<1>1. Registered /\ DeletedOnce => RegistrySafe
  BY DEF RegistrySafe
<1> QED
  BY <1>1, RegistryTruthful, DestroysDeleteOnce, PTL
-----------------------------------------------------------------------------
(***************************************************************************)
(* What a call runs on.  A thread in a body has its arguments to itself,   *)
(* for a destroy of one of them would have had to begin before it or to    *)
(* wait for it; and once a destroy has begun nothing new points into what  *)
(* it destroys.  Both rest on the caller's order (Orderly): without it TLC *)
(* finds a body on an object that points into a dead one.  They hold with  *)
(* addresses handed out again under a destroy that still has them.         *)
(***************************************************************************)

\* What an entry point says of its arguments and its result.
GoodEntry(e) ==
    /\ \E n \in 0 .. 2 : e.takes \in [1 .. n -> Kind]
    /\ e.makes \in Kinds /\ e.keeps \in BOOLEAN
    /\ e.keeps => 1 \in DOMAIN e.takes /\ e.takes[1] \in {"Field", "Attr", "Desc"}

InBody(t) == handleCall[t].step = "body"

BodiesTyped ==
    \A t \in Thread : InBody(t) =>
        /\ handleCall[t].entry \in Entries
        /\ handleCall[t].args \in [DOMAIN handleCall[t].entry.takes -> Addr]
        /\ \A i \in DOMAIN handleCall[t].args :
              object[handleCall[t].args[i]] = handleCall[t].entry.takes[i]

OwnersAlive ==
    \A a \in Addr : object[a] # "none" /\ handleOwner[a] # None
                      => object[handleOwner[a]] \in {"Field", "Attr", "Desc"}

\* What is being destroyed is in no body, nothing alive points
\* into it, and once the paging step is behind it has no record.
DoomedAlone ==
    \A t \in Thread : Destroying(t) =>
        /\ \A u \in Thread : InBody(u) => handleCall[t].at \notin HandleHeld(u)
        /\ \A b \in Addr : object[b] # "none" => handleOwner[b] # handleCall[t].at
        /\ handleCall[t].step # "paging" => handleCall[t].at \notin paged

CallsInv == HandleTypeOK /\ HandleInv /\ BodiesTyped /\ OwnersAlive /\ DoomedAlone /\ NoStaleRecord

LEMMA TakesOne == \A k \in Kind : <<k>> \in [1 .. 1 -> Kind] /\ <<k>>[1] = k
OBVIOUS

LEMMA TakesTwo == \A k, l \in Kind : <<k, l>> \in [1 .. 2 -> Kind]
OBVIOUS

LEMMA GoodOnes ==
  ASSUME NEW k \in Kind, NEW m \in Kinds
  PROVE  /\ GoodEntry(Entry(<<k>>, m)) /\ GoodEntry(Entry(<<>>, m)) /\ GoodEntry(Answers(k))
         /\ k \in {"Field", "Attr", "Desc"} => GoodEntry(Keeper(<<k>>, m))
         /\ \A l \in Kind : GoodEntry(Entry(<<k, l>>, m))
<1>1. <<k>> \in [1 .. 1 -> Kind] /\ <<k>>[1] = k /\ 1 \in DOMAIN <<k>> /\ "none" \in Kinds
  BY DEF Kinds
<1>2. <<>> \in [1 .. 0 -> Kind]
  OBVIOUS
<1>3. \A l \in Kind : <<k, l>> \in [1 .. 2 -> Kind]
  OBVIOUS
<1>4. 0 \in 0 .. 2 /\ 1 \in 0 .. 2 /\ 2 \in 0 .. 2
  OBVIOUS
<1>5. GoodEntry(Entry(<<k>>, m)) /\ GoodEntry(Answers(k))
  BY <1>1, <1>4 DEF GoodEntry, Entry, Answers
<1>6. GoodEntry(Entry(<<>>, m))
  BY <1>2, <1>4 DEF GoodEntry, Entry
<1>7. k \in {"Field", "Attr", "Desc"} => GoodEntry(Keeper(<<k>>, m))
  BY <1>1, <1>4 DEF GoodEntry, Keeper
<1>8. \A l \in Kind : GoodEntry(Entry(<<k, l>>, m))
  BY <1>3, <1>4 DEF GoodEntry, Entry
<1> QED BY <1>5, <1>6, <1>7, <1>8

LEMMA EntriesGood == \A e \in Entries : GoodEntry(e)
<1>1. {"Mgr", "Field", "List", "Vect", "Attr", "Desc", "Curs", "Stck", "Recurs"} = Kind
      /\ Kind \subseteq Kinds /\ "none" \in Kinds
  BY DEF Kind, Kinds
<1>2. \A e \in MgrFactories \cup MgrCalls \cup FieldFactories \cup FieldTree \cup FieldValues : GoodEntry(e)
  BY <1>1, GoodOnes DEF MgrFactories, MgrCalls, FieldFactories, FieldTree, FieldValues
<1>3. \A e \in ListCalls \cup VectCalls \cup AttrCalls \cup DescCalls : GoodEntry(e)
  BY <1>1, GoodOnes DEF ListCalls, VectCalls, AttrCalls, DescCalls
<1>4. \A e \in CursCalls \cup LiveCalls \cup Refactors \cup TypedValues \cup TriggerCalls : GoodEntry(e)
  BY <1>1, GoodOnes DEF CursCalls, LiveCalls, Refactors, TypedValues, TriggerCalls
<1>5. \A e \in Declared \cup Selected \cup ListCells \cup VectCells : GoodEntry(e)
  <2>1. \A e \in Declared : GoodEntry(e)
    BY <1>1, GoodOnes DEF Declared
  <2>2. \A e \in Selected : GoodEntry(e)
    BY <1>1, <2>1, GoodOnes DEF Selected
  <2>3. \A e \in ListCells : GoodEntry(e)
    BY <1>1, GoodOnes DEF ListCells
  <2>4. \A e \in VectCells : GoodEntry(e)
    BY <1>1, GoodOnes DEF VectCells
  <2> QED BY <2>1, <2>2, <2>3, <2>4
<1>6. \A e \in StckCalls \cup RecursCalls \cup PageCalls : GoodEntry(e)
  <2>1. \A e \in StckCalls : GoodEntry(e)
    BY <1>1, GoodOnes DEF StckCalls, Connecting
  <2>2. \A e \in RecursCalls : GoodEntry(e)
    BY <1>1, GoodOnes DEF RecursCalls
  <2>3. \A e \in PageCalls : GoodEntry(e)
    BY <1>1, GoodOnes DEF PageCalls
  <2> QED BY <2>1, <2>2, <2>3
<1> QED BY <1>2, <1>3, <1>4, <1>5, <1>6 DEF Entries

LEMMA HeldIs ==
  ASSUME HandleTypeOK, NEW t \in Thread
  PROVE  /\ handleCall[t] = HandleIdle <=> handleCall[t].step = "idle"
         /\ handleCall[t].step = "idle" => HandleHeld(t) = {}
         /\ InBody(t) => HandleHeld(t) = {handleCall[t].args[i] : i \in DOMAIN handleCall[t].args}
         /\ handleCall[t].step = "made" => HandleHeld(t) = {handleCall[t].at, handleCall[t].on} \ {None}
         /\ Destroying(t) => HandleHeld(t) = {handleCall[t].at}
         /\ InBody(t) \/ Destroying(t) \/ handleCall[t].step \in {"idle", "made"}
<1>1. handleCall[t] \in HandleCalls
  BY DEF HandleTypeOK
<1>2. handleCall[t].step \in Steps
  BY <1>1 DEF HandleCalls, Steps
<1>3. handleCall[t].step = "idle" => handleCall[t] = HandleIdle
  BY <1>1 DEF HandleCalls, HandleIdle
<1> QED BY <1>2, <1>3 DEF HandleHeld, InBody, Destroying, HandleIdle, Steps

\* A call has only addresses in hand.
LEMMA HeldInAddr ==
  ASSUME HandleTypeOK, BodiesTyped, NEW t \in Thread PROVE HandleHeld(t) \subseteq Addr
<1>1. handleCall[t] \in HandleCalls
  BY DEF HandleTypeOK
<1>2. CASE InBody(t)
  BY <1>2, HeldIs DEF BodiesTyped
<1>3. CASE handleCall[t].step \in {"made", "paging", "forget", "delete"}
  <2>1. handleCall[t].at \in Addr /\ (handleCall[t].step = "made" => handleCall[t].on \in Addr \cup {None})
    BY <1>1, <1>3 DEF HandleCalls
  <2> QED BY <1>3, <2>1, HeldIs DEF Destroying
<1> QED BY <1>2, <1>3, HeldIs DEF Destroying

\* One thread's call moves on to c: what the others hold is as it was.
LEMMA OthersHold ==
  ASSUME HandleTypeOK, NEW t \in Thread, NEW c, handleCall' = [handleCall EXCEPT ![t] = c]
  PROVE  /\ handleCall'[t] = c
         /\ \A u \in Thread \ {t} : /\ handleCall'[u] = handleCall[u] /\ HandleHeld(u)' = HandleHeld(u)
                                    /\ InBody(u)' = InBody(u) /\ Destroying(u)' = Destroying(u)
<1>1. handleCall'[t] = c /\ \A u \in Thread \ {t} : handleCall'[u] = handleCall[u]
  BY DEF HandleTypeOK
<1> QED BY <1>1 DEF HandleHeld, InBody, Destroying

LEMMA CallsInvInit == HandleInit => CallsInv
<1> SUFFICES ASSUME HandleInit PROVE CallsInv
  OBVIOUS
<1>1. HandleTypeOK
  BY DEF HandleInit, HandleTypeOK, HandleCalls, HandleIdle, Kinds
<1>2. BodiesTyped /\ OwnersAlive /\ DoomedAlone /\ NoStaleRecord
  BY DEF HandleInit, BodiesTyped, OwnersAlive, DoomedAlone, NoStaleRecord, InBody, Destroying, HandleIdle
<1> QED BY <1>1, <1>2, HandleInvInit DEF CallsInv

LEMMA CallEnters ==
  ASSUME CallsInv, HandleInv', NEW t \in Thread, NEW e \in Entries, NEW args \in Args(e), Enter(t, e, args)
  PROVE  CallsInv'
<1> DEFINE c == [step |-> "body", entry |-> e, args |-> args]
<1>1. /\ HandleTypeOK /\ BodiesTyped /\ OwnersAlive /\ DoomedAlone /\ NoStaleRecord /\ HandleInv
      /\ handleCall[t] = HandleIdle /\ handleCall' = [handleCall EXCEPT ![t] = c]
      /\ UNCHANGED <<table, object, handleOwner, paged>>
      /\ \A i \in DOMAIN args : Is(args[i], e.takes[i])
      /\ Alone(t, {args[i] : i \in DOMAIN args})
  BY DEF CallsInv, Enter
<1>2. PICK n \in 0 .. 2 : e.takes \in [1 .. n -> Kind]
  BY EntriesGood DEF GoodEntry
<1>3. args \in [1 .. n -> Addr] /\ DOMAIN args = 1 .. n /\ DOMAIN e.takes = 1 .. n
  BY <1>2 DEF Args
<1>4. c \in HandleCalls /\ c.step = "body" /\ c.entry = e /\ c.args = args
  BY <1>2, <1>3 DEF HandleCalls
<1> HIDE DEF c
<1>5. /\ handleCall'[t] = c
      /\ \A u \in Thread \ {t} : /\ handleCall'[u] = handleCall[u] /\ HandleHeld(u)' = HandleHeld(u)
                                 /\ InBody(u)' = InBody(u) /\ Destroying(u)' = Destroying(u)
  BY <1>1, OthersHold
<1>6. HandleTypeOK'
  BY <1>1, <1>4 DEF HandleTypeOK
<1>7. BodiesTyped'
  <2>1. \A i \in DOMAIN args : object[args[i]] = e.takes[i]
    <3> SUFFICES ASSUME NEW i \in DOMAIN args PROVE object[args[i]] = e.takes[i]
      OBVIOUS
    <3>1. args[i] \in Addr /\ table[args[i]] = e.takes[i] /\ e.takes[i] \in Kind
      BY <1>1, <1>2, <1>3 DEF Is
    <3>2. e.takes[i] # "none"
      BY <3>1 DEF Kind
    <3> QED BY <1>1, <3>1, <3>2 DEF HandleInv, Registered
  <2>2. args \in [DOMAIN e.takes -> Addr]
    BY DEF Args
  <2> QED BY <1>1, <1>4, <1>5, <2>1, <2>2 DEF BodiesTyped, InBody
<1>8. DoomedAlone'
  <2> SUFFICES ASSUME NEW u \in Thread, Destroying(u)'
               PROVE  /\ \A v \in Thread : InBody(v)' => handleCall'[u].at \notin HandleHeld(v)'
                      /\ \A b \in Addr : object'[b] # "none" => handleOwner'[b] # handleCall'[u].at
                      /\ handleCall'[u].step # "paging" => handleCall'[u].at \notin paged'
    BY DEF DoomedAlone
  <2>1. u # t /\ handleCall'[u] = handleCall[u] /\ Destroying(u)
    BY <1>4, <1>5 DEF Destroying
  <2>2. HandleHeld(u) = {handleCall[u].at}
    BY <1>1, <2>1, HeldIs
  <2>3. handleCall[u].at \notin {args[i] : i \in DOMAIN args}
    BY <1>1, <2>1, <2>2 DEF Alone
  <2>4. HandleHeld(t)' = {args[i] : i \in DOMAIN args}
    BY <1>4, <1>5, <1>6, HeldIs DEF InBody, HandleHeld
  <2> QED BY <1>1, <1>5, <2>1, <2>3, <2>4 DEF DoomedAlone
<1> QED BY <1>1, <1>6, <1>7, <1>8 DEF CallsInv, OwnersAlive, NoStaleRecord

\* A step that ends thread t's call, or takes it on, while objects and owners
\* stay: t has no more in hand than it had.
LEMMA CallGoesOn ==
  ASSUME CallsInv, HandleInv', NEW t \in Thread, NEW c \in HandleCalls,
         handleCall' = [handleCall EXCEPT ![t] = c], c.step # "body", c.step # "made",
         UNCHANGED <<object, handleOwner>>, table' \in [Addr -> Kinds],
         paged' \subseteq paged,
         c.step # "idle" => Destroying(t) /\ c.at = handleCall[t].at
                            /\ (c.step # "paging" => c.at \notin paged')
  PROVE  CallsInv'
<1>1. /\ HandleTypeOK /\ BodiesTyped /\ OwnersAlive /\ DoomedAlone /\ NoStaleRecord /\ HandleInv
  BY DEF CallsInv
<1>2. /\ handleCall'[t] = c
      /\ \A u \in Thread \ {t} : /\ handleCall'[u] = handleCall[u] /\ HandleHeld(u)' = HandleHeld(u)
                                 /\ InBody(u)' = InBody(u) /\ Destroying(u)' = Destroying(u)
  BY <1>1, OthersHold
<1>3. HandleTypeOK'
  BY <1>1 DEF HandleTypeOK
<1>4. c.step \in {"idle", "paging", "forget", "delete"} /\ ~InBody(t)'
      /\ (Destroying(t)' <=> c.step # "idle")
  BY <1>2 DEF HandleCalls, InBody, Destroying
<1>5. HandleHeld(t)' = IF c.step = "idle" THEN {} ELSE {c.at}
  BY <1>2, <1>4 DEF HandleHeld
<1>6. BodiesTyped'
  BY <1>1, <1>2, <1>4 DEF BodiesTyped
<1>7. DoomedAlone'
  <2> SUFFICES ASSUME NEW u \in Thread, Destroying(u)'
               PROVE  /\ \A v \in Thread : InBody(v)' => handleCall'[u].at \notin HandleHeld(v)'
                      /\ \A b \in Addr : object'[b] # "none" => handleOwner'[b] # handleCall'[u].at
                      /\ handleCall'[u].step # "paging" => handleCall'[u].at \notin paged'
    BY DEF DoomedAlone
  <2>1. Destroying(u) /\ handleCall'[u].at = handleCall[u].at
    BY <1>2, <1>4
  <2>2. \A v \in Thread : InBody(v)' => handleCall[u].at \notin HandleHeld(v)'
    BY <1>1, <1>2, <1>4, <1>5, <2>1 DEF DoomedAlone
  <2>3. handleCall'[u].step # "paging" => handleCall'[u].at \notin paged'
    BY <1>1, <1>2, <1>4, <2>1 DEF DoomedAlone
  <2> QED BY <1>1, <2>1, <2>2, <2>3 DEF DoomedAlone
<1> QED BY <1>1, <1>3, <1>6, <1>7 DEF CallsInv, OwnersAlive, NoStaleRecord

LEMMA CallMakes ==
  ASSUME CallsInv, HandleInv', NEW t \in Thread, NEW a \in Addr, Make(t, a)
  PROVE  CallsInv'
<1> DEFINE args == handleCall[t].args
           e == handleCall[t].entry
           first == IF args = <<>> THEN None ELSE args[1]
           own == IF e.keeps THEN args[1] ELSE None
           c == [step |-> "made", at |-> a, on |-> first]
<1>1. /\ HandleTypeOK /\ BodiesTyped /\ OwnersAlive /\ DoomedAlone /\ NoStaleRecord /\ HandleInv
      /\ InBody(t) /\ e.makes # "none" /\ object[a] = "none"
      /\ object' = [object EXCEPT ![a] = e.makes] /\ handleOwner' = [handleOwner EXCEPT ![a] = own]
      /\ handleCall' = [handleCall EXCEPT ![t] = c] /\ UNCHANGED <<table, paged>>
  BY DEF CallsInv, Make, InBody, HandleFree
<1>2. /\ e \in Entries /\ args \in [DOMAIN e.takes -> Addr]
      /\ \A i \in DOMAIN args : object[args[i]] = e.takes[i]
  BY <1>1 DEF BodiesTyped
<1>3. GoodEntry(e)
  BY <1>2, EntriesGood
<1>4. PICK n \in 0 .. 2 : e.takes \in [1 .. n -> Kind]
  BY <1>3 DEF GoodEntry
<1>5. args \in [1 .. n -> Addr] /\ DOMAIN args = 1 .. n /\ DOMAIN e.takes = 1 .. n
  BY <1>2, <1>4
<1>6. e.keeps => 1 \in DOMAIN args /\ own = args[1] /\ own \in Addr
                 /\ object[own] \in {"Field", "Attr", "Desc"}
  BY <1>2, <1>3, <1>5 DEF GoodEntry
<1>7. /\ own \in Addr \cup {None} /\ first \in Addr \cup {None}
      /\ first # None => \E i \in DOMAIN args : first = args[i]
  <2>1. args # <<>> => 1 \in DOMAIN args
    BY <1>5
  <2> QED BY <1>5, <1>6, <2>1
<1>8. c \in HandleCalls /\ c.step = "made" /\ c.at = a /\ c.on = first
  BY <1>7 DEF HandleCalls
<1>9. e.makes \in Kinds
  BY <1>3 DEF GoodEntry
<1>10. HandleHeld(t) = {args[i] : i \in DOMAIN args}
  BY <1>1, HeldIs
<1>11. own # None => own \in HandleHeld(t)
  BY <1>6, <1>10
<1>12. first # None => first \in HandleHeld(t)
  BY <1>7, <1>10
<1> HIDE DEF c, own, first, args, e
<1>14. /\ handleCall'[t] = c
       /\ \A u \in Thread \ {t} : /\ handleCall'[u] = handleCall[u] /\ HandleHeld(u)' = HandleHeld(u)
                                  /\ InBody(u)' = InBody(u) /\ Destroying(u)' = Destroying(u)
  BY <1>1, OthersHold
<1>15. HandleTypeOK'
  BY <1>1, <1>7, <1>8, <1>9 DEF HandleTypeOK
<1>16. ~InBody(t)' /\ ~Destroying(t)' /\ HandleHeld(t)' \subseteq {a} \cup (HandleHeld(t) \ {None})
  BY <1>8, <1>12, <1>14 DEF InBody, Destroying, HandleHeld
<1>17. /\ object' \in [Addr -> Kinds] /\ object'[a] # "none" /\ handleOwner'[a] = own
       /\ \A b \in Addr \ {a} : object'[b] = object[b] /\ handleOwner'[b] = handleOwner[b]
  BY <1>1, <1>9 DEF HandleTypeOK
<1>18. BodiesTyped'
  <2> SUFFICES ASSUME NEW u \in Thread, InBody(u)'
               PROVE  /\ handleCall'[u].entry \in Entries
                      /\ handleCall'[u].args \in [DOMAIN handleCall'[u].entry.takes -> Addr]
                      /\ \A i \in DOMAIN handleCall'[u].args :
                           object'[handleCall'[u].args[i]] = handleCall'[u].entry.takes[i]
    BY DEF BodiesTyped
  <2>1. u # t /\ handleCall'[u] = handleCall[u] /\ InBody(u)
    BY <1>14, <1>16
  <2>2. \A i \in DOMAIN handleCall[u].args : handleCall[u].args[i] \in Addr \ {a}
    <3> SUFFICES ASSUME NEW i \in DOMAIN handleCall[u].args PROVE handleCall[u].args[i] \in Addr \ {a}
      OBVIOUS
    <3>1. /\ handleCall[u].args[i] \in Addr /\ object[handleCall[u].args[i]] = handleCall[u].entry.takes[i]
          /\ GoodEntry(handleCall[u].entry) /\ i \in DOMAIN handleCall[u].entry.takes
      BY <1>1, <2>1, EntriesGood DEF BodiesTyped
    <3>2. handleCall[u].entry.takes[i] # "none"
      BY <3>1 DEF GoodEntry, Kind
    <3> QED BY <1>1, <3>1, <3>2
  <2> QED BY <1>1, <1>17, <2>1, <2>2 DEF BodiesTyped
<1>19. OwnersAlive'
  <2> SUFFICES ASSUME NEW b \in Addr, object'[b] # "none", handleOwner'[b] # None
               PROVE  object'[handleOwner'[b]] \in {"Field", "Attr", "Desc"}
    BY DEF OwnersAlive
  <2>1. CASE b = a
    <3>1. own \in Addr /\ object[own] \in {"Field", "Attr", "Desc"}
      BY <1>6, <1>7, <1>17, <2>1 DEF own
    <3>2. own # a
      BY <1>1, <3>1
    <3> QED BY <1>17, <2>1, <3>1, <3>2
  <2>2. CASE b # a
    <3>1. object[b] # "none" /\ handleOwner[b] # None /\ handleOwner'[b] = handleOwner[b]
          /\ handleOwner[b] \in Addr
      BY <1>1, <1>17, <2>2 DEF HandleTypeOK
    <3>2. object[handleOwner[b]] \in {"Field", "Attr", "Desc"}
      BY <1>1, <3>1 DEF OwnersAlive
    <3>3. handleOwner[b] # a
      BY <1>1, <3>2
    <3> QED BY <1>17, <3>1, <3>2, <3>3
  <2> QED BY <2>1, <2>2
<1>20. DoomedAlone'
  <2> SUFFICES ASSUME NEW u \in Thread, Destroying(u)'
               PROVE  /\ \A v \in Thread : InBody(v)' => handleCall'[u].at \notin HandleHeld(v)'
                      /\ \A b \in Addr : object'[b] # "none" => handleOwner'[b] # handleCall'[u].at
                      /\ handleCall'[u].step # "paging" => handleCall'[u].at \notin paged'
    BY DEF DoomedAlone
  <2> DEFINE d == handleCall[u].at
  <2>1. u # t /\ handleCall'[u] = handleCall[u] /\ Destroying(u)
    BY <1>14, <1>16
  <2>2. d \notin HandleHeld(t)
    BY <1>1, <2>1 DEF DoomedAlone
  <2>3. d # None /\ d \in Addr
    <3>1. handleCall[u] \in HandleCalls
      BY <1>1 DEF HandleTypeOK
    <3> QED BY <2>1, <3>1, HandleAssumption DEF HandleCalls, Destroying
  <2>4. d # own
    BY <1>11, <2>2, <2>3
  <2> HIDE DEF d
  <2>5. handleCall'[u].at = d
    BY <2>1 DEF d
  <2>6. \A v \in Thread : InBody(v)' => d \notin HandleHeld(v)'
    BY <1>1, <1>14, <1>16, <2>1, <2>2 DEF DoomedAlone, d
  <2>7. \A b \in Addr : object'[b] # "none" => handleOwner'[b] # d
    BY <1>1, <1>17, <2>1, <2>4 DEF DoomedAlone, d
  <2>8. handleCall'[u].step # "paging" => d \notin paged'
    BY <1>1, <2>1 DEF DoomedAlone, d
  <2> QED BY <2>5, <2>6, <2>7, <2>8
<1>21. NoStaleRecord'
  <2>1. a \notin paged
    BY <1>1 DEF NoStaleRecord
  <2>2. paged \subseteq Addr
    BY <1>1 DEF HandleTypeOK
  <2> QED BY <1>1, <1>17, <2>1, <2>2 DEF NoStaleRecord
<1> QED BY <1>15, <1>18, <1>19, <1>20, <1>21 DEF CallsInv

LEMMA CallConnects ==
  ASSUME CallsInv, HandleInv', NEW t \in Thread,
         Connect(t) \/ \E set \in BOOLEAN : SetSinks(t, set)
  PROVE  CallsInv'
<1> DEFINE args == handleCall[t].args
<1>1. /\ HandleTypeOK /\ BodiesTyped /\ OwnersAlive /\ DoomedAlone /\ NoStaleRecord /\ HandleInv
      /\ InBody(t) /\ handleCall' = [handleCall EXCEPT ![t] = HandleIdle] /\ UNCHANGED <<object, table>>
  BY DEF CallsInv, Connect, SetSinks, InBody
<1>2. /\ args \in [DOMAIN handleCall[t].entry.takes -> Addr]
      /\ \A i \in DOMAIN args : object[args[i]] = handleCall[t].entry.takes[i]
      /\ HandleHeld(t) = {args[i] : i \in DOMAIN args}
  BY <1>1, HeldIs DEF BodiesTyped
<1>3. CASE Connect(t)
  <2>1. /\ args \in [1 .. 2 -> Addr] /\ object[args[1]] = "Stck" /\ object[args[2]] = "Field"
        /\ args[1] \in HandleHeld(t) /\ args[2] \in HandleHeld(t)
    <3>1. DOMAIN handleCall[t].entry.takes = 1 .. 2 /\ 1 \in 1 .. 2 /\ 2 \in 1 .. 2
          /\ handleCall[t].entry.takes[1] = "Stck" /\ handleCall[t].entry.takes[2] = "Field"
      BY <1>3 DEF Connect, Connecting, Entry
    <3> QED BY <1>2, <3>1
  <2>2. handleOwner' = [handleOwner EXCEPT ![args[1]] = args[2]] /\ paged' = paged
    BY <1>3 DEF Connect
  <2> HIDE DEF args
  <2>3. /\ handleOwner' \in [Addr -> Addr \cup {None}] /\ handleOwner'[args[1]] = args[2]
        /\ \A b \in Addr \ {args[1]} : handleOwner'[b] = handleOwner[b]
    BY <1>1, <2>1, <2>2 DEF HandleTypeOK
  <2>4. OwnersAlive'
    BY <1>1, <2>1, <2>3 DEF OwnersAlive
  <2>5. \A u \in Thread : Destroying(u) => handleCall[u].at # args[2]
    BY <1>1, <2>1 DEF DoomedAlone, InBody, Destroying
  <2>6. /\ handleCall'[t] = HandleIdle
        /\ \A u \in Thread \ {t} : /\ handleCall'[u] = handleCall[u] /\ HandleHeld(u)' = HandleHeld(u)
                                   /\ InBody(u)' = InBody(u) /\ Destroying(u)' = Destroying(u)
    BY <1>1, OthersHold
  <2>7. ~InBody(t)' /\ ~Destroying(t)' /\ HandleHeld(t)' = {}
    BY <2>6 DEF InBody, Destroying, HandleHeld, HandleIdle
  <2>8. DoomedAlone'
    BY <1>1, <2>1, <2>2, <2>3, <2>5, <2>6, <2>7 DEF DoomedAlone
  <2>9. BodiesTyped' /\ NoStaleRecord'
    BY <1>1, <2>2, <2>6, <2>7 DEF BodiesTyped, NoStaleRecord
  <2>10. HandleTypeOK'
    BY <1>1, <2>2, <2>3 DEF HandleTypeOK, HandleCalls, HandleIdle
  <2> QED BY <2>4, <2>8, <2>9, <2>10 DEF CallsInv
<1>4. CASE \E set \in BOOLEAN : SetSinks(t, set)
  <2>1. /\ args[1] \in Addr /\ object[args[1]] = "Mgr" /\ args[1] \in HandleHeld(t)
    <3>1. 1 \in DOMAIN handleCall[t].entry.takes /\ handleCall[t].entry.takes[1] = "Mgr"
      BY <1>4 DEF SetSinks, Answers, Entry
    <3> QED BY <1>2, <3>1
  <2>2. handleOwner' = handleOwner /\ paged' \subseteq paged \cup {args[1]}
    BY <1>4 DEF SetSinks
  <2> HIDE DEF args
  <2>3. \A u \in Thread : Destroying(u) => handleCall[u].at # args[1]
    BY <1>1, <2>1 DEF DoomedAlone, InBody, Destroying
  <2>4. /\ handleCall'[t] = HandleIdle
        /\ \A u \in Thread \ {t} : /\ handleCall'[u] = handleCall[u] /\ HandleHeld(u)' = HandleHeld(u)
                                   /\ InBody(u)' = InBody(u) /\ Destroying(u)' = Destroying(u)
    BY <1>1, OthersHold
  <2>5. ~InBody(t)' /\ ~Destroying(t)' /\ HandleHeld(t)' = {}
    BY <2>4 DEF InBody, Destroying, HandleHeld, HandleIdle
  <2>6. DoomedAlone'
    BY <1>1, <2>2, <2>3, <2>4, <2>5 DEF DoomedAlone
  <2>7. BodiesTyped' /\ NoStaleRecord' /\ OwnersAlive'
    BY <1>1, <2>1, <2>2, <2>4, <2>5 DEF BodiesTyped, NoStaleRecord, OwnersAlive
  <2>8. HandleTypeOK'
    BY <1>1, <2>1, <2>2 DEF HandleTypeOK, HandleCalls, HandleIdle
  <2> QED BY <2>6, <2>7, <2>8 DEF CallsInv
<1> QED BY <1>3, <1>4

LEMMA CallDestroys ==
  ASSUME CallsInv, HandleInv', Orderly = TRUE, NEW t \in Thread, NEW a \in Addr, HandleDestroy(t, a)
  PROVE  CallsInv'
<1> DEFINE c == [step |-> IF table[a] = "Mgr" THEN "paging" ELSE "forget", at |-> a, kind |-> table[a]]
<1>1. /\ HandleTypeOK /\ BodiesTyped /\ OwnersAlive /\ DoomedAlone /\ NoStaleRecord /\ HandleInv
      /\ table[a] # "none" /\ handleCall' = [handleCall EXCEPT ![t] = c]
      /\ \A u \in Thread \ {t} : a \in HandleHeld(u) => Destroying(u)
      /\ \A b \in Addr : object[b] # "none" => handleOwner[b] # a
      /\ UNCHANGED <<table, object, handleOwner, paged>> /\ handleCall[t] = HandleIdle
  BY DEF CallsInv, HandleDestroy
<1>2. table[a] \in Kind /\ object[a] = table[a]
  BY <1>1 DEF HandleTypeOK, Kinds, HandleInv, Registered
<1>3. /\ c \in HandleCalls /\ c.at = a /\ c.step \in {"paging", "forget"}
      /\ c.step # "paging" => object[a] # "Mgr"
  BY <1>2 DEF HandleCalls
<1> HIDE DEF c
<1>4. /\ handleCall'[t] = c
      /\ \A u \in Thread \ {t} : /\ handleCall'[u] = handleCall[u] /\ HandleHeld(u)' = HandleHeld(u)
                                 /\ InBody(u)' = InBody(u) /\ Destroying(u)' = Destroying(u)
  BY <1>1, OthersHold
<1>5. ~InBody(t)' /\ Destroying(t)' /\ HandleHeld(t)' = {a}
  BY <1>3, <1>4 DEF InBody, Destroying, HandleHeld
<1>6. HandleTypeOK'
  BY <1>1, <1>3 DEF HandleTypeOK
<1>7. BodiesTyped' /\ OwnersAlive' /\ NoStaleRecord'
  BY <1>1, <1>4, <1>5 DEF BodiesTyped, OwnersAlive, NoStaleRecord
<1>8. c.step # "paging" => a \notin paged
  BY <1>1, <1>3 DEF NoStaleRecord
<1>9. DoomedAlone'
  <2> SUFFICES ASSUME NEW u \in Thread, Destroying(u)'
               PROVE  /\ \A v \in Thread : InBody(v)' => handleCall'[u].at \notin HandleHeld(v)'
                      /\ \A b \in Addr : object'[b] # "none" => handleOwner'[b] # handleCall'[u].at
                      /\ handleCall'[u].step # "paging" => handleCall'[u].at \notin paged'
    BY DEF DoomedAlone
  <2>1. CASE u = t
    <3>1. \A v \in Thread : InBody(v)' => a \notin HandleHeld(v)'
      <4>1. \A v \in Thread \ {t} : InBody(v)' => a \notin HandleHeld(v)'
        BY <1>1, <1>4 DEF InBody, Destroying
      <4> QED BY <1>5, <4>1
    <3> QED BY <1>1, <1>3, <1>4, <1>8, <2>1, <3>1
  <2>2. CASE u # t
    BY <1>1, <1>4, <1>5, <2>2 DEF DoomedAlone
  <2> QED BY <2>1, <2>2
<1> QED BY <1>1, <1>6, <1>7, <1>9 DEF CallsInv

LEMMA CallDeletes ==
  ASSUME CallsInv, HandleInv', NEW t \in Thread, HandleDelete(t) PROVE CallsInv'
<1>0. PICK a \in Addr : a = handleCall[t].at
  <2>1. handleCall[t] \in HandleCalls /\ handleCall[t].step = "delete"
    BY DEF CallsInv, HandleTypeOK, HandleDelete
  <2> QED BY <2>1 DEF HandleCalls
<1>1. /\ HandleTypeOK /\ BodiesTyped /\ OwnersAlive /\ DoomedAlone /\ NoStaleRecord /\ HandleInv
      /\ handleCall' = [handleCall EXCEPT ![t] = HandleIdle] /\ UNCHANGED <<table, paged>>
      /\ object' = [object EXCEPT ![a] = "none"] /\ handleOwner' = [handleOwner EXCEPT ![a] = None]
      /\ Destroying(t) /\ handleCall[t].step # "paging"
  BY <1>0 DEF CallsInv, HandleDelete, Destroying
<1>2. /\ \A u \in Thread : InBody(u) => a \notin HandleHeld(u)
      /\ \A b \in Addr : object[b] # "none" => handleOwner[b] # a
      /\ a \notin paged
  BY <1>0, <1>1 DEF DoomedAlone
<1>3. /\ handleCall'[t] = HandleIdle
      /\ \A u \in Thread \ {t} : /\ handleCall'[u] = handleCall[u] /\ HandleHeld(u)' = HandleHeld(u)
                                 /\ InBody(u)' = InBody(u) /\ Destroying(u)' = Destroying(u)
  BY <1>1, OthersHold
<1>4. ~InBody(t)' /\ ~Destroying(t)' /\ HandleHeld(t)' = {}
  BY <1>3 DEF InBody, Destroying, HandleHeld, HandleIdle
<1>5. /\ object' \in [Addr -> Kinds] /\ object'[a] = "none"
      /\ handleOwner' \in [Addr -> Addr \cup {None}]
      /\ \A b \in Addr \ {a} : object'[b] = object[b] /\ handleOwner'[b] = handleOwner[b]
  BY <1>1 DEF HandleTypeOK, Kinds
<1>6. HandleTypeOK'
  BY <1>1, <1>5 DEF HandleTypeOK, HandleCalls, HandleIdle
<1>7. BodiesTyped'
  <2> SUFFICES ASSUME NEW u \in Thread, InBody(u)'
               PROVE  /\ handleCall'[u].entry \in Entries
                      /\ handleCall'[u].args \in [DOMAIN handleCall'[u].entry.takes -> Addr]
                      /\ \A i \in DOMAIN handleCall'[u].args :
                           object'[handleCall'[u].args[i]] = handleCall'[u].entry.takes[i]
    BY DEF BodiesTyped
  <2>1. u # t /\ handleCall'[u] = handleCall[u] /\ InBody(u) /\ ~Destroying(u)
    BY <1>3, <1>4 DEF InBody, Destroying
  <2>2. \A i \in DOMAIN handleCall[u].args : handleCall[u].args[i] \in Addr \ {a}
    BY <1>1, <1>2, <2>1, HeldIs DEF BodiesTyped
  <2> QED BY <1>1, <1>5, <2>1, <2>2 DEF BodiesTyped
<1>8. OwnersAlive'
  <2> SUFFICES ASSUME NEW b \in Addr, object'[b] # "none", handleOwner'[b] # None
               PROVE  object'[handleOwner'[b]] \in {"Field", "Attr", "Desc"}
    BY DEF OwnersAlive
  <2>1. b # a /\ object[b] # "none" /\ handleOwner'[b] = handleOwner[b] /\ handleOwner[b] \in Addr
    BY <1>1, <1>5 DEF HandleTypeOK
  <2> QED BY <1>1, <1>2, <1>5, <2>1 DEF OwnersAlive
<1>9. NoStaleRecord'
  <2>1. paged \subseteq Addr
    BY <1>1 DEF HandleTypeOK
  <2> QED BY <1>1, <1>2, <1>5, <2>1 DEF NoStaleRecord
<1>10. DoomedAlone'
  BY <1>1, <1>3, <1>4, <1>5 DEF DoomedAlone
<1> QED BY <1>6, <1>7, <1>8, <1>9, <1>10 DEF CallsInv

LEMMA CallsInvNext ==
  Orderly = TRUE /\ CallsInv /\ [HandleNext]_handleVars => CallsInv'
<1> SUFFICES ASSUME Orderly = TRUE, CallsInv, [HandleNext]_handleVars
             PROVE  CallsInv'
  OBVIOUS
<1>0. HandleInv' /\ HandleTypeOK
  BY HandleInvNext DEF CallsInv
<1>1. CASE UNCHANGED handleVars
  <2>1. /\ UNCHANGED <<table, object, handleOwner, paged, handleCall>>
        /\ \A t \in Thread : /\ InBody(t)' = InBody(t) /\ Destroying(t)' = Destroying(t)
                            /\ HandleHeld(t)' = HandleHeld(t)
    BY <1>1 DEF handleVars, InBody, Destroying, HandleHeld
  <2>2. HandleTypeOK'
    BY <1>0, <2>1 DEF HandleTypeOK
  <2>3. BodiesTyped'
    BY <2>1 DEF CallsInv, BodiesTyped
  <2>4. OwnersAlive' /\ NoStaleRecord'
    BY <2>1 DEF CallsInv, OwnersAlive, NoStaleRecord
  <2>5. DoomedAlone'
    BY <2>1 DEF CallsInv, DoomedAlone
  <2> QED BY <1>0, <2>2, <2>3, <2>4, <2>5 DEF CallsInv
<1>2. ASSUME NEW t \in Thread, HandleReturn(t) \/ Add(t) PROVE CallsInv'
  <2>1. HandleIdle \in HandleCalls /\ HandleIdle.step = "idle"
    BY DEF HandleCalls, HandleIdle
  <2>2. table' \in [Addr -> Kinds]
    <3>1. handleCall[t] \in HandleCalls
      BY <1>0 DEF HandleTypeOK
    <3>2. Add(t) => handleCall[t].at \in Addr
      BY <3>1 DEF Add, HandleCalls
    <3> QED BY <1>0, <1>2, <3>2 DEF HandleReturn, Add, HandleTypeOK
  <2> QED BY <1>0, <1>2, <2>1, <2>2, CallGoesOn DEF HandleReturn, Add
<1>3. ASSUME NEW t \in Thread, PagingForget(t) \/ Forget(t) PROVE CallsInv'
  <2> DEFINE c(step) == [step |-> step, at |-> handleCall[t].at, kind |-> handleCall[t].kind]
  <2>1. /\ handleCall[t] \in HandleCalls /\ Destroying(t)
        /\ handleCall[t].at \in Addr /\ handleCall[t].kind \in Kind
    <3>1. handleCall[t] \in HandleCalls /\ handleCall[t].step \in {"paging", "forget"}
      BY <1>0, <1>3 DEF HandleTypeOK, PagingForget, Forget
    <3> QED BY <3>1 DEF HandleCalls, Destroying
  <2>2. \A step \in {"forget", "delete"} : c(step) \in HandleCalls
    BY <2>1 DEF HandleCalls
  <2>3. HandleIdle \in HandleCalls /\ HandleIdle.step = "idle"
    BY DEF HandleCalls, HandleIdle
  <2>4. CASE PagingForget(t)
    <3>1. /\ handleCall' = [handleCall EXCEPT ![t] = c("forget")] /\ paged' = paged \ {handleCall[t].at}
          /\ UNCHANGED <<table, object, handleOwner>>
      BY <2>4 DEF PagingForget, Go
    <3>2. table' \in [Addr -> Kinds]
      BY <1>0, <3>1 DEF HandleTypeOK
    <3> QED BY <1>0, <2>1, <2>2, <3>1, <3>2, CallGoesOn
  <2>5. CASE Forget(t)
    <3>1. handleCall[t].at \notin paged /\ UNCHANGED <<object, handleOwner, paged>>
      BY <2>1, <2>5 DEF Forget, CallsInv, DoomedAlone
    <3>2. table' \in [Addr -> Kinds]
      BY <1>0, <2>1, <2>5 DEF Forget, HandleTypeOK, Kinds
    <3>3. CASE handleCall' = [handleCall EXCEPT ![t] = HandleIdle]
      BY <1>0, <2>3, <3>1, <3>2, <3>3, CallGoesOn
    <3>4. CASE handleCall' = [handleCall EXCEPT ![t] = c("delete")]
      BY <1>0, <2>1, <2>2, <3>1, <3>2, <3>4, CallGoesOn
    <3> QED BY <2>5, <3>3, <3>4 DEF Forget, Go
  <2> QED BY <1>3, <2>4, <2>5
<1> QED
  BY <1>0, <1>1, <1>2, <1>3, CallEnters, CallMakes, CallConnects, CallDestroys, CallDeletes
  DEF HandleNext

\* No body runs on a dead object or on one of another kind, no object keeps a
\* pointer to one that is gone, and no paging record outlives its manager.
THEOREM CallsAreSafe ==
  ASSUME Orderly = TRUE PROVE HandleSpec => []CallsSafe
<1>1. CallsInv => CallsSafe
  <2> SUFFICES ASSUME CallsInv PROVE CallsSafe
    OBVIOUS
  <2>1. Typed
    <3> SUFFICES ASSUME NEW t \in Thread, InBody(t), NEW i \in DOMAIN handleCall[t].args
                 PROVE  Alive(handleCall[t].args[i], handleCall[t].entry.takes[i])
      BY DEF Typed, InBody
    <3>1. /\ object[handleCall[t].args[i]] = handleCall[t].entry.takes[i]
          /\ handleCall[t].args[i] \in Addr /\ GoodEntry(handleCall[t].entry)
          /\ i \in DOMAIN handleCall[t].entry.takes
      BY EntriesGood DEF CallsInv, BodiesTyped
    <3>2. handleCall[t].entry.takes[i] # "none"
      BY <3>1 DEF GoodEntry, Kind
    <3> QED BY <3>1, <3>2 DEF CallsInv, OwnersAlive, Alive
  <2> QED BY <2>1 DEF CallsInv, CallsSafe
<1>2. CallsInv /\ [HandleNext]_handleVars => CallsInv'
  BY CallsInvNext
<1> QED BY <1>1, <1>2, CallsInvInit, PTL DEF HandleSpec

-----------------------------------------------------------------------------
(***************************************************************************)
(* The paging sinks.  A host that does not push keeps every registered key *)
(* on a live record, wherever the map puts its records.                    *)
(***************************************************************************)

\* The record holds a sink exactly when the core has a registration for it.
PagingInv ==
    /\ PagingTypeOK /\ KeyHeld
    /\ sinks \cap Populating # {} <=> populate.key # None
    /\ sinks \cap Paging # {} <=> page.key # None

LEMMA PagingInvInit == PagingInit => PagingInv
  BY PagingAssumption DEF PagingInit, PagingInv, PagingTypeOK, KeyHeld, Reaches, Nothing, Paging, Populating

LEMMA PagingStep ==
  ASSUME PagingInv, NEW fns \in SUBSET Paging, SetPagingSinks(fns)
  PROVE  PagingInv'
<1> USE PagingAssumption
    DEF PagingInv, PagingTypeOK, SetPagingSinks, PageRegistration, Paging, Populating, KeyHeld, Reaches
<1>0. page \in [key : Rec \cup {None}, fns : SUBSET Paging]
  OBVIOUS
<1>1. CASE fns = {}
  <2>1. /\ page' = [key |-> None, fns |-> {}]
        /\ UNCHANGED <<populate, saved, section>>
        /\ sinks' = sinks \ Paging
        /\ record' = IF sinks \ Paging = {} THEN None ELSE record
    BY <1>1 DEF Erased
  <2>2. PagingTypeOK'
    BY <2>1
  <2>3. page'.key = None
    BY <2>1
  <2>4. populate.key # None => "populate" \in sinks
    OBVIOUS
  <2>5. record' # None => populate.key # None
    BY <2>1
  <2> QED
    BY <2>1, <2>2, <2>3, <2>4, <2>5
<1>2. CASE fns # {}
  <2>1. PICK r \in Place :
          /\ record' = r /\ sinks' = (sinks \ Paging) \cup fns
          /\ page' = [key |-> r, fns |-> fns]
          /\ UNCHANGED <<populate, saved, section>>
    BY <1>2
  <2>2. r \in Rec /\ (record # None => r = record)
    BY DEF Place
  <2>3. PagingTypeOK'
    <3>1. page' \in [key : Rec \cup {None}, fns : SUBSET Paging]
      BY <2>1, <2>2
    <3>2. sinks' \subseteq Paging \cup Populating
      BY <2>1
    <3> QED
      BY <2>1, <2>2, <3>1, <3>2
  <2>4. page'.key = r /\ page'.fns = fns /\ r # None
    BY <2>1, <2>2
  <2>5. populate.key # None => populate.key = r /\ record = r
    BY <2>2
  <2>6. sinks' \cap Paging = fns /\ sinks' \cap Populating = sinks \cap Populating
    BY <2>1
  <2>7. KeyHeld'
    BY <2>1, <2>4, <2>5, <2>6
  <2> QED
    BY <1>2, <2>1, <2>3, <2>4, <2>6, <2>7
<1> QED
  BY <1>1, <1>2

LEMMA PopulateStep ==
  ASSUME PagingInv, NEW fns \in SUBSET Populating, SetPopulateSink(fns)
  PROVE  PagingInv'
<1> USE PagingAssumption
    DEF PagingInv, PagingTypeOK, SetPopulateSink, PopulateRegistration, Paging, Populating, KeyHeld, Reaches
<1>1. CASE fns = {}
  <2>1. /\ populate' = [key |-> None, fns |-> {}]
        /\ UNCHANGED <<page, saved, section>>
        /\ sinks' = sinks \ Populating
        /\ record' = IF sinks \ Populating = {} THEN None ELSE record
    BY <1>1 DEF Erased
  <2>2. PagingTypeOK'
    BY <2>1
  <2>3. populate'.key = None
    BY <2>1
  <2>4. page.key # None => sinks \ Populating # {}
    OBVIOUS
  <2>5. record' # None => page.key # None
    BY <2>1
  <2> QED
    BY <2>1, <2>2, <2>3, <2>4, <2>5
<1>2. CASE fns # {}
  <2>1. PICK r \in Place :
          /\ record' = r /\ sinks' = sinks \cup fns
          /\ populate' = [key |-> r, fns |-> fns]
          /\ UNCHANGED <<page, saved, section>>
    BY <1>2
  <2>2. r \in Rec /\ (record # None => r = record)
    BY DEF Place
  <2>3. PagingTypeOK'
    BY <2>1, <2>2
  <2>4. populate'.key = r /\ populate'.fns = fns /\ r # None /\ fns = {"populate"}
    BY <1>2, <2>1, <2>2
  <2>5. page.key # None => page.key = r
    BY <2>2
  <2> QED
    BY <2>1, <2>3, <2>4, <2>5
<1> QED
  BY <1>1, <1>2

LEMMA PagingInvNext == ~ Pushes /\ PagingInv /\ [PagingNext]_pagingVars => PagingInv'
<1> SUFFICES ASSUME ~ Pushes, PagingInv, [PagingNext]_pagingVars PROVE PagingInv'
  OBVIOUS
<1>1. ASSUME NEW fns \in SUBSET Paging, SetPagingSinks(fns) PROVE PagingInv'
  BY <1>1, PagingStep
<1>2. ASSUME NEW fns \in SUBSET Populating, SetPopulateSink(fns) PROVE PagingInv'
  BY <1>2, PopulateStep
<1>3. ~ PagingPush /\ ~ PagingPop
  BY DEF PagingPush, PagingPop
<1>4. CASE UNCHANGED pagingVars
  BY <1>4 DEF pagingVars, PagingInv, PagingTypeOK, KeyHeld, Reaches
<1> QED
  BY <1>1, <1>2, <1>3, <1>4 DEF PagingNext

(***************************************************************************)
(* Without push and pop, no registration outlives the record it names, nor *)
(* the record its last sink; and every variable keeps its type.            *)
(***************************************************************************)
THEOREM KeysHeld == ~ Pushes /\ PagingSpec => []KeyHeld
<1>1. PagingInv => KeyHeld
  BY DEF PagingInv
<1>2. ASSUME ~ Pushes PROVE PagingSpec => []KeyHeld
  <2>1. PagingInv /\ [PagingNext]_pagingVars => PagingInv'
    BY <1>2, PagingInvNext
  <2> QED
    BY <1>1, <2>1, PagingInvInit, PTL DEF PagingSpec
<1> QED
  BY <1>2
-----------------------------------------------------------------------------
(***************************************************************************)
(* The inodes.  Block identities are never used twice, a stamp belongs to  *)
(* one open of one store, and under its own stamp a count that has moved   *)
(* on never comes back.                                                    *)
(***************************************************************************)

\* A block identity in use is new to no one and in one place.
Identities ==
    /\ \A s \in Store, p \in Pos : block[s][p] <= nodes
    /\ \A s, r \in Store : \A p, q \in Pos :
         block[s][p] = block[r][q] /\ block[s][p] # 0 => s = r /\ p = q
    /\ \A f \in field : f <= nodes
    /\ \A m \in minted : m.node <= nodes /\ m.node \in field

\* A stamp in use was counted, below the limit, and is one store's.
StampsApart ==
    /\ \A s \in Store : stamp[s] <= stamps
    /\ \A s, r \in Store : stamp[s] = stamp[r] /\ stamp[s] # 0 => s = r
    /\ \A m \in minted : m.stamp <= stamps /\ m.stamp # 0
    /\ stamps < Stamps

\* Counts stay below the limit, and an inode's count is one that was reached.
Counts ==
    /\ \A s \in Store, p \in Pos : inodeFreed[s][p] < Generations
    /\ \A s \in Store, m \in minted : stamp[s] = m.stamp => m.gen <= inodeFreed[s][m.pos]

\* The tags tell whether the node is there.
Tagged ==
    \A s \in Store, m \in minted :
        (stamp[s] = m.stamp /\ inodeFreed[s][m.pos] = m.gen) <=> block[s][m.pos] = m.node

InodeInv == InodeTypeOK /\ Identities /\ StampsApart /\ Counts /\ Tagged

-----------------------------------------------------------------------------
\* Below the limits the masks change nothing.
LEMMA Unmasked == \A a, b \in Nat : a < b => a % b = a
  BY SMT

(***************************************************************************)
(* The invariant says what inode2field answers.                            *)
(***************************************************************************)
LEMMA InodeInvFaithful == InodeInv => Faithful
<1> SUFFICES ASSUME InodeInv, NEW s \in Store, NEW m \in minted
             PROVE  Resolves(s, m) <=> block[s][m.pos] = m.node
  BY DEF Faithful
<1> USE DEF InodeInv, InodeTypeOK
<1>1. m \in Inodes /\ m.pos \in Pos /\ m.node \in Nat \ {0} /\ m.gen \in Nat
  BY DEF Inodes
<1>2. inodeFreed[s][m.pos] % Generations = inodeFreed[s][m.pos]
  <2>1. inodeFreed[s][m.pos] \in Nat /\ Generations \in Nat /\ inodeFreed[s][m.pos] < Generations
    BY <1>1, InodeAssumption DEF Counts
  <2> HIDE DEF InodeInv, InodeTypeOK
  <2> QED
    BY <2>1, Unmasked
<1>3. m.node \in field /\ m.stamp # 0
  BY DEF Identities, StampsApart
<1> QED
  BY <1>1, <1>2, <1>3 DEF Resolves, Tagged

(***************************************************************************)
(* Stamping a heap leaves every inode what it was: the stamp is new, and   *)
(* the counts of a heap without a stamp told no one anything.              *)
(***************************************************************************)
LEMMA StampedInv ==
  ASSUME InodeInv, NEW s \in Store, Stamped(s), UNCHANGED <<block, field, nodes>>
  PROVE  /\ stamp' \in [Store -> Nat] /\ inodeFreed' \in [Store -> [Pos -> Nat]] /\ stamps' \in Nat
         /\ stamp'[s] # 0
         /\ \A r \in Store : stamp'[r] <= stamps'
         /\ \A r, u \in Store : stamp'[r] = stamp'[u] /\ stamp'[r] # 0 => r = u
         /\ stamps <= stamps' /\ stamps' < Stamps
         /\ \A r \in Store, p \in Pos : inodeFreed'[r][p] < Generations
         /\ \A r \in Store, m \in minted : stamp'[r] = m.stamp => m.gen <= inodeFreed'[r][m.pos]
         /\ \A r \in Store, m \in minted :
              (stamp'[r] = m.stamp /\ inodeFreed'[r][m.pos] = m.gen) <=> block[r][m.pos] = m.node
<1> USE DEF InodeInv, InodeTypeOK, Inodes
<1>1. CASE stamp[s] # 0
  BY <1>1 DEF Stamped, StampsApart, Counts, Tagged
<1>2. CASE stamp[s] = 0
  <2>1. /\ stamps' = stamps + 1 /\ stamps' < Stamps
        /\ stamp' = [stamp EXCEPT ![s] = stamps' % Stamps]
        /\ inodeFreed' = [inodeFreed EXCEPT ![s] = Nowhere]
    BY <1>2 DEF Stamped
  <2>2. stamps' % Stamps = stamps' /\ stamps' \in Nat
    <3>1. stamps' \in Nat /\ Stamps \in Nat /\ stamps' < Stamps
      BY <2>1, InodeAssumption
    <3> HIDE DEF InodeInv, InodeTypeOK
    <3> QED
      BY <3>1, Unmasked
  <2>3. stamp'[s] = stamps' /\ inodeFreed'[s] = Nowhere
    BY <2>1, <2>2
  <2>4. \A r \in Store : r # s => stamp'[r] = stamp[r] /\ inodeFreed'[r] = inodeFreed[r]
    BY <2>1
  <2>5. \A r \in Store : stamp[r] <= stamps /\ stamp[r] \in Nat
    BY DEF StampsApart
  <2>6. \A m \in minted : m.stamp <= stamps /\ m.stamp # 0 /\ m.stamp \in Nat /\ m.pos \in Pos
    BY DEF StampsApart
  <2>7. \A m \in minted : block[s][m.pos] # m.node
    BY <1>2, <2>6 DEF Tagged
  <2>8. stamp' \in [Store -> Nat] /\ inodeFreed' \in [Store -> [Pos -> Nat]]
    BY <2>1, <2>2 DEF Nowhere
  <2>9. \A r \in Store : stamp'[r] <= stamps'
    BY <2>1, <2>3, <2>4, <2>5
  <2>10. \A r, u \in Store : stamp'[r] = stamp'[u] /\ stamp'[r] # 0 => r = u
    BY <2>1, <2>3, <2>4, <2>5 DEF StampsApart
  <2>11. \A r \in Store, p \in Pos : inodeFreed'[r][p] < Generations
    BY <2>3, <2>4, InodeAssumption DEF Nowhere, Counts
  <2>12. \A m \in minted : stamp'[s] # m.stamp
    BY <2>1, <2>3, <2>6
  <2>13. \A r \in Store, m \in minted : stamp'[r] = m.stamp => m.gen <= inodeFreed'[r][m.pos]
    BY <2>4, <2>12 DEF Counts
  <2>14. \A r \in Store, m \in minted :
              (stamp'[r] = m.stamp /\ inodeFreed'[r][m.pos] = m.gen) <=> block[r][m.pos] = m.node
    BY <2>4, <2>7, <2>12 DEF Tagged
  <2> QED
    BY <2>1, <2>2, <2>3, <2>8, <2>9, <2>10, <2>11, <2>13, <2>14
<1> QED
  BY <1>1, <1>2

-----------------------------------------------------------------------------
LEMMA InodeInvInit == InodeInit => InodeInv
<1> SUFFICES ASSUME InodeInit PROVE InodeInv
  OBVIOUS
<1> USE InodeAssumption DEF InodeInit, Nowhere
<1>1. InodeTypeOK
  BY DEF InodeTypeOK
<1>2. Identities /\ StampsApart /\ Counts /\ Tagged
  BY DEF Identities, StampsApart, Counts, Tagged
<1> QED
  BY <1>1, <1>2 DEF InodeInv

LEMMA AllocInv ==
  ASSUME InodeInv, NEW s \in Store, NEW p \in Pos, NEW isField \in BOOLEAN, Alloc(s, p, isField)
  PROVE  InodeInv'
<1> USE DEF InodeInv, InodeTypeOK, Inodes, Alloc
<1>1. nodes' = nodes + 1 /\ nodes' \in Nat /\ block[s][p] = 0
  OBVIOUS
<1>2. block' \in [Store -> [Pos -> Nat]]
  BY <1>1
<1>3. block'[s][p] = nodes'
  BY <1>1
<1>4. \A r \in Store, q \in Pos : ~ (r = s /\ q = p) => block'[r][q] = block[r][q]
  OBVIOUS
<1>5. \A f \in field' : f <= nodes' /\ f \in Nat
  BY <1>1 DEF Identities
<1>6. field \subseteq field'
  OBVIOUS
<1>7. InodeTypeOK'
  BY <1>1, <1>2, <1>5
<1>8. Identities'
  <2>1. \A r \in Store, q \in Pos : block'[r][q] <= nodes'
    BY <1>1, <1>3, <1>4 DEF Identities
  <2>2. \A r, u \in Store : \A q, v \in Pos :
          block'[r][q] = block'[u][v] /\ block'[r][q] # 0 => r = u /\ q = v
    BY <1>1, <1>3, <1>4 DEF Identities
  <2>3. \A m \in minted : m.node <= nodes' /\ m.node \in field'
    BY <1>1, <1>6 DEF Identities
  <2> QED
    BY <1>5, <2>1, <2>2, <2>3 DEF Identities
<1>9. Tagged'
  BY <1>1, <1>3, <1>4 DEF Tagged, Identities
<1> QED
  BY <1>7, <1>8, <1>9 DEF StampsApart, Counts

LEMMA FreeInv ==
  ASSUME InodeInv, NEW s \in Store, NEW p \in Pos, InodeFree(s, p)
  PROVE  InodeInv'
<1> USE DEF InodeInv, InodeTypeOK, Inodes, InodeFree
<1>1. block' \in [Store -> [Pos -> Nat]] /\ inodeFreed' \in [Store -> [Pos -> Nat]]
  OBVIOUS
<1>2. block'[s][p] = 0
  OBVIOUS
<1>3. \A r \in Store, q \in Pos : ~ (r = s /\ q = p) =>
        block'[r][q] = block[r][q] /\ inodeFreed'[r][q] = inodeFreed[r][q]
  OBVIOUS
<1>4. inodeFreed'[s][p] = IF stamp[s] = 0 THEN inodeFreed[s][p] ELSE inodeFreed[s][p] + 1
  OBVIOUS
<1>5. InodeTypeOK'
  BY <1>1
<1>6. Identities'
  BY <1>1, <1>2, <1>3 DEF Identities
<1>7. StampsApart'
  BY DEF StampsApart
<1>8. Counts'
  <2>1. \A r \in Store, q \in Pos : inodeFreed'[r][q] < Generations
    BY <1>3, <1>4 DEF Counts
  <2>2. ASSUME NEW r \in Store, NEW m \in minted, stamp[r] = m.stamp
        PROVE  m.gen <= inodeFreed'[r][m.pos]
    BY <1>3, <1>4, <2>2 DEF Counts
  <2> QED
    BY <2>1, <2>2 DEF Counts
<1>9. Tagged'
  <2> SUFFICES ASSUME NEW r \in Store, NEW m \in minted
               PROVE  (stamp[r] = m.stamp /\ inodeFreed'[r][m.pos] = m.gen)
                        <=> block'[r][m.pos] = m.node
    BY DEF Tagged
  <2>1. m.pos \in Pos /\ m.gen \in Nat /\ m.node \in Nat \ {0} /\ m.stamp # 0
    BY DEF StampsApart
  <2>2. CASE r = s /\ m.pos = p
    <3>1. block'[r][m.pos] # m.node
      BY <1>2, <2>1, <2>2
    <3>2. stamp[r] = m.stamp => inodeFreed'[r][m.pos] # m.gen
      <4> SUFFICES ASSUME stamp[r] = m.stamp PROVE inodeFreed'[r][m.pos] # m.gen
        OBVIOUS
      <4>1. m.gen <= inodeFreed[s][p] /\ inodeFreed'[s][p] = inodeFreed[s][p] + 1 /\ inodeFreed[s][p] \in Nat
        BY <1>4, <2>1, <2>2 DEF Counts
      <4> QED
        BY <4>1, <2>1, <2>2
    <3> QED
      BY <3>1, <3>2
  <2>3. CASE ~ (r = s /\ m.pos = p)
    BY <1>3, <2>1, <2>3 DEF Tagged
  <2> QED
    BY <2>2, <2>3
<1> QED
  BY <1>5, <1>6, <1>7, <1>8, <1>9

LEMMA GetInodeInv ==
  ASSUME InodeInv, NEW s \in Store, NEW p \in Pos, GetInode(s, p)
  PROVE  InodeInv'
<1> DEFINE n == [stamp |-> stamp'[s], gen |-> inodeFreed'[s][p] % Generations,
                 pos |-> p, node |-> block[s][p]]
<1>1. /\ block[s][p] # 0 /\ block[s][p] \in field /\ Stamped(s)
      /\ minted' = minted \cup {n} /\ UNCHANGED <<block, field, nodes>>
  BY DEF GetInode
<1>2. /\ stamp' \in [Store -> Nat] /\ inodeFreed' \in [Store -> [Pos -> Nat]] /\ stamps' \in Nat
      /\ stamp'[s] # 0
      /\ \A r \in Store : stamp'[r] <= stamps'
      /\ \A r, u \in Store : stamp'[r] = stamp'[u] /\ stamp'[r] # 0 => r = u
      /\ stamps <= stamps' /\ stamps' < Stamps
      /\ \A r \in Store, q \in Pos : inodeFreed'[r][q] < Generations
      /\ \A r \in Store, m \in minted : stamp'[r] = m.stamp => m.gen <= inodeFreed'[r][m.pos]
      /\ \A r \in Store, m \in minted :
           (stamp'[r] = m.stamp /\ inodeFreed'[r][m.pos] = m.gen) <=> block[r][m.pos] = m.node
  BY <1>1, StampedInv
<1> USE DEF InodeInv, InodeTypeOK
<1>3. inodeFreed'[s][p] % Generations = inodeFreed'[s][p] /\ inodeFreed'[s][p] \in Nat
  BY <1>2, Unmasked, InodeAssumption
<1>4. block[s][p] \in Nat \ {0}
  BY <1>1
<1>5. n.stamp = stamp'[s] /\ n.gen = inodeFreed'[s][p] /\ n.pos = p /\ n.node = block[s][p]
  BY <1>3
<1>6. n \in Inodes
  BY <1>2, <1>3, <1>4 DEF Inodes
<1>7. InodeTypeOK'
  BY <1>1, <1>2, <1>6
<1>8. Identities'
  BY <1>1, <1>5 DEF Identities
<1>9. StampsApart'
  <2>1. \A m \in minted : m.stamp <= stamps' /\ m.stamp # 0
    BY <1>2 DEF StampsApart, Inodes
  <2> QED
    BY <1>1, <1>2, <1>5, <2>1 DEF StampsApart
<1>10. Counts'
  <2>1. \A r \in Store : stamp'[r] = n.stamp => n.gen <= inodeFreed'[r][n.pos]
    BY <1>2, <1>3, <1>5
  <2> QED
    BY <1>1, <1>2, <2>1 DEF Counts
<1>11. Tagged'
  <2>1. \A r \in Store :
          (stamp'[r] = n.stamp /\ inodeFreed'[r][n.pos] = n.gen) <=> block[r][n.pos] = n.node
    BY <1>1, <1>2, <1>5 DEF Identities
  <2> QED
    BY <1>1, <1>2, <2>1 DEF Tagged
<1> HIDE DEF n
<1> QED
  BY <1>7, <1>8, <1>9, <1>10, <1>11

LEMMA Inode2FieldInv ==
  ASSUME InodeInv, NEW s \in Store, Inode2Field(s)
  PROVE  InodeInv'
<1>1. Stamped(s) /\ UNCHANGED <<block, field, nodes, minted>>
  BY DEF Inode2Field
<1>2. /\ stamp' \in [Store -> Nat] /\ inodeFreed' \in [Store -> [Pos -> Nat]] /\ stamps' \in Nat
      /\ \A r \in Store : stamp'[r] <= stamps'
      /\ \A r, u \in Store : stamp'[r] = stamp'[u] /\ stamp'[r] # 0 => r = u
      /\ stamps <= stamps' /\ stamps' < Stamps
      /\ \A r \in Store, q \in Pos : inodeFreed'[r][q] < Generations
      /\ \A r \in Store, m \in minted : stamp'[r] = m.stamp => m.gen <= inodeFreed'[r][m.pos]
      /\ \A r \in Store, m \in minted :
           (stamp'[r] = m.stamp /\ inodeFreed'[r][m.pos] = m.gen) <=> block[r][m.pos] = m.node
  BY <1>1, StampedInv
<1> USE DEF InodeInv, InodeTypeOK
<1>3. InodeTypeOK' /\ Identities'
  BY <1>1, <1>2 DEF Identities
<1>4. \A m \in minted : m.stamp <= stamps' /\ m.stamp # 0
  BY <1>2 DEF StampsApart, Inodes
<1>5. StampsApart'
  BY <1>1, <1>2, <1>4 DEF StampsApart
<1>6. Counts' /\ Tagged'
  BY <1>1, <1>2 DEF Counts, Tagged
<1> QED
  BY <1>3, <1>5, <1>6

LEMMA ReplaceInv ==
  ASSUME InodeInv, NEW s \in Store, Replace(s)
  PROVE  InodeInv'
<1> USE DEF InodeInv, InodeTypeOK, Inodes, Replace
<1>1. block'[s] = Nowhere /\ inodeFreed'[s] = Nowhere /\ stamp'[s] = 0
  OBVIOUS
<1>2. \A r \in Store : r # s =>
        block'[r] = block[r] /\ inodeFreed'[r] = inodeFreed[r] /\ stamp'[r] = stamp[r]
  OBVIOUS
<1>3. InodeTypeOK'
  BY DEF Nowhere
<1>4. Identities'
  BY <1>1, <1>2 DEF Identities, Nowhere
<1>5. StampsApart'
  BY <1>1, <1>2 DEF StampsApart
<1>6. Counts'
  <2>1. \A r \in Store, p \in Pos : inodeFreed'[r][p] < Generations
    BY <1>1, <1>2, InodeAssumption DEF Counts, Nowhere
  <2>2. \A m \in minted : stamp'[s] # m.stamp
    BY <1>1 DEF StampsApart
  <2> QED
    BY <1>2, <2>1, <2>2 DEF Counts
<1>7. Tagged'
  <2>1. \A m \in minted : stamp'[s] # m.stamp /\ block'[s][m.pos] # m.node
    BY <1>1 DEF StampsApart, Nowhere
  <2> QED
    BY <1>2, <2>1 DEF Tagged
<1> QED
  BY <1>3, <1>4, <1>5, <1>6, <1>7

(***************************************************************************)
(* Every step of the table keeps the invariant.                            *)
(***************************************************************************)
LEMMA InodeInvNext == InodeInv /\ [InodeNext]_inodeVars => InodeInv'
<1> SUFFICES ASSUME InodeInv, [InodeNext]_inodeVars PROVE InodeInv'
  OBVIOUS
<1>1. ASSUME NEW s \in Store, NEW p \in Pos, NEW isField \in BOOLEAN, Alloc(s, p, isField)
      PROVE  InodeInv'
  BY <1>1, AllocInv
<1>2. ASSUME NEW s \in Store, NEW p \in Pos, InodeFree(s, p) PROVE InodeInv'
  BY <1>2, FreeInv
<1>3. ASSUME NEW s \in Store, NEW p \in Pos, GetInode(s, p) PROVE InodeInv'
  BY <1>3, GetInodeInv
<1>4. ASSUME NEW s \in Store, Inode2Field(s) PROVE InodeInv'
  BY <1>4, Inode2FieldInv
<1>5. ASSUME NEW s \in Store, Replace(s) PROVE InodeInv'
  BY <1>5, ReplaceInv
<1>6. CASE UNCHANGED inodeVars
  BY <1>6 DEF inodeVars, InodeInv, InodeTypeOK, Identities, StampsApart, Counts, Tagged
<1> QED
  BY <1>1, <1>2, <1>3, <1>4, <1>5, <1>6 DEF InodeNext

LEMMA InodeInvAlways == InodeSpec => []InodeInv
  BY InodeInvInit, InodeInvNext, PTL DEF InodeSpec

(***************************************************************************)
(* An inode resolves exactly while the node it was minted for is where it  *)
(* was: msgcore_mgr_inode2field never answers with another node, and never *)
(* refuses one that is still there.                                        *)
(***************************************************************************)
THEOREM InodesFaithful == InodeSpec => []Faithful
  BY InodeInvAlways, InodeInvFaithful, PTL

(***************************************************************************)
(* Every variable keeps its type.                                          *)
(***************************************************************************)
THEOREM InodesTyped == InodeSpec => []InodeTypeOK
<1>1. InodeInv => InodeTypeOK
  BY DEF InodeInv
<1> QED
  BY <1>1, InodeInvAlways, PTL
-----------------------------------------------------------------------------
(***************************************************************************)
(* The events of p2pthread.h.  Manual or not, reset or not: no waiter is   *)
(* left spinning, and none returns ordered after nothing.                  *)
(***************************************************************************)

\* A readable descriptor means a generation, or a setter about to move it.
OnItsWay == gen # {} \/ \E u \in Setter : at[u] = "release"

EventInv ==
    /\ EventTypeOK
    /\ fd # {} => OnItsWay
    /\ \A t \in Waiter : at[t] \in {"read", "acquire"} => OnItsWay
    /\ AfterSome

LEMMA EventInvInit == EventInit => EventInv
  BY EventAssumption DEF EventInit, EventFirst, EventInv, EventTypeOK, Signals, OnItsWay, AfterSome

(***************************************************************************)
(* Steps of setters.                                                       *)
(***************************************************************************)
LEMMA SetterInv ==
  ASSUME EventInv, NEW t \in Setter, Write(t) \/ Release(t) \/ Reset(t)
  PROVE  EventInv'
<1> USE EventAssumption DEF EventInv, EventTypeOK
<1>1. CASE Write(t)
  <2>1. sets' \in Signals
    BY <1>1 DEF Write, Signals
  <2>2. EventTypeOK'
    BY <1>1, <2>1 DEF Write
  <2>3. (fd # {} => OnItsWay)' /\ AfterSome'
    BY <1>1 DEF Write, OnItsWay, AfterSome
  <2>4. (\A w \in Waiter : at[w] \in {"read", "acquire"} => OnItsWay)'
    BY <1>1 DEF Write, OnItsWay
  <2> QED
    BY <2>2, <2>3, <2>4
<1>2. CASE Release(t)
  <2>1. EventTypeOK'
    BY <1>2 DEF Release
  <2>2. OnItsWay' /\ AfterSome'
    BY <1>2 DEF Release, OnItsWay, AfterSome
  <2> QED
    BY <2>1, <2>2
<1>3. CASE Reset(t)
  <2>1. EventTypeOK'
    BY <1>3 DEF Reset
  <2> QED
    BY <1>3, <2>1 DEF Reset, OnItsWay, AfterSome
<1> QED
  BY <1>1, <1>2, <1>3

(***************************************************************************)
(* Steps of waiters.                                                       *)
(***************************************************************************)
LEMMA WaiterInv ==
  ASSUME EventInv, NEW t \in Waiter, Poll(t) \/ Read(t) \/ Acquire(t) \/ Again(t)
  PROVE  EventInv'
<1> USE EventAssumption DEF EventInv, EventTypeOK
<1>1. CASE Poll(t)
  <2>1. EventTypeOK'
    BY <1>1 DEF Poll
  <2> QED
    BY <1>1, <2>1 DEF Poll, OnItsWay, AfterSome
<1>2. CASE Read(t)
  <2>1. EventTypeOK'
    BY <1>2 DEF Read
  <2> QED
    BY <1>2, <2>1 DEF Read, OnItsWay, AfterSome
<1>3. CASE Acquire(t)
  <2>1. EventTypeOK'
    BY <1>3 DEF Acquire
  <2> QED
    BY <1>3, <2>1 DEF Acquire, OnItsWay, AfterSome
<1>4. CASE Again(t)
  <2>1. EventTypeOK'
    BY <1>4 DEF Again
  <2> QED
    BY <1>4, <2>1 DEF Again, OnItsWay, AfterSome
<1> QED
  BY <1>1, <1>2, <1>3, <1>4

LEMMA EventInvNext == EventInv /\ [EventNext]_eventVars => EventInv'
<1> SUFFICES ASSUME EventInv, [EventNext]_eventVars PROVE EventInv'
  OBVIOUS
<1>1. CASE UNCHANGED eventVars
  BY <1>1 DEF eventVars, EventInv, EventTypeOK, Signals, OnItsWay, AfterSome
<1> QED
  BY <1>1, SetterInv, WaiterInv DEF EventNext

LEMMA EventInvAlways == EventSpec => []EventInv
  BY EventInvInit, EventInvNext, PTL DEF EventSpec

(***************************************************************************)
(* p2p_event_acquire ends: what it waits for has been done or is the next  *)
(* thing a setter does.                                                    *)
(***************************************************************************)
THEOREM SpinsEnd == EventSpec => []SpinEnds
<1>1. EventInv => SpinEnds
  BY DEF EventInv, OnItsWay, SpinEnds
<1> QED
  BY <1>1, EventInvAlways, PTL

(***************************************************************************)
(* A wait that returned is ordered after a signal.                         *)
(***************************************************************************)
THEOREM WaitsOrdered == EventSpec => []AfterSome
<1>1. EventInv => AfterSome
  BY DEF EventInv
<1> QED
  BY <1>1, EventInvAlways, PTL

(***************************************************************************)
(* A wait neither hangs on a generation that was cleared nor comes back    *)
(* before a signal did, and every variable keeps its type.                 *)
(***************************************************************************)
THEOREM WaitsAreSound == EventSpec => []WaitsSound
<1>1. EventInv => WaitsSound
  BY DEF EventInv, WaitsSound, OnItsWay, SpinEnds
<1> QED
  BY <1>1, EventInvAlways, PTL

-----------------------------------------------------------------------------
(***************************************************************************)
(* The lives of events.  Below the top frame there are only Cancels and    *)
(* exceptions in flight, so code that runs inside one is told apart by the *)
(* depth of the stack.  What is alive is held by one frame, by the slot or *)
(* by an owner, and only an exception is held twice: it is in the slot.    *)
(* Sinks and destructors that park events of their own break that, so      *)
(* Inner does not hold "park" here: as the run has it.                     *)
(***************************************************************************)

LifeFrame == [at : Places, event : Events]
FramesOf(s) == {s[i] : i \in DOMAIN s}
EventsOf(s) == {f.event : f \in FramesOf(s)}

\* A call stack: no event in two frames, and inner frames are in the making.
IsStack(s) ==
    /\ s \in Seq(LifeFrame)
    /\ \A i, j \in DOMAIN s : s[i].event = s[j].event => i = j
    /\ \A i \in DOMAIN s : i > 1 => s[i].at \in {"cancel", "flight"}

LifeInv ==
    /\ made \in [Events -> 0 .. MaxMade] /\ lifeFreed \in [Events -> Nat]
    /\ slot \in Events \cup {None} /\ armed \in BOOLEAN /\ ended \in BOOLEAN
    /\ kept \subseteq Events /\ Len(lifeFrames) <= LifeMaxDepth
    /\ IsStack(lifeFrames)
    /\ \A e \in Events : lifeFreed[e] <= made[e] /\ made[e] <= lifeFreed[e] + 1
    /\ \A e \in EventsOf(lifeFrames) \cup kept \cup ({slot} \ {None}) : Live(e)
    /\ kept \cap EventsOf(lifeFrames) = {} /\ slot \notin kept
    /\ \A f \in FramesOf(lifeFrames) : f.at = "flight" => slot = f.event
    /\ \A e \in Events : Live(e) => e \in EventsOf(lifeFrames) \cup kept \cup {slot}
    /\ slot # None => armed
    /\ ended => slot = None /\ \A f \in FramesOf(lifeFrames) : f.at = "cancel"

LEMMA StackPushed ==
  ASSUME NEW s, IsStack(s), NEW f \in LifeFrame, f.event \notin EventsOf(s),
         s # <<>> => Head(s).at \in {"cancel", "flight"}
  PROVE  /\ IsStack(<<f>> \o s) /\ FramesOf(<<f>> \o s) = FramesOf(s) \cup {f}
         /\ Len(<<f>> \o s) = Len(s) + 1
<1> DEFINE t == <<f>> \o s
<1>1. s \in Seq(LifeFrame) /\ Len(s) \in Nat /\ DOMAIN s = 1 .. Len(s)
  BY DEF IsStack
<1>2. /\ t \in Seq(LifeFrame) /\ Len(t) = Len(s) + 1 /\ DOMAIN t = 1 .. Len(s) + 1
      /\ t[1] = f /\ \A i \in 2 .. Len(s) + 1 : t[i] = s[i - 1] /\ i - 1 \in DOMAIN s
  BY <1>1
<1>3. \A i \in DOMAIN s : t[i + 1] = s[i] /\ i + 1 \in DOMAIN t /\ i + 1 # 1
  BY <1>1, <1>2
<1> HIDE DEF t
<1>a. 1 \in DOMAIN t /\ \A i \in DOMAIN t : i = 1 \/ (t[i] = s[i - 1] /\ i - 1 \in DOMAIN s)
  BY <1>1, <1>2
<1>4. FramesOf(t) = FramesOf(s) \cup {f}
  <2>1. FramesOf(t) \subseteq FramesOf(s) \cup {f}
    BY <1>2, <1>a DEF FramesOf
  <2>2. FramesOf(s) \subseteq FramesOf(t)
    BY <1>3 DEF FramesOf
  <2> QED BY <1>2, <1>a, <2>1, <2>2 DEF FramesOf
<1>5. ASSUME NEW i \in DOMAIN t, NEW j \in DOMAIN t, t[i].event = t[j].event PROVE i = j
  <2>1. \A k \in DOMAIN s : s[k].event # f.event
    BY DEF EventsOf, FramesOf
  <2>2. CASE i = 1 \/ j = 1
    BY <1>2, <1>5, <1>a, <2>1, <2>2
  <2>3. CASE i # 1 /\ j # 1
    <3>1. i \in 2 .. Len(s) + 1 /\ j \in 2 .. Len(s) + 1
      BY <1>1, <1>2, <2>3
    <3>2. s[i - 1].event = s[j - 1].event /\ i - 1 \in DOMAIN s /\ j - 1 \in DOMAIN s
      BY <1>2, <1>5, <3>1
    <3>3. i - 1 = j - 1
      BY <3>2 DEF IsStack
    <3> QED BY <3>1, <3>3
  <2> QED BY <2>2, <2>3
<1>6. ASSUME NEW i \in DOMAIN t, i > 1 PROVE t[i].at \in {"cancel", "flight"}
  <2>1. i \in 2 .. Len(s) + 1 /\ t[i] = s[i - 1] /\ i - 1 \in DOMAIN s
    BY <1>1, <1>2, <1>6
  <2>2. CASE i - 1 = 1
    BY <1>1, <2>1, <2>2
  <2>3. CASE i - 1 > 1
    BY <2>1, <2>3 DEF IsStack
  <2> QED BY <1>1, <2>1, <2>2, <2>3
<1> QED BY <1>2, <1>4, <1>5, <1>6 DEF IsStack, t

LEMMA StackPopped ==
  ASSUME NEW s, IsStack(s), s # <<>>
  PROVE  /\ IsStack(Tail(s)) /\ FramesOf(Tail(s)) = FramesOf(s) \ {Head(s)}
         /\ EventsOf(Tail(s)) = EventsOf(s) \ {Head(s).event}
         /\ Len(Tail(s)) = Len(s) - 1 /\ Len(s) >= 1 /\ Head(s) \in FramesOf(s)
         /\ Head(s) \in LifeFrame
         /\ Tail(s) # <<>> => Head(Tail(s)).at \in {"cancel", "flight"}
<1> DEFINE t == Tail(s)
<1>1. s \in Seq(LifeFrame) /\ Len(s) \in Nat \ {0} /\ DOMAIN s = 1 .. Len(s) /\ Head(s) = s[1]
  BY DEF IsStack
<1>2. /\ t \in Seq(LifeFrame) /\ Len(t) = Len(s) - 1 /\ DOMAIN t = 1 .. Len(s) - 1
      /\ \A i \in 1 .. Len(s) - 1 : t[i] = s[i + 1] /\ i + 1 \in DOMAIN s
  BY <1>1
<1>3. \A i \in DOMAIN s : i # 1 => t[i - 1] = s[i] /\ i - 1 \in DOMAIN t
  BY <1>1, <1>2
<1>4. Tail(s) # <<>> => Head(t) = t[1] /\ 1 \in DOMAIN t
  BY <1>1, <1>2
<1> HIDE DEF t
<1>5. \A i, j \in DOMAIN s : s[i].event = s[j].event => i = j
  BY DEF IsStack
<1>6. \A i \in DOMAIN t : t[i] = s[i + 1] /\ i + 1 \in DOMAIN s /\ i + 1 # 1 /\ i + 1 > 1
  BY <1>1, <1>2
<1>7. FramesOf(t) = FramesOf(s) \ {Head(s)}
  BY <1>1, <1>3, <1>5, <1>6 DEF FramesOf
<1>8. EventsOf(t) = EventsOf(s) \ {Head(s).event}
  <2>1. \A f \in FramesOf(s) : f.event = Head(s).event => f = Head(s)
    BY <1>1, <1>5 DEF FramesOf
  <2> QED BY <1>7, <2>1 DEF EventsOf
<1>9. IsStack(t)
  <2>1. ASSUME NEW i \in DOMAIN t, NEW j \in DOMAIN t, t[i].event = t[j].event PROVE i = j
    <3>1. i + 1 = j + 1
      BY <1>5, <1>6, <2>1
    <3> QED BY <1>2, <3>1
  <2>2. \A i \in DOMAIN t : t[i].at \in {"cancel", "flight"}
    BY <1>6 DEF IsStack
  <2> QED BY <1>2, <2>1, <2>2 DEF IsStack
<1>10. t # <<>> => Head(t).at \in {"cancel", "flight"}
  BY <1>4, <1>6 DEF t, IsStack
<1>11. Head(s) \in LifeFrame /\ Head(s) \in FramesOf(s) /\ Len(s) >= 1
  <2>1. 1 \in DOMAIN s
    BY <1>1
  <2> QED BY <1>1, <2>1 DEF FramesOf
<1>12. Len(t) = Len(s) - 1
  BY <1>2
<1> QED BY <1>7, <1>8, <1>9, <1>10, <1>11, <1>12 DEF t

\* Code that may park what it made is at the bottom of the stack.
LEMMA OutermostAlone ==
  ASSUME IsStack(lifeFrames), lifeFrames # <<>>, MayPark, "park" \notin Inner
  PROVE  FramesOf(lifeFrames) = {LifeTop}
<1>1. /\ lifeFrames \in Seq(LifeFrame) /\ Len(lifeFrames) \in Nat \ {0}
      /\ DOMAIN lifeFrames = 1 .. Len(lifeFrames) /\ LifeTop = lifeFrames[1]
  BY DEF IsStack, LifeTop
<1>2. \A i \in DOMAIN lifeFrames : ~(i > 1)
  BY DEF MayPark, Within, IsStack
<1>3. \A i \in DOMAIN lifeFrames : i = 1
  BY <1>1, <1>2
<1>4. 1 \in DOMAIN lifeFrames
  BY <1>1
<1> QED BY <1>1, <1>3, <1>4 DEF FramesOf

LEMMA StackTyped ==
  ASSUME NEW s, IsStack(s) PROVE FramesOf(s) \subseteq LifeFrame /\ EventsOf(s) \subseteq Events
<1>1. FramesOf(s) \subseteq LifeFrame
  BY DEF IsStack, FramesOf
<1> QED BY <1>1 DEF EventsOf, LifeFrame

LEMMA LifeInvInit == LifeInit => LifeInv
<1> SUFFICES ASSUME LifeInit PROVE LifeInv
  OBVIOUS
<1>1. IsStack(lifeFrames) /\ FramesOf(lifeFrames) = {} /\ EventsOf(lifeFrames) = {}
  BY DEF LifeInit, IsStack, FramesOf, EventsOf
<1>2. \A e \in Events : made[e] = 0 /\ lifeFreed[e] = 0 /\ ~Live(e)
  BY DEF LifeInit, Live
<1>3. /\ made \in [Events -> 0 .. MaxMade] /\ lifeFreed \in [Events -> Nat]
      /\ Len(lifeFrames) <= LifeMaxDepth
  BY LifeAssumption DEF LifeInit
<1>4. slot = None /\ armed = FALSE /\ kept = {} /\ ended = FALSE
  BY DEF LifeInit
<1>5. EventsOf(lifeFrames) \cup kept \cup ({slot} \ {None}) = {}
  BY <1>1, <1>4
<1>6. \A e \in Events : lifeFreed[e] <= made[e] /\ made[e] <= lifeFreed[e] + 1
  BY <1>2
<1> QED BY <1>1, <1>2, <1>3, <1>4, <1>5, <1>6 DEF LifeInv

LEMMA MakeEventInv == ASSUME LifeInv, MakeEvent PROVE LifeInv'
<1>1. PICK e \in Events :
        /\ ~Live(e) /\ made[e] < MaxMade /\ e \notin LifeHeld
        /\ made' = [made EXCEPT ![e] = @ + 1]
        /\ \/ lifeFrames' = LifePush("made", e) /\ UNCHANGED lifeFreed
           \/ LifeDelete({e}) /\ UNCHANGED lifeFrames
  BY DEF MakeEvent
<1>2. UNCHANGED <<slot, armed, kept, ended>> /\ ~ended /\ Len(lifeFrames) < LifeMaxDepth
      /\ IsStack(lifeFrames) /\ MaxMade \in Nat /\ LifeMaxDepth \in Nat /\ e # None
  BY LifeAssumption DEF MakeEvent, LifeInv
<1>3. lifeFreed[e] = made[e] /\ made[e] \in Nat
  <2>1. made[e] \in Nat /\ lifeFreed[e] \in Nat /\ lifeFreed[e] <= made[e]
    BY <1>1 DEF LifeInv
  <2> QED BY <1>1, <2>1 DEF Live
<1>4. CASE LifeDelete({e}) /\ UNCHANGED lifeFrames
  <2>1. /\ made' \in [Events -> 0 .. MaxMade] /\ lifeFreed' \in [Events -> Nat]
        /\ \A x \in Events : /\ lifeFreed'[x] <= made'[x] /\ made'[x] <= lifeFreed'[x] + 1
                             /\ Live(x)' <=> Live(x)
    BY <1>1, <1>2, <1>3, <1>4 DEF LifeDelete, LifeInv, Live
  <2>2. EventsOf(lifeFrames) \cup kept \cup ({slot} \ {None}) \subseteq Events
    BY <1>2, StackTyped DEF LifeInv
  <2> QED BY <1>2, <1>4, <2>1, <2>2 DEF LifeInv
<1>5. CASE lifeFrames' = LifePush("made", e) /\ UNCHANGED lifeFreed
  <2> DEFINE f == [at |-> "made", event |-> e]
  <2>1. f \in LifeFrame /\ f.event = e /\ f.at = "made" /\ lifeFrames' = <<f>> \o lifeFrames
    BY <1>5 DEF LifeFrame, Places, LifePush
  <2>2. e \notin EventsOf(lifeFrames)
    BY <1>1 DEF EventsOf, FramesOf, LifeHeld
  <2>3. lifeFrames # <<>> => Head(lifeFrames).at \in {"cancel", "flight"}
    BY DEF MakeEvent, LifeTop
  <2> HIDE DEF f
  <2>4. /\ IsStack(lifeFrames') /\ FramesOf(lifeFrames') = FramesOf(lifeFrames) \cup {f}
        /\ Len(lifeFrames') = Len(lifeFrames) + 1
    BY <1>2, <2>1, <2>2, <2>3, StackPushed
  <2>5. EventsOf(lifeFrames') = EventsOf(lifeFrames) \cup {e}
    BY <2>1, <2>4 DEF EventsOf
  <2>6. /\ made' \in [Events -> 0 .. MaxMade]
        /\ \A x \in Events : /\ lifeFreed'[x] <= made'[x] /\ made'[x] <= lifeFreed'[x] + 1
                             /\ Live(x)' <=> Live(x) \/ x = e
    BY <1>1, <1>2, <1>3, <1>5 DEF LifeInv, Live
  <2>7. EventsOf(lifeFrames) \cup kept \cup ({slot} \ {None}) \subseteq Events
    BY <1>2, StackTyped DEF LifeInv
  <2>8. e \notin kept
    BY <1>1 DEF LifeInv
  <2>9. Len(lifeFrames') <= LifeMaxDepth
    BY <1>2, <2>4 DEF IsStack
  <2> QED BY <1>2, <1>5, <2>1, <2>4, <2>5, <2>6, <2>7, <2>8, <2>9 DEF LifeInv
<1> QED BY <1>1, <1>4, <1>5

\* What a park, or the end of the thread, deletes: nothing, or an event that is
\* only in the slot.
LEMMA Deletes ==
  ASSUME LifeInv, NEW es \in SUBSET Events, \A e \in es : Live(e), LifeDelete(es), made' = made
  PROVE  /\ lifeFreed' \in [Events -> Nat]
         /\ \A x \in Events : /\ lifeFreed'[x] <= made'[x] /\ made'[x] <= lifeFreed'[x] + 1
                              /\ Live(x)' <=> Live(x) /\ x \notin es
<1>1. \A x \in Events : lifeFreed[x] \in Nat /\ made[x] \in Nat
  BY DEF LifeInv
<1> QED BY <1>1 DEF LifeDelete, LifeInv, Live

LEMMA ParkInv ==
  ASSUME LifeInv, "park" \notin Inner, SetLast \/ Throw PROVE LifeInv'
<1> DEFINE e == LifeTop.event
           es == {Displaced(e)} \ {None}
<1>1. /\ IsStack(lifeFrames) /\ lifeFrames # <<>> /\ MayPark /\ SetP2Pevent(e)
      /\ LifeTop.at \in {"made", "handler"} /\ UNCHANGED <<made, kept, ended>>
  BY DEF SetLast, Throw, On, LifeInv
<1>2. /\ FramesOf(lifeFrames) = {LifeTop} /\ LifeTop \in LifeFrame
      /\ IsStack(LifePop) /\ FramesOf(LifePop) = {}
      /\ Len(LifePop) = Len(lifeFrames) - 1 /\ Len(lifeFrames) \in Nat
  BY <1>1, OutermostAlone, StackPopped DEF LifeTop, LifePop, IsStack
<1>3. EventsOf(lifeFrames) = {e} /\ e \in Events /\ EventsOf(LifePop) = {} /\ e # None
  BY <1>2, LifeAssumption DEF EventsOf, LifeFrame
<1>4. Live(e) /\ e \notin kept
  BY <1>3 DEF LifeInv
<1>5. es \in SUBSET Events /\ (\A x \in es : Live(x)) /\ es = {slot} \ {e, None}
  BY <1>3 DEF Displaced, LifeInv
<1>6. slot' = e /\ armed' \in BOOLEAN /\ LifeDelete(es) /\ (slot # e => armed')
  BY <1>1 DEF SetP2Pevent, LifeInv
<1>7. ~ended
  BY <1>1, <1>2 DEF LifeInv
<1>8. armed'
  BY <1>1, <1>3, <1>6 DEF LifeInv, SetP2Pevent
<1> HIDE DEF e, es
<1>9. /\ lifeFreed' \in [Events -> Nat]
      /\ \A x \in Events : /\ lifeFreed'[x] <= made'[x] /\ made'[x] <= lifeFreed'[x] + 1
                           /\ Live(x)' <=> Live(x) /\ x \notin es
  BY <1>1, <1>5, <1>6, Deletes
<1>10. made' \in [Events -> 0 .. MaxMade] /\ kept' = kept /\ kept \subseteq Events /\ ~ended'
       /\ ended' \in BOOLEAN
  BY <1>1, <1>7 DEF LifeInv
<1>11. \A x \in Events : Live(x) => x \in {e} \cup kept \cup {slot}
  BY <1>3 DEF LifeInv
<1>12. \A x \in kept : Live(x) /\ x \notin es
  BY <1>5 DEF LifeInv
<1>13. IsStack(lifeFrames') /\ EventsOf(lifeFrames') \subseteq {e} /\ Len(lifeFrames') <= LifeMaxDepth
       /\ \A f \in FramesOf(lifeFrames') : f.event = e
  <2>1. Len(lifeFrames) <= LifeMaxDepth /\ LifeMaxDepth \in Nat
    BY LifeAssumption DEF LifeInv
  <2>2. CASE SetLast
    BY <1>2, <1>3, <2>1, <2>2 DEF SetLast
  <2>3. CASE Throw
    <3> DEFINE f == [at |-> "flight", event |-> e]
    <3>1. f \in LifeFrame /\ f.event = e /\ lifeFrames' = <<f>> \o LifePop
      BY <1>3, <2>3 DEF Throw, Become, LifeFrame, Places, e
    <3>2. LifePop = <<>>
      <4>1. \A i \in DOMAIN LifePop : FALSE
        BY <1>2 DEF FramesOf
      <4> QED BY <1>2, <4>1 DEF IsStack
    <3> HIDE DEF f
    <3>a. f.event \notin EventsOf(LifePop)
      BY <1>3
    <3>b. /\ IsStack(<<f>> \o LifePop) /\ FramesOf(<<f>> \o LifePop) = FramesOf(LifePop) \cup {f}
          /\ Len(<<f>> \o LifePop) = Len(LifePop) + 1
      BY <1>2, <3>1, <3>2, <3>a, StackPushed
    <3>3. IsStack(lifeFrames') /\ FramesOf(lifeFrames') = {f} /\ Len(lifeFrames') = Len(LifePop) + 1
      BY ONLY <1>2, <3>1, <3>b
    <3>4. EventsOf(lifeFrames') = {e}
      BY <3>1, <3>3 DEF EventsOf
    <3> QED BY <1>2, <2>1, <3>1, <3>3, <3>4
  <2> QED BY <2>2, <2>3
<1>14. /\ \A x \in EventsOf(lifeFrames') \cup kept' \cup ({slot'} \ {None}) : Live(x)'
       /\ kept' \cap EventsOf(lifeFrames') = {} /\ slot' \notin kept'
       /\ \A x \in Events : Live(x)' => x \in EventsOf(lifeFrames') \cup kept' \cup {slot'}
  <2>1. \A x \in Events : x = e => Live(x)'
    BY <1>3, <1>4, <1>5, <1>9
  <2>2. \A x \in kept' : Live(x)'
    BY <1>9, <1>10, <1>12
  <2>3. \A x \in Events : Live(x)' => x \in kept' \cup {slot'}
    BY <1>5, <1>6, <1>9, <1>10, <1>11, LifeAssumption
  <2> QED BY <1>3, <1>4, <1>6, <1>10, <1>13, <2>1, <2>2, <2>3
<1>15. \A f \in FramesOf(lifeFrames') : f.at = "flight" => slot' = f.event
  BY <1>6, <1>13
<1> QED BY <1>3, <1>6, <1>8, <1>9, <1>10, <1>13, <1>14, <1>15 DEF LifeInv

\* A frame changes its place, or is left: nothing is deleted.
LEMMA CatchInv == ASSUME LifeInv, Catch \/ Cancel PROVE LifeInv'
<1> DEFINE e == LifeTop.event
<1>1. /\ IsStack(lifeFrames) /\ lifeFrames # <<>>
      /\ LifeTop.at \in {"made", "handler", "flight"}
      /\ UNCHANGED <<made, lifeFreed, slot, armed, kept, ended>>
  BY DEF Catch, Cancel, On, LifeInv
<1>2. /\ IsStack(LifePop) /\ FramesOf(LifePop) = FramesOf(lifeFrames) \ {LifeTop}
      /\ EventsOf(LifePop) = EventsOf(lifeFrames) \ {e}
      /\ Len(LifePop) = Len(lifeFrames) - 1 /\ LifeTop \in FramesOf(lifeFrames)
      /\ LifeTop \in LifeFrame /\ Len(lifeFrames) \in Nat
      /\ LifePop # <<>> => Head(LifePop).at \in {"cancel", "flight"}
  BY <1>1, StackPopped DEF LifeTop, LifePop, IsStack
<1>3. e \in Events /\ e \in EventsOf(lifeFrames) /\ ~ended
      /\ Len(lifeFrames) <= LifeMaxDepth /\ LifeMaxDepth \in Nat
  BY <1>1, <1>2, LifeAssumption DEF LifeFrame, EventsOf, LifeInv
<1>4. CASE lifeFrames' = LifePop /\ LifeTop.at = "flight"
  <2>1. slot = e
    BY <1>2, <1>4 DEF LifeInv
  <2>2. Len(lifeFrames') <= LifeMaxDepth
    BY <1>2, <1>3, <1>4
  <2> QED BY <1>1, <1>2, <1>3, <1>4, <2>1, <2>2 DEF LifeInv, Live
<1>5. CASE \E place \in {"handler", "cancel"} : lifeFrames' = Become(place, e)
  <2>1. PICK place \in {"handler", "cancel"} : lifeFrames' = Become(place, e)
    BY <1>5
  <2> DEFINE f == [at |-> place, event |-> e]
  <2>2. f \in LifeFrame /\ f.event = e /\ f.at # "flight" /\ lifeFrames' = <<f>> \o LifePop
    BY <1>3, <2>1 DEF Become, LifeFrame, Places
  <2> HIDE DEF f
  <2>3. /\ IsStack(lifeFrames') /\ FramesOf(lifeFrames') = FramesOf(LifePop) \cup {f}
        /\ Len(lifeFrames') = Len(LifePop) + 1
    BY <1>2, <2>2, StackPushed
  <2>4. EventsOf(lifeFrames') = EventsOf(lifeFrames)
    BY <1>2, <1>3, <2>2, <2>3 DEF EventsOf
  <2>5. Len(lifeFrames') <= LifeMaxDepth
    BY <1>2, <1>3, <2>3
  <2> QED BY <1>1, <1>2, <1>3, <2>2, <2>3, <2>4, <2>5 DEF LifeInv, Live
<1> QED BY <1>4, <1>5 DEF Catch, Cancel, On

LEMMA DeleteThisInv == ASSUME LifeInv, DeleteThis PROVE LifeInv'
<1> DEFINE e == LifeTop.event
<1>1. /\ IsStack(lifeFrames) /\ lifeFrames # <<>> /\ lifeFrames' = LifePop
      /\ LifeDelete({e}) /\ slot' = Isolated(e) /\ UNCHANGED <<made, armed, kept, ended>>
  BY DEF DeleteThis, On, LifeInv
<1>2. /\ IsStack(LifePop) /\ FramesOf(LifePop) = FramesOf(lifeFrames) \ {LifeTop}
      /\ EventsOf(LifePop) = EventsOf(lifeFrames) \ {e}
      /\ Len(LifePop) = Len(lifeFrames) - 1 /\ LifeTop \in FramesOf(lifeFrames)
      /\ LifeTop \in LifeFrame /\ Len(lifeFrames) \in Nat
  BY <1>1, StackPopped DEF LifeTop, LifePop, IsStack
<1>3. /\ e \in Events /\ e \in EventsOf(lifeFrames) /\ e # None
      /\ Len(lifeFrames) <= LifeMaxDepth /\ LifeMaxDepth \in Nat
  BY <1>1, <1>2, LifeAssumption DEF LifeFrame, EventsOf, LifeInv
<1>4. Live(e)
  BY <1>3 DEF LifeInv
<1> HIDE DEF e
<1>5. /\ lifeFreed' \in [Events -> Nat]
      /\ \A x \in Events : /\ lifeFreed'[x] <= made'[x] /\ made'[x] <= lifeFreed'[x] + 1
                           /\ Live(x)' <=> Live(x) /\ x \notin {e}
  BY <1>1, <1>3, <1>4, Deletes
<1>6. Len(lifeFrames') <= LifeMaxDepth
  BY <1>1, <1>2, <1>3
<1>7. EventsOf(lifeFrames) \cup kept \cup ({slot} \ {None}) \subseteq Events
  BY StackTyped DEF LifeInv
<1>8. \A f \in FramesOf(LifePop) : f.event # e
  BY <1>2 DEF EventsOf
<1>9. e \notin kept
  BY <1>3 DEF LifeInv
<1>10. slot' = (IF slot = e THEN None ELSE slot) /\ kept' = kept
  BY <1>1 DEF Isolated
<1>11. /\ \A x \in EventsOf(lifeFrames') \cup kept' \cup ({slot'} \ {None}) : Live(x)'
       /\ kept' \cap EventsOf(lifeFrames') = {} /\ slot' \notin kept'
       /\ \A x \in Events : Live(x)' => x \in EventsOf(lifeFrames') \cup kept' \cup {slot'}
  BY <1>1, <1>2, <1>5, <1>7, <1>9, <1>10, LifeAssumption DEF LifeInv
<1>12. \A f \in FramesOf(lifeFrames') : f.at = "flight" => slot' = f.event
  BY <1>1, <1>2, <1>8, <1>10 DEF LifeInv
<1>13. /\ made' \in [Events -> 0 .. MaxMade] /\ slot' \in Events \cup {None}
       /\ armed' \in BOOLEAN /\ ended' \in BOOLEAN /\ kept' \subseteq Events
       /\ slot' # None => armed'
       /\ ended' => slot' = None /\ \A f \in FramesOf(lifeFrames') : f.at = "cancel"
  BY <1>1, <1>2, <1>10 DEF LifeInv
<1> QED BY <1>1, <1>2, <1>5, <1>6, <1>11, <1>12, <1>13 DEF LifeInv

\* A frame of its own for an event that no frame has.
LEMMA ThrownOrTakenInv ==
  ASSUME LifeInv, LifeMaxDepth >= 1, ThrowP2Pevent \/ CancelKept PROVE LifeInv'
<1>1. PICK e \in Events, place \in {"flight", "cancel"} :
        /\ lifeFrames' = LifePush(place, e) /\ Live(e) /\ kept' = kept \ {e}
        /\ place = "flight" => slot = e /\ ~ended
        /\ e \in kept \cup {slot}
  BY DEF ThrowP2Pevent, CancelKept, LifeInv
<1>2. /\ lifeFrames = <<>> /\ UNCHANGED <<made, lifeFreed, slot, armed, ended>>
      /\ IsStack(lifeFrames)
  BY DEF ThrowP2Pevent, CancelKept, LifeInv
<1> DEFINE f == [at |-> place, event |-> e]
<1>3. f \in LifeFrame /\ f.event = e /\ f.at = place /\ lifeFrames' = <<f>> \o lifeFrames
  BY <1>1 DEF LifePush, LifeFrame, Places
<1> HIDE DEF f
<1>4. FramesOf(lifeFrames) = {} /\ EventsOf(lifeFrames) = {} /\ Len(lifeFrames) = 0
  BY <1>2 DEF FramesOf, EventsOf
<1>a. /\ IsStack(<<f>> \o lifeFrames)
      /\ FramesOf(<<f>> \o lifeFrames) = FramesOf(lifeFrames) \cup {f}
      /\ Len(<<f>> \o lifeFrames) = Len(lifeFrames) + 1
  BY <1>2, <1>3, <1>4, StackPushed
<1>5. /\ IsStack(lifeFrames') /\ FramesOf(lifeFrames') = {f} /\ Len(lifeFrames') = 1
  BY ONLY <1>3, <1>4, <1>a
<1>6. EventsOf(lifeFrames') = {e}
  BY <1>3, <1>5 DEF EventsOf
<1>7. EventsOf(lifeFrames) \cup kept \cup ({slot} \ {None}) \subseteq Events
  BY StackTyped DEF LifeInv
<1> QED BY <1>1, <1>2, <1>3, <1>4, <1>5, <1>6, <1>7 DEF LifeInv, Live

\* The slot is emptied while no frame is there: its event goes to an owner or is
\* deleted.
LEMMA SlotEmptiedInv ==
  ASSUME LifeInv, Isolate \/ ClearLast \/ ThreadEnds PROVE LifeInv'
<1>1. lifeFrames = <<>> /\ UNCHANGED <<made, armed, lifeFrames>> /\ ~ended
  BY DEF Isolate, ClearLast, ThreadEnds
<1>2. FramesOf(lifeFrames) = {} /\ EventsOf(lifeFrames) = {}
  BY <1>1 DEF FramesOf, EventsOf
<1>3. slot' = None /\ None \notin Events
  BY LifeAssumption DEF Isolate, IsolateP2Pevent, ClearLast, ThreadEnds, LifeInv
<1>4. CASE Isolate
  BY <1>1, <1>2, <1>3, <1>4 DEF Isolate, IsolateP2Pevent, LifeInv, Live
<1>5. CASE ClearLast \/ ThreadEnds
  <2> DEFINE es == {slot} \ {None}
  <2>1. es \in SUBSET Events /\ \A x \in es : Live(x)
    BY DEF LifeInv
  <2>2. LifeDelete(es)
    <3>1. CASE ClearLast
      BY <3>1 DEF ClearLast
    <3>2. CASE ThreadEnds /\ armed
      BY <3>2 DEF ThreadEnds
    <3>3. CASE ThreadEnds /\ ~armed
      <4>1. slot = None /\ lifeFreed' = lifeFreed /\ lifeFreed \in [Events -> Nat]
        BY <3>3 DEF ThreadEnds, LifeInv
      <4> QED BY <4>1 DEF LifeDelete
    <3> QED BY <1>5, <3>1, <3>2, <3>3
  <2>3. kept' = kept /\ ended' \in BOOLEAN
    BY <1>5 DEF ClearLast, ThreadEnds, LifeInv
  <2> HIDE DEF es
  <2>4. /\ lifeFreed' \in [Events -> Nat]
        /\ \A x \in Events : /\ lifeFreed'[x] <= made'[x] /\ made'[x] <= lifeFreed'[x] + 1
                             /\ Live(x)' <=> Live(x) /\ x \notin es
    BY <1>1, <2>1, <2>2, Deletes
  <2> QED BY <1>1, <1>2, <1>3, <2>3, <2>4 DEF LifeInv, es
<1> QED BY <1>4, <1>5

LEMMA LifeInvNext ==
  "park" \notin Inner /\ LifeMaxDepth >= 1 /\ LifeInv /\ [LifeNext]_lifeVars => LifeInv'
<1> SUFFICES ASSUME "park" \notin Inner, LifeMaxDepth >= 1, LifeInv, [LifeNext]_lifeVars
             PROVE  LifeInv'
  OBVIOUS
<1>1. CASE UNCHANGED lifeVars
  BY <1>1 DEF lifeVars, LifeInv, Live
<1> QED
  BY <1>1, MakeEventInv, ParkInv, CatchInv, DeleteThisInv, ThrownOrTakenInv, SlotEmptiedInv
  DEF LifeNext, Over

\* An event is deleted once, by whom it belongs to, and not before the last who
\* can reach it has let go; and nothing is left when the thread is over.
THEOREM LivesAreSound ==
  ASSUME "park" \notin Inner, LifeMaxDepth >= 1 PROVE LifeSpec => []LivesSound
<1>1. LifeInv => LivesSound
  <2> SUFFICES ASSUME LifeInv PROVE LivesSound
    OBVIOUS
  <2>1. /\ \A i \in DOMAIN lifeFrames : /\ lifeFrames[i].at \in Places
                                        /\ lifeFrames[i].event \in Events
    BY StackTyped DEF LifeInv, FramesOf, LifeFrame
  <2>2. LifeHeld = EventsOf(lifeFrames)
    BY DEF LifeHeld, EventsOf, FramesOf
  <2>3. NothingLeft
    BY LifeAssumption DEF LifeInv, NothingLeft, EventsOf, FramesOf
  <2> QED BY <2>1, <2>2, <2>3 DEF LifeInv, LivesSound, LifeTypeOK, FreedOnce, NoneDangles
<1>2. LifeInv /\ [LifeNext]_lifeVars => LifeInv'
  BY LifeInvNext
<1> QED BY <1>1, <1>2, LifeInvInit, PTL DEF LifeSpec

-----------------------------------------------------------------------------
(***************************************************************************)
(* Load (StoreLoad).  A heap's count is the number of the places that name *)
(* it: a manager's heap, its root object, a view.  A step that writes one  *)
(* manager's record moves the number of places by what that record loses   *)
(* and gains, and Close, Created and Save move the count by the same.  A   *)
(* buffer is in one hand at a time: the Load's, a heap's, or deleted.      *)
(***************************************************************************)
Bit(p) == IF p THEN 1 ELSE 0

\* The places among the managers that name heap h.
Holders(h) == {p \in Mgrs \X {"heap", "root"} : mgr[p[1]][p[2]] = h}

MgrRecord == [there : BOOLEAN, heap : Heaps \cup {None}, root : Heaps \cup {None}, file : BOOLEAN]

\* Where a Load is, and what its manager holds there.
LoadPlaces ==
    /\ loading \in [by : Mgrs \cup {None}, at : {"idle", "open", "read", "form", "root"},
                    buf : Buffers \cup {None}]
    /\ loading # NoLoad => loading.by \in Mgrs /\ mgr[loading.by].there
    /\ loading.at = "idle" => loading = NoLoad
    /\ loading.at = "open" => loading.buf = None
    /\ loading.at = "read" => loading.buf # None
    /\ loading.at = "form" => loading.buf # None /\ mgr[loading.by].heap = None
    /\ loading.at = "root" => loading.buf = None /\ mgr[loading.by].heap # None /\ mgr[loading.by].root = None

\* A manager and its root object are on one heap, but for the step of a Load
\* between the two; one that is gone has neither.
PairedElse ==
    \A m \in Mgrs :
        /\ mgr[m].heap = mgr[m].root \/ (loading.at = "root" /\ loading.by = m)
        /\ ~mgr[m].there => mgr[m].heap = None /\ mgr[m].root = None

\* A buffer is the Load's, or one open heap's, or has been deleted.
OneHand ==
    /\ \A b \in Buffers : frees[b] <= 1
    /\ loading.buf # None => frees[loading.buf] = 0
    /\ \A h \in Heaps : image[h] # None =>
          /\ refs[h] > 0 /\ frees[image[h]] = 0 /\ loading.buf # image[h]
          /\ \A g \in Heaps : image[g] = image[h] => g = h

LoadInv == LoadTypeOK /\ HeapsCounted /\ LoadPlaces /\ PairedElse /\ OneHand

-----------------------------------------------------------------------------
(* Counting places *)

LEMMA BitPair ==
  ASSUME NEW R, IsFiniteSet(R), NEW x, NEW y, x # y, x \notin R, y \notin R,
         NEW p \in BOOLEAN, NEW q \in BOOLEAN
  PROVE  Cardinality(R \cup {z \in {x, y} : (z = x /\ p) \/ (z = y /\ q)})
           = Cardinality(R) + Bit(p) + Bit(q)
<1> DEFINE X == IF p THEN R \cup {x} ELSE R
           Y == IF q THEN X \cup {y} ELSE X
<1>1. IsFiniteSet(X) /\ Cardinality(X) = Cardinality(R) + Bit(p) /\ y \notin X
  BY FS_AddElement, FS_CardinalityType DEF Bit
<1>2. Cardinality(X) \in Nat /\ Cardinality(R) \in Nat
  BY <1>1, FS_CardinalityType
<1> HIDE DEF X
<1>3. IsFiniteSet(Y) /\ Cardinality(Y) = Cardinality(X) + Bit(q)
  BY <1>1, <1>2, FS_AddElement DEF Bit
<1>4. Y = R \cup {z \in {x, y} : (z = x /\ p) \/ (z = y /\ q)}
  BY DEF X
<1>5. Bit(p) \in Nat /\ Bit(q) \in Nat
  BY DEF Bit
<1> HIDE DEF Y
<1> QED BY <1>1, <1>2, <1>3, <1>4, <1>5

LEMMA HoldsIs ==
  ASSUME LoadTypeOK, NEW m \in Mgrs
  PROVE  Holds(m) = Bit(mgr[m].heap # None) + Bit(mgr[m].root # None)
<1> DEFINE p == mgr[m].heap # None
           q == mgr[m].root # None
           S == {z \in {"heap", "root"} : (z = "heap" /\ p) \/ (z = "root" /\ q)}
<1>1. {x \in {"heap", "root"} : mgr[m][x] # None} = S
  <2>1. mgr[m]["heap"] = mgr[m].heap /\ mgr[m]["root"] = mgr[m].root
    OBVIOUS
  <2> QED BY <2>1, ZenonT(30)
<1>2. IsFiniteSet({}) /\ Cardinality({}) = 0
  BY FS_EmptySet
<1>3. p \in BOOLEAN /\ q \in BOOLEAN /\ {} \cup S = S
  OBVIOUS
<1> HIDE DEF p, q
<1>4. PICK e : e = {}
  OBVIOUS
<1>5. PICK x : x = "heap"
  OBVIOUS
<1>6. PICK y : y = "root"
  OBVIOUS
<1>7. e = {} /\ x = "heap" /\ y = "root" /\ x # y
  BY <1>4, <1>5, <1>6
<1>8. Cardinality(e \cup {z \in {x, y} : (z = x /\ p) \/ (z = y /\ q)}) = Cardinality(e) + Bit(p) + Bit(q)
  <2>1. IsFiniteSet(e) /\ x \notin e /\ y \notin e
    BY <1>2, <1>7
  <2>2. x # y /\ p \in BOOLEAN /\ q \in BOOLEAN
    BY <1>3, <1>7
  <2> QED BY ONLY <2>1, <2>2, BitPair
<1> QED BY <1>1, <1>2, <1>7, <1>8 DEF Holds, Bit, p, q

\* The places of the other managers.
Rest(m, h) == {p \in (Mgrs \ {m}) \X {"heap", "root"} : mgr[p[1]][p[2]] = h}

LEMMA RestFinite ==
  ASSUME NEW m, NEW h
  PROVE  IsFiniteSet(Rest(m, h)) /\ Cardinality(Rest(m, h)) \in Nat /\ Cardinality(Holders(h)) \in Nat
<1>1. IsFiniteSet(Mgrs \X {"heap", "root"})
  <2>1. IsFiniteSet({} \cup {"heap"}) /\ IsFiniteSet({"heap"} \cup {"root"})
    BY FS_EmptySet, FS_AddElement
  <2>2. {"heap"} \cup {"root"} = {"heap", "root"}
    OBVIOUS
  <2> QED BY <2>1, <2>2, FS_Product, LoadAssumption
<1>2. Rest(m, h) \subseteq Mgrs \X {"heap", "root"} /\ Holders(h) \subseteq Mgrs \X {"heap", "root"}
  BY DEF Rest, Holders
<1> QED BY <1>1, <1>2, FS_Subset, FS_CardinalityType

LEMMA HoldersAre ==
  ASSUME LoadTypeOK, NEW m \in Mgrs, NEW h \in Heaps
  PROVE  Cardinality(Holders(h)) = Cardinality(Rest(m, h)) + Bit(mgr[m].heap = h) + Bit(mgr[m].root = h)
<1> DEFINE x == <<m, "heap">>
           y == <<m, "root">>
           p == mgr[m].heap = h
           q == mgr[m].root = h
<1>1. x # y /\ x \notin Rest(m, h) /\ y \notin Rest(m, h) /\ p \in BOOLEAN /\ q \in BOOLEAN
  BY DEF Rest
<1>2. Holders(h) = Rest(m, h) \cup {z \in {x, y} : (z = x /\ mgr[m].heap = h) \/ (z = y /\ mgr[m].root = h)}
  <2>1. \A z \in Mgrs \X {"heap", "root"} : z[1] # m \/ z = x \/ z = y
    OBVIOUS
  <2> QED BY <2>1 DEF Holders, Rest
<1> HIDE DEF x, y, p, q
<1>3. Cardinality(Rest(m, h) \cup {z \in {x, y} : (z = x /\ p) \/ (z = y /\ q)})
        = Cardinality(Rest(m, h)) + Bit(p) + Bit(q)
  BY <1>1, RestFinite, BitPair
<1> QED BY <1>2, <1>3 DEF p, q

\* One manager's record is written.
LEMMA HoldersMove ==
  ASSUME LoadTypeOK, NEW m \in Mgrs, NEW r \in MgrRecord, mgr' = [mgr EXCEPT ![m] = r], NEW h \in Heaps
  PROVE  Cardinality(Holders(h)') = Cardinality(Rest(m, h)) + Bit(r.heap = h) + Bit(r.root = h)
<1> DEFINE x == <<m, "heap">>
           y == <<m, "root">>
           p == r.heap = h
           q == r.root = h
<1>1. x # y /\ x \notin Rest(m, h) /\ y \notin Rest(m, h) /\ p \in BOOLEAN /\ q \in BOOLEAN
  BY DEF Rest
<1>2. mgr'[m] = r /\ \A n \in Mgrs \ {m} : mgr'[n] = mgr[n]
  BY DEF LoadTypeOK
<1>3. Holders(h)' = Rest(m, h) \cup {z \in {x, y} : (z = x /\ r.heap = h) \/ (z = y /\ r.root = h)}
  <2>1. \A z \in Mgrs \X {"heap", "root"} : z[1] # m \/ z = x \/ z = y
    OBVIOUS
  <2>2. Holders(h)' = {z \in Mgrs \X {"heap", "root"} : mgr'[z[1]][z[2]] = h}
    BY DEF Holders
  <2> QED BY <1>2, <2>1, <2>2 DEF Rest
<1> HIDE DEF x, y, p, q
<1>4. Cardinality(Rest(m, h) \cup {z \in {x, y} : (z = x /\ p) \/ (z = y /\ q)})
        = Cardinality(Rest(m, h)) + Bit(p) + Bit(q)
  BY <1>1, RestFinite, BitPair
<1> QED BY <1>3, <1>4 DEF p, q

\* The count of a heap covers what one manager and a view hold of it.
LEMMA CountCovers ==
  ASSUME LoadTypeOK, HeapsCounted, NEW m \in Mgrs, NEW h \in Heaps
  PROVE  /\ refs[h] = Cardinality(Holders(h)) + views[h] /\ Cardinality(Holders(h)) \in Nat
         /\ refs[h] \in Nat /\ views[h] \in 0 .. 1
         /\ refs[h] >= Bit(mgr[m].heap = h) + Bit(mgr[m].root = h) + views[h]
<1>1. refs[h] = Cardinality(Holders(h)) + views[h]
  BY DEF HeapsCounted, Holders
<1>2. Cardinality(Rest(m, h)) \in Nat
  BY RestFinite
<1>3. refs[h] \in Nat /\ views[h] \in 0 .. 1
  BY DEF LoadTypeOK
<1> QED BY <1>1, <1>2, <1>3, HoldersAre DEF Bit

\* The counts stay right when a manager's record is written, if they move by
\* what the record loses and gains.
LEMMA CountsMove ==
  ASSUME LoadTypeOK, HeapsCounted, NEW m \in Mgrs, NEW r \in MgrRecord, mgr' = [mgr EXCEPT ![m] = r],
         views' = views,
         \A h \in Heaps : refs'[h] = refs[h] - Bit(mgr[m].heap = h) - Bit(mgr[m].root = h)
                                             + Bit(r.heap = h) + Bit(r.root = h)
  PROVE  HeapsCounted'
<1> SUFFICES ASSUME NEW h \in Heaps PROVE refs'[h] = Cardinality(Holders(h)') + views'[h]
  BY DEF HeapsCounted, Holders
<1>1. Cardinality(Rest(m, h)) \in Nat
  BY RestFinite
<1>2. refs[h] = Cardinality(Rest(m, h)) + Bit(mgr[m].heap = h) + Bit(mgr[m].root = h) + views[h]
      /\ views[h] \in 0 .. 1
  BY HoldersAre, CountCovers
<1>3. Cardinality(Holders(h)') = Cardinality(Rest(m, h)) + Bit(r.heap = h) + Bit(r.root = h)
  BY HoldersMove
<1>4. refs'[h] = refs[h] - Bit(mgr[m].heap = h) - Bit(mgr[m].root = h) + Bit(r.heap = h) + Bit(r.root = h)
  OBVIOUS
<1> QED BY <1>1, <1>2, <1>3, <1>4 DEF Bit

-----------------------------------------------------------------------------
(* Steps *)

LEMMA LoadInvInit == LoadInit => LoadInv
<1> SUFFICES ASSUME LoadInit PROVE LoadInv
  OBVIOUS
<1>1. LoadTypeOK
  BY DEF LoadInit, LoadTypeOK, Forms, NoMgr, NoLoad
<1>2. HeapsCounted
  <2> SUFFICES ASSUME NEW h \in Heaps PROVE refs[h] = Cardinality(Holders(h)) + views[h]
    BY DEF HeapsCounted, Holders
  <2>1. Holders(h) = {}
    BY LoadAssumption DEF Holders, LoadInit, NoMgr
  <2> QED BY <2>1, FS_EmptySet DEF LoadInit
<1>3. LoadPlaces /\ PairedElse /\ OneHand
  BY DEF LoadInit, LoadPlaces, PairedElse, OneHand, NoLoad, NoMgr
<1> QED BY <1>1, <1>2, <1>3 DEF LoadInv

\* Close: the counts, and the buffer of a heap that its last holder lets go.
LEMMA Closing ==
  ASSUME LoadTypeOK, OneHand, NEW h \in Heaps \cup {None}, NEW n \in Nat, Close(h, n),
         h # None => n > 0 /\ n <= refs[h], loading'.buf = loading.buf
  PROVE  /\ refs' \in [Heaps -> Nat] /\ image' \in [Heaps -> Buffers \cup {None}]
         /\ frees' \in [Buffers -> Nat]
         /\ \A g \in Heaps : refs'[g] = refs[g] - (IF g = h THEN n ELSE 0)
         /\ OneHand'
<1>0. /\ refs \in [Heaps -> Nat] /\ image \in [Heaps -> Buffers \cup {None}] /\ frees \in [Buffers -> Nat]
      /\ loading.buf \in Buffers \cup {None} /\ None \notin Heaps /\ None \notin Buffers
  BY LoadAssumption DEF LoadTypeOK
<1>1. CASE h = None
  BY <1>0, <1>1 DEF Close, OneHand
<1>2. CASE h # None
  <2>1. h \in Heaps /\ n > 0 /\ n <= refs[h] /\ refs[h] \in Nat
    BY <1>0, <1>2
  <2>2. refs' = [refs EXCEPT ![h] = @ - n]
    BY <1>2 DEF Close
  <2>3. refs' \in [Heaps -> Nat] /\ refs'[h] = refs[h] - n /\ \A g \in Heaps \ {h} : refs'[g] = refs[g]
    BY <1>0, <2>1, <2>2
  <2>4. \A g \in Heaps : refs'[g] = refs[g] - (IF g = h THEN n ELSE 0)
    BY <1>0, <2>3
  <2>5. CASE refs[h] = n
    <3>1. image' = [image EXCEPT ![h] = None]
          /\ frees' = IF image[h] # None THEN [frees EXCEPT ![image[h]] = @ + 1] ELSE frees
      BY <1>2, <2>5 DEF Close
    <3>2. /\ image' \in [Heaps -> Buffers \cup {None}] /\ frees' \in [Buffers -> Nat]
          /\ image'[h] = None /\ \A g \in Heaps \ {h} : image'[g] = image[g]
      BY <1>0, <2>1, <3>1
    <3>3. \A b \in Buffers : frees'[b] = frees[b] + (IF b = image[h] THEN 1 ELSE 0)
      BY <1>0, <2>1, <3>1
    <3>4. \A b \in Buffers : frees'[b] <= 1
      BY <1>0, <2>1, <3>3 DEF OneHand
    <3>5. loading'.buf # None => frees'[loading'.buf] = 0
      BY <1>0, <2>1, <3>3 DEF OneHand
    <3>6. ASSUME NEW g \in Heaps, image'[g] # None
          PROVE  /\ refs'[g] > 0 /\ frees'[image'[g]] = 0 /\ loading'.buf # image'[g]
                 /\ \A k \in Heaps : image'[k] = image'[g] => k = g
      <4>1. g # h /\ image[g] # None /\ image[g] \in Buffers /\ image'[g] = image[g]
        BY <1>0, <3>2, <3>6
      <4>2. image[g] # image[h]
        BY <2>1, <4>1 DEF OneHand
      <4> QED BY <1>0, <2>1, <2>3, <3>2, <3>3, <4>1, <4>2 DEF OneHand
    <3> QED BY <2>3, <2>4, <3>2, <3>4, <3>5, <3>6 DEF OneHand
  <2>6. CASE refs[h] # n
    <3>1. image' = image /\ frees' = frees
      BY <1>2, <2>6 DEF Close
    <3>2. \A g \in Heaps : refs[g] > 0 => refs'[g] > 0
      BY <1>0, <2>1, <2>3, <2>6
    <3> QED BY <1>0, <2>3, <2>4, <3>1, <3>2 DEF OneHand
  <2> QED BY <2>5, <2>6
<1> QED BY <1>1, <1>2

\* What a manager holds of its heap, and may let go of.
LEMMA HoldsBoth ==
  ASSUME LoadInv, NEW m \in Mgrs, mgr[m].heap = mgr[m].root
  PROVE  /\ mgr[m].heap \in Heaps \cup {None} /\ Holds(m) = (IF mgr[m].heap = None THEN 0 ELSE 2)
         /\ mgr[m].heap # None => refs[mgr[m].heap] >= 2 + views[mgr[m].heap]
         /\ \A h \in Heaps : Bit(mgr[m].heap = h) + Bit(mgr[m].root = h) = IF h = mgr[m].heap THEN 2 ELSE 0
<1>1. LoadTypeOK /\ HeapsCounted /\ mgr[m].heap \in Heaps \cup {None}
  BY DEF LoadInv, LoadTypeOK
<1>2. Holds(m) = IF mgr[m].heap = None THEN 0 ELSE 2
  BY <1>1, HoldsIs DEF Bit
<1>3. mgr[m].heap # None => refs[mgr[m].heap] >= 2 + views[mgr[m].heap]
  <2> SUFFICES ASSUME mgr[m].heap # None PROVE refs[mgr[m].heap] >= 2 + views[mgr[m].heap]
    OBVIOUS
  <2>1. PICK h \in Heaps : h = mgr[m].heap
    BY <1>1
  <2>2. refs[h] >= Bit(mgr[m].heap = h) + Bit(mgr[m].root = h) + views[h]
    BY <1>1, CountCovers
  <2> QED BY <2>1, <2>2 DEF Bit
<1> QED BY <1>1, <1>2, <1>3 DEF Bit

\* Quiet: every manager is paired.
LEMMA QuietPaired == LoadInv /\ Quiet => \A m \in Mgrs : mgr[m].heap = mgr[m].root
  BY DEF LoadInv, PairedElse, Quiet, NoLoad

\* A manager lets go of its heap: Nullify, the destructor, and Load's Nullify.
LEMMA LettingGo ==
  ASSUME LoadInv, NEW m \in Mgrs, mgr[m].heap = mgr[m].root, Close(mgr[m].heap, Holds(m)),
         NEW r \in MgrRecord, r.heap = None, r.root = None, mgr' = [mgr EXCEPT ![m] = r],
         views' = views, loadDisk' = loadDisk, loading'.buf = loading.buf, loading'.by = loading.by
  PROVE  LoadTypeOK' /\ HeapsCounted' /\ OneHand'
<1>1. /\ LoadTypeOK /\ HeapsCounted /\ OneHand
  BY DEF LoadInv
<1>2. PICK n \in Nat : n = Holds(m) /\ n = IF mgr[m].heap = None THEN 0 ELSE 2
  BY HoldsBoth
<1>3. PICK h \in Heaps \cup {None} : h = mgr[m].heap
  BY HoldsBoth
<1>4. h # None => n > 0 /\ n <= refs[h]
  <2> SUFFICES ASSUME h # None PROVE n > 0 /\ n <= refs[h]
    OBVIOUS
  <2>1. refs[h] >= 2 + views[h] /\ views[h] \in 0 .. 1 /\ refs[h] \in Nat
    BY <1>1, <1>3, HoldsBoth DEF LoadTypeOK
  <2> QED BY <1>2, <1>3, <2>1
<1>5. Close(h, n)
  BY <1>2, <1>3
<1>6. /\ refs' \in [Heaps -> Nat] /\ image' \in [Heaps -> Buffers \cup {None}]
      /\ frees' \in [Buffers -> Nat] /\ OneHand'
      /\ \A g \in Heaps : refs'[g] = refs[g] - (IF g = h THEN n ELSE 0)
  BY <1>1, <1>4, <1>5, Closing
<1>7. LoadTypeOK'
  <2>1. mgr' \in [Mgrs -> MgrRecord]
    BY <1>1 DEF LoadTypeOK, MgrRecord
  <2> QED BY <1>1, <1>6, <2>1 DEF LoadTypeOK, MgrRecord
<1>8. \A g \in Heaps : refs'[g] = refs[g] - Bit(mgr[m].heap = g) - Bit(mgr[m].root = g)
                                          + Bit(r.heap = g) + Bit(r.root = g)
  <2> SUFFICES ASSUME NEW g \in Heaps
               PROVE  refs'[g] = refs[g] - Bit(mgr[m].heap = g) - Bit(mgr[m].root = g)
                                         + Bit(r.heap = g) + Bit(r.root = g)
    OBVIOUS
  <2>1. r.heap # g /\ r.root # g /\ refs[g] \in Nat
    BY <1>1, LoadAssumption DEF LoadTypeOK
  <2>2. refs'[g] = refs[g] - (IF g = h THEN n ELSE 0)
    BY <1>6
  <2>3. (mgr[m].heap = g) = (g = h) /\ (mgr[m].root = g) = (g = h) /\ (g = h => n = 2)
    BY <1>2, <1>3, LoadAssumption
  <2> QED BY <2>1, <2>2, <2>3 DEF Bit
<1>9. HeapsCounted'
  BY <1>1, <1>8, CountsMove
<1> QED BY <1>6, <1>7, <1>9

\* A new heap for a new manager: the constructors and the factory.
LEMMA Attaching ==
  ASSUME LoadInv, NEW m \in Mgrs, ~mgr[m].there, NEW h \in Heaps, NEW file \in BOOLEAN,
         RootAttached(m, h, file), UNCHANGED <<views, image, frees>>, loadDisk' \in Forms,
         loading'.buf = loading.buf, loading'.by \in Mgrs \cup {None}
  PROVE  /\ LoadTypeOK' /\ HeapsCounted' /\ OneHand'
         /\ \E r \in MgrRecord : r.there /\ r.heap = h /\ r.root = h /\ mgr' = [mgr EXCEPT ![m] = r]
<1> DEFINE r == [there |-> TRUE, heap |-> h, root |-> h, file |-> file]
<1>1. /\ LoadTypeOK /\ HeapsCounted /\ OneHand /\ mgr[m].heap = None /\ mgr[m].root = None
      /\ refs[h] = 0 /\ refs' = [refs EXCEPT ![h] = 2] /\ mgr' = [mgr EXCEPT ![m] = r]
  BY DEF LoadInv, PairedElse, RootAttached, Created
<1>2. r \in MgrRecord /\ r.there /\ r.heap = h /\ r.root = h
  BY DEF MgrRecord
<1> HIDE DEF r
<1>3. refs' \in [Heaps -> Nat] /\ \A g \in Heaps : refs'[g] = refs[g] + (IF g = h THEN 2 ELSE 0)
  BY <1>1 DEF LoadTypeOK
<1>4. LoadTypeOK'
  <2>1. mgr' \in [Mgrs -> MgrRecord]
    BY <1>1, <1>2 DEF LoadTypeOK, MgrRecord
  <2> QED BY <1>1, <1>3, <2>1 DEF LoadTypeOK, MgrRecord
<1>5. \A g \in Heaps : refs'[g] = refs[g] - Bit(mgr[m].heap = g) - Bit(mgr[m].root = g)
                                          + Bit(r.heap = g) + Bit(r.root = g)
  <2> SUFFICES ASSUME NEW g \in Heaps
               PROVE  refs'[g] = refs[g] - Bit(mgr[m].heap = g) - Bit(mgr[m].root = g)
                                         + Bit(r.heap = g) + Bit(r.root = g)
    OBVIOUS
  <2>1. mgr[m].heap # g /\ mgr[m].root # g /\ refs[g] \in Nat
    BY <1>1, LoadAssumption DEF LoadTypeOK
  <2>2. (r.heap = g) = (g = h) /\ (r.root = g) = (g = h)
    BY <1>2
  <2> QED BY <1>3, <2>1, <2>2 DEF Bit
<1>6. HeapsCounted'
  BY <1>1, <1>2, <1>5, CountsMove
<1>7. OneHand'
  <2>1. \A g \in Heaps : refs[g] > 0 => refs'[g] > 0
    BY <1>1, <1>3 DEF LoadTypeOK
  <2> QED BY <1>1, <2>1 DEF OneHand
<1> QED BY <1>1, <1>2, <1>4, <1>6, <1>7

\* What the record of one manager says, and that the others' stand.
LEMMA RecordsKept ==
  ASSUME LoadTypeOK, NEW m \in Mgrs, NEW r, mgr' = [mgr EXCEPT ![m] = r]
  PROVE  mgr'[m] = r /\ \A n \in Mgrs \ {m} : mgr'[n] = mgr[n]
BY DEF LoadTypeOK

LEMMA ManagersMade ==
  ASSUME LoadInv, NEW m \in Mgrs, Construct(m) \/ FactoryCreate(m) \/ OpenFile(m) PROVE LoadInv'
<1>1. LoadTypeOK /\ HeapsCounted /\ LoadPlaces /\ PairedElse /\ OneHand /\ loading = NoLoad
  BY DEF LoadInv, Construct, FactoryCreate, OpenFile, Quiet
<1>2. ASSUME NEW h \in Heaps, NEW file \in BOOLEAN, ~mgr[m].there, RootAttached(m, h, file),
             UNCHANGED <<views, image, frees>>, loadDisk' \in Forms,
             loading' = loading \/ loading' = [by |-> m, at |-> "open", buf |-> None]
      PROVE  LoadInv'
  <2>1. loading'.buf = loading.buf /\ loading'.by \in Mgrs \cup {None}
    BY <1>1, <1>2 DEF NoLoad
  <2>2. LoadTypeOK' /\ HeapsCounted' /\ OneHand'
    BY <1>2, <2>1, Attaching
  <2>3. PICK r \in MgrRecord : r.there /\ r.heap = h /\ r.root = h /\ mgr' = [mgr EXCEPT ![m] = r]
    BY <1>2, <2>1, Attaching
  <2>4. mgr'[m] = r /\ \A n \in Mgrs \ {m} : mgr'[n] = mgr[n]
    BY <1>1, <2>3, RecordsKept
  <2>5. LoadPlaces'
    BY <1>1, <1>2, <2>3, <2>4 DEF LoadPlaces, NoLoad
  <2>6. PairedElse'
    BY <1>1, <1>2, <2>3, <2>4 DEF PairedElse, NoLoad
  <2> QED BY <2>2, <2>5, <2>6 DEF LoadInv
<1>3. loadDisk \in Forms /\ "new" \in Forms
  BY <1>1 DEF LoadTypeOK, Forms
<1>4. CASE Construct(m)
  <2>1. PICK h \in Heaps : RootAttached(m, h, FALSE)
    BY <1>4 DEF Construct
  <2> QED BY <1>2, <1>3, <1>4, <2>1 DEF Construct
<1>5. CASE OpenFile(m)
  <2>1. PICK h \in Heaps : RootAttached(m, h, FALSE)
    BY <1>5 DEF OpenFile, RootAttached
  <2> QED BY <1>2, <1>3, <1>5, <2>1 DEF OpenFile
<1>6. CASE FactoryCreate(m)
  <2>1. CASE \E h \in Heaps : RootAttached(m, h, TRUE)
    BY <1>2, <1>3, <1>6, <2>1 DEF FactoryCreate
  <2>2. CASE UNCHANGED <<mgr, refs>>
    <3>1. UNCHANGED <<mgr, refs, views, image, frees, loading>> /\ loadDisk' = "new"
      BY <1>6, <2>2 DEF FactoryCreate
    <3>2. LoadTypeOK'
      BY <1>1, <1>3, <3>1 DEF LoadTypeOK
    <3>3. HeapsCounted' /\ LoadPlaces' /\ PairedElse' /\ OneHand'
      BY <1>1, <3>1 DEF HeapsCounted, LoadPlaces, PairedElse, OneHand
    <3> QED BY <3>2, <3>3 DEF LoadInv
  <2> QED BY <1>6, <2>1, <2>2 DEF FactoryCreate
<1> QED BY <1>4, <1>5, <1>6

LEMMA ManagersLetGo ==
  ASSUME LoadInv, NEW m \in Mgrs, Nullify(m) \/ LoadDestroy(m) PROVE LoadInv'
<1>1. /\ LoadTypeOK /\ LoadPlaces /\ PairedElse /\ loading = NoLoad /\ mgr[m].heap = mgr[m].root
      /\ Close(mgr[m].heap, Holds(m)) /\ UNCHANGED <<loadDisk, views, loading>> /\ mgr[m] \in MgrRecord
  BY QuietPaired DEF LoadInv, Nullify, LoadDestroy, Quiet, LoadTypeOK, MgrRecord
<1>2. PICK r \in MgrRecord : r.heap = None /\ r.root = None /\ mgr' = [mgr EXCEPT ![m] = r]
  <2>1. CASE Nullify(m)
    <3> DEFINE r == [mgr[m] EXCEPT !.heap = None, !.root = None, !.file = FALSE]
    <3>1. mgr' = [mgr EXCEPT ![m] = r]
      BY <1>1, <2>1 DEF Nullify, LetGo, MgrRecord
    <3>2. r \in MgrRecord /\ r.heap = None /\ r.root = None
      BY <1>1 DEF MgrRecord
    <3> QED BY <3>1, <3>2
  <2>2. CASE LoadDestroy(m)
    <3>1. NoMgr \in MgrRecord /\ NoMgr.heap = None /\ NoMgr.root = None
      BY DEF MgrRecord, NoMgr
    <3> QED BY <2>2, <3>1 DEF LoadDestroy
  <2> QED BY <2>1, <2>2
<1>3. LoadTypeOK' /\ HeapsCounted' /\ OneHand'
  BY <1>1, <1>2, LettingGo
<1>4. mgr'[m] = r /\ \A n \in Mgrs \ {m} : mgr'[n] = mgr[n]
  BY <1>1, <1>2, RecordsKept
<1>5. LoadPlaces' /\ PairedElse'
  BY <1>1, <1>2, <1>4 DEF LoadPlaces, PairedElse, NoLoad
<1> QED BY <1>3, <1>5 DEF LoadInv

LEMMA ViewsMove ==
  ASSUME LoadInv, NEW h \in Heaps, TakeView(h) \/ DropView(h) PROVE LoadInv'
<1>1. /\ LoadTypeOK /\ HeapsCounted /\ LoadPlaces /\ PairedElse /\ OneHand
      /\ UNCHANGED <<loadDisk, mgr, loading>>
  BY DEF LoadInv, TakeView, DropView
<1>2. \A g \in Heaps : Holders(g)' = Holders(g) /\ refs[g] = Cardinality(Holders(g)) + views[g]
  BY <1>1 DEF Holders, HeapsCounted
<1>3. \A g \in Heaps : Cardinality(Holders(g)) \in Nat
  BY RestFinite
<1>4. PICK v \in {0, 1} : views' = [views EXCEPT ![h] = v] /\ v = 1 - views[h]
  BY <1>1 DEF TakeView, DropView, LoadTypeOK
<1>5. /\ views' \in [Heaps -> 0 .. 1] /\ views'[h] = v /\ views[h] = 1 - v
      /\ \A g \in Heaps \ {h} : views'[g] = views[g]
  BY <1>1, <1>4 DEF LoadTypeOK
<1>6. CASE TakeView(h)
  <2>1. refs' = [refs EXCEPT ![h] = @ + 1] /\ v = 1 /\ UNCHANGED <<image, frees>>
    BY <1>1, <1>4, <1>6 DEF TakeView, LoadTypeOK
  <2>2. refs' \in [Heaps -> Nat] /\ refs'[h] = refs[h] + 1 /\ \A g \in Heaps \ {h} : refs'[g] = refs[g]
    BY <1>1, <2>1 DEF LoadTypeOK
  <2>3. HeapsCounted'
    <3> SUFFICES ASSUME NEW g \in Heaps PROVE refs'[g] = Cardinality(Holders(g)') + views'[g]
      BY DEF HeapsCounted, Holders
    <3> QED BY <1>2, <1>3, <1>5, <2>1, <2>2
  <2>4. OneHand'
    <3>1. \A g \in Heaps : refs[g] > 0 => refs'[g] > 0
      BY <1>1, <2>2 DEF LoadTypeOK
    <3> QED BY <1>1, <2>1, <3>1 DEF OneHand
  <2>5. LoadTypeOK' /\ LoadPlaces' /\ PairedElse'
    BY <1>1, <1>5, <2>1, <2>2 DEF LoadTypeOK, LoadPlaces, PairedElse
  <2> QED BY <2>3, <2>4, <2>5 DEF LoadInv
<1>7. CASE DropView(h)
  <2>1. Close(h, 1) /\ v = 0 /\ views[h] = 1
    BY <1>1, <1>4, <1>7 DEF DropView, LoadTypeOK
  <2>2. h # None /\ 1 > 0 /\ 1 <= refs[h] /\ h \in Heaps \cup {None}
    BY <1>2, <1>3, <2>1, LoadAssumption
  <2>3. /\ refs' \in [Heaps -> Nat] /\ image' \in [Heaps -> Buffers \cup {None}]
        /\ frees' \in [Buffers -> Nat] /\ OneHand'
        /\ \A g \in Heaps : refs'[g] = refs[g] - (IF g = h THEN 1 ELSE 0)
    <3>1. \A n \in {1} : Close(h, n) /\ n \in Nat
      BY <2>1
    <3> QED BY <1>1, <2>2, <3>1, Closing
  <2>4. HeapsCounted'
    <3> SUFFICES ASSUME NEW g \in Heaps PROVE refs'[g] = Cardinality(Holders(g)') + views'[g]
      BY DEF HeapsCounted, Holders
    <3> QED BY <1>2, <1>3, <1>5, <2>1, <2>3
  <2>5. LoadTypeOK' /\ LoadPlaces' /\ PairedElse'
    BY <1>1, <1>5, <2>3 DEF LoadTypeOK, LoadPlaces, PairedElse
  <2> QED BY <2>3, <2>4, <2>5 DEF LoadInv
<1> QED BY <1>6, <1>7

\* A Load begins, reads, refuses the form: nobody's heap changes.
LEMMA LoadReads ==
  ASSUME LoadInv, (\E m \in Mgrs : LoadBegins(m)) \/ ReadIn \/ Refuse PROVE LoadInv'
<1>1. /\ LoadTypeOK /\ HeapsCounted /\ LoadPlaces /\ PairedElse /\ OneHand
      /\ UNCHANGED <<loadDisk, refs, views, image>>
  BY DEF LoadInv, LoadBegins, ReadIn, Refuse
<1>2. CASE \E m \in Mgrs : LoadBegins(m)
  <2>1. PICK m \in Mgrs : LoadBegins(m)
    BY <1>2
  <2>2. PICK r \in MgrRecord : mgr' = [mgr EXCEPT ![m] = r] /\ r.heap = mgr[m].heap
                               /\ r.root = mgr[m].root /\ r.there = mgr[m].there
    <3> DEFINE r == [mgr[m] EXCEPT !.file = FALSE]
    <3>1. r \in MgrRecord /\ r.heap = mgr[m].heap /\ r.root = mgr[m].root /\ r.there = mgr[m].there
      BY <1>1 DEF LoadTypeOK, MgrRecord
    <3>2. mgr' = [mgr EXCEPT ![m] = r]
      BY <2>1 DEF LoadBegins
    <3> QED BY <3>1, <3>2
  <2>3. mgr'[m] = r /\ \A n \in Mgrs \ {m} : mgr'[n] = mgr[n]
    BY <1>1, <2>2, RecordsKept
  <2>4. /\ loading = NoLoad /\ loading' = [by |-> m, at |-> "open", buf |-> None]
        /\ frees' = frees /\ mgr[m].there
    BY <2>1 DEF LoadBegins, Quiet
  <2>5. LoadTypeOK'
    <3>1. mgr' \in [Mgrs -> MgrRecord]
      BY <1>1, <2>2 DEF LoadTypeOK, MgrRecord
    <3> QED BY <1>1, <2>4, <3>1 DEF LoadTypeOK, MgrRecord
  <2>6. HeapsCounted'
    <3>1. \A h \in Heaps : refs'[h] = refs[h] - Bit(mgr[m].heap = h) - Bit(mgr[m].root = h)
                                             + Bit(r.heap = h) + Bit(r.root = h)
      BY <1>1, <2>2 DEF Bit, LoadTypeOK
    <3> QED BY <1>1, <2>2, <3>1, CountsMove
  <2>7. PairedElse'
    <3>1. loading.at = "idle" /\ loading'.at = "open"
      BY <2>4 DEF NoLoad
    <3>2. \A n \in Mgrs : /\ mgr'[n].heap = mgr[n].heap /\ mgr'[n].root = mgr[n].root
                         /\ mgr'[n].there = mgr[n].there
      BY <2>2, <2>3
    <3> QED BY <1>1, <3>1, <3>2 DEF PairedElse
  <2>8. LoadPlaces'
    <3>1. loading'.by = m /\ loading'.at = "open" /\ loading'.buf = None /\ mgr'[m].there
      BY <2>2, <2>3, <2>4
    <3>2. loading' \in [by : Mgrs \cup {None}, at : {"idle", "open", "read", "form", "root"},
                       buf : Buffers \cup {None}]
      BY <2>4
    <3> QED BY <3>1, <3>2 DEF LoadPlaces
  <2>9. OneHand'
    BY <1>1, <2>4, LoadAssumption DEF OneHand, NoLoad, LoadTypeOK
  <2> QED BY <2>5, <2>6, <2>7, <2>8, <2>9 DEF LoadInv
<1>3. ASSUME mgr' = mgr, loading' = NoLoad, NEW buf \in Buffers \cup {None},
             frees' = IF buf = None THEN frees ELSE [frees EXCEPT ![buf] = @ + 1],
             buf # None => frees[buf] = 0 /\ \A h \in Heaps : image[h] # buf,
             loading.buf # None => loading.buf = buf,
             loading.at # "root"
      PROVE  LoadInv'
  <2>1. HeapsCounted'
    BY <1>1, <1>3 DEF HeapsCounted
  <2>2. LoadPlaces' /\ PairedElse'
    BY <1>1, <1>3 DEF LoadPlaces, PairedElse, NoLoad
  <2>3. frees' \in [Buffers -> Nat] /\ \A b \in Buffers : frees'[b] = frees[b] + (IF b = buf THEN 1 ELSE 0)
    BY <1>1, <1>3, LoadAssumption DEF LoadTypeOK
  <2>4. LoadTypeOK'
    BY <1>1, <1>3, <2>3 DEF LoadTypeOK, NoLoad
  <2>5. OneHand'
    <3>1. \A b \in Buffers : frees'[b] <= 1
      BY <1>1, <1>3, <2>3 DEF OneHand, LoadTypeOK
    <3>2. ASSUME NEW h \in Heaps, image[h] # None
          PROVE  refs[h] > 0 /\ frees'[image[h]] = 0 /\ \A g \in Heaps : image[g] = image[h] => g = h
      <4>1. image[h] \in Buffers /\ image[h] # buf
        BY <1>1, <1>3, <3>2 DEF LoadTypeOK
      <4> QED BY <1>1, <2>3, <3>2, <4>1 DEF OneHand, LoadTypeOK
    <3> QED BY <1>1, <1>3, <3>1, <3>2 DEF OneHand, NoLoad
  <2> QED BY <2>1, <2>2, <2>4, <2>5 DEF LoadInv
<1>4. CASE ReadIn
  <2>1. loading.at = "open" /\ loading.buf = None /\ mgr' = mgr
    BY <1>1, <1>4 DEF ReadIn, LoadPlaces
  <2>2. CASE Failed(None)
    BY <1>3, <2>1, <2>2 DEF Failed
  <2>3. ASSUME NEW b \in Unused, Failed(b) PROVE LoadInv'
    <3>1. b \in Buffers /\ frees[b] = 0 /\ \A h \in Heaps : image[h] # b
      BY DEF Unused
    <3> QED BY <1>3, <2>1, <2>3, <3>1 DEF Failed
  <2>4. ASSUME NEW b \in Unused, loading' = [loading EXCEPT !.at = "read", !.buf = b], frees' = frees
        PROVE  LoadInv'
    <3>1. b \in Buffers /\ b # None /\ frees[b] = 0 /\ \A h \in Heaps : image[h] # b
      BY LoadAssumption DEF Unused
    <3>2. loading'.by = loading.by /\ loading'.at = "read" /\ loading'.buf = b
          /\ loading' \in [by : Mgrs \cup {None}, at : {"idle", "open", "read", "form", "root"},
                           buf : Buffers \cup {None}]
      BY <1>1, <2>4, <3>1 DEF LoadPlaces
    <3>3. LoadTypeOK'
      BY <1>1, <2>1, <2>4, <3>1, <3>2 DEF LoadTypeOK
    <3>4. HeapsCounted'
      BY <1>1, <2>1 DEF HeapsCounted
    <3>5. LoadPlaces' /\ PairedElse'
      BY <1>1, <2>1, <3>1, <3>2 DEF LoadPlaces, PairedElse, NoLoad
    <3>6. OneHand'
      BY <1>1, <2>4, <3>1, <3>2 DEF OneHand
    <3> QED BY <3>3, <3>4, <3>5, <3>6 DEF LoadInv
  <2> QED BY <1>4, <2>2, <2>3, <2>4 DEF ReadIn
<1>5. CASE Refuse
  <2>1. /\ mgr' = mgr /\ loading.at = "form" /\ Failed(loading.buf) /\ loading.buf \in Buffers \cup {None}
        /\ frees[loading.buf] = 0 /\ loading.buf # None
    BY <1>1, <1>5 DEF Refuse, LoadPlaces, OneHand
  <2>2. \A h \in Heaps : image[h] # loading.buf
    BY <1>1, <2>1 DEF OneHand
  <2>3. PICK buf \in Buffers \cup {None} : buf = loading.buf
    BY <2>1
  <2>4. loading' = NoLoad /\ frees' = IF buf = None THEN frees ELSE [frees EXCEPT ![buf] = @ + 1]
    BY <2>1, <2>3 DEF Failed
  <2> QED BY <1>3, <2>1, <2>2, <2>3, <2>4
<1> QED BY <1>2, <1>4, <1>5

LEMMA LoadAdopts ==
  ASSUME LoadInv, NullifyFirst \/ Adopt \/ ConnectRoot PROVE LoadInv'
<1>1. /\ LoadTypeOK /\ HeapsCounted /\ LoadPlaces /\ PairedElse /\ OneHand
      /\ UNCHANGED <<loadDisk, views>> /\ loading.at \in {"read", "form", "root"}
  BY DEF LoadInv, NullifyFirst, Adopt, ConnectRoot
<1>2. PICK m \in Mgrs : m = loading.by
  BY <1>1 DEF LoadPlaces, NoLoad
<1>3. /\ mgr[m] \in MgrRecord /\ mgr[m].there /\ m # None
      /\ loading \in [by : Mgrs \cup {None}, at : {"idle", "open", "read", "form", "root"},
                      buf : Buffers \cup {None}]
  BY <1>1, <1>2, LoadAssumption DEF LoadPlaces, NoLoad, LoadTypeOK, MgrRecord
<1>4. CASE NullifyFirst
  <2>1. loading.at = "read" /\ mgr[m].heap = mgr[m].root /\ Close(mgr[m].heap, Holds(m)) /\ loading.buf # None
    BY <1>1, <1>2, <1>4 DEF NullifyFirst, PairedElse, LoadPlaces
  <2>2. PICK r \in MgrRecord : r.heap = None /\ r.root = None /\ r.there /\ mgr' = [mgr EXCEPT ![m] = r]
    <3> DEFINE r == [mgr[m] EXCEPT !.heap = None, !.root = None]
    <3>1. r \in MgrRecord /\ r.heap = None /\ r.root = None /\ r.there
      BY <1>3 DEF MgrRecord
    <3>2. mgr' = [mgr EXCEPT ![m] = r]
      BY <1>2, <1>4 DEF NullifyFirst, LetGo
    <3> QED BY <3>1, <3>2
  <2>3. loading'.by = loading.by /\ loading'.buf = loading.buf /\ loading'.at = "form"
        /\ loading' \in [by : Mgrs \cup {None}, at : {"idle", "open", "read", "form", "root"},
                           buf : Buffers \cup {None}]
    BY <1>3, <1>4 DEF NullifyFirst
  <2>4. LoadTypeOK' /\ HeapsCounted' /\ OneHand'
    BY <1>1, <2>1, <2>2, <2>3, LettingGo
  <2>5. mgr'[m] = r /\ \A n \in Mgrs \ {m} : mgr'[n] = mgr[n]
    BY <1>1, <2>2, RecordsKept
  <2>6. LoadPlaces' /\ PairedElse'
    BY <1>1, <1>2, <2>1, <2>2, <2>3, <2>5 DEF LoadPlaces, PairedElse, NoLoad
  <2> QED BY <2>4, <2>6 DEF LoadInv
<1>5. CASE Adopt
  <2>1. PICK h \in Heaps : MadeOf(h, loading.buf) /\ mgr' = [mgr EXCEPT ![loading.by].heap = h]
    BY <1>5 DEF Adopt
  <2>2. /\ loading.at = "form" /\ loading.buf \in Buffers /\ loading.buf # None /\ frees' = frees
        /\ mgr[m].heap = None /\ mgr[m].root = None
    BY <1>1, <1>2, <1>5 DEF Adopt, LoadPlaces, PairedElse, LoadTypeOK
  <2>3. PICK r \in MgrRecord : r.heap = h /\ r.root = None /\ r.there /\ mgr' = [mgr EXCEPT ![m] = r]
    <3> DEFINE r == [mgr[m] EXCEPT !.heap = h]
    <3>1. r \in MgrRecord /\ r.heap = h /\ r.root = None /\ r.there
      BY <1>3, <2>2 DEF MgrRecord
    <3>2. mgr' = [mgr EXCEPT ![m] = r]
      BY <1>2, <2>1
    <3> QED BY <3>1, <3>2
  <2>4. loading'.by = loading.by /\ loading'.buf = None /\ loading'.at = "root"
        /\ loading' \in [by : Mgrs \cup {None}, at : {"idle", "open", "read", "form", "root"},
                           buf : Buffers \cup {None}]
    BY <1>3, <1>5 DEF Adopt, HandedOver
  <2>5. /\ refs[h] = 0 /\ refs' = [refs EXCEPT ![h] = 1] /\ image' = [image EXCEPT ![h] = loading.buf]
    BY <2>1 DEF MadeOf, Created
  <2>6. /\ refs' \in [Heaps -> Nat] /\ refs'[h] = 1 /\ \A g \in Heaps \ {h} : refs'[g] = refs[g]
        /\ image' \in [Heaps -> Buffers \cup {None}] /\ image'[h] = loading.buf
        /\ \A g \in Heaps \ {h} : image'[g] = image[g]
    BY <1>1, <2>2, <2>5 DEF LoadTypeOK
  <2>7. mgr'[m] = r /\ \A n \in Mgrs \ {m} : mgr'[n] = mgr[n]
    BY <1>1, <2>3, RecordsKept
  <2>8. LoadTypeOK'
    <3>1. mgr' \in [Mgrs -> MgrRecord]
      BY <1>1, <2>3 DEF LoadTypeOK, MgrRecord
    <3> QED BY <1>1, <2>2, <2>4, <2>6, <3>1 DEF LoadTypeOK, MgrRecord
  <2>9. HeapsCounted'
    <3>1. \A g \in Heaps : refs'[g] = refs[g] - Bit(mgr[m].heap = g) - Bit(mgr[m].root = g)
                                             + Bit(r.heap = g) + Bit(r.root = g)
      <4> SUFFICES ASSUME NEW g \in Heaps
                   PROVE  refs'[g] = refs[g] - Bit(mgr[m].heap = g) - Bit(mgr[m].root = g)
                                             + Bit(r.heap = g) + Bit(r.root = g)
        OBVIOUS
      <4>1. mgr[m].heap # g /\ mgr[m].root # g /\ r.root # g /\ (r.heap = g) = (g = h) /\ refs[g] \in Nat
        BY <1>1, <2>2, <2>3, LoadAssumption DEF LoadTypeOK
      <4> QED BY <2>5, <2>6, <4>1 DEF Bit
    <3> QED BY <1>1, <2>3, <3>1, CountsMove
  <2>10. LoadPlaces' /\ PairedElse'
    BY <1>1, <1>2, <2>2, <2>3, <2>4, <2>7, LoadAssumption DEF LoadPlaces, PairedElse, NoLoad
  <2>11. OneHand'
    <3>1. ASSUME NEW g \in Heaps, image'[g] # None
          PROVE  /\ refs'[g] > 0 /\ frees'[image'[g]] = 0
                 /\ \A k \in Heaps : image'[k] = image'[g] => k = g
      <4>1. \A k \in Heaps : image[k] # loading.buf
        BY <1>1, <2>2 DEF OneHand
      <4>2. CASE g = h
        BY <1>1, <2>2, <2>6, <4>1, <4>2 DEF OneHand
      <4>3. CASE g # h
        BY <1>1, <2>2, <2>6, <3>1, <4>1, <4>3 DEF OneHand
      <4> QED BY <4>2, <4>3
    <3> QED BY <1>1, <2>2, <2>4, <3>1 DEF OneHand
  <2> QED BY <2>8, <2>9, <2>10, <2>11 DEF LoadInv
<1>6. CASE ConnectRoot
  <2>1. /\ loading.at = "root" /\ loading.buf = None /\ mgr[m].heap \in Heaps /\ mgr[m].root = None
        /\ image' = image
    BY <1>1, <1>2, <1>3, <1>6 DEF ConnectRoot, LoadPlaces, MgrRecord
  <2>2. PICK h \in Heaps : h = mgr[m].heap
    BY <2>1
  <2>3. PICK r \in MgrRecord : r.heap = h /\ r.root = h /\ r.there /\ mgr' = [mgr EXCEPT ![m] = r]
    <3> DEFINE r == [mgr[m] EXCEPT !.root = h]
    <3>1. r \in MgrRecord /\ r.heap = h /\ r.root = h /\ r.there
      BY <1>3, <2>2 DEF MgrRecord
    <3>2. mgr' = [mgr EXCEPT ![m] = r]
      BY <1>2, <1>6, <2>2 DEF ConnectRoot
    <3> QED BY <3>1, <3>2
  <2>4. refs' = [refs EXCEPT ![h] = @ + 1] /\ loading' = NoLoad /\ frees' = frees
    BY <1>2, <1>6, <2>1, <2>2 DEF ConnectRoot, Failed
  <2>5. refs' \in [Heaps -> Nat] /\ refs'[h] = refs[h] + 1 /\ \A g \in Heaps \ {h} : refs'[g] = refs[g]
    BY <1>1, <2>4 DEF LoadTypeOK
  <2>6. mgr'[m] = r /\ \A n \in Mgrs \ {m} : mgr'[n] = mgr[n]
    BY <1>1, <2>3, RecordsKept
  <2>7. LoadTypeOK'
    <3>1. mgr' \in [Mgrs -> MgrRecord]
      BY <1>1, <2>3 DEF LoadTypeOK, MgrRecord
    <3> QED BY <1>1, <2>1, <2>4, <2>5, <3>1 DEF LoadTypeOK, MgrRecord, NoLoad
  <2>8. HeapsCounted'
    <3>1. \A g \in Heaps : refs'[g] = refs[g] - Bit(mgr[m].heap = g) - Bit(mgr[m].root = g)
                                             + Bit(r.heap = g) + Bit(r.root = g)
      <4> SUFFICES ASSUME NEW g \in Heaps
                   PROVE  refs'[g] = refs[g] - Bit(mgr[m].heap = g) - Bit(mgr[m].root = g)
                                             + Bit(r.heap = g) + Bit(r.root = g)
        OBVIOUS
      <4>1. (mgr[m].heap = g) = (g = h) /\ mgr[m].root # g /\ (r.root = g) = (g = h)
            /\ (r.heap = g) = (g = h) /\ refs[g] \in Nat
        BY <1>1, <2>1, <2>2, <2>3, LoadAssumption DEF LoadTypeOK
      <4> QED BY <2>5, <4>1 DEF Bit
    <3> QED BY <1>1, <2>3, <3>1, CountsMove
  <2>9. LoadPlaces' /\ PairedElse'
    BY <1>1, <1>2, <2>3, <2>4, <2>6 DEF LoadPlaces, PairedElse, NoLoad
  <2>10. OneHand'
    <3>1. \A g \in Heaps : refs[g] > 0 => refs'[g] > 0
      BY <1>1, <2>5 DEF LoadTypeOK
    <3>2. \A g \in Heaps : image[g] # None => image[g] \in Buffers
      BY <1>1 DEF LoadTypeOK
    <3> QED BY <1>1, <2>1, <2>4, <3>1, <3>2 DEF OneHand, NoLoad
  <2> QED BY <2>7, <2>8, <2>9, <2>10 DEF LoadInv
<1> QED BY <1>4, <1>5, <1>6

\* Save without defragmentation only releases the file; with it, the copy's
\* heap takes the old one's place.
LEMMA SaveReplaces ==
  ASSUME LoadInv, NEW m \in Mgrs, Save(m) PROVE LoadInv'
<1>1. /\ LoadTypeOK /\ HeapsCounted /\ LoadPlaces /\ PairedElse /\ OneHand
      /\ loading = NoLoad /\ UNCHANGED <<views, loading>> /\ mgr[m].there /\ mgr[m].heap # None
      /\ mgr[m].heap = mgr[m].root /\ mgr[m] \in MgrRecord
  BY QuietPaired DEF LoadInv, Save, Quiet, LoadTypeOK, MgrRecord
<1>2. loadDisk' \in Forms
  <2>1. loadDisk' = loadDisk \/ loadDisk' = "good"
    BY DEF Save
  <2> QED BY <1>1, <2>1 DEF LoadTypeOK, Forms
<1>3. PICK old \in Heaps : old = mgr[m].heap
  BY <1>1 DEF MgrRecord
<1>4. Holds(m) = 2 /\ refs[old] \in Nat /\ refs[old] >= 2
  <2>1. Holds(m) = 2 /\ refs[old] >= 2 + views[old]
    BY <1>1, <1>3, HoldsBoth
  <2> QED BY <1>1, <2>1 DEF LoadTypeOK
<1>5. ASSUME UNCHANGED <<refs, image, frees>>, mgr' = [mgr EXCEPT ![m].file = FALSE] PROVE LoadInv'
  <2>1. PICK r \in MgrRecord : mgr' = [mgr EXCEPT ![m] = r] /\ r.heap = mgr[m].heap
                               /\ r.root = mgr[m].root /\ r.there = mgr[m].there
    <3> DEFINE r == [mgr[m] EXCEPT !.file = FALSE]
    <3>1. r \in MgrRecord /\ r.heap = mgr[m].heap /\ r.root = mgr[m].root /\ r.there = mgr[m].there
      BY <1>1 DEF MgrRecord
    <3>2. mgr' = [mgr EXCEPT ![m] = r]
      BY <1>5
    <3> QED BY <3>1, <3>2
  <2>2. mgr'[m] = r /\ \A n \in Mgrs \ {m} : mgr'[n] = mgr[n]
    BY <1>1, <2>1, RecordsKept
  <2>3. LoadTypeOK'
    <3>1. mgr' \in [Mgrs -> MgrRecord]
      BY <1>1, <2>1 DEF LoadTypeOK, MgrRecord
    <3> QED BY <1>1, <1>2, <1>5, <3>1 DEF LoadTypeOK, MgrRecord
  <2>4. HeapsCounted'
    <3>1. \A h \in Heaps : refs'[h] = refs[h] - Bit(mgr[m].heap = h) - Bit(mgr[m].root = h)
                                             + Bit(r.heap = h) + Bit(r.root = h)
      BY <1>1, <1>5, <2>1 DEF Bit, LoadTypeOK
    <3> QED BY <1>1, <2>1, <3>1, CountsMove
  <2>5. LoadPlaces' /\ PairedElse' /\ OneHand'
    BY <1>1, <1>5, <2>1, <2>2 DEF LoadPlaces, PairedElse, OneHand, NoLoad
  <2> QED BY <2>3, <2>4, <2>5 DEF LoadInv
<1>6. ASSUME NEW h \in Heaps, Created(h),
             refs' = [refs EXCEPT ![old] = @ - 2, ![h] = Defragmented],
             image' = IF refs[old] = 2 THEN [image EXCEPT ![old] = None] ELSE image,
             frees' = IF refs[old] = 2 /\ image[old] # None
                      THEN [frees EXCEPT ![image[old]] = @ + 1] ELSE frees,
             mgr' = [mgr EXCEPT ![m].heap = h, ![m].root = h, ![m].file = FALSE]
      PROVE  LoadInv'
  <2>1. PICK r \in MgrRecord : mgr' = [mgr EXCEPT ![m] = r] /\ r.heap = h /\ r.root = h /\ r.there
    <3> DEFINE r == [mgr[m] EXCEPT !.heap = h, !.root = h, !.file = FALSE]
    <3>1. r \in MgrRecord /\ r.heap = h /\ r.root = h /\ r.there
      BY <1>1 DEF MgrRecord
    <3>2. mgr' = [mgr EXCEPT ![m] = r]
      BY <1>6
    <3> QED BY <3>1, <3>2
  <2>2. mgr'[m] = r /\ \A n \in Mgrs \ {m} : mgr'[n] = mgr[n]
    BY <1>1, <2>1, RecordsKept
  <2>3. h # old /\ refs[h] = 0
    BY <1>4, <1>6 DEF Created
  <2>4. /\ refs' \in [Heaps -> Nat] /\ refs'[h] = 2 /\ refs'[old] = refs[old] - 2
        /\ \A g \in Heaps \ {h, old} : refs'[g] = refs[g]
    BY <1>1, <1>4, <1>6, <2>3 DEF LoadTypeOK, Defragmented
  <2>5. /\ image' \in [Heaps -> Buffers \cup {None}]
        /\ \A g \in Heaps : image'[g] = IF g = old /\ refs[old] = 2 THEN None ELSE image[g]
    BY <1>1, <1>6 DEF LoadTypeOK
  <2>6. frees' \in [Buffers -> Nat]
        /\ \A b \in Buffers : frees'[b] = frees[b] + (IF refs[old] = 2 /\ b = image[old] THEN 1 ELSE 0)
    BY <1>1, <1>6, LoadAssumption DEF LoadTypeOK
  <2>7. LoadTypeOK'
    <3>1. mgr' \in [Mgrs -> MgrRecord]
      BY <1>1, <2>1 DEF LoadTypeOK, MgrRecord
    <3> QED BY <1>1, <1>2, <2>4, <2>5, <2>6, <3>1 DEF LoadTypeOK, MgrRecord
  <2>8. HeapsCounted'
    <3>1. \A g \in Heaps : refs'[g] = refs[g] - Bit(mgr[m].heap = g) - Bit(mgr[m].root = g)
                                             + Bit(r.heap = g) + Bit(r.root = g)
      <4> SUFFICES ASSUME NEW g \in Heaps
                   PROVE  refs'[g] = refs[g] - Bit(mgr[m].heap = g) - Bit(mgr[m].root = g)
                                             + Bit(r.heap = g) + Bit(r.root = g)
        OBVIOUS
      <4>1. (mgr[m].heap = g) = (g = old) /\ (mgr[m].root = g) = (g = old) /\ (r.root = g) = (g = h)
            /\ (r.heap = g) = (g = h) /\ refs[g] \in Nat
        BY <1>1, <1>3, <2>1 DEF LoadTypeOK
      <4> QED BY <2>3, <2>4, <4>1 DEF Bit
    <3> QED BY <1>1, <2>1, <3>1, CountsMove
  <2>9. LoadPlaces' /\ PairedElse'
    BY <1>1, <2>1, <2>2 DEF LoadPlaces, PairedElse, NoLoad
  <2>10. OneHand'
    <3>1. \A b \in Buffers : frees'[b] <= 1
      <4>1. \A b \in Buffers : b = image[old] => frees[b] = 0
        BY <1>1, <1>3, LoadAssumption DEF OneHand
      <4> QED BY <1>1, <2>6, <4>1 DEF OneHand, LoadTypeOK
    <3>2. ASSUME NEW g \in Heaps, image'[g] # None
          PROVE  /\ refs'[g] > 0 /\ frees'[image'[g]] = 0 /\ \A k \in Heaps : image'[k] = image'[g] => k = g
      <4>1. image[g] # None /\ image[g] \in Buffers /\ image'[g] = image[g] /\ ~(g = old /\ refs[old] = 2)
            /\ refs[g] > 0 /\ frees[image[g]] = 0 /\ \A k \in Heaps : image[k] = image[g] => k = g
        BY <1>1, <2>5, <3>2 DEF LoadTypeOK, OneHand
      <4>2. refs'[g] > 0
        BY <1>4, <2>3, <2>4, <4>1
      <4>3. frees'[image[g]] = 0
        BY <1>1, <1>3, <2>6, <4>1 DEF LoadTypeOK
      <4>4. \A k \in Heaps : image'[k] = image'[g] => k = g
        BY <2>5, <4>1
      <4> QED BY <4>1, <4>2, <4>3, <4>4
    <3> QED BY <1>1, <3>1, <3>2 DEF OneHand, NoLoad
  <2> QED BY <2>7, <2>8, <2>9, <2>10 DEF LoadInv
<1> QED BY <1>3, <1>4, <1>5, <1>6 DEF Save

LEMMA LoadInvNext == LoadInv /\ [LoadNext]_loadVars => LoadInv'
<1> SUFFICES ASSUME LoadInv, [LoadNext]_loadVars PROVE LoadInv'
  OBVIOUS
<1>1. CASE UNCHANGED loadVars
  <2>1. LoadTypeOK' /\ LoadPlaces'
    BY <1>1 DEF loadVars, LoadInv, LoadTypeOK, LoadPlaces
  <2>2. HeapsCounted' /\ PairedElse' /\ OneHand'
    BY <1>1 DEF loadVars, LoadInv, HeapsCounted, PairedElse, OneHand
  <2> QED BY <2>1, <2>2 DEF LoadInv
<1> QED
  BY <1>1, ManagersMade, ManagersLetGo, ViewsMove, LoadReads, LoadAdopts, SaveReplaces DEF LoadNext

\* A heap is counted by those who hold it and by nobody else, a buffer is
\* deleted once, and a manager and its root object are on one heap between two
\* calls, wherever Load, Save and the factories break off.
THEOREM LoadIsSound == LoadSpec => []LoadSound
<1>1. LoadInv => LoadSound
  <2> SUFFICES ASSUME LoadInv PROVE LoadSound
    OBVIOUS
  <2>1. BufferOnce
    BY LoadAssumption DEF LoadInv, OneHand, BufferOnce, LoadTypeOK
  <2>2. Paired
    BY QuietPaired DEF Paired
  <2> QED BY <2>1, <2>2 DEF LoadInv, LoadSound
<1> QED BY <1>1, LoadInvInit, LoadInvNext, PTL DEF LoadSpec

-----------------------------------------------------------------------------
(***************************************************************************)
(* The diagnostics (EventReport), for any number of threads and calls and  *)
(* whatever the files hold.  Where a thread is, is one of a few stacks of  *)
(* places for the call it is in.  The lock's depth is what the stack of    *)
(* the thread inside says, so two threads are never inside, and what one   *)
(* reads from the configuration under the lock stays as it is.             *)
(***************************************************************************)

Latched == {"display", "uses", "force text", "force dialog"}
Loads == {"ensure", "enter", "lines"}

\* The places a thread in call c can have reached.
Stacks(c) ==
    {<< >>}
    \cup (IF c \in Latched
          THEN {<<"latch", c>>, <<"seed", c>>, <<"heard", c>>, <<"answer", c>>, <<c>>}
               \cup {<<p, "heard", c>> : p \in Loads}
          ELSE {})
    \cup (IF c = "display"
          THEN {<<p>> : p \in {"log", "assemble", "write", "fallback"}} \cup {<<p, "log">> : p \in Loads}
          ELSE {})
    \cup (IF c \in {"search", "load", "ask"} THEN {<<p>> : p \in Loads} ELSE {})
    \cup (IF c \in {"set log", "no log"}
          THEN {<<"hold">>, <<"set">>} \cup {<<p, "set">> : p \in Loads} ELSE {})
    \cup (IF c = "sink" THEN {<<"sink">>} ELSE {})

\* How often a thread with stack s has entered the lock.
Depth(s) ==
    (IF s # << >> /\ Head(s) \in {"lines", "write"} THEN 1 ELSE 0)
    + (IF s \in {<<"set">>} \cup {<<p, "set">> : p \in Loads} THEN 1 ELSE 0)

LockCounted ==
    /\ reportOwner \in [by : Threads \cup {None}, depth : Nat]
    /\ reportOwner.depth = 0 <=> reportOwner.by = None
    /\ \A t \in Threads : Depth(stack[t]) = IF reportOwner.by = t THEN reportOwner.depth ELSE 0

Stacked ==
    /\ stack \in [Threads -> UNION {Stacks(c) : c \in CallNames \cup {None}}]
    /\ reportCall \in [Threads -> CallNames \cup {None}]
    /\ \A t \in Threads : stack[t] \in Stacks(reportCall[t])

\* The settings a file can hold.
Settings == {"dialog off", "dialog on", "dialog maybe", "log", "other"}

ReadingTyped ==
    /\ reading \in [Threads -> [file : Files \cup {None}, lines : Seq(Settings), log : BOOLEAN]]
    /\ \A t \in Threads : reading[t].lines # << >> => reading[t].file \in Files

ReportCore ==
    /\ reportDisk \in [Files -> Contents]
    /\ latch \in {0, 1, Unset} /\ loaded \in BOOLEAN /\ textOnly \in BOOLEAN
    /\ cfgPath \in Files \cup {None} /\ logPath \in Paths
    /\ note \subseteq {"line", "unopened", "foreign"}
    /\ noted \in BOOLEAN /\ textSink \in BOOLEAN
    /\ ret \in [Threads -> BOOLEAN] /\ left \in [Threads -> 0 .. MaxCalls]
    /\ forced \in {0, 1, None} /\ invited \in BOOLEAN /\ named \in Paths

Control == ReportCore /\ ReadingTyped /\ Stacked /\ LockCounted

-----------------------------------------------------------------------------
(* Stacks *)

\* Sequences of one, two and three places, put together and taken apart.
LEMMA ConcatOneOne == ASSUME NEW a, NEW b PROVE <<a>> \o <<b>> = <<a,b>>
<1>1. Len(<<a>>) = 1 /\ Len(<<b>>) = 1 /\ <<a>> \in Seq({a,b}) /\ <<b>> \in Seq({a,b})
  OBVIOUS
<1>2. <<a>> \o <<b>> \in Seq({a,b}) /\ Len(<<a>> \o <<b>>) = 2
  BY <1>1
<1>3. (<<a>> \o <<b>>)[1] = a /\ (<<a>> \o <<b>>)[2] = b
  BY <1>1
<1>4. \A s \in Seq({a,b}) : Len(s) = 2 /\ s[1] = a /\ s[2] = b => s = <<a,b>>
  OBVIOUS
<1> QED BY <1>2, <1>3, <1>4

LEMMA ConcatOneTwo == ASSUME NEW a, NEW b, NEW c PROVE <<a>> \o <<b,c>> = <<a,b,c>>
<1>1. Len(<<a>>) = 1 /\ Len(<<b,c>>) = 2 /\ <<a>> \in Seq({a,b,c}) /\ <<b,c>> \in Seq({a,b,c})
  OBVIOUS
<1>2. <<a>> \o <<b,c>> \in Seq({a,b,c}) /\ Len(<<a>> \o <<b,c>>) = 3
  BY <1>1
<1>3. (<<a>> \o <<b,c>>)[1] = a /\ (<<a>> \o <<b,c>>)[2] = b /\ (<<a>> \o <<b,c>>)[3] = c
  BY <1>1
<1>4. \A s \in Seq({a,b,c}) : Len(s) = 3 /\ s[1] = a /\ s[2] = b /\ s[3] = c => s = <<a,b,c>>
  OBVIOUS
<1> QED BY <1>2, <1>3, <1>4

LEMMA ConcatTwoOne == ASSUME NEW a, NEW b, NEW c PROVE <<a,b>> \o <<c>> = <<a,b,c>>
<1>1. Len(<<a,b>>) = 2 /\ Len(<<c>>) = 1 /\ <<a,b>> \in Seq({a,b,c}) /\ <<c>> \in Seq({a,b,c})
  OBVIOUS
<1>2. <<a,b>> \o <<c>> \in Seq({a,b,c}) /\ Len(<<a,b>> \o <<c>>) = 3
  BY <1>1
<1>3. (<<a,b>> \o <<c>>)[1] = a /\ (<<a,b>> \o <<c>>)[2] = b /\ (<<a,b>> \o <<c>>)[3] = c
  BY <1>1
<1>4. \A s \in Seq({a,b,c}) : Len(s) = 3 /\ s[1] = a /\ s[2] = b /\ s[3] = c => s = <<a,b,c>>
  OBVIOUS
<1> QED BY <1>2, <1>3, <1>4

LEMMA OnePlace ==
  ASSUME NEW a PROVE <<a>> # << >> /\ Head(<<a>>) = a /\ Tail(<<a>>) = << >>
<1>1. Tail(<<a>>) = << >>
  OBVIOUS
<1> QED BY <1>1

LEMMA TwoPlaces ==
  ASSUME NEW a, NEW b
  PROVE  <<a, b>> # << >> /\ Head(<<a, b>>) = a /\ Tail(<<a, b>>) = <<b>>
<1>1. Tail(<<a, b>>) = <<b>>
  OBVIOUS
<1> QED BY <1>1

LEMMA ThreePlaces ==
  ASSUME NEW a, NEW b, NEW c
  PROVE  <<a, b, c>> # << >> /\ Head(<<a, b, c>>) = a /\ Tail(<<a, b, c>>) = <<b, c>>
<1>1. Tail(<<a, b, c>>) = <<b, c>>
  OBVIOUS
<1> QED BY <1>1

\* The lock depth of a stack of each length.
LEMMA Depths ==
  /\ Depth(<< >>) = 0
  /\ \A a : Depth(<<a>>) = IF a \in {"lines", "write", "set"} THEN 1 ELSE 0
  /\ \A a, b : Depth(<<a, b>>) = (IF a \in {"lines", "write"} THEN 1 ELSE 0)
                               + (IF a \in Loads /\ b = "set" THEN 1 ELSE 0)
  /\ \A a, b, c : Depth(<<a, b, c>>) = IF a \in {"lines", "write"} THEN 1 ELSE 0
<1>1. Depth(<< >>) = 0
  BY DEF Depth
<1>2. ASSUME NEW a PROVE Depth(<<a>>) = IF a \in {"lines", "write", "set"} THEN 1 ELSE 0
  <2>1. <<a>> \in {<<"set">>} \cup {<<p, "set">> : p \in Loads} <=> a = "set"
    OBVIOUS
  <2> QED BY <2>1, OnePlace DEF Depth
<1>3. ASSUME NEW a, NEW b
      PROVE  Depth(<<a, b>>) = (IF a \in {"lines", "write"} THEN 1 ELSE 0)
                               + (IF a \in Loads /\ b = "set" THEN 1 ELSE 0)
  <2>1. <<a, b>> \in {<<"set">>} \cup {<<p, "set">> : p \in Loads} <=> a \in Loads /\ b = "set"
    OBVIOUS
  <2> QED BY <2>1, TwoPlaces DEF Depth
<1>4. ASSUME NEW a, NEW b, NEW c
      PROVE  Depth(<<a, b, c>>) = IF a \in {"lines", "write"} THEN 1 ELSE 0
  <2>1. <<a, b, c>> \notin {<<"set">>} \cup {<<p, "set">> : p \in Loads}
    OBVIOUS
  <2> QED BY <2>1, ThreePlaces DEF Depth
<1> QED BY <1>1, <1>2, <1>3, <1>4

\* What a thread's stack is, from the call c it is in and the place p it has
\* reached.
Stood(s, c, p) ==
    /\ p \in {"latch", "seed", "heard", "answer"} => c \in Latched /\ s = <<p, c>>
    /\ p \in Latched => c = p /\ s = <<p>>
    /\ p \in {"log", "assemble", "write", "fallback"} => c = "display" /\ s = <<p>>
    /\ p \in {"hold", "set"} => c \in {"set log", "no log"} /\ s = <<p>>
    /\ p = "sink" => c = "sink" /\ s = <<p>>
    /\ p \in Loads =>
           \/ c \in {"search", "load", "ask"} /\ s = <<p>>
           \/ c \in Latched /\ s = <<p, "heard", c>>
           \/ c = "display" /\ s = <<p, "log">>
           \/ c \in {"set log", "no log"} /\ s = <<p, "set">>

\* The first place of a stack tells the whole of it, up to who asked for a search.
LEMMA Standing ==
  ASSUME NEW c, NEW s \in Stacks(c), NEW p, s # << >>, Head(s) = p
  PROVE  Stood(s, c, p)
<1>1. CASE c \in Latched /\ s \in {<<"latch", c>>, <<"seed", c>>, <<"heard", c>>, <<"answer", c>>}
  <2>1. PICK q \in {"latch", "seed", "heard", "answer"} : s = <<q, c>>
    BY <1>1
  <2>2. p = q
    BY <2>1, TwoPlaces
  <2> QED BY <1>1, <2>1, <2>2 DEF Latched, Loads, Stood
<1>2. CASE c \in Latched /\ s = <<c>>
  <2>1. p = c
    BY <1>2, OnePlace
  <2> QED BY <1>2, <2>1 DEF Latched, Loads, Stood
<1>3. CASE c \in Latched /\ s \in {<<q, "heard", c>> : q \in Loads}
  <2>1. PICK q \in Loads : s = <<q, "heard", c>>
    BY <1>3
  <2>2. p = q
    BY <2>1, ThreePlaces
  <2> QED BY <1>3, <2>1, <2>2 DEF Latched, Loads, Stood
<1>4. CASE c = "display" /\ s \in {<<q>> : q \in {"log", "assemble", "write", "fallback"}}
  <2>1. PICK q \in {"log", "assemble", "write", "fallback"} : s = <<q>>
    BY <1>4
  <2>2. p = q
    BY <2>1, OnePlace
  <2> QED BY <1>4, <2>1, <2>2 DEF Latched, Loads, Stood
<1>5. CASE c = "display" /\ s \in {<<q, "log">> : q \in Loads}
  <2>1. PICK q \in Loads : s = <<q, "log">>
    BY <1>5
  <2>2. p = q
    BY <2>1, TwoPlaces
  <2> QED BY <1>5, <2>1, <2>2 DEF Latched, Loads, Stood
<1>6. CASE c \in {"search", "load", "ask"} /\ s \in {<<q>> : q \in Loads}
  <2>1. PICK q \in Loads : s = <<q>>
    BY <1>6
  <2>2. p = q
    BY <2>1, OnePlace
  <2> QED BY <1>6, <2>1, <2>2 DEF Latched, Loads, Stood
<1>7. CASE c \in {"set log", "no log"} /\ s \in {<<"hold">>, <<"set">>}
  <2>1. PICK q \in {"hold", "set"} : s = <<q>>
    BY <1>7
  <2>2. p = q
    BY <2>1, OnePlace
  <2> QED BY <1>7, <2>1, <2>2 DEF Latched, Loads, Stood
<1>8. CASE c \in {"set log", "no log"} /\ s \in {<<q, "set">> : q \in Loads}
  <2>1. PICK q \in Loads : s = <<q, "set">>
    BY <1>8
  <2>2. p = q
    BY <2>1, TwoPlaces
  <2> QED BY <1>8, <2>1, <2>2 DEF Latched, Loads, Stood
<1>9. CASE c = "sink" /\ s = <<"sink">>
  <2>1. p = "sink"
    BY <1>9, OnePlace
  <2> QED BY <1>9, <2>1 DEF Latched, Loads, Stood
<1> QED BY <1>1, <1>2, <1>3, <1>4, <1>5, <1>6, <1>7, <1>8, <1>9 DEF Stacks

\* A thread is inside at most twice.
LEMMA TwoDeep == \A s : Depth(s) \in 0 .. 2
BY DEF Depth

\* The types the run checks follow: the depth is that of one stack.
LEMMA ControlTyped == Control => ReportTypeOK
<1> SUFFICES ASSUME Control PROVE ReportTypeOK
  OBVIOUS
<1>1. reportOwner.depth \in 0 .. 3
  <2>1. CASE reportOwner.by = None
    BY <2>1 DEF Control, LockCounted
  <2>2. CASE reportOwner.by \in Threads
    <3>1. Depth(stack[reportOwner.by]) = reportOwner.depth
      BY <2>2 DEF Control, LockCounted
    <3> QED BY <3>1, TwoDeep
  <2> QED BY <2>1, <2>2 DEF Control, LockCounted
<1> QED BY <1>1 DEF Control, ReportCore, LockCounted, ReportTypeOK

\* A thread enters the lock, leaves it, or lets it be.
LEMMA LockMoves ==
  ASSUME LockCounted, NEW D, stack \in [Threads -> D], NEW t \in Threads, NEW s,
         stack' = [stack EXCEPT ![t] = s],
         \/ reportOwner' = reportOwner /\ Depth(s) = Depth(stack[t])
         \/ LockFree(t) /\ reportOwner' = Entered(t) /\ Depth(s) = Depth(stack[t]) + 1
         \/ reportOwner' = Left /\ Depth(stack[t]) = Depth(s) + 1
  PROVE  LockCounted'
<1>1. stack'[t] = s /\ \A u \in Threads \ {t} : stack'[u] = stack[u]
  OBVIOUS
<1>2. t # None
  BY ReportAssumption
<1>3. /\ reportOwner.by \in Threads \cup {None} /\ reportOwner.depth \in Nat
      /\ reportOwner = [by |-> reportOwner.by, depth |-> reportOwner.depth]
      /\ reportOwner.depth = 0 <=> reportOwner.by = None
      /\ \A u \in Threads : Depth(stack[u]) = IF reportOwner.by = u THEN reportOwner.depth ELSE 0
  BY DEF LockCounted
<1>4. Depth(s) \in Nat /\ Depth(stack[t]) \in Nat
  <2>1. Depth(s) \in 0 .. 2 /\ Depth(stack[t]) \in 0 .. 2
    BY TwoDeep
  <2> QED BY <2>1
<1>5. CASE reportOwner' = reportOwner /\ Depth(s) = Depth(stack[t])
  BY <1>1, <1>5 DEF LockCounted
<1>6. CASE LockFree(t) /\ reportOwner' = Entered(t) /\ Depth(s) = Depth(stack[t]) + 1
  <2>1. reportOwner'.by = t /\ reportOwner'.depth = reportOwner.depth + 1
        /\ reportOwner' \in [by : Threads \cup {None}, depth : Nat]
    BY <1>3, <1>6 DEF Entered
  <2>2. reportOwner.by \in {None, t}
    BY <1>6 DEF LockFree
  <2> QED BY <1>1, <1>2, <1>3, <1>4, <1>6, <2>1, <2>2 DEF LockCounted
<1>7. CASE reportOwner' = Left /\ Depth(stack[t]) = Depth(s) + 1
  <2>1. reportOwner.by = t /\ reportOwner.depth = Depth(s) + 1
    BY <1>3, <1>4, <1>7
  <2>2. CASE reportOwner.depth = 1
    <3>1. reportOwner' = [by |-> None, depth |-> 0] /\ Depth(s) = 0
      BY <1>4, <1>7, <2>1, <2>2 DEF Left
    <3> QED BY <1>1, <1>2, <1>3, <2>1, <3>1, ReportAssumption DEF LockCounted
  <2>3. CASE reportOwner.depth # 1
    <3>1. reportOwner'.by = t /\ reportOwner'.depth = Depth(s) /\ Depth(s) > 0
          /\ reportOwner' \in [by : Threads \cup {None}, depth : Nat]
      <4>1. reportOwner' = [reportOwner EXCEPT !.depth = @ - 1]
        BY <1>7, <2>3 DEF Left
      <4>2. reportOwner' = [by |-> t, depth |-> Depth(s)]
        BY <1>3, <1>4, <2>1, <4>1
      <4> QED BY <1>4, <2>1, <2>3, <4>2
    <3> QED BY <1>1, <1>2, <1>3, <2>1, <3>1 DEF LockCounted
  <2> QED BY <2>2, <2>3
<1> QED BY <1>5, <1>6, <1>7

\* The stacks a call can reach, one form at a time.
LEMMA Reachable ==
  ASSUME NEW c
  PROVE  /\ << >> \in Stacks(c)
         /\ c \in Latched =>
                /\ <<c>> \in Stacks(c)
                /\ \A p \in {"latch", "seed", "heard", "answer"} : <<p, c>> \in Stacks(c)
                /\ \A p \in Loads : <<p, "heard", c>> \in Stacks(c)
         /\ c = "display" =>
                /\ \A p \in {"log", "assemble", "write", "fallback"} : <<p>> \in Stacks(c)
                /\ \A p \in Loads : <<p, "log">> \in Stacks(c)
         /\ c \in {"search", "load", "ask"} => \A p \in Loads : <<p>> \in Stacks(c)
         /\ c \in {"set log", "no log"} =>
                /\ <<"hold">> \in Stacks(c) /\ <<"set">> \in Stacks(c)
                /\ \A p \in Loads : <<p, "set">> \in Stacks(c)
         /\ c = "sink" => <<"sink">> \in Stacks(c)
BY DEF Stacks

\* What a step does to the lock when its thread's stack becomes s.
LockMove(t, s) ==
    \/ reportOwner' = reportOwner /\ Depth(s) = Depth(stack[t])
    \/ LockFree(t) /\ reportOwner' = Entered(t) /\ Depth(s) = Depth(stack[t]) + 1
    \/ reportOwner' = Left /\ Depth(stack[t]) = Depth(s) + 1

StackMoves(t) == \E s \in Stacks(reportCall[t]) : stack' = [stack EXCEPT ![t] = s] /\ LockMove(t, s)

\* The place of one thread, taken from the invariant.
LEMMA Here ==
  ASSUME Stacked, NEW t \in Threads, NEW p, At(t, p)
  PROVE  /\ stack[t] \in Stacks(reportCall[t]) /\ stack[t] # << >> /\ Head(stack[t]) = p
         /\ Stood(stack[t], reportCall[t], p)
<1>1. stack[t] \in Stacks(reportCall[t]) /\ stack[t] # << >> /\ Head(stack[t]) = p
  BY DEF Stacked, At
<1>2. Stood(stack[t], reportCall[t], p)
  BY ONLY <1>1, Standing
<1> QED BY <1>1, <1>2

\* A place gives way to another.
LEMMA GotoFromOne ==
  ASSUME NEW a, NEW q PROVE <<q>> \o Tail(<<a>>) = <<q>>
<1>1. Tail(<<a>>) = << >> /\ <<q>> \o << >> = <<q>>
  OBVIOUS
<1> QED BY <1>1

LEMMA GotoFromTwo ==
  ASSUME NEW a, NEW b, NEW q PROVE <<q>> \o Tail(<<a, b>>) = <<q, b>>
BY TwoPlaces, ConcatOneOne

LEMMA GotoFromThree ==
  ASSUME NEW a, NEW b, NEW c, NEW q PROVE <<q>> \o Tail(<<a, b, c>>) = <<q, b, c>>
<1>1. Tail(<<a, b, c>>) = <<b, c>>
  BY ThreePlaces
<1>2. <<q>> \o <<b, c>> = <<q, b, c>>
  BY ConcatOneTwo
<1> QED BY <1>1, <1>2

\* A place gives way to a call it resumes after.
LEMMA CallFrom ==
  ASSUME NEW a, NEW b, NEW q, NEW r
  PROVE  /\ <<q, r>> \o Tail(<<a>>) = <<q, r>>
         /\ <<q, r>> \o Tail(<<a, b>>) = <<q, r, b>>
<1>1. Tail(<<a>>) = << >> /\ Tail(<<a, b>>) = <<b>>
  BY OnePlace, TwoPlaces
<1>2. <<q, r>> \o << >> = <<q, r>>
  OBVIOUS
<1> QED BY <1>1, <1>2, ConcatTwoOne

\* From a place whose caller, if any, is its thread's call.
LEMMA GotoMoves ==
  ASSUME Stacked, NEW t \in Threads, NEW p, At(t, p), NEW q, Goto(t, q)
  PROVE  /\ p \in {"latch", "seed", "heard", "answer"} =>
                stack' = [stack EXCEPT ![t] = <<q, reportCall[t]>>]
         /\ p \in {"log", "assemble", "write", "fallback"} => stack' = [stack EXCEPT ![t] = <<q>>]
<1>1. CASE p \in {"latch", "seed", "heard", "answer"}
  <2>1. stack[t] = <<p, reportCall[t]>>
    BY <1>1, Here DEF Stood
  <2>2. stack' = [stack EXCEPT ![t] = <<q>> \o Tail(<<p, reportCall[t]>>)]
    BY <2>1 DEF Goto
  <2>3. <<q>> \o Tail(<<p, reportCall[t]>>) = <<q, reportCall[t]>>
    BY GotoFromTwo
  <2> QED BY <1>1, <2>2, <2>3
<1>2. CASE p \in {"log", "assemble", "write", "fallback"}
  <2>1. stack[t] = <<p>>
    BY <1>2, Here DEF Stood
  <2>2. stack' = [stack EXCEPT ![t] = <<q>> \o Tail(<<p>>)]
    BY <2>1 DEF Goto
  <2>3. <<q>> \o Tail(<<p>>) = <<q>>
    BY GotoFromOne
  <2> QED BY <1>2, <2>2, <2>3
<1> QED BY <1>1, <1>2

\* The same, for a call.
LEMMA CallMoves ==
  ASSUME Stacked, NEW t \in Threads, NEW p, At(t, p), NEW q, NEW r, CallTo(t, q, r)
  PROVE  /\ p \in {"latch", "seed", "heard", "answer"} =>
                stack' = [stack EXCEPT ![t] = <<q, r, reportCall[t]>>]
         /\ p \in {"display", "hold"} => stack' = [stack EXCEPT ![t] = <<q, r>>]
<1>1. CASE p \in {"latch", "seed", "heard", "answer"}
  <2>1. stack[t] = <<p, reportCall[t]>>
    BY <1>1, Here DEF Stood
  <2>2. stack' = [stack EXCEPT ![t] = <<q, r>> \o Tail(<<p, reportCall[t]>>)]
    BY <2>1 DEF CallTo
  <2>3. <<q, r>> \o Tail(<<p, reportCall[t]>>) = <<q, r, reportCall[t]>>
    BY CallFrom
  <2> QED BY <1>1, <2>2, <2>3
<1>2. CASE p \in {"display", "hold"}
  <2>1. stack[t] = <<p>>
    BY <1>2, Here DEF Stood, Latched
  <2>2. stack' = [stack EXCEPT ![t] = <<q, r>> \o Tail(<<p>>)]
    BY <2>1 DEF CallTo
  <2>3. <<q, r>> \o Tail(<<p>>) = <<q, r>>
    BY CallFrom
  <2> QED BY <1>2, <2>2, <2>3
<1> QED BY <1>1, <1>2

\* The same, for a return.
LEMMA ReturnMoves ==
  ASSUME Stacked, NEW t \in Threads, NEW p, At(t, p), ReportReturn(t)
  PROVE  /\ p \in {"latch", "seed", "heard", "answer"} =>
                stack' = [stack EXCEPT ![t] = <<reportCall[t]>>]
         /\ p \in Latched \cup {"log", "assemble", "write", "fallback", "hold", "set", "sink"} =>
                stack' = [stack EXCEPT ![t] = << >>]
<1>1. CASE p \in {"latch", "seed", "heard", "answer"}
  <2>1. stack[t] = <<p, reportCall[t]>>
    BY <1>1, Here DEF Stood
  <2>2. stack' = [stack EXCEPT ![t] = Tail(<<p, reportCall[t]>>)]
    BY <2>1 DEF ReportReturn
  <2>3. Tail(<<p, reportCall[t]>>) = <<reportCall[t]>>
    BY TwoPlaces
  <2> QED BY <1>1, <2>2, <2>3 DEF Latched
<1>2. CASE p \in Latched \cup {"log", "assemble", "write", "fallback", "hold", "set", "sink"}
  <2>1. stack[t] = <<p>>
    BY <1>2, Here DEF Stood
  <2>2. stack' = [stack EXCEPT ![t] = Tail(<<p>>)]
    BY <2>1 DEF ReportReturn
  <2>3. Tail(<<p>>) = << >>
    BY OnePlace
  <2> QED BY <1>2, <2>2, <2>3 DEF Latched
<1> QED BY <1>1, <1>2

\* From one place p of the search for a file to another, q, for the same caller.
Onward(c, p, q, s, z) ==
    \/ c \in {"search", "load", "ask"} /\ s = <<p>> /\ z = <<q>>
    \/ c \in Latched /\ s = <<p, "heard", c>> /\ z = <<q, "heard", c>>
    \/ c = "display" /\ s = <<p, "log">> /\ z = <<q, "log">>
    \/ c \in {"set log", "no log"} /\ s = <<p, "set">> /\ z = <<q, "set">>

\* And back to the caller.
Resumed(c, p, s, z) ==
    \/ c \in {"search", "load", "ask"} /\ s = <<p>> /\ z = << >>
    \/ c \in Latched /\ s = <<p, "heard", c>> /\ z = <<"heard", c>>
    \/ c = "display" /\ s = <<p, "log">> /\ z = <<"log">>
    \/ c \in {"set log", "no log"} /\ s = <<p, "set">> /\ z = <<"set">>

LEMMA SearchGoes ==
  ASSUME NEW c, NEW s, NEW p \in Loads, Stood(s, c, p), NEW q
  PROVE  Onward(c, p, q, s, <<q>> \o Tail(s)) /\ Resumed(c, p, s, Tail(s))
<1>1. CASE c \in {"search", "load", "ask"} /\ s = <<p>>
  <2>1. Tail(<<p>>) = << >> /\ <<q>> \o Tail(<<p>>) = <<q>>
    BY GotoFromOne, OnePlace
  <2>2. Tail(s) = << >> /\ <<q>> \o Tail(s) = <<q>>
    BY <1>1, <2>1
  <2> QED BY <1>1, <2>2 DEF Onward, Resumed
<1>2. CASE c \in Latched /\ s = <<p, "heard", c>>
  <2>0. PICK b : b = "heard"
    OBVIOUS
  <2>1. Tail(<<p, b, c>>) = <<b, c>> /\ <<q>> \o Tail(<<p, b, c>>) = <<q, b, c>>
    BY GotoFromThree, ThreePlaces
  <2>2. Tail(s) = <<"heard", c>> /\ <<q>> \o Tail(s) = <<q, "heard", c>>
    BY <1>2, <2>0, <2>1
  <2> QED BY <1>2, <2>2 DEF Onward, Resumed
<1>3. CASE c = "display" /\ s = <<p, "log">>
  <2>0. PICK b : b = "log"
    OBVIOUS
  <2>1. Tail(<<p, b>>) = <<b>> /\ <<q>> \o Tail(<<p, b>>) = <<q, b>>
    BY GotoFromTwo, TwoPlaces
  <2>2. Tail(s) = <<"log">> /\ <<q>> \o Tail(s) = <<q, "log">>
    BY <1>3, <2>0, <2>1
  <2> QED BY <1>3, <2>2 DEF Onward, Resumed
<1>4. CASE c \in {"set log", "no log"} /\ s = <<p, "set">>
  <2>0. PICK b : b = "set"
    OBVIOUS
  <2>1. Tail(<<p, b>>) = <<b>> /\ <<q>> \o Tail(<<p, b>>) = <<q, b>>
    BY GotoFromTwo, TwoPlaces
  <2>2. Tail(s) = <<"set">> /\ <<q>> \o Tail(s) = <<q, "set">>
    BY <1>4, <2>0, <2>1
  <2> QED BY <1>4, <2>2 DEF Onward, Resumed
<1> QED BY <1>1, <1>2, <1>3, <1>4 DEF Stood

LEMMA SearchMoves ==
  ASSUME Stacked, NEW t \in Threads, NEW p \in Loads, At(t, p)
  PROVE  /\ \A q : Goto(t, q) => \E z : /\ stack' = [stack EXCEPT ![t] = z]
                                        /\ Onward(reportCall[t], p, q, stack[t], z)
         /\ ReportReturn(t) => \E z : /\ stack' = [stack EXCEPT ![t] = z]
                                      /\ Resumed(reportCall[t], p, stack[t], z)
<1>1. Stood(stack[t], reportCall[t], p)
  BY Here
<1>2. ASSUME NEW q, Goto(t, q)
      PROVE  \E z : stack' = [stack EXCEPT ![t] = z] /\ Onward(reportCall[t], p, q, stack[t], z)
  <2>1. Onward(reportCall[t], p, q, stack[t], <<q>> \o Tail(stack[t]))
    BY <1>1, SearchGoes
  <2>2. stack' = [stack EXCEPT ![t] = <<q>> \o Tail(stack[t])]
    BY <1>2 DEF Goto
  <2> QED BY <2>1, <2>2
<1>3. ASSUME ReportReturn(t)
      PROVE  \E z : stack' = [stack EXCEPT ![t] = z] /\ Resumed(reportCall[t], p, stack[t], z)
  <2>1. Resumed(reportCall[t], p, stack[t], Tail(stack[t]))
    BY <1>1, SearchGoes
  <2>2. stack' = [stack EXCEPT ![t] = Tail(stack[t])]
    BY <1>3 DEF ReportReturn
  <2> QED BY <2>1, <2>2
<1> QED BY <1>2, <1>3

\* Both stay among the stacks of the call, and how deep they hold the lock is
\* told by the place alone.
LEMMA OnwardDepth ==
  ASSUME NEW c, NEW s, NEW z, NEW p \in Loads, NEW q \in Loads, Onward(c, p, q, s, z)
  PROVE  /\ z \in Stacks(c) /\ z # << >> /\ Head(z) = q
         /\ Depth(z) - (IF q = "lines" THEN 1 ELSE 0) = Depth(s) - (IF p = "lines" THEN 1 ELSE 0)
<1>1. CASE c \in {"search", "load", "ask"} /\ s = <<p>> /\ z = <<q>>
  <2>1. /\ Depth(<<p>>) = IF p = "lines" THEN 1 ELSE 0
        /\ Depth(<<q>>) = IF q = "lines" THEN 1 ELSE 0
    BY Depths DEF Loads
  <2>2. <<q>> \in Stacks(c)
    BY <1>1 DEF Stacks
  <2>3. <<q>> # << >> /\ Head(<<q>>) = q
    BY OnePlace
  <2> QED BY <1>1, <2>1, <2>2, <2>3
<1>2. CASE c \in Latched /\ s = <<p, "heard", c>> /\ z = <<q, "heard", c>>
  <2>1. /\ Depth(<<p, "heard", c>>) = IF p = "lines" THEN 1 ELSE 0
        /\ Depth(<<q, "heard", c>>) = IF q = "lines" THEN 1 ELSE 0
    BY Depths DEF Loads
  <2>2. <<q, "heard", c>> \in Stacks(c)
    BY <1>2 DEF Stacks
  <2>3. <<q, "heard", c>> # << >> /\ Head(<<q, "heard", c>>) = q
    BY ThreePlaces
  <2> QED BY <1>2, <2>1, <2>2, <2>3
<1>3. CASE c = "display" /\ s = <<p, "log">> /\ z = <<q, "log">>
  <2>1. /\ Depth(<<p, "log">>) = IF p = "lines" THEN 1 ELSE 0
        /\ Depth(<<q, "log">>) = IF q = "lines" THEN 1 ELSE 0
    BY Depths DEF Loads
  <2>2. <<q, "log">> \in Stacks(c)
    BY <1>3 DEF Stacks
  <2>3. <<q, "log">> # << >> /\ Head(<<q, "log">>) = q
    BY TwoPlaces
  <2> QED BY <1>3, <2>1, <2>2, <2>3
<1>4. CASE c \in {"set log", "no log"} /\ s = <<p, "set">> /\ z = <<q, "set">>
  <2>1. /\ Depth(<<p, "set">>) = 1 + (IF p = "lines" THEN 1 ELSE 0)
        /\ Depth(<<q, "set">>) = 1 + (IF q = "lines" THEN 1 ELSE 0)
    BY Depths DEF Loads
  <2>2. <<q, "set">> \in Stacks(c)
    BY <1>4 DEF Stacks
  <2>3. <<q, "set">> # << >> /\ Head(<<q, "set">>) = q
    BY TwoPlaces
  <2>4. /\ Depth(s) = 1 + (IF p = "lines" THEN 1 ELSE 0)
        /\ Depth(z) = 1 + (IF q = "lines" THEN 1 ELSE 0)
    BY <1>4, <2>1
  <2>5. z \in Stacks(c) /\ z # << >> /\ Head(z) = q
    BY <1>4, <2>2, <2>3
  <2> QED BY <2>4, <2>5
<1> QED BY <1>1, <1>2, <1>3, <1>4 DEF Onward

LEMMA ResumedDepth ==
  ASSUME NEW c, NEW s, NEW z, NEW p \in Loads, Resumed(c, p, s, z)
  PROVE  z \in Stacks(c) /\ Depth(s) = Depth(z) + (IF p = "lines" THEN 1 ELSE 0)
<1>1. CASE c \in {"search", "load", "ask"} /\ s = <<p>> /\ z = << >>
  <2>1. Depth(<<p>>) = (IF p = "lines" THEN 1 ELSE 0) /\ Depth(<< >>) = 0
    BY Depths DEF Loads
  <2>2. << >> \in Stacks(c)
    BY <1>1 DEF Stacks
  <2> QED BY <1>1, <2>1, <2>2
<1>2. CASE c \in Latched /\ s = <<p, "heard", c>> /\ z = <<"heard", c>>
  <2>1. Depth(<<p, "heard", c>>) = (IF p = "lines" THEN 1 ELSE 0) /\ Depth(<<"heard", c>>) = 0
    BY Depths DEF Loads
  <2>2. <<"heard", c>> \in Stacks(c)
    BY <1>2 DEF Stacks
  <2> QED BY <1>2, <2>1, <2>2
<1>3. CASE c = "display" /\ s = <<p, "log">> /\ z = <<"log">>
  <2>1. Depth(<<p, "log">>) = (IF p = "lines" THEN 1 ELSE 0) /\ Depth(<<"log">>) = 0
    BY Depths DEF Loads
  <2>2. <<"log">> \in Stacks(c)
    BY <1>3 DEF Stacks
  <2> QED BY <1>3, <2>1, <2>2
<1>4. CASE c \in {"set log", "no log"} /\ s = <<p, "set">> /\ z = <<"set">>
  <2>1. Depth(<<p, "set">>) = 1 + (IF p = "lines" THEN 1 ELSE 0) /\ Depth(<<"set">>) = 1
    BY Depths DEF Loads
  <2>2. <<"set">> \in Stacks(c)
    BY <1>4 DEF Stacks
  <2> QED BY <1>4, <2>1, <2>2
<1> QED BY <1>1, <1>2, <1>3, <1>4 DEF Resumed

LEMMA Shallow ==
  ASSUME NEW c \in Latched
  PROVE  /\ \A p \in {"latch", "seed", "heard", "answer"} : Depth(<<p, c>>) = 0
         /\ Depth(<<c>>) = 0 /\ Depth(<<"ensure", "heard", c>>) = 0
<1>1. c \notin {"lines", "write", "set"}
  BY DEF Latched
<1>2. ASSUME NEW p \in {"latch", "seed", "heard", "answer"} PROVE Depth(<<p, c>>) = 0
  <2>1. p \notin {"lines", "write"}
    OBVIOUS
  <2> QED BY <1>1, <2>1, Depths
<1>3. Depth(<<c>>) = 0
  BY <1>1, Depths
<1>4. Depth(<<"ensure", "heard", c>>) = 0
  <2>1. PICK a, b : a = "ensure" /\ b = "heard"
    OBVIOUS
  <2>2. Depth(<<a, b, c>>) = 0
    BY <2>1, Depths
  <2> QED BY <2>1, <2>2
<1> QED BY <1>2, <1>3, <1>4

LEMMA StepWalks ==
  ASSUME Stacked, NEW t \in Threads, Step(t)
  PROVE  StackMoves(t) /\ reportCall' = reportCall
<1>1. reportCall' = reportCall
  BY DEF Step, ReadLatch, Seed, Heard, AnswerLatch, ForceTextOutput, Ensure, LoadConfigFile,
         ApplyLine, Loaded, HoldForLog, SetLogFile, SetTextSink, Uses, Display, LogNamed,
         Assemble, WriteLog, Fallback, local
<1> SUFFICES StackMoves(t)
  BY <1>1
<1>2. PICK c : c = reportCall[t]
  OBVIOUS
<1>3. ASSUME NEW z \in Stacks(c), stack' = [stack EXCEPT ![t] = z], LockMove(t, z)
      PROVE  StackMoves(t)
  BY <1>2, <1>3 DEF StackMoves
<1>4. /\ Depth(<< >>) = 0
      /\ \A a : Depth(<<a>>) = IF a \in {"lines", "write", "set"} THEN 1 ELSE 0
      /\ \A a, b : a \notin {"lines", "write"} /\ b # "set" => Depth(<<a, b>>) = 0
      /\ \A a, b, d : a \notin {"lines", "write"} => Depth(<<a, b, d>>) = 0
  BY Depths
<1>5. CASE ReadLatch(t)
  <2>1. At(t, "latch") /\ (Goto(t, "seed") \/ Goto(t, "answer")) /\ reportOwner' = reportOwner
    BY <1>5 DEF ReadLatch
  <2>2. stack[t] = <<"latch", c>> /\ c \in Latched
    BY <1>2, <2>1, Here DEF Stood
  <2>3. Depth(stack[t]) = 0
    <3>1. Depth(<<"latch", c>>) = 0
      BY <1>4, <2>2, Shallow
    <3> QED BY <2>2, <3>1
  <2>4. CASE Goto(t, "seed")
    <3>1. PICK z : z = <<"seed", c>>
      OBVIOUS
    <3>2. stack' = [stack EXCEPT ![t] = z]
      BY <1>2, <2>1, <2>4, <3>1, GotoMoves
    <3>3. z \in Stacks(c)
      BY <2>2, <3>1 DEF Stacks, Loads
    <3>4. Depth(z) = 0
      BY <1>4, <2>2, <3>1, Shallow
    <3>5. LockMove(t, z)
      BY <2>1, <2>3, <3>4 DEF LockMove
    <3> QED BY <1>3, <3>2, <3>3, <3>5
  <2>5. CASE Goto(t, "answer")
    <3>1. PICK z : z = <<"answer", c>>
      OBVIOUS
    <3>2. stack' = [stack EXCEPT ![t] = z]
      BY <1>2, <2>1, <2>5, <3>1, GotoMoves
    <3>3. z \in Stacks(c)
      BY <2>2, <3>1 DEF Stacks, Loads
    <3>4. Depth(z) = 0
      BY <1>4, <2>2, <3>1, Shallow
    <3>5. LockMove(t, z)
      BY <2>1, <2>3, <3>4 DEF LockMove
    <3> QED BY <1>3, <3>2, <3>3, <3>5
  <2> QED BY <2>1, <2>4, <2>5
<1>6. CASE Seed(t)
  <2>1. At(t, "seed") /\ (CallTo(t, "ensure", "heard")) /\ reportOwner' = reportOwner
    BY <1>6 DEF Seed
  <2>2. stack[t] = <<"seed", c>> /\ c \in Latched
    BY <1>2, <2>1, Here DEF Stood
  <2>3. Depth(stack[t]) = 0
    <3>1. Depth(<<"seed", c>>) = 0
      BY <1>4, <2>2, Shallow
    <3> QED BY <2>2, <3>1
  <2>4. CASE CallTo(t, "ensure", "heard")
    <3>1. PICK z : z = <<"ensure", "heard", c>>
      OBVIOUS
    <3>2. stack' = [stack EXCEPT ![t] = z]
      BY <1>2, <2>1, <2>4, <3>1, CallMoves
    <3>3. z \in Stacks(c)
      BY <2>2, <3>1 DEF Stacks, Loads
    <3>4. Depth(z) = 0
      BY <1>4, <2>2, <3>1, Shallow
    <3>5. LockMove(t, z)
      BY <2>1, <2>3, <3>4 DEF LockMove
    <3> QED BY <1>3, <3>2, <3>3, <3>5
  <2> QED BY <2>1, <2>4
<1>7. CASE Heard(t)
  <2>1. At(t, "heard") /\ (Goto(t, "answer")) /\ reportOwner' = reportOwner
    BY <1>7 DEF Heard
  <2>2. stack[t] = <<"heard", c>> /\ c \in Latched
    BY <1>2, <2>1, Here DEF Stood
  <2>3. Depth(stack[t]) = 0
    <3>1. Depth(<<"heard", c>>) = 0
      BY <1>4, <2>2, Shallow
    <3> QED BY <2>2, <3>1
  <2>4. CASE Goto(t, "answer")
    <3>1. PICK z : z = <<"answer", c>>
      OBVIOUS
    <3>2. stack' = [stack EXCEPT ![t] = z]
      BY <1>2, <2>1, <2>4, <3>1, GotoMoves
    <3>3. z \in Stacks(c)
      BY <2>2, <3>1 DEF Stacks, Loads
    <3>4. Depth(z) = 0
      BY <1>4, <2>2, <3>1, Shallow
    <3>5. LockMove(t, z)
      BY <2>1, <2>3, <3>4 DEF LockMove
    <3> QED BY <1>3, <3>2, <3>3, <3>5
  <2> QED BY <2>1, <2>4
<1>8. CASE AnswerLatch(t)
  <2>1. At(t, "answer") /\ (ReportReturn(t)) /\ reportOwner' = reportOwner
    BY <1>8 DEF AnswerLatch
  <2>2. stack[t] = <<"answer", c>> /\ c \in Latched
    BY <1>2, <2>1, Here DEF Stood
  <2>3. Depth(stack[t]) = 0
    <3>1. Depth(<<"answer", c>>) = 0
      BY <1>4, <2>2, Shallow
    <3> QED BY <2>2, <3>1
  <2>4. CASE ReportReturn(t)
    <3>1. PICK z : z = <<c>>
      OBVIOUS
    <3>2. stack' = [stack EXCEPT ![t] = z]
      BY <1>2, <2>1, <2>4, <3>1, ReturnMoves
    <3>3. z \in Stacks(c)
      BY <2>2, <3>1 DEF Stacks, Loads
    <3>4. Depth(z) = 0
      BY <1>4, <2>2, <3>1, Shallow
    <3>5. LockMove(t, z)
      BY <2>1, <2>3, <3>4 DEF LockMove
    <3> QED BY <1>3, <3>2, <3>3, <3>5
  <2> QED BY <2>1, <2>4
<1>9. CASE ForceTextOutput(t)
  <2>1. PICK p \in {"force text", "force dialog"} : At(t, p)
    BY <1>9 DEF ForceTextOutput
  <2>2. ReportReturn(t) /\ reportOwner' = reportOwner
    BY <1>9 DEF ForceTextOutput
  <2>3. stack[t] = <<p>>
    BY <2>1, Here DEF Stood, Latched
  <2>4. Depth(stack[t]) = 0 /\ << >> \in Stacks(c)
    <3>1. Depth(<<p>>) = 0
      <4>1. p \notin {"lines", "write", "set"}
        OBVIOUS
      <4> QED BY <1>4, <4>1
    <3> QED BY <2>3, <3>1 DEF Stacks
  <2>5. PICK z : z = << >>
    OBVIOUS
  <2>6. stack' = [stack EXCEPT ![t] = z]
    BY <2>1, <2>2, <2>5, ReturnMoves DEF Latched
  <2>7. LockMove(t, z)
    BY <1>4, <2>2, <2>4, <2>5 DEF LockMove
  <2> QED BY <1>3, <2>4, <2>5, <2>6, <2>7
<1>10. CASE Ensure(t)
  <2>1. At(t, "ensure") /\ "ensure" \in Loads /\ "enter" \in Loads /\ reportOwner' = reportOwner
    BY <1>10 DEF Ensure, Loads
  <2>2. CASE Goto(t, "enter")
    <3>1. PICK z : /\ stack' = [stack EXCEPT ![t] = z]
                   /\ Onward(c, "ensure", "enter", stack[t], z)
      BY <1>2, <2>1, <2>2, SearchMoves
    <3>2. z \in Stacks(c) /\ Depth(z) = Depth(stack[t])
      <4>1. PICK p \in Loads, q \in Loads : p = "ensure" /\ q = "enter"
        BY <2>1
      <4>2. Onward(c, p, q, stack[t], z)
        BY <3>1, <4>1
      <4>4. /\ z \in Stacks(c)
            /\ Depth(z) - (IF q = "lines" THEN 1 ELSE 0)
                 = Depth(stack[t]) - (IF p = "lines" THEN 1 ELSE 0)
        BY <4>2, OnwardDepth
      <4>3. Depth(z) \in 0 .. 2 /\ Depth(stack[t]) \in 0 .. 2
        BY TwoDeep
      <4> QED BY <4>1, <4>3, <4>4
    <3> QED BY <1>3, <2>1, <3>1, <3>2 DEF LockMove
  <2>3. CASE ReportReturn(t)
    <3>1. PICK z : stack' = [stack EXCEPT ![t] = z] /\ Resumed(c, "ensure", stack[t], z)
      BY <1>2, <2>1, <2>3, SearchMoves
    <3>2. z \in Stacks(c) /\ Depth(z) = Depth(stack[t])
      <4>1. PICK p \in Loads : p = "ensure"
        BY <2>1
      <4>2. z \in Stacks(c) /\ Depth(stack[t]) = Depth(z) + 0
        BY <3>1, <4>1, ResumedDepth
      <4>3. Depth(z) \in 0 .. 2 /\ Depth(stack[t]) \in 0 .. 2
        BY TwoDeep
      <4> QED BY <4>2, <4>3
    <3> QED BY <1>3, <2>1, <3>1, <3>2 DEF LockMove
  <2> QED BY <1>10, <2>2, <2>3 DEF Ensure
<1>11. CASE LoadConfigFile(t)
  <2>1. /\ At(t, "enter") /\ "enter" \in Loads /\ "lines" \in Loads
        /\ Goto(t, "lines") /\ LockFree(t) /\ reportOwner' = Entered(t)
    BY <1>11 DEF LoadConfigFile, Loads
  <2>2. PICK z : /\ stack' = [stack EXCEPT ![t] = z]
                 /\ Onward(c, "enter", "lines", stack[t], z)
    BY <1>2, <2>1, SearchMoves
  <2>3. z \in Stacks(c) /\ Depth(z) = Depth(stack[t]) + 1
    <3>1. PICK p \in Loads, q \in Loads : p = "enter" /\ q = "lines"
      BY <2>1
    <3>2. z \in Stacks(c) /\ Depth(z) - 1 = Depth(stack[t]) - 0
      BY <2>2, <3>1, OnwardDepth
    <3>3. Depth(z) \in 0 .. 2 /\ Depth(stack[t]) \in 0 .. 2
      BY TwoDeep
    <3> QED BY <3>2, <3>3
  <2> QED BY <1>3, <2>1, <2>2, <2>3 DEF LockMove
<1>12. CASE ApplyLine(t)
  <2>1. stack' = stack /\ reportOwner' = reportOwner /\ stack[t] \in Stacks(c)
    BY <1>2, <1>12 DEF ApplyLine, Stacked
  <2>2. stack' = [stack EXCEPT ![t] = stack[t]]
    BY <2>1 DEF Stacked
  <2> QED BY <1>3, <2>1, <2>2 DEF LockMove
<1>13. CASE Loaded(t)
  <2>1. At(t, "lines") /\ "lines" \in Loads /\ ReportReturn(t) /\ reportOwner' = Left
    BY <1>13 DEF Loaded, Loads
  <2>2. PICK z : stack' = [stack EXCEPT ![t] = z] /\ Resumed(c, "lines", stack[t], z)
    BY <1>2, <2>1, SearchMoves
  <2>3. z \in Stacks(c) /\ Depth(stack[t]) = Depth(z) + 1
    <3>1. PICK p \in Loads : p = "lines"
      BY <2>1
    <3> QED BY <2>2, <3>1, ResumedDepth
  <2> QED BY <1>3, <2>1, <2>2, <2>3 DEF LockMove
<1>14. CASE HoldForLog(t)
  <2>1. At(t, "hold") /\ (CallTo(t, "ensure", "set")) /\ LockFree(t) /\ reportOwner' = Entered(t)
    BY <1>14 DEF HoldForLog
  <2>2. stack[t] = <<"hold">> /\ c \in {"set log", "no log"}
    BY <1>2, <2>1, Here DEF Stood, Latched
  <2>3. Depth(stack[t]) = 0
    <3>1. Depth(<<"hold">>) = 0
      BY <1>4, <2>2
    <3> QED BY <2>2, <3>1
  <2>4. CASE CallTo(t, "ensure", "set")
    <3>1. PICK z : z = <<"ensure", "set">>
      OBVIOUS
    <3>2. stack' = [stack EXCEPT ![t] = z]
      BY <1>2, <2>1, <2>4, <3>1, CallMoves
    <3>3. z \in Stacks(c)
      BY <2>2, <3>1 DEF Stacks, Loads, Latched
    <3>4. Depth(z) = 1
      BY <3>1, Depths DEF Loads
    <3>5. LockMove(t, z)
      BY <2>1, <2>3, <3>4 DEF LockMove
    <3> QED BY <1>3, <3>2, <3>3, <3>5
  <2> QED BY <2>1, <2>4
<1>15. CASE SetLogFile(t)
  <2>1. At(t, "set") /\ (ReportReturn(t)) /\ reportOwner' = Left
    BY <1>15 DEF SetLogFile
  <2>2. stack[t] = <<"set">> /\ c \in {"set log", "no log"}
    BY <1>2, <2>1, Here DEF Stood, Latched
  <2>3. Depth(stack[t]) = 1
    <3>1. Depth(<<"set">>) = 1
      BY <1>4, <2>2
    <3> QED BY <2>2, <3>1
  <2>4. CASE ReportReturn(t)
    <3>1. PICK z : z = << >>
      OBVIOUS
    <3>2. stack' = [stack EXCEPT ![t] = z]
      BY <1>2, <2>1, <2>4, <3>1, ReturnMoves
    <3>3. z \in Stacks(c)
      BY <2>2, <3>1 DEF Stacks, Loads, Latched
    <3>4. Depth(z) = 0
      BY <1>4, <2>2, <3>1
    <3>5. LockMove(t, z)
      BY <2>1, <2>3, <3>4 DEF LockMove
    <3> QED BY <1>3, <3>2, <3>3, <3>5
  <2> QED BY <2>1, <2>4
<1>16. CASE SetTextSink(t)
  <2>1. At(t, "sink") /\ (ReportReturn(t)) /\ reportOwner' = reportOwner
    BY <1>16 DEF SetTextSink
  <2>2. stack[t] = <<"sink">> /\ c = "sink"
    BY <1>2, <2>1, Here DEF Stood, Latched
  <2>3. Depth(stack[t]) = 0
    <3>1. Depth(<<"sink">>) = 0
      BY <1>4, <2>2
    <3> QED BY <2>2, <3>1
  <2>4. CASE ReportReturn(t)
    <3>1. PICK z : z = << >>
      OBVIOUS
    <3>2. stack' = [stack EXCEPT ![t] = z]
      BY <1>2, <2>1, <2>4, <3>1, ReturnMoves
    <3>3. z \in Stacks(c)
      BY <2>2, <3>1 DEF Stacks, Loads, Latched
    <3>4. Depth(z) = 0
      BY <1>4, <2>2, <3>1
    <3>5. LockMove(t, z)
      BY <2>1, <2>3, <3>4 DEF LockMove
    <3> QED BY <1>3, <3>2, <3>3, <3>5
  <2> QED BY <2>1, <2>4
<1>17. CASE Uses(t)
  <2>1. At(t, "uses") /\ (ReportReturn(t)) /\ reportOwner' = reportOwner
    BY <1>17 DEF Uses
  <2>2. stack[t] = <<"uses">> /\ c = "uses"
    BY <1>2, <2>1, Here DEF Stood, Latched
  <2>3. Depth(stack[t]) = 0
    <3>1. Depth(<<"uses">>) = 0
      BY <1>4, <2>2
    <3> QED BY <2>2, <3>1
  <2>4. CASE ReportReturn(t)
    <3>1. PICK z : z = << >>
      OBVIOUS
    <3>2. stack' = [stack EXCEPT ![t] = z]
      BY <1>2, <2>1, <2>4, <3>1, ReturnMoves DEF Latched
    <3>3. z \in Stacks(c)
      BY <2>2, <3>1 DEF Stacks, Loads, Latched
    <3>4. Depth(z) = 0
      BY <1>4, <2>2, <3>1
    <3>5. LockMove(t, z)
      BY <2>1, <2>3, <3>4 DEF LockMove
    <3> QED BY <1>3, <3>2, <3>3, <3>5
  <2> QED BY <2>1, <2>4
<1>18. CASE Display(t)
  <2>1. At(t, "display") /\ (ReportReturn(t) \/ CallTo(t, "ensure", "log")) /\ reportOwner' = reportOwner
    BY <1>18 DEF Display
  <2>2. stack[t] = <<"display">> /\ c = "display"
    BY <1>2, <2>1, Here DEF Stood, Latched
  <2>3. Depth(stack[t]) = 0
    <3>1. Depth(<<"display">>) = 0
      BY <1>4, <2>2
    <3> QED BY <2>2, <3>1
  <2>4. CASE ReportReturn(t)
    <3>1. PICK z : z = << >>
      OBVIOUS
    <3>2. stack' = [stack EXCEPT ![t] = z]
      BY <1>2, <2>1, <2>4, <3>1, ReturnMoves DEF Latched
    <3>3. z \in Stacks(c)
      BY <2>2, <3>1 DEF Stacks, Loads, Latched
    <3>4. Depth(z) = 0
      BY <1>4, <2>2, <3>1
    <3>5. LockMove(t, z)
      BY <2>1, <2>3, <3>4 DEF LockMove
    <3> QED BY <1>3, <3>2, <3>3, <3>5
  <2>5. CASE CallTo(t, "ensure", "log")
    <3>1. PICK z : z = <<"ensure", "log">>
      OBVIOUS
    <3>2. stack' = [stack EXCEPT ![t] = z]
      BY <1>2, <2>1, <2>5, <3>1, CallMoves
    <3>3. z \in Stacks(c)
      BY <2>2, <3>1 DEF Stacks, Loads, Latched
    <3>4. Depth(z) = 0
      BY <1>4, <2>2, <3>1
    <3>5. LockMove(t, z)
      BY <2>1, <2>3, <3>4 DEF LockMove
    <3> QED BY <1>3, <3>2, <3>3, <3>5
  <2> QED BY <2>1, <2>4, <2>5
<1>19. CASE LogNamed(t)
  <2>1. At(t, "log") /\ (Goto(t, "fallback") \/ Goto(t, "assemble")) /\ reportOwner' = reportOwner
    BY <1>19 DEF LogNamed
  <2>2. stack[t] = <<"log">> /\ c = "display"
    BY <1>2, <2>1, Here DEF Stood, Latched
  <2>3. Depth(stack[t]) = 0
    <3>1. Depth(<<"log">>) = 0
      BY <1>4, <2>2
    <3> QED BY <2>2, <3>1
  <2>4. CASE Goto(t, "fallback")
    <3>1. PICK z : z = <<"fallback">>
      OBVIOUS
    <3>2. stack' = [stack EXCEPT ![t] = z]
      BY <1>2, <2>1, <2>4, <3>1, GotoMoves
    <3>3. z \in Stacks(c)
      BY <2>2, <3>1 DEF Stacks, Loads, Latched
    <3>4. Depth(z) = 0
      BY <1>4, <2>2, <3>1
    <3>5. LockMove(t, z)
      BY <2>1, <2>3, <3>4 DEF LockMove
    <3> QED BY <1>3, <3>2, <3>3, <3>5
  <2>5. CASE Goto(t, "assemble")
    <3>1. PICK z : z = <<"assemble">>
      OBVIOUS
    <3>2. stack' = [stack EXCEPT ![t] = z]
      BY <1>2, <2>1, <2>5, <3>1, GotoMoves
    <3>3. z \in Stacks(c)
      BY <2>2, <3>1 DEF Stacks, Loads, Latched
    <3>4. Depth(z) = 0
      BY <1>4, <2>2, <3>1
    <3>5. LockMove(t, z)
      BY <2>1, <2>3, <3>4 DEF LockMove
    <3> QED BY <1>3, <3>2, <3>3, <3>5
  <2> QED BY <2>1, <2>4, <2>5
<1>20. CASE Assemble(t)
  <2>1. At(t, "assemble") /\ (Goto(t, "write")) /\ LockFree(t) /\ reportOwner' = Entered(t)
    BY <1>20 DEF Assemble
  <2>2. stack[t] = <<"assemble">> /\ c = "display"
    BY <1>2, <2>1, Here DEF Stood, Latched
  <2>3. Depth(stack[t]) = 0
    <3>1. Depth(<<"assemble">>) = 0
      BY <1>4, <2>2
    <3> QED BY <2>2, <3>1
  <2>4. CASE Goto(t, "write")
    <3>1. PICK z : z = <<"write">>
      OBVIOUS
    <3>2. stack' = [stack EXCEPT ![t] = z]
      BY <1>2, <2>1, <2>4, <3>1, GotoMoves
    <3>3. z \in Stacks(c)
      BY <2>2, <3>1 DEF Stacks, Loads, Latched
    <3>4. Depth(z) = 1
      BY <1>4, <2>2, <3>1
    <3>5. LockMove(t, z)
      BY <2>1, <2>3, <3>4 DEF LockMove
    <3> QED BY <1>3, <3>2, <3>3, <3>5
  <2> QED BY <2>1, <2>4
<1>21. CASE WriteLog(t)
  <2>1. At(t, "write") /\ (ReportReturn(t) \/ Goto(t, "fallback")) /\ reportOwner' = Left
    BY <1>21 DEF WriteLog
  <2>2. stack[t] = <<"write">> /\ c = "display"
    BY <1>2, <2>1, Here DEF Stood, Latched
  <2>3. Depth(stack[t]) = 1
    <3>1. Depth(<<"write">>) = 1
      BY <1>4, <2>2
    <3> QED BY <2>2, <3>1
  <2>4. CASE ReportReturn(t)
    <3>1. PICK z : z = << >>
      OBVIOUS
    <3>2. stack' = [stack EXCEPT ![t] = z]
      BY <1>2, <2>1, <2>4, <3>1, ReturnMoves
    <3>3. z \in Stacks(c)
      BY <2>2, <3>1 DEF Stacks, Loads, Latched
    <3>4. Depth(z) = 0
      BY <1>4, <2>2, <3>1
    <3>5. LockMove(t, z)
      BY <2>1, <2>3, <3>4 DEF LockMove
    <3> QED BY <1>3, <3>2, <3>3, <3>5
  <2>5. CASE Goto(t, "fallback")
    <3>1. PICK z : z = <<"fallback">>
      OBVIOUS
    <3>2. stack' = [stack EXCEPT ![t] = z]
      BY <1>2, <2>1, <2>5, <3>1, GotoMoves
    <3>3. z \in Stacks(c)
      BY <2>2, <3>1 DEF Stacks, Loads, Latched
    <3>4. Depth(z) = 0
      BY <1>4, <2>2, <3>1
    <3>5. LockMove(t, z)
      BY <2>1, <2>3, <3>4 DEF LockMove
    <3> QED BY <1>3, <3>2, <3>3, <3>5
  <2> QED BY <2>1, <2>4, <2>5
<1>22. CASE Fallback(t)
  <2>1. At(t, "fallback") /\ (ReportReturn(t)) /\ reportOwner' = reportOwner
    BY <1>22 DEF Fallback
  <2>2. stack[t] = <<"fallback">> /\ c = "display"
    BY <1>2, <2>1, Here DEF Stood, Latched
  <2>3. Depth(stack[t]) = 0
    <3>1. Depth(<<"fallback">>) = 0
      BY <1>4, <2>2
    <3> QED BY <2>2, <3>1
  <2>4. CASE ReportReturn(t)
    <3>1. PICK z : z = << >>
      OBVIOUS
    <3>2. stack' = [stack EXCEPT ![t] = z]
      BY <1>2, <2>1, <2>4, <3>1, ReturnMoves
    <3>3. z \in Stacks(c)
      BY <2>2, <3>1 DEF Stacks, Loads, Latched
    <3>4. Depth(z) = 0
      BY <1>4, <2>2, <3>1
    <3>5. LockMove(t, z)
      BY <2>1, <2>3, <3>4 DEF LockMove
    <3> QED BY <1>3, <3>2, <3>3, <3>5
  <2> QED BY <2>1, <2>4
<1> QED BY <1>1, <1>5, <1>6, <1>7, <1>8, <1>9, <1>10, <1>11, <1>12,
         <1>13, <1>14, <1>15, <1>16, <1>17, <1>18, <1>19, <1>20, <1>21, <1>22 DEF Step

-----------------------------------------------------------------------------
(* The control of every thread, and the types of what they share *)

LEMMA ControlInit == ReportInit => Control
<1> SUFFICES ASSUME ReportInit PROVE Control
  OBVIOUS
<1>1. ReportCore
  <2>1. MaxCalls \in 0 .. MaxCalls
    BY ReportAssumption
  <2>2. ret \in [Threads -> BOOLEAN] /\ left \in [Threads -> 0 .. MaxCalls]
    BY <2>1 DEF ReportInit
  <2> QED BY <2>2 DEF ReportInit, ReportCore, Paths
<1>2. ReadingTyped
  <2>1. << >> \in Seq(Settings)
    OBVIOUS
  <2> QED BY <2>1 DEF ReportInit, ReadingTyped
<1>3. Stacked
  BY DEF ReportInit, Stacked, Stacks
<1>4. LockCounted
  BY Depths, ReportAssumption DEF ReportInit, LockCounted
<1> QED BY <1>1, <1>2, <1>3, <1>4 DEF Control

LEMMA FirstStacks ==
  ASSUME NEW c \in CallNames
  PROVE  ReportFirst(c) \in Stacks(c) /\ Depth(ReportFirst(c)) = 0
<1>1. CASE c \in Latched
  <2>1. ReportFirst(c) = <<"latch", c>>
    BY <1>1 DEF ReportFirst, Latched
  <2>2. Depth(<<"latch", c>>) = 0
    BY <1>1, Shallow
  <2> QED BY <1>1, <2>1, <2>2 DEF Stacks
<1>2. CASE c \in {"search", "load"}
  <2>1. ReportFirst(c) = <<"enter">>
    BY <1>2 DEF ReportFirst
  <2>2. Depth(<<"enter">>) = 0
    BY Depths
  <2> QED BY <1>2, <2>1, <2>2 DEF Stacks, Loads
<1>3. CASE c \in {"set log", "no log"}
  <2>1. ReportFirst(c) = <<"hold">>
    BY <1>3 DEF ReportFirst
  <2>2. Depth(<<"hold">>) = 0
    BY Depths
  <2> QED BY <1>3, <2>1, <2>2 DEF Stacks, Loads
<1>4. CASE c = "ask"
  <2>1. ReportFirst(c) = <<"ensure">>
    BY <1>4 DEF ReportFirst
  <2>2. Depth(<<"ensure">>) = 0
    BY Depths
  <2> QED BY <1>4, <2>1, <2>2 DEF Stacks, Loads
<1>5. CASE c = "sink"
  <2>1. ReportFirst(c) = <<"sink">>
    BY <1>5 DEF ReportFirst
  <2>2. Depth(<<"sink">>) = 0
    BY Depths
  <2> QED BY <1>5, <2>1, <2>2 DEF Stacks, Loads
<1> QED BY <1>1, <1>2, <1>3, <1>4, <1>5 DEF CallNames, Latched

LEMMA StackControl ==
  ASSUME Stacked, LockCounted, NEW t \in Threads, Start(t) \/ Step(t)
  PROVE  Stacked' /\ LockCounted'
<1>1. CASE Start(t)
  <2>1. PICK c \in ReportCalls : /\ reportCall' = [reportCall EXCEPT ![t] = c]
                                 /\ stack' = [stack EXCEPT ![t] = ReportFirst(c)]
    BY <1>1 DEF Start
  <2>2. c \in CallNames
    BY ReportAssumption
  <2>3. PICK s : s = ReportFirst(c)
    OBVIOUS
  <2>4. s \in Stacks(c) /\ Depth(s) = 0 /\ stack' = [stack EXCEPT ![t] = s]
    BY <2>1, <2>2, <2>3, FirstStacks
  <2>5. Stacked'
    BY <2>1, <2>2, <2>4 DEF Stacked
  <2>6. reportOwner' = reportOwner /\ Depth(s) = Depth(stack[t])
    <3>1. stack[t] = << >> /\ reportOwner' = reportOwner
      BY <1>1 DEF Start, ReportIdle
    <3>2. Depth(<< >>) = 0
      BY Depths
    <3> QED BY <2>4, <3>1, <3>2
  <2>7. LockCounted'
    <3>1. PICK D : stack \in [Threads -> D]
      BY DEF Stacked
    <3> QED BY <2>4, <2>6, <3>1, LockMoves
  <2> QED BY <2>5, <2>7
<1>2. CASE Step(t)
  <2>1. StackMoves(t) /\ reportCall' = reportCall
    BY <1>2, StepWalks
  <2>2. PICK s \in Stacks(reportCall[t]) : stack' = [stack EXCEPT ![t] = s] /\ LockMove(t, s)
    BY <2>1 DEF StackMoves
  <2>3. Stacked'
    BY <2>1, <2>2 DEF Stacked
  <2>4. LockCounted'
    <3>1. PICK D : stack \in [Threads -> D]
      BY DEF Stacked
    <3> QED BY <2>2, <3>1, LockMoves DEF LockMove
  <2> QED BY <2>3, <2>4
<1> QED BY <1>1, <1>2

\* The lines a file holds.
LEMMA ListsTyped ==
  ASSUME NEW S, NEW a \in S, NEW b \in S
  PROVE  <<a>> \in Seq(S) /\ <<a, b>> \in Seq(S)
<1>1. <<a>> \in Seq(S)
  OBVIOUS
<1>2. <<a, b>> \in Seq(S)
  OBVIOUS
<1> QED BY <1>1, <1>2

LEMMA LinesTyped == \A content \in ContentNames : Lines(content) \in Seq(Settings)
<1>1. PICK S : S = Settings
  OBVIOUS
<1>2. PICK off, on, maybe, log, other :
          /\ off = "dialog off" /\ on = "dialog on" /\ maybe = "dialog maybe"
          /\ log = "log" /\ other = "other"
  OBVIOUS
<1>3. off \in S /\ on \in S /\ maybe \in S /\ log \in S /\ other \in S
  BY <1>1, <1>2 DEF Settings
<1>4. <<off>> \in Seq(S) /\ <<off, log>> \in Seq(S) /\ <<on, log>> \in Seq(S) /\ <<maybe, other>> \in Seq(S)
  BY <1>3, ListsTyped
<1>5. << >> \in Seq(S)
  OBVIOUS
<1> QED BY <1>1, <1>2, <1>4, <1>5 DEF Lines, ContentNames

LEMMA FoundTyped ==
  ASSUME NEW asked \in Files \cup {None} PROVE Found(asked) \in Existing \cup {None}
<1>1. Existing # {} => (CHOOSE f \in Existing : TRUE) \in Existing
  OBVIOUS
<1> QED BY <1>1 DEF Found

LEMMA CoreControl ==
  ASSUME Control, NEW t \in Threads, Start(t) \/ Step(t)
  PROVE  ReportCore' /\ ReadingTyped'
<1> USE DEF Control
<1>1. None \notin Files /\ None \notin {0, 1} /\ << >> \in Seq(Settings)
  BY ReportAssumption
<1>2. CASE Start(t)
  <2>1. left' = [left EXCEPT ![t] = left[t] - 1] /\ left[t] > 0 /\ left[t] \in 0 .. MaxCalls
    BY <1>2 DEF Start, ReportCore
  <2>2. ReportCore'
    BY <1>2, <2>1, ReportAssumption DEF Start, ReportCore, config, past
  <2>3. PICK f \in Files \cup {None} :
          reading' = [reading EXCEPT ![t] = [file |-> f, lines |-> << >>, log |-> FALSE]]
    BY <1>2 DEF Start
  <2>4. ReadingTyped'
    BY <1>1, <2>3 DEF ReadingTyped
  <2> QED BY <2>2, <2>4
<1>3. CASE LoadConfigFile(t)
  <2>1. PICK f : f = Found(reading[t].file)
    OBVIOUS
  <2>2. f \in Existing \cup {None} /\ Existing \subseteq Files
    BY <2>1, FoundTyped DEF ReadingTyped, Existing
  <2>3. f # None => reportDisk[f] \in ContentNames /\ Lines(reportDisk[f]) \in Seq(Settings)
    BY <2>2, LinesTyped, ReportAssumption DEF ReportCore
  <2>4. /\ cfgPath' \in {f, None} /\ note' \subseteq note \cup {"unopened", "foreign"}
        /\ loaded' = TRUE /\ textOnly' = FALSE /\ logPath' = None /\ named' \in {None, named}
        /\ UNCHANGED <<settled, reportDisk, latch, noted, textSink, ret, left, forced, invited>>
    BY <1>3, <2>1 DEF LoadConfigFile, P2PcfgNote, Forgotten
  <2>5. ReportCore'
    BY <2>2, <2>4 DEF ReportCore, Paths
  <2>6. PICK ls \in Seq(Settings) :
          /\ reading' = [reading EXCEPT ![t] = [file |-> f, log |-> FALSE, lines |-> ls]]
          /\ f = None => ls = << >>
    BY <1>1, <1>3, <2>1, <2>3 DEF LoadConfigFile
  <2>7. f \in Files \cup {None}
    BY <2>2
  <2>8. ReadingTyped'
    BY <2>6, <2>7 DEF ReadingTyped
  <2> QED BY <2>5, <2>8
<1>4. CASE ApplyLine(t)
  <2>1. PICK line : line = Head(reading[t].lines)
    OBVIOUS
  <2>2. reading[t].file \in Files /\ reading[t].lines \in Seq(Settings) /\ reading[t].lines # << >>
    BY <1>4 DEF ApplyLine, ReadingTyped
  <2>3. /\ textOnly' \in BOOLEAN
        /\ logPath' \in {logPath, Resolve(reading[t].file, "LogFile")}
        /\ note' \subseteq note \cup {"line"}
    BY <1>4, <2>1 DEF ApplyLine, P2PcfgNote
  <2>4. UNCHANGED <<reportDisk, latch, loaded, cfgPath, noted, textSink, ret, left, forced, invited, named>>
    BY <1>4 DEF ApplyLine, past
  <2>5. Resolve(reading[t].file, "LogFile") \in Paths
    BY <2>2 DEF Resolve, Paths, LogNames
  <2>6. ReportCore'
    BY <2>3, <2>4, <2>5 DEF ReportCore
  <2>7. PICK b \in BOOLEAN : reading' = [reading EXCEPT ![t].lines = Tail(reading[t].lines), ![t].log = b]
    <3>1. reading[t].log \in BOOLEAN
      BY DEF ReadingTyped
    <3>2. reading' = [reading EXCEPT ![t].lines = Tail(reading[t].lines),
                                     ![t].log = reading[t].log \/ line = "log"]
      BY <1>4, <2>1 DEF ApplyLine, ReadingTyped
    <3> QED BY <3>1, <3>2
  <2>8. Tail(reading[t].lines) \in Seq(Settings)
    <3>1. PICK S, ls : S = Settings /\ ls = reading[t].lines
      OBVIOUS
    <3>2. ls \in Seq(S) /\ ls # << >>
      BY <2>2, <3>1
    <3>3. Tail(ls) \in Seq(S)
      BY ONLY <3>2
    <3> QED BY <3>1, <3>3
  <2>9. ReadingTyped'
    BY <2>2, <2>7, <2>8 DEF ReadingTyped
  <2> QED BY <2>6, <2>9
<1>5. CASE Loaded(t)
  <2>1. /\ UNCHANGED <<reportDisk, loaded, textOnly, cfgPath, note, noted, textSink, ret, left, forced, invited, named>>
        /\ latch' \in {1, latch}
        /\ logPath' = logPath \/ (cfgPath # None /\ logPath' = Resolve(cfgPath, Default))
    BY <1>5 DEF Loaded, past
  <2>2. cfgPath # None => Resolve(cfgPath, Default) \in Paths
    BY DEF ReportCore, Resolve, Paths, LogNames
  <2>3. ReportCore'
    BY <2>1, <2>2 DEF ReportCore
  <2>4. reading' = [reading EXCEPT ![t] = [file |-> None, lines |-> << >>, log |-> FALSE]]
    BY <1>5 DEF Loaded
  <2>5. ReadingTyped'
    BY <1>1, <2>4 DEF ReadingTyped
  <2> QED BY <2>3, <2>5
<1>6. CASE SetLogFile(t)
  <2>1. /\ logPath' \in {FromCode, None} /\ named' = logPath'
        /\ UNCHANGED <<reportDisk, latch, loaded, textOnly, cfgPath, note, noted, textSink, ret, left, forced, invited, reading>>
    BY <1>6 DEF SetLogFile
  <2>2. ReportCore'
    BY <2>1 DEF ReportCore, Paths
  <2> QED BY <2>1, <2>2 DEF ReadingTyped
<1>7. CASE AnswerLatch(t)
  BY <1>7 DEF AnswerLatch, Answer, ReportCore, ReadingTyped, config, past
<1>8. CASE ForceTextOutput(t)
  BY <1>8 DEF ForceTextOutput, ReportCore, ReadingTyped, config, past
<1>9. CASE ReadLatch(t) \/ Heard(t) \/ Ensure(t) \/ HoldForLog(t) \/ SetTextSink(t) \/ Uses(t)
  <2>1. CASE ReadLatch(t)
    BY <2>1 DEF ReadLatch, ReportCore, ReadingTyped, config, past
  <2>2. CASE Heard(t)
    BY <2>2 DEF Heard, ReportCore, ReadingTyped, config, past
  <2>3. CASE Ensure(t)
    BY <2>3 DEF Ensure, ReportCore, ReadingTyped, config, past
  <2>4. CASE HoldForLog(t)
    BY <2>4 DEF HoldForLog, ReportCore, ReadingTyped, config, past
  <2>5. CASE SetTextSink(t)
    BY <2>5 DEF SetTextSink, ReportCore, ReadingTyped, config, past
  <2>6. CASE Uses(t)
    BY <2>6 DEF Uses, ReportCore, ReadingTyped, config, past
  <2> QED BY <1>9, <2>1, <2>2, <2>3, <2>4, <2>5, <2>6
<1>10. CASE Seed(t)
  BY <1>10, ReportAssumption DEF Seed, ReportCore, ReadingTyped, config, past
<1>11. CASE Display(t) \/ LogNamed(t) \/ Assemble(t) \/ WriteLog(t) \/ Fallback(t)
  <2>1. CASE Display(t)
    BY <2>1 DEF Display, ReportCore, ReadingTyped, config, past
  <2>2. CASE LogNamed(t)
    BY <2>2 DEF LogNamed, ReportCore, ReadingTyped, config, past
  <2>3. CASE Assemble(t)
    BY <2>3 DEF Assemble, ReportCore, ReadingTyped, config, past
  <2>4. CASE WriteLog(t)
    BY <2>4 DEF WriteLog, ReportCore, ReadingTyped, config, past
  <2>5. CASE Fallback(t)
    BY <2>5 DEF Fallback, ReportCore, ReadingTyped, config, past
  <2> QED BY <1>11, <2>1, <2>2, <2>3, <2>4, <2>5
<1> QED BY <1>2, <1>3, <1>4, <1>5, <1>6, <1>7, <1>8, <1>9, <1>10, <1>11 DEF Step

LEMMA ControlStep ==
  ASSUME Control, NEW t \in Threads, Start(t) \/ Step(t) PROVE Control'
BY StackControl, CoreControl DEF Control

-----------------------------------------------------------------------------
(* A diagnostic is shown once.  What is shown carries the number of a call  *)
(* already begun, so the next one starts unseen; a call that displays ends  *)
(* only in the step that shows it; and what is in the static buffer while a *)
(* thread writes it is that thread's, which has the lock.                   *)

ShowPlaces == {"dialog", "sink", "log", "stderr"}
Seen(u, p) == <<Event(u), p>> \in shown
DisplayOver(u) == ReportIdle(u) /\ reportCall[u] = "display"

Displayed ==
    /\ \A u \in Threads, k \in 0 .. MaxCalls, p \in ShowPlaces : <<<<u, k>>, p>> \in shown => k >= left[u]
    /\ \A u \in Threads : ~DisplayOver(u) => \A p \in ShowPlaces : ~Seen(u, p)
    /\ \A u \in Threads : DisplayOver(u) => \E p \in ShowPlaces : \A q \in ShowPlaces : Seen(u, q) <=> q = p
    /\ \A u \in Threads : At(u, "write") => buffer.of = Event(u)

LEMMA DisplayedOnce == Displayed => ShownOnce
<1> SUFFICES ASSUME Displayed, NEW t \in Threads
             PROVE  Cardinality({p \in ShowPlaces : Seen(t, p)}) = IF DisplayOver(t) THEN 1 ELSE 0
  BY DEF ShownOnce, ShowPlaces, Seen, DisplayOver
<1>1. CASE DisplayOver(t)
  <2>1. PICK p \in ShowPlaces : \A q \in ShowPlaces : Seen(t, q) <=> q = p
    BY <1>1 DEF Displayed
  <2>2. {q \in ShowPlaces : Seen(t, q)} = {p}
    BY <2>1
  <2>3. Cardinality({p}) = 1
    BY FS_Singleton
  <2> QED BY <1>1, <2>2, <2>3
<1>2. CASE ~DisplayOver(t)
  <2>1. {q \in ShowPlaces : Seen(t, q)} = {}
    BY <1>2 DEF Displayed
  <2>2. Cardinality({}) = 0
    BY FS_EmptySet
  <2> QED BY <1>2, <2>1, <2>2
<1> QED BY <1>1, <1>2

\* Who is at one of these places is inside the lock.
LEMMA HoldsLock ==
  ASSUME Stacked, LockCounted, NEW t \in Threads, NEW p \in {"lines", "write", "set"}, At(t, p)
  PROVE  reportOwner.by = t
<1>1. Depth(stack[t]) > 0
  <2>1. CASE p \in {"lines", "write"}
    <3>1. stack[t] # << >> /\ Head(stack[t]) \in {"lines", "write"}
      BY <2>1 DEF At
    <3> QED BY <3>1 DEF Depth
  <2>2. CASE p = "set"
    <3>1. stack[t] = <<"set">>
      BY <2>2, Here DEF Stood
    <3>2. Depth(<<"set">>) = 1
      BY Depths
    <3> QED BY <3>1, <3>2
  <2> QED BY <2>1, <2>2
<1> QED BY <1>1 DEF LockCounted

\* The steps that show nothing: the thread is in its call, and if that is a
\* display it stays in it; only Assemble leads to the write.
LEMMA Unseen ==
  ASSUME Stacked, NEW t \in Threads, Step(t), ~Display(t), ~WriteLog(t), ~Fallback(t)
  PROVE  /\ shown' = shown /\ left' = left
         /\ stack[t] # << >> /\ (reportCall[t] = "display" => stack'[t] # << >>)
         /\ ~Assemble(t) => buffer' = buffer /\ ~At(t, "write")'
<1>1. shown' = shown /\ left' = left /\ (~Assemble(t) => buffer' = buffer)
  BY DEF Step, ReadLatch, Seed, Heard, AnswerLatch, ForceTextOutput, Ensure, LoadConfigFile,
         ApplyLine, Loaded, HoldForLog, SetLogFile, SetTextSink, Uses, LogNamed, Assemble, past
<1>2. PICK c : c = reportCall[t]
  OBVIOUS
<1>3. DOMAIN stack = Threads
  BY DEF Stacked
<1>4. ASSUME NEW z, stack' = [stack EXCEPT ![t] = z], stack[t] # << >>,
             c = "display" => z # << >>, ~Assemble(t) /\ z # << >> => Head(z) # "write"
      PROVE  /\ stack[t] # << >> /\ (reportCall[t] = "display" => stack'[t] # << >>)
             /\ ~Assemble(t) => buffer' = buffer /\ ~At(t, "write")'
  BY <1>1, <1>2, <1>3, <1>4 DEF At
<1> SUFFICES /\ stack[t] # << >> /\ (reportCall[t] = "display" => stack'[t] # << >>)
             /\ ~Assemble(t) => buffer' = buffer /\ ~At(t, "write")'
  BY <1>1
<1>5. CASE ReadLatch(t) \/ Heard(t)
  <2>1. PICK p \in {"latch", "heard"}, q \in {"seed", "answer"} : At(t, p) /\ Goto(t, q)
    BY <1>5 DEF ReadLatch, Heard
  <2>2. PICK z : z = <<q, c>>
    OBVIOUS
  <2>3. stack' = [stack EXCEPT ![t] = z] /\ stack[t] # << >>
    BY <1>2, <2>1, <2>2, GotoMoves, Here
  <2>4. z # << >> /\ Head(z) = q
    BY <2>2, TwoPlaces
  <2> QED BY <1>4, <2>3, <2>4
<1>6. CASE Seed(t)
  <2>1. At(t, "seed") /\ CallTo(t, "ensure", "heard")
    BY <1>6 DEF Seed
  <2>2. PICK a, b, z : a = "ensure" /\ b = "heard" /\ z = <<a, b, c>>
    OBVIOUS
  <2>3. stack' = [stack EXCEPT ![t] = z] /\ stack[t] # << >>
    BY <1>2, <2>1, <2>2, CallMoves, Here
  <2>4. z # << >> /\ Head(z) = a
    BY <2>2, ThreePlaces
  <2> QED BY <1>4, <2>2, <2>3, <2>4
<1>7. CASE AnswerLatch(t)
  <2>1. At(t, "answer") /\ ReportReturn(t)
    BY <1>7 DEF AnswerLatch
  <2>2. PICK z : z = <<c>>
    OBVIOUS
  <2>3. stack' = [stack EXCEPT ![t] = z] /\ stack[t] # << >> /\ c \in Latched
    BY <1>2, <2>1, <2>2, ReturnMoves, Here DEF Stood
  <2>4. z # << >> /\ Head(z) = c
    BY <2>2, OnePlace
  <2> QED BY <1>4, <2>3, <2>4 DEF Latched
<1>8. CASE ForceTextOutput(t) \/ Uses(t) \/ SetLogFile(t) \/ SetTextSink(t)
  <2>1. PICK p \in {"force text", "force dialog", "uses", "set", "sink"} : At(t, p) /\ ReportReturn(t)
    BY <1>8 DEF ForceTextOutput, Uses, SetLogFile, SetTextSink
  <2>2. PICK z : z = << >>
    OBVIOUS
  <2>3. stack' = [stack EXCEPT ![t] = z] /\ stack[t] # << >>
    BY <2>1, <2>2, ReturnMoves, Here DEF Latched
  <2>4. c # "display"
    BY <1>2, <2>1, Here DEF Stood, Latched
  <2> QED BY <1>4, <2>2, <2>3, <2>4
<1>9. CASE Ensure(t) \/ Loaded(t) \/ LoadConfigFile(t)
  <2>1. PICK p \in Loads, q \in Loads : At(t, p) /\ (Goto(t, q) \/ ReportReturn(t))
    BY <1>9 DEF Ensure, Loaded, LoadConfigFile, Loads
  <2>2. stack[t] # << >>
    BY <2>1, Here
  <2>3. CASE Goto(t, q)
    <3>1. PICK z : stack' = [stack EXCEPT ![t] = z] /\ Onward(c, p, q, stack[t], z)
      BY <1>2, <2>1, <2>3, SearchMoves
    <3>2. z # << >> /\ Head(z) = q
      BY <3>1, OnwardDepth
    <3> QED BY <1>4, <2>2, <3>1, <3>2 DEF Loads
  <2>4. CASE ReportReturn(t)
    <3>1. PICK z : stack' = [stack EXCEPT ![t] = z] /\ Resumed(c, p, stack[t], z)
      BY <1>2, <2>1, <2>4, SearchMoves
    <3>2. (c = "display" => z # << >>) /\ (z # << >> => Head(z) # "write")
      <4>1. CASE z = << >> /\ c \in {"search", "load", "ask"}
        BY <4>1
      <4>2. CASE z = <<"heard", c>>
        BY <4>2, TwoPlaces
      <4>3. CASE z = <<"log">> \/ z = <<"set">>
        BY <4>3, OnePlace
      <4> QED BY <3>1, <4>1, <4>2, <4>3 DEF Resumed
    <3> QED BY <1>4, <2>2, <3>1, <3>2
  <2> QED BY <2>1, <2>3, <2>4
<1>10. CASE ApplyLine(t)
  <2>1. At(t, "lines") /\ stack' = stack
    BY <1>10 DEF ApplyLine
  <2>2. stack[t] # << >> /\ Head(stack[t]) = "lines"
    BY <2>1 DEF At
  <2>3. ~At(t, "write")'
    BY <2>1, <2>2 DEF At
  <2> QED BY <1>1, <2>1, <2>2, <2>3
<1>11. CASE HoldForLog(t)
  <2>1. At(t, "hold") /\ CallTo(t, "ensure", "set")
    BY <1>11 DEF HoldForLog
  <2>2. PICK a, b, z : a = "ensure" /\ b = "set" /\ z = <<a, b>>
    OBVIOUS
  <2>3. stack' = [stack EXCEPT ![t] = z] /\ stack[t] # << >>
    BY <1>2, <2>1, <2>2, CallMoves, Here
  <2>4. z # << >> /\ Head(z) = a
    BY <2>2, TwoPlaces
  <2> QED BY <1>4, <2>2, <2>3, <2>4
<1>12. CASE LogNamed(t) \/ Assemble(t)
  <2>1. PICK p \in {"log", "assemble"}, q \in {"fallback", "assemble", "write"} :
           At(t, p) /\ Goto(t, q) /\ (q = "write" => Assemble(t))
    BY <1>12 DEF LogNamed, Assemble
  <2>2. PICK z : z = <<q>>
    OBVIOUS
  <2>3. stack' = [stack EXCEPT ![t] = z] /\ stack[t] # << >>
    BY <2>1, <2>2, GotoMoves, Here
  <2>4. z # << >> /\ Head(z) = q
    BY <2>2, OnePlace
  <2> QED BY <1>4, <2>1, <2>3, <2>4
<1> QED BY <1>5, <1>6, <1>7, <1>8, <1>9, <1>10, <1>11, <1>12 DEF Step

\* And the three that may show it end the call when they do.
LEMMA Showing ==
  ASSUME Stacked, Displayed, NEW t \in Threads, Display(t) \/ WriteLog(t) \/ Fallback(t)
  PROVE  /\ left' = left /\ buffer' = buffer /\ reportCall[t] = "display" /\ stack[t] # << >>
         /\ ~At(t, "write")'
         /\ \/ shown' = shown /\ stack'[t] # << >>
            \/ /\ stack'[t] = << >>
               /\ \E p \in ShowPlaces : shown' = shown \cup {<<Event(t), p>>}
<1>1. PICK p \in {"display", "write", "fallback"} :
        /\ At(t, p)
        /\ (p = "display" => Display(t)) /\ (p = "write" => WriteLog(t)) /\ (p = "fallback" => Fallback(t))
  BY DEF Display, WriteLog, Fallback
<1>2. left' = left /\ buffer' = buffer
  BY DEF Display, WriteLog, Fallback
<1>3. reportCall[t] = "display" /\ stack[t] # << >>
  BY <1>1, Here DEF Stood, Latched
<1>4. DOMAIN stack = Threads
  BY DEF Stacked
<1>5. ASSUME ReportReturn(t) PROVE stack'[t] = << >> /\ ~At(t, "write")'
  <2>1. stack' = [stack EXCEPT ![t] = << >>]
    BY <1>1, <1>5, ReturnMoves DEF Latched
  <2> QED BY <1>4, <2>1 DEF At
<1>6. CASE p = "display"
  <2>1. CASE CallTo(t, "ensure", "log") /\ UNCHANGED shown
    <3>1. PICK a, b, z : a = "ensure" /\ b = "log" /\ z = <<a, b>>
      OBVIOUS
    <3>2. stack' = [stack EXCEPT ![t] = z]
      BY <1>1, <1>6, <2>1, <3>1, CallMoves
    <3>3. z # << >> /\ Head(z) = a
      BY <3>1, TwoPlaces
    <3>4. stack'[t] # << >> /\ ~At(t, "write")'
      BY <1>4, <3>1, <3>2, <3>3 DEF At
    <3> QED BY <1>2, <1>3, <2>1, <3>4
  <2>2. CASE \E q \in {"dialog", "sink"} : Shown(t, q) /\ ReportReturn(t)
    BY <1>2, <1>3, <1>5, <2>2 DEF Shown, ShowPlaces
  <2> QED BY <1>1, <1>6, <2>1, <2>2 DEF Display
<1>7. CASE p = "write"
  <2>1. buffer.of = Event(t)
    BY <1>1, <1>7 DEF Displayed
  <2>2. CASE shown' = shown \cup {<<buffer.of, "log">>} /\ ReportReturn(t)
    BY <1>2, <1>3, <1>5, <2>1, <2>2 DEF ShowPlaces
  <2>3. CASE Goto(t, "fallback") /\ UNCHANGED shown
    <3>1. PICK a, z : a = "fallback" /\ z = <<a>>
      OBVIOUS
    <3>2. stack' = [stack EXCEPT ![t] = z]
      BY <1>1, <1>7, <2>3, <3>1, GotoMoves
    <3>3. z # << >> /\ Head(z) = a
      BY <3>1, OnePlace
    <3>4. stack'[t] # << >> /\ ~At(t, "write")'
      BY <1>4, <3>1, <3>2, <3>3 DEF At
    <3> QED BY <1>2, <1>3, <2>3, <3>4
  <2> QED BY <1>1, <1>7, <2>2, <2>3 DEF WriteLog
<1>8. CASE p = "fallback"
  <2>1. Shown(t, "stderr") /\ ReportReturn(t)
    BY <1>1, <1>8 DEF Fallback
  <2> QED BY <1>2, <1>3, <1>5, <2>1 DEF Shown, ShowPlaces
<1> QED BY <1>6, <1>7, <1>8

\* Nothing is displayed at the start.
LEMMA DisplayedInit == ReportInit => Displayed
<1> SUFFICES ASSUME ReportInit PROVE Displayed
  OBVIOUS
<1>1. shown = {} /\ \A u \in Threads : stack[u] = << >> /\ reportCall[u] = None
  BY DEF ReportInit
<1>2. \A u \in Threads : ~DisplayOver(u)
  BY <1>1, ReportAssumption DEF DisplayOver, CallNames
<1> QED BY <1>1, <1>2 DEF Displayed, Seen, At

\* A call that starts has a number no event carries yet.
LEMMA DisplayedStart ==
  ASSUME Control, Displayed, NEW t \in Threads, Start(t)
  PROVE  Displayed'
<1>1. /\ shown' = shown /\ buffer' = buffer /\ stack[t] = << >> /\ left[t] > 0
      /\ left' = [left EXCEPT ![t] = left[t] - 1]
  BY DEF Start, past, ReportIdle
<1>2. PICK c \in ReportCalls : /\ reportCall' = [reportCall EXCEPT ![t] = c]
                               /\ stack' = [stack EXCEPT ![t] = ReportFirst(c)]
  BY DEF Start
<1>3. left \in [Threads -> 0 .. MaxCalls] /\ DOMAIN stack = Threads /\ DOMAIN reportCall = Threads
  BY DEF Control, ReportCore, Stacked
<1>4. stack'[t] # << >> /\ Head(stack'[t]) # "write"
  <2>1. CASE c \in Latched
    <3>1. ReportFirst(c) = <<"latch", c>>
      BY <2>1 DEF ReportFirst, Latched
    <3>2. PICK a, z : a = "latch" /\ z = <<a, c>>
      OBVIOUS
    <3>3. z # << >> /\ Head(z) = a
      BY <3>2, TwoPlaces
    <3> QED BY <1>2, <1>3, <3>1, <3>2, <3>3
  <2>2. CASE c \notin Latched
    <3>1. PICK p \in {"enter", "hold", "ensure", "sink"} : ReportFirst(c) = <<p>>
      BY <2>2, ReportAssumption DEF ReportFirst, Latched, CallNames
    <3>2. <<p>> # << >> /\ Head(<<p>>) = p
      BY OnePlace
    <3> QED BY <1>2, <1>3, <3>1, <3>2
  <2> QED BY <2>1, <2>2
<1>5. \A u \in Threads \ {t} : /\ stack'[u] = stack[u] /\ reportCall'[u] = reportCall[u] /\ left'[u] = left[u]
                               /\ Event(u)' = Event(u)
  BY <1>1, <1>2, <1>3 DEF Event
<1>6. left'[t] = left[t] - 1 /\ left[t] \in 0 .. MaxCalls /\ Event(t)' = <<t, left[t] - 1>>
  BY <1>1, <1>3 DEF Event
<1>7. \A u \in Threads, k \in 0 .. MaxCalls, p \in ShowPlaces : <<<<u, k>>, p>> \in shown' => k >= left'[u]
  <2> SUFFICES ASSUME NEW u \in Threads, NEW k \in 0 .. MaxCalls, NEW p \in ShowPlaces, <<<<u, k>>, p>> \in shown
               PROVE  k >= left'[u]
    BY <1>1
  <2>1. k >= left[u]
    BY DEF Displayed
  <2> QED BY <1>5, <1>6, <2>1
<1>8. ~DisplayOver(t)' /\ \A u \in Threads \ {t} : DisplayOver(u)' = DisplayOver(u)
  BY <1>4, <1>5 DEF DisplayOver, ReportIdle
<1>9. \A p \in ShowPlaces : ~Seen(t, p)'
  <2> SUFFICES ASSUME NEW p \in ShowPlaces, <<<<t, left[t] - 1>>, p>> \in shown PROVE FALSE
    BY <1>1, <1>6 DEF Seen
  <2>1. left[t] - 1 \in 0 .. MaxCalls
    BY <1>1, <1>6, ReportAssumption
  <2>2. left[t] - 1 >= left[t]
    BY <2>1 DEF Displayed
  <2> QED BY <1>6, <2>2
<1>10. \A u \in Threads \ {t}, p \in ShowPlaces : Seen(u, p)' = Seen(u, p)
  BY <1>1, <1>5 DEF Seen
<1>11. \A u \in Threads : At(u, "write")' => buffer'.of = Event(u)'
  BY <1>1, <1>4, <1>5 DEF At, Displayed
<1>12. \A u \in Threads : ~DisplayOver(u)' => \A p \in ShowPlaces : ~Seen(u, p)'
  BY <1>8, <1>9, <1>10 DEF Displayed
<1>13. \A u \in Threads : DisplayOver(u)' => \E p \in ShowPlaces : \A q \in ShowPlaces : Seen(u, q)' <=> q = p
  <2> SUFFICES ASSUME NEW u \in Threads, DisplayOver(u)'
               PROVE  \E p \in ShowPlaces : \A q \in ShowPlaces : Seen(u, q)' <=> q = p
    OBVIOUS
  <2>1. u # t /\ DisplayOver(u)
    BY <1>8
  <2>2. PICK p \in ShowPlaces : \A q \in ShowPlaces : Seen(u, q) <=> q = p
    BY <2>1 DEF Displayed
  <2> QED BY <1>10, <2>1, <2>2
<1> QED BY <1>7, <1>11, <1>12, <1>13 DEF Displayed

\* A step shows nothing, or ends a display by showing its event once.
LEMMA DisplayedStep ==
  ASSUME Control, Displayed, NEW t \in Threads, Step(t)
  PROVE  Displayed'
<1> USE DEF Control
<1>1. PICK s : stack' = [stack EXCEPT ![t] = s]
  BY StepWalks DEF StackMoves
<1>2. reportCall' = reportCall
  BY StepWalks
<1>3. \A u \in Threads \ {t} : stack'[u] = stack[u]
  BY <1>1
<1>4. left' = left
  BY Unseen, Showing
<1>5. \A u \in Threads : Event(u)' = Event(u)
  BY <1>4 DEF Event
<1>6. \A u \in Threads : At(u, "write")' => buffer'.of = Event(u)'
  <2> SUFFICES ASSUME NEW u \in Threads, At(u, "write")' PROVE buffer'.of = Event(u)
    BY <1>5
  <2>1. CASE Assemble(t)
    <3>1. LockFree(t) /\ buffer' = [of |-> Event(t), note |-> IF noted THEN {} ELSE note]
      BY <2>1 DEF Assemble
    <3>2. u # t => At(u, "write") /\ reportOwner.by = u
      BY <1>3, HoldsLock DEF At
    <3>3. None \notin Threads
      BY ReportAssumption
    <3> QED BY <3>1, <3>2, <3>3 DEF LockFree
  <2>2. CASE ~Assemble(t)
    <3>1. buffer' = buffer /\ ~At(t, "write")'
      BY <2>2, Unseen, Showing
    <3>2. u # t /\ At(u, "write")
      BY <1>3, <3>1 DEF At
    <3> QED BY <3>1, <3>2 DEF Displayed
  <2> QED BY <2>1, <2>2
<1>7. CASE shown' = shown /\ stack[t] # << >> /\ (reportCall[t] = "display" => stack'[t] # << >>)
  <2>1. \A u \in Threads : DisplayOver(u)' = DisplayOver(u)
    BY <1>2, <1>3, <1>7 DEF DisplayOver, ReportIdle
  <2>2. \A u \in Threads, p \in ShowPlaces : Seen(u, p)' = Seen(u, p)
    BY <1>5, <1>7 DEF Seen
  <2>3. \A u \in Threads : ~DisplayOver(u)' => \A p \in ShowPlaces : ~Seen(u, p)'
    BY <2>1, <2>2 DEF Displayed
  <2>4. \A u \in Threads : DisplayOver(u)' => \E p \in ShowPlaces : \A q \in ShowPlaces : Seen(u, q)' <=> q = p
    <3> SUFFICES ASSUME NEW u \in Threads, DisplayOver(u)'
                 PROVE  \E p \in ShowPlaces : \A q \in ShowPlaces : Seen(u, q)' <=> q = p
      OBVIOUS
    <3>1. PICK p \in ShowPlaces : \A q \in ShowPlaces : Seen(u, q) <=> q = p
      BY <2>1 DEF Displayed
    <3> QED BY <2>2, <3>1
  <2> QED BY <1>4, <1>6, <1>7, <2>3, <2>4 DEF Displayed
<1>8. CASE /\ reportCall[t] = "display" /\ stack[t] # << >> /\ stack'[t] = << >>
           /\ \E p \in ShowPlaces : shown' = shown \cup {<<Event(t), p>>}
  <2>1. PICK p \in ShowPlaces : shown' = shown \cup {<<Event(t), p>>}
    BY <1>8
  <2>2. DisplayOver(t)' /\ ~DisplayOver(t) /\ \A u \in Threads \ {t} : DisplayOver(u)' = DisplayOver(u)
    BY <1>2, <1>3, <1>8 DEF DisplayOver, ReportIdle
  <2>3. \A q \in ShowPlaces : Seen(t, q)' <=> q = p
    <3>1. \A q \in ShowPlaces : ~Seen(t, q)
      BY <2>2 DEF Displayed
    <3> QED BY <1>5, <2>1, <3>1 DEF Seen
  <2>4. \A u \in Threads \ {t}, q \in ShowPlaces : Seen(u, q)' = Seen(u, q)
    BY <1>5, <2>1 DEF Seen, Event
  <2>5. \A u \in Threads, k \in 0 .. MaxCalls, q \in ShowPlaces : <<<<u, k>>, q>> \in shown' => k >= left'[u]
    <3> SUFFICES ASSUME NEW u \in Threads, NEW k \in 0 .. MaxCalls, NEW q \in ShowPlaces, <<<<u, k>>, q>> \in shown'
                 PROVE  k >= left[u]
      BY <1>4
    <3>1. CASE <<<<u, k>>, q>> \in shown
      BY <3>1 DEF Displayed
    <3>2. CASE <<u, k>> = Event(t)
      BY <3>2 DEF Event
    <3> QED BY <2>1, <3>1, <3>2
  <2>6. \A u \in Threads : ~DisplayOver(u)' => \A q \in ShowPlaces : ~Seen(u, q)'
    BY <2>2, <2>4 DEF Displayed
  <2>7. \A u \in Threads : DisplayOver(u)' => \E r \in ShowPlaces : \A q \in ShowPlaces : Seen(u, q)' <=> q = r
    <3> SUFFICES ASSUME NEW u \in Threads, DisplayOver(u)'
                 PROVE  \E r \in ShowPlaces : \A q \in ShowPlaces : Seen(u, q)' <=> q = r
      OBVIOUS
    <3>1. CASE u = t
      BY <2>3, <3>1
    <3>2. CASE u # t
      <4>1. PICK r \in ShowPlaces : \A q \in ShowPlaces : Seen(u, q) <=> q = r
        BY <2>2, <3>2 DEF Displayed
      <4> QED BY <2>4, <3>2, <4>1
    <3> QED BY <3>1, <3>2
  <2> QED BY <1>6, <2>5, <2>6, <2>7 DEF Displayed
<1> QED BY <1>7, <1>8, Unseen, Showing

-----------------------------------------------------------------------------
(* A host that resolves the latch before another thread runs.  Until Main's *)
(* first call is over only Main has moved, and where it stands says how far *)
(* the question has got; from then on the latch is set, the configuration   *)
(* has been read, and only a call that loads another can change either.     *)

\* A search finds nothing but files that rule dialogs out.
Texts == Existing # {} /\ \A f \in Existing : reportDisk[f] \in {"text", "textlog"}

\* The file that thread u reads rules dialogs out, or has.
Ruling(u) == textOnly \/ (reading[u].lines # << >> /\ Head(reading[u].lines) = "dialog off")

\* How far the question has got when Main is at p.
Stage(p) ==
    /\ p \in {"latch", "seed"} => latch = Unset /\ ~loaded /\ reading[Main].file = None
    /\ p \in {"ensure", "enter"} => latch # Unset /\ ~loaded /\ reading[Main].file = None
    /\ p = "lines" => latch # Unset /\ loaded /\ (Texts => Ruling(Main))
    /\ p = "heard" => latch # Unset /\ loaded /\ (Texts => textOnly)
    /\ p \in Latched \cup {"answer"} => latch # Unset /\ loaded /\ (Texts => latch = 1)

Opening ==
    /\ \A u \in Threads \ {Main} : stack[u] = << >>
    /\ forced = None /\ named = None /\ shown = {} /\ ~invited
    /\ left[Main] = MaxCalls => stack[Main] = << >> /\ latch = Unset /\ ~loaded
    /\ left[Main] # MaxCalls => reportCall[Main] \in {"uses", "force text", "force dialog"}
    /\ stack[Main] # << >> => Stage(Head(stack[Main]))

\* Thread u neither seeds the latch nor reads the configuration for the first time.
Steady(u) ==
    /\ ~At(u, "seed") /\ ~At(u, "heard")
    /\ At(u, "ensure") => reportCall[u] \notin Latched \/ stack[u] = <<"ensure", "log">>
    /\ At(u, "enter") \/ At(u, "lines") => reportCall[u] \in {"search", "load"}

Resolved ==
    /\ latch # Unset /\ loaded
    /\ \A u \in Threads : Steady(u)
    /\ forced = 1 => latch = 1
    /\ named # None => logPath = named /\ \A u \in Threads : ~At(u, "lines")
    /\ Texts /\ ~invited =>
           latch = 1 /\ (\A u \in Threads : At(u, "display") => ret[u]) /\ \A e \in shown : e[2] # "dialog"

SettledInv == settled => IF Ready THEN Resolved ELSE Opening

\* Where each step leaves its thread.
Leads(t, q) == At(t, q)'
CallEnds(t) == stack'[t] = << >>

\* Back from a search, to whoever asked for it.
Back(t, p) ==
    \/ reportCall[t] \in {"search", "load", "ask"} /\ CallEnds(t)
    \/ reportCall[t] \in Latched /\ stack[t] = <<p, "heard", reportCall[t]>> /\ Leads(t, "heard")
    \/ reportCall[t] = "display" /\ stack[t] = <<p, "log">> /\ Leads(t, "log")
    \/ reportCall[t] \in {"set log", "no log"} /\ Leads(t, "set")

\* A step that gives its thread stack z leaves it at the head of z.
LEMMA Leading ==
  ASSUME Stacked, NEW t \in Threads, NEW z, stack' = [stack EXCEPT ![t] = z]
  PROVE  /\ z = << >> => CallEnds(t)
         /\ \A q : z # << >> /\ Head(z) = q => Leads(t, q)
BY DEF Stacked, CallEnds, Leads, At

\* The steps of the question, of SetLogFile and of SetTextSink.
LEMMA LatchLeads ==
  ASSUME Stacked, NEW t \in Threads
  PROVE  /\ ReadLatch(t) => IF latch = Unset THEN Leads(t, "seed") ELSE Leads(t, "answer")
         /\ Seed(t) => Leads(t, "ensure") /\ reportCall[t] \in Latched /\ stack'[t] # <<"ensure", "log">>
         /\ Heard(t) => Leads(t, "answer")
         /\ AnswerLatch(t) => reportCall[t] \in Latched /\ Leads(t, reportCall[t])
         /\ ForceTextOutput(t) \/ Uses(t) \/ SetLogFile(t) \/ SetTextSink(t) => CallEnds(t)
<1>1. PICK c : c = reportCall[t]
  OBVIOUS
<1>2. ASSUME NEW p \in {"latch", "heard"}, NEW q, At(t, p), Goto(t, q) PROVE Leads(t, q)
  <2>1. PICK z : z = <<q, c>>
    OBVIOUS
  <2>2. stack' = [stack EXCEPT ![t] = z]
    BY <1>1, <1>2, <2>1, GotoMoves
  <2>3. z # << >> /\ Head(z) = q
    BY <2>1, TwoPlaces
  <2> QED BY <2>2, <2>3, Leading
<1>3. ReadLatch(t) => IF latch = Unset THEN Leads(t, "seed") ELSE Leads(t, "answer")
  BY <1>2 DEF ReadLatch
<1>4. Heard(t) => Leads(t, "answer")
  BY <1>2 DEF Heard
<1>5. ASSUME Seed(t)
      PROVE  Leads(t, "ensure") /\ reportCall[t] \in Latched /\ stack'[t] # <<"ensure", "log">>
  <2>1. At(t, "seed") /\ CallTo(t, "ensure", "heard")
    BY <1>5 DEF Seed
  <2>2. PICK a, b, z : a = "ensure" /\ b = "heard" /\ z = <<a, b, c>>
    OBVIOUS
  <2>3. stack' = [stack EXCEPT ![t] = z] /\ c \in Latched
    <3>1. stack' = [stack EXCEPT ![t] = z]
      BY <1>1, <2>1, <2>2, CallMoves
    <3>2. c \in Latched
      BY <1>1, <2>1, Here DEF Stood
    <3> QED BY <3>1, <3>2
  <2>4. z # << >> /\ Head(z) = a /\ Tail(z) = <<b, c>>
    BY <2>2, ThreePlaces
  <2>5. Leads(t, "ensure")
    BY <2>2, <2>3, <2>4, Leading
  <2>6. z # <<"ensure", "log">>
    BY <2>2
  <2>7. stack'[t] = z
    BY <2>3 DEF Stacked
  <2> QED BY <1>1, <2>3, <2>5, <2>6, <2>7
<1>6. ASSUME AnswerLatch(t) PROVE reportCall[t] \in Latched /\ Leads(t, reportCall[t])
  <2>1. At(t, "answer") /\ ReportReturn(t)
    BY <1>6 DEF AnswerLatch
  <2>2. PICK z : z = <<c>>
    OBVIOUS
  <2>3. stack' = [stack EXCEPT ![t] = z] /\ c \in Latched
    BY <1>1, <2>1, <2>2, ReturnMoves, Here DEF Stood
  <2>4. z # << >> /\ Head(z) = c
    BY <2>2, OnePlace
  <2> QED BY <1>1, <2>3, <2>4, Leading
<1>7. ASSUME ForceTextOutput(t) \/ Uses(t) \/ SetLogFile(t) \/ SetTextSink(t) PROVE CallEnds(t)
  <2>1. PICK p \in {"force text", "force dialog", "uses", "set", "sink"} : At(t, p) /\ ReportReturn(t)
    BY <1>7 DEF ForceTextOutput, Uses, SetLogFile, SetTextSink
  <2>2. stack' = [stack EXCEPT ![t] = << >>]
    BY <2>1, ReturnMoves DEF Latched
  <2> QED BY <2>2, Leading
<1> QED BY <1>3, <1>4, <1>5, <1>6, <1>7

\* The steps of the search for a configuration.
LEMMA SearchLeads ==
  ASSUME Stacked, NEW t \in Threads
  PROVE  /\ Ensure(t) => IF loaded THEN Back(t, "ensure")
                         ELSE Leads(t, "enter")
         /\ LoadConfigFile(t) => Leads(t, "lines")
         /\ ApplyLine(t) => stack' = stack
         /\ Loaded(t) => Back(t, "lines")
         /\ HoldForLog(t) => Leads(t, "ensure") /\ reportCall[t] \in {"set log", "no log"}
<1>1. PICK c : c = reportCall[t]
  OBVIOUS
<1>2. ASSUME NEW p \in Loads, NEW q \in Loads, At(t, p), Goto(t, q) PROVE Leads(t, q)
  <2>1. PICK z : stack' = [stack EXCEPT ![t] = z] /\ Onward(c, p, q, stack[t], z)
    BY <1>1, <1>2, SearchMoves
  <2>2. z # << >> /\ Head(z) = q
    BY <2>1, OnwardDepth
  <2> QED BY <2>1, <2>2, Leading
<1>3. ASSUME NEW p \in Loads, At(t, p), ReportReturn(t) PROVE Back(t, p)
  <2>1. PICK z : stack' = [stack EXCEPT ![t] = z] /\ Resumed(c, p, stack[t], z)
    BY <1>1, <1>3, SearchMoves
  <2>2. CASE c \in {"search", "load", "ask"} /\ z = << >>
    BY <1>1, <2>1, <2>2, Leading DEF Back
  <2>3. CASE c \in Latched /\ stack[t] = <<p, "heard", c>> /\ z = <<"heard", c>>
    <3>1. PICK a : a = "heard"
      OBVIOUS
    <3>2. <<a, c>> # << >> /\ Head(<<a, c>>) = a
      BY TwoPlaces
    <3>3. Leads(t, "heard")
      BY <2>1, <2>3, <3>1, <3>2, Leading
    <3> QED BY <1>1, <2>3, <3>3 DEF Back
  <2>4. CASE c = "display" /\ stack[t] = <<p, "log">> /\ z = <<"log">>
    <3>1. PICK a : a = "log"
      OBVIOUS
    <3>2. <<a>> # << >> /\ Head(<<a>>) = a
      BY OnePlace
    <3>3. Leads(t, "log")
      BY <2>1, <2>4, <3>1, <3>2, Leading
    <3> QED BY <1>1, <2>4, <3>3 DEF Back
  <2>5. CASE c \in {"set log", "no log"} /\ z = <<"set">>
    <3>1. PICK a : a = "set"
      OBVIOUS
    <3>2. <<a>> # << >> /\ Head(<<a>>) = a
      BY OnePlace
    <3>3. Leads(t, "set")
      BY <2>1, <2>5, <3>1, <3>2, Leading
    <3> QED BY <1>1, <2>5, <3>3 DEF Back
  <2> QED BY <2>1, <2>2, <2>3, <2>4, <2>5 DEF Resumed
<1>4. ASSUME Ensure(t)
      PROVE  IF loaded THEN Back(t, "ensure")
             ELSE Leads(t, "enter")
  <2>1. At(t, "ensure") /\ "ensure" \in Loads /\ "enter" \in Loads
    BY <1>4 DEF Ensure, Loads
  <2>2. IF loaded THEN ReportReturn(t) ELSE Goto(t, "enter")
    BY <1>4 DEF Ensure
  <2> QED BY <1>1, <1>2, <1>3, <2>1, <2>2
<1>5. LoadConfigFile(t) => Leads(t, "lines")
  BY <1>2 DEF LoadConfigFile, Loads
<1>6. ApplyLine(t) => stack' = stack
  BY DEF ApplyLine
<1>7. Loaded(t) => Back(t, "lines")
  BY <1>3 DEF Loaded, Loads
<1>8. ASSUME HoldForLog(t) PROVE Leads(t, "ensure") /\ reportCall[t] \in {"set log", "no log"}
  <2>1. At(t, "hold") /\ CallTo(t, "ensure", "set")
    BY <1>8 DEF HoldForLog
  <2>2. PICK a, b, z : a = "ensure" /\ b = "set" /\ z = <<a, b>>
    OBVIOUS
  <2>3. stack' = [stack EXCEPT ![t] = z]
    BY <2>1, <2>2, CallMoves
  <2>4. z # << >> /\ Head(z) = a
    BY <2>2, TwoPlaces
  <2> QED BY <2>1, <2>2, <2>3, <2>4, Leading, Here DEF Stood
<1> QED BY <1>4, <1>5, <1>6, <1>7, <1>8

\* The steps that put a text somewhere.
LEMMA DisplayLeads ==
  ASSUME Stacked, NEW t \in Threads
  PROVE  /\ Display(t) => CallEnds(t) \/ (Leads(t, "ensure") /\ stack'[t] = <<"ensure", "log">>)
         /\ LogNamed(t) => Leads(t, "fallback") \/ Leads(t, "assemble")
         /\ Assemble(t) => Leads(t, "write")
         /\ WriteLog(t) => CallEnds(t) \/ Leads(t, "fallback")
         /\ Fallback(t) => CallEnds(t)
<1>1. ASSUME NEW p \in {"log", "assemble", "write"}, NEW q, At(t, p), Goto(t, q) PROVE Leads(t, q)
  <2>1. PICK z : z = <<q>>
    OBVIOUS
  <2>2. stack' = [stack EXCEPT ![t] = z]
    BY <1>1, <2>1, GotoMoves
  <2>3. z # << >> /\ Head(z) = q
    BY <2>1, OnePlace
  <2> QED BY <2>2, <2>3, Leading
<1>2. ASSUME NEW p \in {"display", "write", "fallback"}, At(t, p), ReportReturn(t) PROVE CallEnds(t)
  <2>1. stack' = [stack EXCEPT ![t] = << >>]
    BY <1>2, ReturnMoves DEF Latched
  <2> QED BY <2>1, Leading
<1>3. ASSUME Display(t) PROVE CallEnds(t) \/ (Leads(t, "ensure") /\ stack'[t] = <<"ensure", "log">>)
  <2>1. At(t, "display") /\ (ReportReturn(t) \/ CallTo(t, "ensure", "log"))
    BY <1>3 DEF Display
  <2>2. CASE CallTo(t, "ensure", "log")
    <3>1. PICK a, b, z : a = "ensure" /\ b = "log" /\ z = <<a, b>>
      OBVIOUS
    <3>2. stack' = [stack EXCEPT ![t] = z]
      BY <2>1, <2>2, <3>1, CallMoves
    <3>3. z # << >> /\ Head(z) = a
      BY <3>1, TwoPlaces
    <3>4. stack'[t] = z
      BY <3>2 DEF Stacked
    <3> QED BY <3>1, <3>2, <3>3, <3>4, Leading
  <2>3. CASE ReportReturn(t)
    <3>1. PICK p \in {"display", "write", "fallback"} : At(t, p)
      BY <2>1
    <3> QED BY <1>2, <2>3, <3>1
  <2> QED BY <2>1, <2>2, <2>3
<1>4. LogNamed(t) => Leads(t, "fallback") \/ Leads(t, "assemble")
  BY <1>1 DEF LogNamed
<1>5. Assemble(t) => Leads(t, "write")
  BY <1>1 DEF Assemble
<1>6. WriteLog(t) => CallEnds(t) \/ Leads(t, "fallback")
  BY <1>1, <1>2 DEF WriteLog
<1>7. Fallback(t) => CallEnds(t)
  BY <1>2 DEF Fallback
<1> QED BY <1>3, <1>4, <1>5, <1>6, <1>7

\* A thread is at one place at a time.
LEMMA OnePlaceOnly ==
  ASSUME NEW t, NEW p, NEW q
  PROVE  /\ At(t, p) /\ At(t, q) => p = q
         /\ Leads(t, p) /\ At(t, q)' => p = q
         /\ CallEnds(t) => ~At(t, q)'
BY DEF At, Leads, CallEnds

\* What a step of t leaves alone: the other threads, the calls, the files.
LEMMA StepsStay ==
  ASSUME Stacked, NEW t \in Threads, Step(t)
  PROVE  /\ \A u \in Threads \ {t} : stack'[u] = stack[u] /\ \A p : At(u, p)' = At(u, p)
         /\ reportCall' = reportCall /\ left' = left /\ settled' = settled /\ reportDisk' = reportDisk
         /\ Texts' = Texts /\ stack[t] # << >>
<1>1. PICK s : stack' = [stack EXCEPT ![t] = s] /\ reportCall' = reportCall
  BY StepWalks DEF StackMoves
<1>2. left' = left /\ settled' = settled /\ reportDisk' = reportDisk /\ stack[t] # << >>
  BY DEF Step, ReadLatch, Seed, Heard, AnswerLatch, ForceTextOutput, Ensure, LoadConfigFile,
         ApplyLine, Loaded, HoldForLog, SetLogFile, SetTextSink, Uses, Display, LogNamed, Assemble,
         WriteLog, Fallback, config, At
<1>3. \A u \in Threads \ {t} : stack'[u] = stack[u] /\ \A p : At(u, p)' = At(u, p)
  BY <1>1 DEF At
<1>4. Texts' = Texts
  BY <1>2 DEF Texts, Existing
<1> QED BY <1>1, <1>2, <1>3, <1>4

\* Once the first call of Main is over it stays so.
LEMMA ReadyStays ==
  ASSUME Stacked, ReportCore, NEW t \in Threads, Step(t), Ready PROVE Ready'
<1>1. CASE t = Main
  <2>1. left[Main] # MaxCalls - 1
    BY <1>1, StepsStay DEF Ready, ReportIdle
  <2> QED BY <2>1, StepsStay DEF Ready
<1>2. CASE t # Main
  <2>1. stack'[Main] = stack[Main] /\ left' = left
    BY <1>2, StepsStay, ReportAssumption
  <2> QED BY <2>1 DEF Ready, ReportIdle
<1> QED BY <1>1, <1>2

\* The steps by which a resolved latch, or a configuration that has been read,
\* could come undone.
LEMMA SteadyStep ==
  ASSUME Stacked, NEW t \in Threads, Step(t), latch # Unset, loaded, Steady(t)
  PROVE  /\ Steady(t)' /\ ~Seed(t) /\ ~Heard(t)
         /\ ~(LoadConfigFile(t) /\ reportCall[t] \notin {"search", "load"})
         /\ ~(Loaded(t) /\ reportCall[t] \notin {"search", "load"})
<1>1. ~Seed(t) /\ ~Heard(t)
  BY DEF Seed, Heard, Steady
<1>2. /\ ~(LoadConfigFile(t) /\ reportCall[t] \notin {"search", "load"})
      /\ ~(Loaded(t) /\ reportCall[t] \notin {"search", "load"})
  BY DEF LoadConfigFile, Loaded, Steady
<1> SUFFICES Steady(t)'
  BY <1>1, <1>2
<1>3. reportCall' = reportCall
  BY StepsStay
<1>4. ASSUME NEW q, Leads(t, q), q \notin {"seed", "heard", "ensure", "enter", "lines"} PROVE Steady(t)'
  BY <1>4, OnePlaceOnly DEF Steady
<1>5. ASSUME CallEnds(t) PROVE Steady(t)'
  BY <1>5, OnePlaceOnly DEF Steady
<1>6. CASE ReadLatch(t)
  <2>1. PICK q : q = "answer" /\ Leads(t, q)
    BY <1>6, LatchLeads
  <2> QED BY <1>4, <2>1
<1>7. CASE AnswerLatch(t)
  <2>1. PICK q \in Latched : Leads(t, q)
    BY <1>7, LatchLeads
  <2> QED BY <1>4, <2>1 DEF Latched
<1>8. CASE ForceTextOutput(t) \/ Uses(t) \/ SetLogFile(t) \/ SetTextSink(t) \/ Fallback(t)
  BY <1>5, <1>8, LatchLeads, DisplayLeads
<1>9. CASE Ensure(t)
  <2>1. Back(t, "ensure") /\ At(t, "ensure")
    BY <1>9, SearchLeads DEF Ensure
  <2>2. ~(reportCall[t] \in Latched /\ stack[t] = <<"ensure", "heard", reportCall[t]>>)
    <3>1. SUFFICES ASSUME reportCall[t] \in Latched, stack[t] = <<"ensure", "heard", reportCall[t]>> PROVE FALSE
      OBVIOUS
    <3>2. stack[t] = <<"ensure", "log">>
      BY <2>1, <3>1 DEF Steady
    <3> QED BY <3>1, <3>2
  <2>3. CallEnds(t) \/ \E q \in {"log", "set"} : Leads(t, q)
    BY <2>1, <2>2 DEF Back
  <2> QED BY <1>4, <1>5, <2>3
<1>10. CASE LoadConfigFile(t)
  <2>1. PICK q : q = "lines" /\ Leads(t, q)
    BY <1>10, SearchLeads
  <2>2. \A r : At(t, r)' => r = q
    BY <2>1, OnePlaceOnly
  <2> QED BY <1>2, <1>3, <1>10, <2>1, <2>2 DEF Steady
<1>11. CASE ApplyLine(t)
  <2>1. stack' = stack
    BY <1>11, SearchLeads
  <2> QED BY <1>3, <2>1 DEF Steady, At
<1>12. CASE Loaded(t)
  <2>1. Back(t, "lines") /\ reportCall[t] \in {"search", "load"}
    BY <1>2, <1>12, SearchLeads
  <2>2. CallEnds(t)
    BY <2>1 DEF Back, Latched
  <2> QED BY <1>5, <2>2
<1>13. CASE HoldForLog(t)
  <2>1. PICK q : q = "ensure" /\ Leads(t, q)
    BY <1>13, SearchLeads
  <2>2. reportCall[t] \notin Latched
    BY <1>13, SearchLeads DEF Latched
  <2>3. \A r : At(t, r)' => r = q
    BY <2>1, OnePlaceOnly
  <2> QED BY <1>3, <2>1, <2>2, <2>3 DEF Steady
<1>14. CASE Display(t)
  <2>1. CASE Leads(t, "ensure") /\ stack'[t] = <<"ensure", "log">>
    <3>1. PICK q : q = "ensure" /\ Leads(t, q)
      BY <2>1
    <3>2. \A r : At(t, r)' => r = q
      BY <3>1, OnePlaceOnly
    <3> QED BY <2>1, <3>1, <3>2 DEF Steady
  <2> QED BY <1>5, <1>14, <2>1, DisplayLeads
<1>15. CASE LogNamed(t) \/ Assemble(t) \/ WriteLog(t)
  <2>1. CallEnds(t) \/ \E q \in {"fallback", "assemble", "write"} : Leads(t, q)
    BY <1>15, DisplayLeads
  <2> QED BY <1>4, <1>5, <2>1
<1> QED BY <1>1, <1>2, <1>6, <1>7, <1>8, <1>9, <1>10, <1>11, <1>12, <1>13, <1>14, <1>15 DEF Step

\* Only an answer leads to a display, and only a search to the lines of a file.
LEMMA OtherStays ==
  ASSUME Stacked, NEW t \in Threads, Step(t)
  PROVE  /\ ~AnswerLatch(t) => ~At(t, "display")'
         /\ ~LoadConfigFile(t) /\ ~ApplyLine(t) => ~At(t, "lines")'
<1>1. ASSUME NEW q, Leads(t, q), q \notin {"display", "lines"} PROVE ~At(t, "display")' /\ ~At(t, "lines")'
  BY <1>1, OnePlaceOnly
<1>2. ASSUME CallEnds(t) PROVE ~At(t, "display")' /\ ~At(t, "lines")'
  BY <1>2, OnePlaceOnly
<1>3. ASSUME NEW p, Back(t, p) PROVE ~At(t, "display")' /\ ~At(t, "lines")'
  <2>1. CallEnds(t) \/ \E q \in {"heard", "log", "set"} : Leads(t, q)
    BY <1>3 DEF Back
  <2> QED BY <1>1, <1>2, <2>1
<1>4. ASSUME \E q \in {"seed", "answer", "ensure", "enter", "fallback", "assemble", "write"} : Leads(t, q)
      PROVE  ~At(t, "display")' /\ ~At(t, "lines")'
  BY <1>1, <1>4
<1>5. CASE ReadLatch(t) \/ Seed(t) \/ Heard(t)
  BY <1>4, <1>5, LatchLeads
<1>6. CASE AnswerLatch(t)
  <2>1. PICK q \in Latched : Leads(t, q)
    BY <1>6, LatchLeads
  <2>2. q # "lines"
    BY DEF Latched
  <2> QED BY <1>6, <2>1, <2>2, OnePlaceOnly
<1>7. CASE ForceTextOutput(t) \/ Uses(t) \/ SetLogFile(t) \/ SetTextSink(t) \/ Fallback(t)
  BY <1>2, <1>7, LatchLeads, DisplayLeads
<1>8. CASE Ensure(t) \/ HoldForLog(t)
  BY <1>3, <1>4, <1>8, SearchLeads
<1>9. CASE LoadConfigFile(t)
  <2>1. PICK q : q = "lines" /\ Leads(t, q)
    BY <1>9, SearchLeads
  <2> QED BY <1>9, <2>1, OnePlaceOnly
<1>10. CASE ApplyLine(t)
  <2>1. stack' = stack /\ At(t, "lines")
    BY <1>10 DEF ApplyLine
  <2> QED BY <1>10, <2>1 DEF At
<1>11. CASE Loaded(t)
  BY <1>3, <1>11, SearchLeads
<1>12. CASE Display(t) \/ LogNamed(t) \/ Assemble(t) \/ WriteLog(t)
  <2>1. CallEnds(t) \/ \E q \in {"ensure", "fallback", "assemble", "write"} : Leads(t, q)
    BY <1>12, DisplayLeads
  <2> QED BY <1>2, <1>4, <2>1
<1> QED BY <1>5, <1>6, <1>7, <1>8, <1>9, <1>10, <1>11, <1>12 DEF Step

\* ForceTextOutput, whichever way it is called.
LEMMA Forcing ==
  ASSUME NEW t \in Threads, ForceTextOutput(t), invited \in BOOLEAN
  PROVE  /\ latch' \in {0, 1} /\ latch' # Unset /\ forced' = latch'
         /\ invited => invited'
         /\ latch' = 0 => invited'
<1>1. CASE reportCall[t] = "force text"
  <2>1. latch' = 1 /\ forced' = latch' /\ invited' = (invited \/ latch' = 0)
    BY <1>1 DEF ForceTextOutput
  <2>2. invited => invited'
    BY <2>1
  <2> QED BY <2>1, <2>2 DEF Unset
<1>2. CASE reportCall[t] # "force text"
  <2>1. latch' = 0 /\ forced' = latch' /\ invited' = (invited \/ latch' = 0)
    BY <1>2 DEF ForceTextOutput
  <2>2. invited' = TRUE
    BY <2>1
  <2> QED BY <2>1, <2>2 DEF Unset
<1> QED BY <1>1, <1>2

\* Once resolved, no step undoes the latch or what the host has asked for.
LEMMA ResolvedStep ==
  ASSUME Control, Resolved, NEW t \in Threads, Step(t)
  PROVE  Resolved'
<1> USE DEF Control
<1>1. /\ Steady(t)' /\ ~Seed(t) /\ ~Heard(t)
      /\ ~(LoadConfigFile(t) /\ reportCall[t] \notin {"search", "load"})
  BY SteadyStep DEF Resolved
<1>2. \A u \in Threads : Steady(u)'
  <2>1. ASSUME NEW u \in Threads \ {t} PROVE Steady(u)'
    BY StepsStay DEF Steady, Resolved
  <2> QED BY <1>1, <2>1
<1>3. /\ latch' # Unset /\ (latch' = latch \/ latch' = 1 \/ ForceTextOutput(t))
      /\ forced' = forced \/ forced' = latch'
      /\ (invited => invited') /\ (ForceTextOutput(t) => (forced' = latch' /\ (latch' # 1 => invited')))
      /\ forced' # forced => ForceTextOutput(t)
  <2>1. CASE ForceTextOutput(t)
    <3>1. invited \in BOOLEAN
      BY DEF ReportCore
    <3> QED BY <2>1, <3>1, Forcing
  <2>2. CASE ~ForceTextOutput(t)
    <3>1. forced' = forced /\ invited' = invited
      BY <1>1, <2>2 DEF Step, ReadLatch, AnswerLatch, Ensure, LoadConfigFile,
         ApplyLine, Loaded, HoldForLog, SetLogFile, SetTextSink, Uses, Display, LogNamed, Assemble,
         WriteLog, Fallback, past
    <3>2. latch' = latch \/ latch' = 1
      BY <1>1, <2>2 DEF Step, ReadLatch, AnswerLatch, Ensure, LoadConfigFile,
         ApplyLine, Loaded, HoldForLog, SetLogFile, SetTextSink, Uses, Display, LogNamed, Assemble,
         WriteLog, Fallback
    <3> QED BY <2>2, <3>1, <3>2 DEF Resolved, Unset
  <2> QED BY <2>1, <2>2
<1>4. loaded'
  BY <1>1 DEF Step, ReadLatch, AnswerLatch, ForceTextOutput, Ensure, LoadConfigFile, Forgotten,
         ApplyLine, Loaded, HoldForLog, SetLogFile, SetTextSink, Uses, Display, LogNamed, Assemble,
         WriteLog, Fallback, config, Resolved
<1>5. forced' = 1 => latch' = 1
  BY <1>3 DEF Resolved
<1>6. named' # None => logPath' = named' /\ \A u \in Threads : ~At(u, "lines")'
  <2> SUFFICES ASSUME named' # None PROVE logPath' = named' /\ \A u \in Threads : ~At(u, "lines")'
    OBVIOUS
  <2>1. ~LoadConfigFile(t)
    BY <1>1 DEF LoadConfigFile
  <2>2. CASE SetLogFile(t)
    <3>1. logPath' = named' /\ At(t, "set")
      BY <2>2 DEF SetLogFile
    <3>2. \A u \in Threads \ {t} : ~At(u, "lines")
      BY <3>1, HoldsLock
    <3>3. ~At(t, "lines")'
      BY <2>1, <2>2, OtherStays DEF ApplyLine, SetLogFile, At
    <3> QED BY <3>1, <3>2, <3>3, StepsStay
  <2>3. CASE ~SetLogFile(t)
    <3>1. named' = named
      BY <1>1, <2>1, <2>3 DEF Step, ReadLatch, AnswerLatch, ForceTextOutput, Ensure,
         ApplyLine, Loaded, HoldForLog, SetTextSink, Uses, Display, LogNamed, Assemble,
         WriteLog, Fallback, past
    <3>2. logPath = named /\ \A u \in Threads : ~At(u, "lines")
      BY <3>1 DEF Resolved
    <3>3. ~ApplyLine(t) /\ ~Loaded(t)
      BY <3>2 DEF ApplyLine, Loaded
    <3>4. logPath' = logPath
      BY <1>1, <2>1, <2>3, <3>3 DEF Step, ReadLatch, AnswerLatch, ForceTextOutput, Ensure,
         HoldForLog, SetTextSink, Uses, Display, LogNamed, Assemble, WriteLog, Fallback, config
    <3>5. ~At(t, "lines")'
      BY <2>1, <3>3, OtherStays
    <3> QED BY <3>1, <3>2, <3>4, <3>5, StepsStay
  <2> QED BY <2>2, <2>3
<1>7. ASSUME Texts', ~invited'
      PROVE  /\ latch' = 1 /\ (\A u \in Threads : At(u, "display")' => ret'[u])
             /\ \A e \in shown' : e[2] # "dialog"
  <2>1. /\ Texts /\ ~invited /\ latch = 1 /\ (\A u \in Threads : At(u, "display") => ret[u])
        /\ \A e \in shown : e[2] # "dialog"
    BY <1>3, <1>7, StepsStay DEF Resolved
  <2>2. latch' = 1
    BY <1>3, <1>7, <2>1
  <2>3. ret \in [Threads -> BOOLEAN]
    BY DEF ReportCore
  <2>4. CASE AnswerLatch(t)
    <3>1. ret' = [ret EXCEPT ![t] = TRUE] /\ shown' = shown
      BY <2>1, <2>4 DEF AnswerLatch, Answer, past
    <3>2. \A u \in Threads \ {t} : At(u, "display")' => ret'[u]
      BY <2>1, <2>3, <3>1, StepsStay
    <3>3. ret'[t]
      BY <2>3, <3>1
    <3> QED BY <2>1, <2>2, <3>1, <3>2, <3>3
  <2>5. CASE ~AnswerLatch(t)
    <3>1. ret' = ret
      BY <2>5 DEF Step, ReadLatch, Seed, Heard, ForceTextOutput, Ensure, LoadConfigFile,
         ApplyLine, Loaded, HoldForLog, SetLogFile, SetTextSink, Uses, Display, LogNamed, Assemble,
         WriteLog, Fallback
    <3>2. \A u \in Threads : At(u, "display")' => ret'[u]
      BY <2>1, <2>5, <3>1, StepsStay, OtherStays
    <3>3. CASE Display(t)
      <4>1. TextOutputPolicy(ret[t])
        <5>1. ret[t] = TRUE
          BY <2>1, <2>3, <3>3 DEF Display
        <5> QED BY <5>1 DEF TextOutputPolicy
      <4>2. shown' \subseteq shown \cup {<<Event(t), "sink">>}
        BY <3>3, <4>1 DEF Display, Shown
      <4> QED BY <2>1, <2>2, <3>2, <4>2
    <3>4. CASE ~Display(t)
      <4>1. shown' = shown \/ \E d, p : p \in {"log", "stderr"} /\ shown' = shown \cup {<<d, p>>}
        BY <3>4 DEF Step, ReadLatch, Seed, Heard, AnswerLatch, ForceTextOutput, Ensure, LoadConfigFile,
         ApplyLine, Loaded, HoldForLog, SetLogFile, SetTextSink, Uses, LogNamed, Assemble,
         WriteLog, Fallback, Shown, past
      <4> QED BY <2>1, <2>2, <3>2, <4>1
    <3> QED BY <3>3, <3>4
  <2> QED BY <2>4, <2>5
<1> QED BY <1>2, <1>3, <1>4, <1>5, <1>6, <1>7 DEF Resolved

\* While the latch is being resolved only Main is in a call, one that asks.
LEMMA OnlyMain ==
  ASSUME Control, Opening, ~Ready, NEW t \in Threads, Step(t)
  PROVE  /\ t = Main /\ left[Main] = MaxCalls - 1 /\ left[Main] # MaxCalls
         /\ reportCall[Main] \in {"uses", "force text", "force dialog"}
         /\ \A p : At(Main, p) => Stage(p) /\ p \in Loads \cup Latched \cup {"latch", "seed", "heard", "answer"}
<1>1. stack[t] # << >>
  BY StepsStay DEF Control
<1>2. t = Main
  BY <1>1 DEF Opening
<1>3. left[Main] \in 0 .. MaxCalls /\ MaxCalls \in Nat
  BY ReportAssumption DEF Control, ReportCore
<1>4. left[Main] # MaxCalls
  BY <1>1, <1>2 DEF Opening
<1>5. left[Main] = MaxCalls - 1
  BY <1>3, <1>4 DEF Ready
<1>6. left[Main] # MaxCalls /\ reportCall[Main] \in {"uses", "force text", "force dialog"}
  BY <1>4 DEF Opening
<1>7. ASSUME NEW p, At(Main, p)
      PROVE  Stage(p) /\ p \in Loads \cup Latched \cup {"latch", "seed", "heard", "answer"}
  <2>1. Stage(p)
    BY <1>7 DEF Opening, At
  <2>2. Stood(stack[Main], reportCall[Main], p)
    BY <1>2, <1>7, Here DEF Control
  <2>3. p \in Loads \cup Latched \cup {"latch", "seed", "heard", "answer"}
    <3>1. p \notin {"log", "assemble", "write", "fallback", "hold", "set", "sink"}
      BY <1>6, <2>2 DEF Stood
    <3>2. p \in {"latch", "seed", "heard", "answer"} \cup Latched \cup Loads
                \cup {"log", "assemble", "write", "fallback", "hold", "set", "sink"}
      <4>1. \E q \in {"latch", "seed", "heard", "answer", "ensure", "enter", "lines", "log", "assemble",
                      "write", "fallback", "hold", "set", "sink", "display", "uses", "force text",
                      "force dialog"} : At(Main, q)
        BY <1>2 DEF Step, ReadLatch, Seed, Heard, AnswerLatch, ForceTextOutput, Ensure, LoadConfigFile,
             ApplyLine, Loaded, HoldForLog, SetLogFile, SetTextSink, Uses, Display, LogNamed, Assemble,
             WriteLog, Fallback
      <4> QED BY <1>7, <4>1, OnePlaceOnly DEF Latched, Loads
    <3> QED BY <3>1, <3>2
  <2> QED BY <2>1, <2>3
<1> QED BY <1>2, <1>5, <1>6, <1>7

\* Each stage leads to the next.
LEMMA StageStep ==
  ASSUME Control, Opening, ~Ready, Step(Main), ~ForceTextOutput(Main), ~Uses(Main)
  PROVE  /\ \E q : Leads(Main, q) /\ Stage(q)'
         /\ forced' = forced /\ invited' = invited /\ shown' = shown /\ named' = named
<1> USE DEF Control
<1>1. Main \in Threads /\ Texts' = Texts
  <2>1. Main \in Threads
    BY ReportAssumption
  <2> QED BY <2>1, StepsStay
<1>2. /\ reportCall[Main] \in {"uses", "force text", "force dialog"}
      /\ \A p : At(Main, p) => Stage(p) /\ p \in Loads \cup Latched \cup {"latch", "seed", "heard", "answer"}
      /\ ~At(Main, "display")
  <2>1. /\ reportCall[Main] \in {"uses", "force text", "force dialog"}
        /\ \A p : At(Main, p) => Stage(p) /\ p \in Loads \cup Latched \cup {"latch", "seed", "heard", "answer"}
    BY <1>1, OnlyMain
  <2>2. ASSUME At(Main, "display") PROVE FALSE
    <3>1. Stood(stack[Main], reportCall[Main], "display")
      BY <1>1, <2>2, Here
    <3> QED BY <2>1, <3>1 DEF Stood, Latched
  <2> QED BY <2>1, <2>2
<1>3. /\ ~HoldForLog(Main) /\ ~SetLogFile(Main) /\ ~SetTextSink(Main) /\ ~Display(Main)
      /\ ~LogNamed(Main) /\ ~Assemble(Main) /\ ~WriteLog(Main) /\ ~Fallback(Main)
  <2>1. \A q \in {"hold", "set", "sink", "log", "assemble", "write", "fallback"} : ~At(Main, q)
    BY <1>2 DEF Latched, Loads
  <2> QED BY <1>2, <2>1 DEF HoldForLog, SetLogFile, SetTextSink, Display, LogNamed, Assemble, WriteLog, Fallback
<1>4. forced' = forced /\ invited' = invited /\ shown' = shown /\ named' = named
  BY <1>2, <1>3 DEF Step, ReadLatch, Seed, Heard, AnswerLatch, Ensure, LoadConfigFile, ApplyLine, Loaded, past
<1> SUFFICES \E q : Leads(Main, q) /\ Stage(q)'
  BY <1>4
<1>5. CASE ReadLatch(Main)
  <2>1. PICK p : p = "latch" /\ At(Main, p)
    BY <1>5 DEF ReadLatch
  <2>2. latch = Unset /\ ~loaded /\ reading[Main].file = None
    BY <1>2, <2>1 DEF Stage
  <2>3. latch' = latch /\ loaded' = loaded /\ reading' = reading
    BY <1>5 DEF ReadLatch, config
  <2>4. PICK q : q = "seed" /\ Leads(Main, q)
    BY <1>1, <1>5, <2>2, LatchLeads
  <2>5. Stage(q)'
    BY <2>2, <2>3, <2>4 DEF Stage, Latched
  <2> QED BY <2>4, <2>5
<1>6. CASE Seed(Main)
  <2>1. PICK p : p = "seed" /\ At(Main, p)
    BY <1>6 DEF Seed
  <2>2. ~loaded /\ reading[Main].file = None
    BY <1>2, <2>1 DEF Stage
  <2>3. latch' # Unset /\ loaded' = loaded /\ reading' = reading
    BY <1>6, ReportAssumption DEF Seed, config, Unset
  <2>4. PICK q : q = "ensure" /\ Leads(Main, q)
    BY <1>1, <1>6, LatchLeads
  <2>5. Stage(q)'
    BY <2>2, <2>3, <2>4 DEF Stage, Latched
  <2> QED BY <2>4, <2>5
<1>7. CASE Ensure(Main)
  <2>1. PICK p : p = "ensure" /\ At(Main, p)
    BY <1>7 DEF Ensure
  <2>2. latch # Unset /\ ~loaded /\ reading[Main].file = None
    BY <1>2, <2>1 DEF Stage
  <2>3. latch' = latch /\ loaded' = loaded /\ reading' = reading
    BY <1>7 DEF Ensure, config
  <2>4. PICK q : q = "enter" /\ Leads(Main, q)
    BY <1>1, <1>7, <2>2, SearchLeads
  <2>5. Stage(q)'
    BY <2>2, <2>3, <2>4 DEF Stage, Latched
  <2> QED BY <2>4, <2>5
<1>8. CASE LoadConfigFile(Main)
  <2>1. PICK p : p = "enter" /\ At(Main, p)
    BY <1>8 DEF LoadConfigFile
  <2>2. latch # Unset /\ reading[Main].file = None
    BY <1>2, <2>1 DEF Stage
  <2>3. latch' = latch /\ loaded' = TRUE
    BY <1>8 DEF LoadConfigFile, Forgotten
  <2>4. PICK q : q = "lines" /\ Leads(Main, q)
    BY <1>1, <1>8, SearchLeads
  <2>5. ASSUME Texts PROVE Ruling(Main)'
    <3>1. PICK f : f = Found(None)
      OBVIOUS
    <3>2. f \in Existing /\ reportDisk[f] \in {"text", "textlog"} /\ f # None
      <4>1. f \in Existing
        BY <2>5, <3>1 DEF Found, Texts
      <4> QED BY <2>5, <4>1, ReportAssumption DEF Texts, Existing
    <3>3. reading' = [reading EXCEPT ![Main] = [file |-> f, log |-> FALSE, lines |-> Lines(reportDisk[f])]]
      BY <1>8, <2>2, <3>1, <3>2 DEF LoadConfigFile
    <3>4. Lines(reportDisk[f]) # << >> /\ Head(Lines(reportDisk[f])) = "dialog off"
      <4>1. CASE reportDisk[f] = "text"
        <5>1. Lines(reportDisk[f]) = <<"dialog off">>
          BY <4>1 DEF Lines
        <5>2. PICK a : a = "dialog off"
          OBVIOUS
        <5>3. <<a>> # << >> /\ Head(<<a>>) = a
          BY OnePlace
        <5> QED BY <5>1, <5>2, <5>3
      <4>2. CASE reportDisk[f] = "textlog"
        <5>1. Lines(reportDisk[f]) = <<"dialog off", "log">>
          BY <4>2 DEF Lines
        <5>2. PICK a, b : a = "dialog off" /\ b = "log"
          OBVIOUS
        <5>3. <<a, b>> # << >> /\ Head(<<a, b>>) = a
          BY TwoPlaces
        <5> QED BY <5>1, <5>2, <5>3
      <4> QED BY <3>2, <4>1, <4>2
    <3>5. reading'[Main].lines = Lines(reportDisk[f])
      BY <1>1, <3>3 DEF ReadingTyped
    <3> QED BY <3>4, <3>5 DEF Ruling
  <2>6. Stage(q)'
    BY <1>1, <2>2, <2>3, <2>4, <2>5 DEF Stage, Latched
  <2> QED BY <2>4, <2>6
<1>9. CASE ApplyLine(Main)
  <2>1. PICK p : p = "lines" /\ At(Main, p)
    BY <1>9 DEF ApplyLine
  <2>2. latch # Unset /\ loaded /\ (Texts => Ruling(Main))
    BY <1>2, <2>1 DEF Stage
  <2>3. latch' = latch /\ loaded' = loaded /\ stack' = stack
    BY <1>9 DEF ApplyLine
  <2>4. textOnly' = (textOnly \/ Head(reading[Main].lines) = "dialog off")
    BY <1>9 DEF ApplyLine
  <2>5. Texts => textOnly'
    BY <2>2, <2>4 DEF Ruling
  <2>6. Stage(p)'
    BY <1>1, <2>1, <2>2, <2>3, <2>5 DEF Stage, Latched, Ruling
  <2>7. Leads(Main, p)
    BY <2>1, <2>3 DEF Leads, At
  <2> QED BY <2>6, <2>7
<1>10. CASE Loaded(Main)
  <2>1. PICK p : p = "lines" /\ At(Main, p)
    BY <1>10 DEF Loaded
  <2>2. latch # Unset /\ loaded /\ (Texts => Ruling(Main))
    BY <1>2, <2>1 DEF Stage
  <2>3. /\ latch' \in {latch, 1} /\ loaded' = loaded /\ textOnly' = textOnly
        /\ reading[Main].lines = << >>
    BY <1>10 DEF Loaded
  <2>4. PICK q : q = "heard" /\ Leads(Main, q)
    BY <1>1, <1>2, <1>10, SearchLeads DEF Back, Latched
  <2>5. Stage(q)'
    BY <1>1, <2>2, <2>3, <2>4 DEF Stage, Latched, Ruling, Unset
  <2> QED BY <2>4, <2>5
<1>11. CASE Heard(Main)
  <2>1. PICK p : p = "heard" /\ At(Main, p)
    BY <1>11 DEF Heard
  <2>2. latch # Unset /\ loaded /\ (Texts => textOnly)
    BY <1>2, <2>1 DEF Stage
  <2>3. latch' = (IF textOnly THEN 1 ELSE latch) /\ loaded' = loaded
    BY <1>11 DEF Heard, config
  <2>4. PICK q : q = "answer" /\ Leads(Main, q)
    BY <1>1, <1>11, LatchLeads
  <2>5. Stage(q)'
    BY <1>1, <2>2, <2>3, <2>4 DEF Stage, Latched, Unset
  <2> QED BY <2>4, <2>5
<1>12. CASE AnswerLatch(Main)
  <2>1. PICK p : p = "answer" /\ At(Main, p)
    BY <1>12 DEF AnswerLatch
  <2>2. latch # Unset /\ loaded /\ (Texts => latch = 1)
    BY <1>2, <2>1 DEF Stage
  <2>3. latch' = latch /\ loaded' = loaded
    BY <1>12 DEF AnswerLatch, config
  <2>4. PICK q : q \in Latched /\ Leads(Main, q)
    BY <1>1, <1>12, LatchLeads
  <2>5. Stage(q)'
    BY <1>1, <2>2, <2>3, <2>4 DEF Stage, Latched
  <2> QED BY <2>4, <2>5
<1> QED BY <1>3, <1>5, <1>6, <1>7, <1>8, <1>9, <1>10, <1>11, <1>12 DEF Step

\* The last stage is the end of the call, and leaves the latch resolved.
LEMMA OpeningStep ==
  ASSUME Control, Opening, ~Ready, NEW t \in Threads, Step(t)
  PROVE  IF Ready' THEN Resolved' ELSE Opening'
<1> USE DEF Control
<1>1. /\ t = Main /\ left[Main] = MaxCalls - 1 /\ left[Main] # MaxCalls
      /\ reportCall[Main] \in {"uses", "force text", "force dialog"}
      /\ \A p : At(Main, p) => Stage(p)
  BY OnlyMain
<1>2. /\ \A u \in Threads \ {Main} : stack'[u] = << >>
      /\ left' = left /\ reportCall' = reportCall /\ Texts' = Texts
  BY <1>1, StepsStay DEF Opening
<1>3. CASE ~ForceTextOutput(Main) /\ ~Uses(Main)
  <2>1. PICK q : Leads(Main, q) /\ Stage(q)'
    BY <1>1, <1>3, StageStep
  <2>2. forced' = forced /\ invited' = invited /\ shown' = shown /\ named' = named
    BY <1>1, <1>3, StageStep
  <2>3. stack'[Main] # << >> /\ Stage(Head(stack[Main]))'
    <3>1. stack'[Main] # << >> /\ Head(stack'[Main]) = q
      BY <2>1 DEF Leads, At
    <3> QED BY <2>1, <3>1 DEF Stage
  <2>4. ~Ready'
    BY <1>1, <1>2, <2>3 DEF Ready, ReportIdle
  <2>5. Opening'
    BY <1>1, <1>2, <2>2, <2>3 DEF Opening
  <2> QED BY <2>4, <2>5
<1>4. CASE ForceTextOutput(Main) \/ Uses(Main)
  <2>1. PICK p \in Latched : At(Main, p)
    BY <1>4 DEF ForceTextOutput, Uses, Latched
  <2>2. latch # Unset /\ loaded /\ (Texts => latch = 1)
    BY <1>1, <2>1 DEF Stage
  <2>3. CallEnds(Main)
    BY <1>1, <1>4, LatchLeads
  <2>4. \A u \in Threads : stack'[u] = << >>
    BY <1>1, <1>2, <2>3 DEF CallEnds
  <2>5. Ready'
    <3>1. left'[Main] < MaxCalls
      <4>1. left'[Main] = MaxCalls - 1
        BY <1>1, <1>2
      <4>2. MaxCalls \in Nat
        BY ReportAssumption
      <4> QED BY ONLY <4>1, <4>2
    <3>2. ReportIdle(Main)'
      BY <1>1, <2>3 DEF ReportIdle, CallEnds
    <3> QED BY <3>1, <3>2 DEF Ready
  <2>6. loaded' = loaded /\ shown' = {} /\ named' = None
    BY <1>4 DEF ForceTextOutput, Uses, config, past, Opening
  <2>7. latch' # Unset /\ (forced' = 1 => latch' = 1) /\ (Texts /\ ~invited' => latch' = 1)
    <3>1. CASE ForceTextOutput(Main)
      <4>1. invited \in BOOLEAN
        BY DEF ReportCore
      <4> QED BY <1>1, <3>1, <4>1, Forcing
    <3>2. CASE Uses(Main)
      <4>1. latch' = latch /\ forced' = None
        BY <3>2 DEF Uses, past, Opening
      <4> QED BY <2>2, <4>1, ReportAssumption
    <3> QED BY <1>4, <3>1, <3>2
  <2>8. \A u \in Threads : Steady(u)' /\ \A q : ~At(u, q)'
    BY <2>4 DEF Steady, At
  <2> QED BY <1>2, <2>2, <2>5, <2>6, <2>7, <2>8 DEF Resolved
<1> QED BY <1>3, <1>4

\* Nothing has been called.
LEMMA SettledInit == ReportInit => SettledInv
<1> SUFFICES ASSUME ReportInit PROVE Opening /\ ~Ready
  BY DEF SettledInv
<1>1. /\ stack = [t \in Threads |-> << >>] /\ left = [t \in Threads |-> MaxCalls] /\ Main \in Threads
      /\ forced = None /\ named = None /\ shown = {} /\ ~invited /\ latch = Unset /\ ~loaded
  BY ReportAssumption DEF ReportInit
<1>2. left[Main] = MaxCalls /\ \A u \in Threads : stack[u] = << >>
  BY <1>1
<1>3. ~Ready
  BY <1>2, ReportAssumption DEF Ready
<1> QED BY <1>1, <1>2, <1>3 DEF Opening

\* Where a call starts.
LEMMA Starts ==
  ASSUME Control, NEW t \in Threads, Start(t)
  PROVE  \E c \in ReportCalls :
            /\ MayCall(t, c)
            /\ \A u \in Threads \ {t} : stack'[u] = stack[u] /\ reportCall'[u] = reportCall[u]
            /\ stack'[t] # << >> /\ reportCall'[t] = c
            /\ c \in Latched => At(t, "latch")'
            /\ c \in {"search", "load"} => At(t, "enter")'
            /\ c = "ask" => At(t, "ensure")'
            /\ c \notin Latched \cup {"search", "load", "ask"} => At(t, "hold")' \/ At(t, "sink")'
<1>1. PICK c \in ReportCalls : /\ reportCall' = [reportCall EXCEPT ![t] = c] /\ MayCall(t, c)
                               /\ stack' = [stack EXCEPT ![t] = ReportFirst(c)]
  BY DEF Start
<1>2. DOMAIN stack = Threads /\ DOMAIN reportCall = Threads
  BY DEF Control, Stacked
<1>3. stack'[t] = ReportFirst(c) /\ reportCall'[t] = c
      /\ \A u \in Threads \ {t} : stack'[u] = stack[u] /\ reportCall'[u] = reportCall[u]
  BY <1>1, <1>2
<1>4. CASE c \in Latched
  <2>1. ReportFirst(c) = <<"latch", c>>
    BY <1>4 DEF ReportFirst, Latched
  <2>2. PICK a, z : a = "latch" /\ z = <<a, c>>
    OBVIOUS
  <2>3. z # << >> /\ Head(z) = a
    BY <2>2, TwoPlaces
  <2>4. stack'[t] = z
    BY <1>3, <2>1, <2>2
  <2>5. At(t, "latch")'
    BY <2>2, <2>3, <2>4 DEF At
  <2>6. c \notin {"search", "load", "ask"}
    BY <1>4 DEF Latched
  <2> QED BY <1>1, <1>3, <1>4, <2>3, <2>4, <2>5, <2>6
<1>5. CASE c \notin Latched
  <2>1. PICK p \in {"enter", "hold", "ensure", "sink"} :
           /\ ReportFirst(c) = <<p>>
           /\ c \in {"search", "load"} => p = "enter"
           /\ c = "ask" => p = "ensure"
           /\ c \notin {"search", "load", "ask"} => p \in {"hold", "sink"}
    BY <1>5, ReportAssumption DEF ReportFirst, Latched, CallNames
  <2>2. <<p>> # << >> /\ Head(<<p>>) = p
    BY OnePlace
  <2>3. stack'[t] # << >> /\ At(t, p)'
    BY <1>3, <2>1, <2>2 DEF At
  <2> QED BY <1>1, <1>3, <1>5, <2>1, <2>3
<1> QED BY <1>4, <1>5

\* A call that starts: after the first one anywhere, before it only on Main.
LEMMA SettledStart ==
  ASSUME Control, SettledInv, NEW t \in Threads, Start(t)
  PROVE  SettledInv'
<1> USE DEF Control
<1>1. PICK c \in ReportCalls :
            /\ MayCall(t, c)
            /\ \A u \in Threads \ {t} : stack'[u] = stack[u] /\ reportCall'[u] = reportCall[u]
            /\ stack'[t] # << >> /\ reportCall'[t] = c
            /\ c \in Latched => At(t, "latch")'
            /\ c \in {"search", "load"} => At(t, "enter")'
            /\ c = "ask" => At(t, "ensure")'
            /\ c \notin Latched \cup {"search", "load", "ask"} => At(t, "hold")' \/ At(t, "sink")'
  BY Starts
<1>2. /\ settled' = settled /\ reportDisk' = reportDisk /\ latch' = latch /\ loaded' = loaded
      /\ textOnly' = textOnly /\ logPath' = logPath /\ shown' = shown /\ forced' = forced
      /\ invited' = invited /\ named' = named /\ ret' = ret
      /\ stack[t] = << >> /\ left[t] > 0 /\ left' = [left EXCEPT ![t] = @ - 1]
  BY DEF Start, config, past, ReportIdle
<1>3. left \in [Threads -> 0 .. MaxCalls] /\ MaxCalls \in Nat /\ Main \in Threads
  BY ReportAssumption DEF ReportCore
<1>4. left'[t] = left[t] - 1 /\ \A u \in Threads \ {t} : left'[u] = left[u]
  BY <1>2, <1>3
<1>5. Texts' = Texts
  BY <1>2 DEF Texts, Existing
<1>6. ASSUME NEW q, At(t, q)' PROVE q \in {"latch", "enter", "ensure", "hold", "sink"}
  BY <1>1, <1>6 DEF At
<1> SUFFICES ASSUME settled PROVE IF Ready' THEN Resolved' ELSE Opening'
  BY <1>2 DEF SettledInv
<1>7. CASE Ready
  <2>1. Resolved
    BY <1>7 DEF SettledInv
  <2>2. Ready'
    <3>1. CASE t = Main
      <4>1. left[Main] < MaxCalls /\ left'[Main] = left[Main] - 1
        BY <1>4, <1>7, <3>1 DEF Ready
      <4>2. left'[Main] < MaxCalls - 1
        BY <1>3, <4>1
      <4> QED BY <1>3, <4>1, <4>2 DEF Ready
    <3>2. CASE t # Main
      <4>1. stack'[Main] = stack[Main] /\ left'[Main] = left[Main]
        BY <1>1, <1>3, <1>4, <3>2
      <4> QED BY <1>7, <4>1 DEF Ready, ReportIdle
    <3> QED BY <3>1, <3>2
  <2>3. Steady(t)'
    <3>1. ~At(t, "seed")' /\ ~At(t, "heard")' /\ ~At(t, "lines")'
      BY <1>6
    <3>2. At(t, "ensure")' => c \notin Latched
      BY <1>1 DEF At
    <3>3. At(t, "enter")' => c \in {"search", "load"}
      BY <1>1 DEF At
    <3> QED BY <1>1, <3>1, <3>2, <3>3 DEF Steady
  <2>4. \A u \in Threads \ {t} : \A q : At(u, q)' = At(u, q)
    BY <1>1 DEF At
  <2>5. \A u \in Threads \ {t} : Steady(u)'
    BY <1>1, <2>1, <2>4 DEF Resolved, Steady
  <2>6. ~At(t, "lines")' /\ ~At(t, "display")'
    BY <1>6
  <2>7. named' # None => logPath' = named' /\ \A u \in Threads : ~At(u, "lines")'
    BY <1>2, <2>1, <2>4, <2>6 DEF Resolved
  <2>8. Texts' /\ ~invited' =>
           /\ latch' = 1 /\ (\A u \in Threads : At(u, "display")' => ret'[u])
           /\ \A e \in shown' : e[2] # "dialog"
    BY <1>2, <1>5, <2>1, <2>4, <2>6 DEF Resolved
  <2>9. latch' # Unset /\ loaded' /\ (forced' = 1 => latch' = 1)
    BY <1>2, <2>1 DEF Resolved
  <2>10. \A u \in Threads : Steady(u)'
    BY <2>3, <2>5
  <2> QED BY <2>2, <2>7, <2>8, <2>9, <2>10 DEF Resolved
<1>8. CASE ~Ready
  <2>1. Opening
    BY <1>8 DEF SettledInv
  <2>2. t = Main /\ stack[Main] = << >> /\ c \in {"uses", "force text", "force dialog"}
    BY <1>1, <1>8 DEF MayCall, ReportIdle
  <2>3. left[Main] = MaxCalls
    <3>1. ~(left[Main] < MaxCalls)
      BY <1>8, <2>2 DEF Ready, ReportIdle
    <3> QED BY <1>3, <3>1
  <2>4. latch = Unset /\ ~loaded
    BY <2>1, <2>3 DEF Opening
  <2>5. At(Main, "latch")'
    BY <1>1, <2>2 DEF Latched
  <2>6. reading'[Main].file = None
    <3>1. PICK f : reading' = [reading EXCEPT ![t] =
                [file |-> IF reportCall'[t] = "load" THEN f ELSE None, lines |-> << >>, log |-> FALSE]]
      <4>1. reportCall \in [Threads -> CallNames \cup {None}]
        BY DEF Stacked
      <4> QED BY <4>1 DEF Start
    <3>2. reportCall'[t] # "load"
      BY <1>1, <2>2
    <3> QED BY <1>3, <2>2, <3>1, <3>2 DEF ReadingTyped
  <2>7. PICK p : p = "latch"
    OBVIOUS
  <2>8. Stage(p)'
    BY <1>2, <2>4, <2>6, <2>7 DEF Stage, Latched
  <2>9. stack'[Main] # << >> /\ Head(stack'[Main]) = p
    BY <2>5, <2>7 DEF At
  <2>10. Stage(Head(stack[Main]))'
    BY <2>8, <2>9 DEF Stage
  <2>11. left'[Main] = MaxCalls - 1 /\ left'[Main] # MaxCalls
    <3>1. left'[Main] = MaxCalls - 1
      BY <1>4, <2>2, <2>3
    <3> QED BY ONLY <1>3, <3>1
  <2>12. ~Ready'
    BY <2>9, <2>11 DEF Ready, ReportIdle
  <2>13. \A u \in Threads \ {Main} : stack'[u] = << >>
    BY <1>1, <2>1, <2>2 DEF Opening
  <2>14. forced' = None /\ named' = None /\ shown' = {} /\ ~invited'
    BY <1>2, <2>1 DEF Opening
  <2> QED BY <1>1, <2>2, <2>9, <2>10, <2>11, <2>12, <2>13, <2>14 DEF Opening
<1> QED BY <1>7, <1>8

\* A step of a call, before or after the latch is resolved.
LEMMA SettledStep ==
  ASSUME Control, SettledInv, NEW t \in Threads, Step(t)
  PROVE  SettledInv'
<1>1. Stacked /\ ReportCore
  BY DEF Control
<1>2. settled' = settled
  BY <1>1, StepsStay
<1>3. CASE Ready
  <2>1. settled => Resolved'
    BY <1>3, ResolvedStep DEF SettledInv
  <2>2. Ready'
    BY <1>1, <1>3, ReadyStays
  <2> QED BY <1>2, <2>1, <2>2 DEF SettledInv
<1>4. CASE ~Ready
  BY <1>2, <1>4, OpeningStep DEF SettledInv
<1> QED BY <1>3, <1>4

\* Nothing moves.
LEMMA ReportStands ==
  ASSUME UNCHANGED reportVars
  PROVE  /\ Control => Control'
         /\ Displayed => Displayed'
         /\ SettledInv => SettledInv'
<1> USE DEF reportVars, config, local, past
<1>1. Control => Control'
  BY DEF Control, ReportCore, ReadingTyped, Stacked, LockCounted
<1>2. Displayed => Displayed'
  BY DEF Displayed, DisplayOver, Seen, At, Event, ReportIdle
<1>3. SettledInv => SettledInv'
  BY DEF SettledInv, Ready, Resolved, Opening, Stage, Steady, Texts, Existing, Ruling, At, ReportIdle
<1> QED BY <1>1, <1>2, <1>3

\* What the host has asked for is what it gets.
LEMMA SettledStands ==
  ASSUME Control, SettledInv PROVE ForceStands /\ SettledNamed /\ SettledText
<1> SUFFICES ASSUME settled PROVE ForceStands /\ SettledNamed /\ SettledText
  BY DEF ForceStands, SettledNamed, SettledText
<1>1. CASE Ready
  BY <1>1 DEF SettledInv, Resolved, Texts, ForceStands, SettledNamed, SettledText
<1>2. CASE ~Ready
  <2>1. forced = None /\ named = None /\ shown = {} /\ None # 1
    BY <1>2, ReportAssumption DEF SettledInv, Opening
  <2> QED BY <2>1 DEF ForceStands, SettledNamed, SettledText
<1> QED BY <1>1, <1>2

\* A thread with no place left is not inside.
LEMMA LockIsLetGo == ASSUME Control PROVE LockLetGo
<1> SUFFICES ASSUME NEW t \in Threads, stack[t] = << >>, reportOwner.by = t PROVE FALSE
  BY DEF LockLetGo, ReportIdle
<1>1. reportOwner.depth = 0
  BY Depths DEF Control, LockCounted
<1> QED BY <1>1, ReportAssumption DEF Control, LockCounted

\* Whatever the files hold, and however the calls of the threads interleave, a
\* diagnostic reaches one place in its own words, the lock is let go of, and a
\* host that resolves the latch first is taken at its word.
THEOREM ReportsAreSound == ReportSpec => []ReportsStand
<1>1. ReportInit => Control /\ Displayed /\ SettledInv
  BY ControlInit, DisplayedInit, SettledInit
<1>2. Control /\ Displayed /\ SettledInv /\ [ReportNext]_reportVars
      => Control' /\ Displayed' /\ SettledInv'
  <2> SUFFICES ASSUME Control, Displayed, SettledInv, [ReportNext]_reportVars
               PROVE  Control' /\ Displayed' /\ SettledInv'
    OBVIOUS
  <2>1. ASSUME NEW t \in Threads, Start(t) \/ Step(t)
        PROVE  Control' /\ Displayed' /\ SettledInv'
    <3>1. Control'
      BY <2>1, ControlStep
    <3>2. Displayed'
      BY <2>1, DisplayedStart, DisplayedStep
    <3>3. SettledInv'
      BY <2>1, SettledStart, SettledStep
    <3> QED BY <3>1, <3>2, <3>3
  <2>2. ASSUME UNCHANGED reportVars
        PROVE  Control' /\ Displayed' /\ SettledInv'
    BY <2>2, ReportStands
  <2> QED BY <2>1, <2>2 DEF ReportNext
<1>3. Control /\ Displayed /\ SettledInv => ReportsStand
  BY ControlTyped, DisplayedOnce, SettledStands, LockIsLetGo DEF ReportsStand
<1> QED BY <1>1, <1>2, <1>3, PTL DEF ReportSpec

-----------------------------------------------------------------------------
(***************************************************************************)
(* The triggers.  A list has each registration once and a walk stands      *)
(* before one of them, or at the end; a sink that drops the registration   *)
(* it is called for takes one behind the walk.  A block that was freed     *)
(* keeps its list only while the walk that drops it is under way.  A sweep *)
(* has cleaned every key before the one it stands at, for what Purged      *)
(* takes out of the keys leaves the others in their order.                 *)
(***************************************************************************)

\* No element of s twice.
Once(s) == \A i, j \in DOMAIN s : s[i] = s[j] => i = j

\* h leads from the places of r to those of s that are not in S, in their order.
Survivors(s, S, r, h) ==
    /\ h \in [DOMAIN r -> DOMAIN s]
    /\ \A i, j \in DOMAIN r : i < j => h[i] < h[j]
    /\ \A i \in DOMAIN r : r[i] = s[h[i]]
    /\ \A j \in DOMAIN s : s[j] \notin S <=> \E i \in DOMAIN r : h[i] = j

\* One step of Purged: an element more is looked at.
Looked(s, S, k, r) == IF s[k] \in S THEN r ELSE Append(r, s[k])

\* The passes of Purged: a sequence for each prefix.
Passing(s, S, n, T, f) ==
  /\ f \in [0 .. n -> Seq(T)]
  /\ f[0] = << >>
  /\ \A k \in 1 .. n : f[k] = Looked(s, S, k, f[k - 1])

LEMMA PassesExist ==
  ASSUME NEW T, NEW n \in Nat, NEW s, \A k \in 1 .. n : s[k] \in T, NEW S
  PROVE  \E f : Passing(s, S, n, T, f)
<1> DEFINE Good == {m \in 0 .. n : \E f : Passing(s, S, m, T, f)}
<1>2. 0 \in Good
  <2>1. PICK e : e = << >>
    OBVIOUS
  <2>2. e \in Seq(T)
    BY <2>1
  <2>3. PICK f : f = [k \in 0 .. 0 |-> e]
    OBVIOUS
  <2>4. f \in [0 .. 0 -> Seq(T)]
    BY <2>2, <2>3
  <2>5. f[0] = << >>
    BY <2>1, <2>3
  <2>6. \A k \in 1 .. 0 : FALSE
    OBVIOUS
  <2>7. Passing(s, S, 0, T, f)
    BY <2>4, <2>5, <2>6 DEF Passing
  <2>8. 0 \in 0 .. n
    OBVIOUS
  <2> QED BY <2>7, <2>8
<1>3. \A m \in 0 .. n - 1 : m \in Good => m + 1 \in Good
  <2> SUFFICES ASSUME NEW m \in 0 .. n - 1, m \in Good PROVE m + 1 \in Good
    OBVIOUS
  <2>1. PICK w : Passing(s, S, m, T, w)
    OBVIOUS
  <2>2. m + 1 \in 0 .. n /\ m + 1 \in 1 .. n /\ m \in Nat /\ m \in 0 .. m
    OBVIOUS
  <2>3. /\ w \in [0 .. m -> Seq(T)]
        /\ w[0] = << >>
        /\ \A k \in 1 .. m : w[k] = Looked(s, S, k, w[k - 1])
    BY <2>1 DEF Passing
  <2>4. PICK x \in Seq(T) : x = Looked(s, S, m + 1, w[m])
    <3>1. s[m + 1] \in T
      BY <2>2
    <3>2. w[m] \in Seq(T)
      BY <2>2, <2>3
    <3>3. Append(w[m], s[m + 1]) \in Seq(T)
      BY <3>1, <3>2
    <3> QED BY <3>2, <3>3 DEF Looked
  <2> DEFINE v == [k \in 0 .. m + 1 |-> IF k <= m THEN w[k] ELSE x]
  <2>5. v \in [0 .. m + 1 -> Seq(T)]
    BY <2>3, <2>2, <2>4
  <2>6. v[0] = << >>
    BY <2>3, <2>2
  <2>7. \A k \in 1 .. m + 1 : v[k] = Looked(s, S, k, v[k - 1])
    <3> TAKE k \in 1 .. m + 1
    <3>1. k \in 0 .. m + 1 /\ k - 1 \in 0 .. m + 1 /\ k - 1 <= m
      BY <2>2
    <3>2. v[k - 1] = w[k - 1] /\ v[k] = IF k <= m THEN w[k] ELSE x
      BY <3>1
    <3>3. k <= m => w[k] = Looked(s, S, k, w[k - 1])
      BY <2>3
    <3>4. ~(k <= m) => k = m + 1 /\ k - 1 = m
      BY <2>2
    <3> HIDE DEF v
    <3> QED BY <3>2, <3>3, <3>4, <2>4
  <2>8. Passing(s, S, m + 1, T, v)
    <3> HIDE DEF v
    <3> QED BY <2>5, <2>6, <2>7 DEF Passing
  <2> QED BY <2>2, <2>8
<1>4. n \in Good
  <2>1. \A k \in 0 .. n : k \in Good
    <3> HIDE DEF Good
    <3> QED BY <1>2, <1>3, NumberInduction
  <2>2. n \in 0 .. n
    OBVIOUS
  <2> HIDE DEF Good
  <2> QED BY <2>1, <2>2
<1> QED BY <1>4

\* Purged leaves what is not in S, in its order.
Led(s, S, T, k, r, h) ==
  /\ r \in Seq(T) /\ h \in [1 .. Len(r) -> 1 .. k]
  /\ \A i, j \in 1 .. Len(r) : i < j => h[i] < h[j]
  /\ \A i \in 1 .. Len(r) : r[i] = s[h[i]]
  /\ \A j \in 1 .. k : s[j] \notin S <=> \E i \in 1 .. Len(r) : h[i] = j

\* One element more: it is left out, or goes to the end.
LEMMA LedOn ==
  ASSUME NEW s, NEW S, NEW T, NEW m \in Nat, NEW k, k = m + 1, s[k] \in T,
         NEW r, NEW h, Led(s, S, T, m, r, h)
  PROVE  \E g : Led(s, S, T, k, Looked(s, S, k, r), g)
<1>1. PICK l \in Nat : l = Len(r)
  BY DEF Led
<1>2. /\ r \in Seq(T)
      /\ h \in [1 .. l -> 1 .. m]
      /\ \A i, j \in 1 .. l : i < j => h[i] < h[j]
      /\ \A i \in 1 .. l : r[i] = s[h[i]]
      /\ \A j \in 1 .. m : s[j] \notin S <=> \E i \in 1 .. l : h[i] = j
  BY <1>1 DEF Led
<1>3. /\ k \in 1 .. k /\ k \in Nat
      /\ \A j \in 1 .. k : j \in 1 .. m \/ j = k
      /\ \A j \in 1 .. m : j \in 1 .. k /\ j # k /\ j < k
  OBVIOUS
<1>4. \A i \in 1 .. l : h[i] \in 1 .. m
  BY <1>2
<1>5. CASE s[k] \in S
  <2>1. Looked(s, S, k, r) = r
    BY <1>5 DEF Looked
  <2>2. h \in [1 .. l -> 1 .. k]
    BY <1>2, <1>3, <1>4
  <2>3. \A j \in 1 .. k : s[j] \notin S <=> \E i \in 1 .. l : h[i] = j
    BY <1>2, <1>3, <1>4, <1>5
  <2>4. Led(s, S, T, k, r, h)
    BY <1>1, <1>2, <2>2, <2>3 DEF Led
  <2> QED BY <2>1, <2>4
<1>6. CASE s[k] \notin S
  <2>1. PICK q : q = Append(r, s[k])
    OBVIOUS
  <2>2. Looked(s, S, k, r) = q
    BY <1>6, <2>1 DEF Looked
  <2>3. q \in Seq(T) /\ Len(q) = l + 1 /\ q[l + 1] = s[k]
    BY <1>1, <1>2, <2>1
  <2>4. \A i \in 1 .. l : q[i] = r[i]
    BY <1>1, <1>2, <2>1
  <2>5. PICK g : g = [i \in 1 .. l + 1 |-> IF i <= l THEN h[i] ELSE k]
    OBVIOUS
  <2>6. /\ l + 1 \in 1 .. l + 1
        /\ \A i \in 1 .. l + 1 : i \in 1 .. l \/ i = l + 1
        /\ \A i \in 1 .. l : i \in 1 .. l + 1 /\ i <= l
    OBVIOUS
  <2>7. g[l + 1] = k /\ \A i \in 1 .. l : g[i] = h[i]
    <3>1. ~(l + 1 <= l)
      OBVIOUS
    <3> QED BY <2>5, <2>6, <3>1
  <2>8. g \in [1 .. l + 1 -> 1 .. k]
    <3>1. \A i \in 1 .. l + 1 : g[i] \in 1 .. k
      BY <2>6, <2>7, <1>3, <1>4
    <3>2. g = [i \in 1 .. l + 1 |-> g[i]]
      BY <2>5
    <3> QED BY <3>1, <3>2
  <2>9. ASSUME NEW i \in 1 .. l + 1, NEW j \in 1 .. l + 1, i < j PROVE g[i] < g[j]
    <3>1. i \in 1 .. l
      BY <2>9
    <3>2. CASE j \in 1 .. l
      BY <1>2, <2>7, <2>9, <3>1, <3>2
    <3>3. CASE j = l + 1
      BY <1>3, <1>4, <2>7, <3>1, <3>3
    <3> QED BY <2>6, <3>2, <3>3
  <2>10. \A i \in 1 .. l + 1 : q[i] = s[g[i]]
    BY <1>2, <2>3, <2>4, <2>6, <2>7
  <2>11. ASSUME NEW j \in 1 .. k
         PROVE  s[j] \notin S <=> \E i \in 1 .. l + 1 : g[i] = j
    <3>1. CASE j = k
      BY <1>6, <2>6, <2>7, <3>1
    <3>2. CASE j \in 1 .. m
      <4>1. s[j] \notin S <=> \E i \in 1 .. l : h[i] = j
        BY <1>2, <3>2
      <4>2. \A i \in 1 .. l + 1 : g[i] = j => i \in 1 .. l /\ h[i] = j
        BY <1>3, <2>6, <2>7, <3>2
      <4>3. \A i \in 1 .. l : h[i] = j => i \in 1 .. l + 1 /\ g[i] = j
        BY <2>6, <2>7
      <4> QED BY <4>1, <4>2, <4>3
    <3> QED BY <1>3, <3>1, <3>2
  <2>12. Led(s, S, T, k, q, g)
    BY <2>3, <2>8, <2>9, <2>10, <2>11 DEF Led
  <2> QED BY <2>2, <2>12
<1> QED BY <1>5, <1>6

LEMMA PurgedIs ==
  ASSUME NEW T, NEW s \in Seq(T), NEW S
  PROVE  Purged(s, S) \in Seq(T) /\ \E h : Survivors(s, S, Purged(s, S), h)
<1> DEFINE Passes(f) == f = [k \in 0 .. Len(s) |-> IF k = 0 THEN << >>
                               ELSE IF s[k] \in S THEN f[k - 1] ELSE Append(f[k - 1], s[k])]
<1>1. PICK n \in Nat : n = Len(s)
  OBVIOUS
<1>2. DOMAIN s = 1 .. n /\ \A k \in 1 .. n : s[k] \in T
  BY <1>1
<1>3. PICK w : Passing(s, S, n, T, w)
  BY <1>2, PassesExist
<1>4. Passes(w)
  <2>1. /\ w \in [0 .. n -> Seq(T)]
        /\ w[0] = << >>
        /\ \A k \in 1 .. n : w[k] = Looked(s, S, k, w[k - 1])
    BY <1>3 DEF Passing
  <2>2. w = [k \in 0 .. n |-> w[k]]
    BY <2>1
  <2>3. ASSUME NEW k \in 0 .. n
        PROVE  w[k] = IF k = 0 THEN << >>
                      ELSE IF s[k] \in S THEN w[k - 1] ELSE Append(w[k - 1], s[k])
    <3>1. CASE k = 0
      BY <2>1, <3>1
    <3>2. CASE k # 0
      <4>1. k \in 1 .. n
        BY <3>2
      <4>2. w[k] = Looked(s, S, k, w[k - 1])
        BY <2>1, <4>1
      <4> QED BY <3>2, <4>2 DEF Looked
    <3> QED BY <3>1, <3>2
  <2> QED BY <1>1, <2>2, <2>3
<1>5. PICK f : Passes(f) /\ Purged(s, S) = f[Len(s)]
  <2>1. Passes(CHOOSE f : Passes(f))
    BY <1>4
  <2>2. Purged(s, S) = (CHOOSE f : Passes(f))[Len(s)]
    BY DEF Purged
  <2> HIDE DEF Passes
  <2> QED BY <2>1, <2>2
<1>6. /\ f[0] = << >>
      /\ \A k \in 1 .. n : f[k] = Looked(s, S, k, f[k - 1])
  <2>1. f = [k \in 0 .. n |-> IF k = 0 THEN << >>
                              ELSE IF s[k] \in S THEN f[k - 1] ELSE Append(f[k - 1], s[k])]
    BY <1>1, <1>5
  <2>2. \A k \in 0 .. n : f[k] = IF k = 0 THEN << >>
                                 ELSE IF s[k] \in S THEN f[k - 1] ELSE Append(f[k - 1], s[k])
    BY <2>1, Zenon
  <2>3. 0 \in 0 .. n /\ \A k \in 1 .. n : k \in 0 .. n /\ k # 0
    OBVIOUS
  <2>4. f[0] = << >>
    BY <2>2, <2>3
  <2>5. ASSUME NEW k \in 1 .. n PROVE f[k] = Looked(s, S, k, f[k - 1])
    <3>1. k \in 0 .. n /\ k # 0
      BY <2>3
    <3> QED BY <2>2, <3>1, Zenon DEF Looked
  <2> QED BY <2>4, <2>5
<1> DEFINE Good == {k \in 0 .. n : \E h : Led(s, S, T, k, f[k], h)}
<1>7. 0 \in Good
  <2>1. PICK e : e = << >>
    OBVIOUS
  <2>2. e \in Seq(T) /\ Len(e) = 0 /\ e \in [1 .. 0 -> 1 .. 0]
    BY <2>1
  <2>3. \A k \in 1 .. 0 : FALSE
    OBVIOUS
  <2>4. Led(s, S, T, 0, e, e)
    BY <2>2, <2>3 DEF Led
  <2>5. 0 \in 0 .. n
    OBVIOUS
  <2> QED BY <1>6, <2>1, <2>4, <2>5
<1>8. \A m \in 0 .. n - 1 : m \in Good => m + 1 \in Good
  <2> SUFFICES ASSUME NEW m \in 0 .. n - 1, m \in Good PROVE m + 1 \in Good
    OBVIOUS
  <2>1. PICK k : k = m + 1
    OBVIOUS
  <2>2. k \in 0 .. n /\ k \in 1 .. n /\ k - 1 = m /\ m \in Nat
    BY <2>1
  <2>3. PICK r, h : r = f[m] /\ Led(s, S, T, m, r, h)
    OBVIOUS
  <2>4. f[k] = Looked(s, S, k, r)
    <3>1. f[k] = Looked(s, S, k, f[k - 1])
      BY <1>6, <2>2
    <3> QED BY <3>1, <2>2, <2>3
  <2>5. s[k] \in T
    BY <1>2, <2>2
  <2>6. \E g : Led(s, S, T, k, f[k], g)
    BY <2>1, <2>2, <2>3, <2>4, <2>5, LedOn
  <2> QED BY <2>1, <2>2, <2>6
<1>9. n \in Good
  <2>1. \A k \in 0 .. n : k \in Good
    <3> HIDE DEF Good
    <3> QED BY <1>7, <1>8, NumberInduction
  <2>2. n \in 0 .. n
    OBVIOUS
  <2> HIDE DEF Good
  <2> QED BY <2>1, <2>2
<1>10. PICK r, h : r = Purged(s, S) /\ Led(s, S, T, n, r, h)
  BY <1>1, <1>5, <1>9
<1>11. r \in Seq(T) /\ DOMAIN r = 1 .. Len(r)
  BY <1>10 DEF Led
<1>12. Survivors(s, S, r, h)
  BY <1>2, <1>10, <1>11 DEF Survivors, Led
<1> QED BY <1>10, <1>11, <1>12

\* What is left is what was there and not in S, each of it once.
LEMMA PurgedKeeps ==
  ASSUME NEW T, NEW s \in Seq(T), NEW S, Once(s)
  PROVE  /\ Purged(s, S) \in Seq(T) /\ Once(Purged(s, S))
         /\ Elements(Purged(s, S)) = Elements(s) \ S
<1>1. PICK r, h : r = Purged(s, S) /\ r \in Seq(T) /\ Survivors(s, S, r, h)
  BY PurgedIs
<1>2. PICK n \in Nat, l \in Nat : n = Len(s) /\ l = Len(r) /\ DOMAIN s = 1 .. n /\ DOMAIN r = 1 .. l
  BY <1>1
<1>3. /\ \A i \in 1 .. l : h[i] \in 1 .. n
      /\ \A i, j \in 1 .. l : i < j => h[i] < h[j]
      /\ \A i \in 1 .. l : r[i] = s[h[i]]
      /\ \A j \in 1 .. n : s[j] \notin S <=> \E i \in 1 .. l : h[i] = j
  BY <1>1, <1>2 DEF Survivors
<1>4. \A i, j \in 1 .. n : s[i] = s[j] => i = j
  BY <1>2 DEF Once
<1>5. Once(r)
  <2> SUFFICES ASSUME NEW i \in 1 .. l, NEW j \in 1 .. l, r[i] = r[j] PROVE i = j
    BY <1>2 DEF Once
  <2>1. h[i] = h[j]
    BY <1>3, <1>4
  <2>2. h[i] \in Nat /\ h[j] \in Nat
    <3>1. h[i] \in 1 .. n /\ h[j] \in 1 .. n
      BY <1>3
    <3> QED BY <3>1
  <2>3. CASE i < j
    BY <1>3, <2>1, <2>2, <2>3
  <2>4. CASE j < i
    BY <1>3, <2>1, <2>2, <2>4
  <2> QED BY <2>3, <2>4
<1>6. ASSUME NEW x PROVE x \in Elements(r) <=> x \in Elements(s) \ S
  <2>1. ASSUME x \in Elements(r) PROVE x \in Elements(s) \ S
    <3>1. PICK i \in 1 .. l : x = r[i]
      BY <1>2, <2>1 DEF Elements
    <3>2. h[i] \in 1 .. n /\ x = s[h[i]] /\ s[h[i]] \notin S
      BY <1>3, <3>1
    <3> QED BY <1>2, <3>2 DEF Elements
  <2>2. ASSUME x \in Elements(s) \ S PROVE x \in Elements(r)
    <3>1. PICK j \in 1 .. n : x = s[j]
      BY <1>2, <2>2 DEF Elements
    <3>2. PICK i \in 1 .. l : h[i] = j
      BY <1>3, <2>2, <3>1
    <3>3. x = r[i]
      BY <1>3, <3>1, <3>2
    <3> QED BY <1>2, <3>3 DEF Elements
  <2> QED BY <2>1, <2>2
<1>7. Elements(r) = Elements(s) \ S
  BY <1>6
<1> QED BY <1>1, <1>5, <1>7

\* A sequence is empty when it has no element.
LEMMA NoneLeft ==
  ASSUME NEW T, NEW s \in Seq(T)
  PROVE  s = << >> <=> Elements(s) = {}
<1>1. PICK n \in Nat : n = Len(s) /\ DOMAIN s = 1 .. n
  OBVIOUS
<1>2. ASSUME s # << >> PROVE Elements(s) # {}
  <2>1. 1 \in 1 .. n
    BY <1>1, <1>2
  <2> QED BY <1>1, <2>1 DEF Elements
<1>3. ASSUME s = << >> PROVE Elements(s) = {}
  <2>1. DOMAIN s = {}
    BY <1>3
  <2> QED BY <2>1 DEF Elements
<1> QED BY <1>2, <1>3

LEMMA NotEmpty ==
  ASSUME NEW T, NEW s \in Seq(T), s # << >>
  PROVE  Len(s) \in Nat /\ 1 \in 1 .. Len(s) /\ Head(s) = s[1]
  OBVIOUS

\* The elements of a sequence are the values it has at its places.
LEMMA ElementsIn ==
  ASSUME NEW T, NEW s \in Seq(T)
  PROVE  /\ Elements(s) \subseteq T
         /\ \A x : x \in Elements(s) <=> \E i \in 1 .. Len(s) : s[i] = x
         /\ s # << >> => Head(s) \in Elements(s)
<1>1. PICK n \in Nat : n = Len(s) /\ DOMAIN s = 1 .. n /\ \A i \in 1 .. n : s[i] \in T
  OBVIOUS
<1>2. \A x : x \in Elements(s) <=> \E i \in 1 .. n : s[i] = x
  BY <1>1 DEF Elements
<1>3. ASSUME s # << >> PROVE 1 \in 1 .. n /\ Head(s) = s[1]
  BY <1>1, <1>3
<1> QED BY <1>1, <1>2, <1>3

\* A key that was not there goes to the end.
LEMMA AppendedIs ==
  ASSUME NEW T, NEW s \in Seq(T), Once(s), NEW x \in T, x \notin Elements(s)
  PROVE  /\ Append(s, x) \in Seq(T) /\ Once(Append(s, x))
         /\ Elements(Append(s, x)) = Elements(s) \cup {x}
<1>1. PICK n \in Nat : n = Len(s) /\ DOMAIN s = 1 .. n
  OBVIOUS
<1>2. PICK r : r = Append(s, x)
  OBVIOUS
<1>3. /\ r \in Seq(T) /\ DOMAIN r = 1 .. n + 1 /\ r[n + 1] = x
      /\ \A i \in 1 .. n : r[i] = s[i] /\ i \in 1 .. n + 1
  BY <1>1, <1>2
<1>4. \A i \in 1 .. n + 1 : i \in 1 .. n \/ i = n + 1
  OBVIOUS
<1>5. \A i \in 1 .. n : s[i] # x
  BY <1>1 DEF Elements
<1>6. \A i, j \in 1 .. n : s[i] = s[j] => i = j
  BY <1>1 DEF Once
<1>7. Once(r)
  <2>1. \A i, j \in 1 .. n + 1 : r[i] = r[j] => i = j
    BY <1>3, <1>4, <1>5, <1>6
  <2> QED BY <1>3, <2>1 DEF Once
<1>8. Elements(r) = Elements(s) \cup {x}
  <2>1. \A y : y \in Elements(r) <=> \E i \in 1 .. n + 1 : r[i] = y
    BY <1>3 DEF Elements
  <2>2. \A y : y \in Elements(s) <=> \E i \in 1 .. n : s[i] = y
    BY <1>1 DEF Elements
  <2>3. n + 1 \in 1 .. n + 1
    OBVIOUS
  <2>4. \A y : y \in Elements(r) <=> y \in Elements(s) \/ y = x
    BY <1>3, <1>4, <2>1, <2>2, <2>3
  <2> QED BY <2>4
<1> QED BY <1>2, <1>3, <1>7, <1>8

\* What After finds: the next place, for no element is there twice.
LEMMA AfterIs ==
  ASSUME NEW T, NEW s \in Seq(T), Once(s), NEW i \in 1 .. Len(s)
  PROVE  After(s, s[i]) = IF i < Len(s) THEN s[i + 1] ELSE None
<1>1. PICK n \in Nat : n = Len(s) /\ DOMAIN s = 1 .. n
  OBVIOUS
<1>2. PICK x : x = s[i]
  OBVIOUS
<1>3. PICK j : j = CHOOSE k \in DOMAIN s : s[k] = x
  OBVIOUS
<1>4. After(s, x) = IF j < Len(s) THEN s[j + 1] ELSE None
  <2>1. After(s, x) = LET k == CHOOSE m \in DOMAIN s : s[m] = x
                      IN  IF k < Len(s) THEN s[k + 1] ELSE None
    BY DEF After
  <2> QED BY <1>3, <2>1
<1>5. j \in DOMAIN s /\ s[j] = x
  BY <1>1, <1>2, <1>3
<1>6. j = i
  BY <1>1, <1>2, <1>5 DEF Once
<1> QED BY <1>2, <1>4, <1>6

\* What stands where in r, one sequence after another.
Joined(T, s, m, r) ==
  /\ r \in Seq(T) /\ Len(r) = Len(s) + Len(m)
  /\ DOMAIN r = 1 .. Len(s) + Len(m)
  /\ \A i \in 1 .. Len(s) : r[i] = s[i]
  /\ \A i \in 1 .. Len(m) : r[i + Len(s)] = m[i]

LEMMA JoinedIs ==
  ASSUME NEW T, NEW s \in Seq(T), NEW m \in Seq(T)
  PROVE  \E r : r = s \o m /\ Joined(T, s, m, r)
<1>1. /\ s \o m \in Seq(T) /\ Len(s \o m) = Len(s) + Len(m)
      /\ DOMAIN (s \o m) = 1 .. Len(s) + Len(m)
  OBVIOUS
<1>2. \A i \in 1 .. Len(s) : (s \o m)[i] = s[i]
  OBVIOUS
<1>3. \A i \in 1 .. Len(m) : (s \o m)[i + Len(s)] = m[i]
  OBVIOUS
<1>4. Joined(T, s, m, s \o m)
  BY <1>1, <1>2, <1>3 DEF Joined
<1> QED BY <1>4, Zenon

\* A list that is armed has no registration twice, and loses none.
LEMMA ArmIs ==
  ASSUME NEW s \in Seq(Nodes), Once(s), NEW win \in Windows, NEW mask
  PROVE  /\ Arm(s, win, mask) \in Seq(Nodes) /\ Once(Arm(s, win, mask))
         /\ Elements(s) \subseteq Elements(Arm(s, win, mask))
<1>1. PICK ts : ts = Types
  OBVIOUS
<1>2. /\ ts \in Seq(Elements(Types)) /\ Once(ts)
      /\ Elements(Types) = {Types[i] : i \in DOMAIN Types}
  <2>1. /\ DOMAIN Types = 1 .. 4
        /\ Types[1] = "insert" /\ Types[2] = "update" /\ Types[3] = "delete" /\ Types[4] = "active"
    BY DEF Types
  <2>2. ts \in Seq({"insert", "update", "delete", "active"})
    BY <1>1 DEF Types
  <2>3. Elements(Types) = {Types[i] : i \in DOMAIN Types}
    BY DEF Elements
  <2>4. {"insert", "update", "delete", "active"} \subseteq Elements(Types)
    BY <2>1, <2>3
  <2>5. ts \in Seq(Elements(Types))
    BY <2>2, <2>4
  <2>6. Once(ts)
    BY <2>1, <1>1 DEF Once
  <2> QED BY <2>3, <2>5, <2>6
<1> DEFINE there == {t \in Elements(Types) : t \in mask => [win |-> win, type |-> t] \in Elements(s)}
<1>3. PICK new : new = Purged(ts, there)
  OBVIOUS
<1>4. new \in Seq(Elements(Types)) /\ Once(new) /\ Elements(new) = Elements(ts) \ there
  <2> HIDE DEF there
  <2> QED BY <1>2, <1>3, PurgedKeeps
<1>5. PICK l \in Nat : l = Len(new) /\ DOMAIN new = 1 .. l /\ \A i \in 1 .. l : new[i] \in Elements(Types)
  BY <1>4
<1>6. PICK m : m = [i \in DOMAIN new |-> [win |-> win, type |-> new[i]]]
  OBVIOUS
<1>7. /\ m \in Seq(Nodes) /\ Len(m) = l
      /\ \A i \in 1 .. l : m[i] = [win |-> win, type |-> new[i]]
  <2>1. \A i \in 1 .. l : [win |-> win, type |-> new[i]] \in Nodes
    BY <1>2, <1>5 DEF Nodes
  <2>2. m = [i \in 1 .. l |-> [win |-> win, type |-> new[i]]]
    BY <1>5, <1>6
  <2> QED BY <2>1, <2>2
<1>8. \A i \in 1 .. l : m[i] \notin Elements(s)
  <2> SUFFICES ASSUME NEW i \in 1 .. l PROVE m[i] \notin Elements(s)
    OBVIOUS
  <2>1. new[i] \in Elements(new)
    BY <1>5 DEF Elements
  <2>2. new[i] \notin there /\ new[i] \in Elements(Types)
    BY <1>4, <1>5, <2>1
  <2> QED BY <1>7, <2>2
<1>9. \A i, j \in 1 .. l : m[i] = m[j] => i = j
  <2> SUFFICES ASSUME NEW i \in 1 .. l, NEW j \in 1 .. l, m[i] = m[j] PROVE i = j
    OBVIOUS
  <2>1. m[i].type = new[i] /\ m[j].type = new[j]
    BY <1>7
  <2>2. new[i] = new[j]
    BY <2>1
  <2> QED BY <1>4, <1>5, <2>2 DEF Once
<1>10. PICK n \in Nat : n = Len(s) /\ DOMAIN s = 1 .. n
  OBVIOUS
<1>11. m \in Seq(Nodes) /\ Len(m) = l
  BY <1>7
<1> HIDE DEF there
<1>12. PICK r : r = s \o m /\ Joined(Nodes, s, m, r)
  BY <1>11, JoinedIs, Zenon
<1>13. /\ r \in Seq(Nodes) /\ DOMAIN r = 1 .. n + l
       /\ \A i \in 1 .. n : r[i] = s[i]
       /\ \A i \in 1 .. n + l : ~(i <= n) => r[i] = m[i - n] /\ i - n \in 1 .. l
  <2>1. r \in Seq(Nodes)
    BY <1>12 DEF Joined
  <2>2. DOMAIN r = 1 .. n + l
    BY <1>10, <1>11, <1>12 DEF Joined
  <2>3. \A i \in 1 .. n : r[i] = s[i]
    BY <1>10, <1>12 DEF Joined
  <2>4. \A i \in 1 .. l : r[i + n] = m[i]
    BY <1>10, <1>11, <1>12 DEF Joined
  <2>5. \A i \in 1 .. n + l : ~(i <= n) => i - n \in 1 .. l /\ (i - n) + n = i
    OBVIOUS
  <2> QED BY ONLY <2>1, <2>2, <2>3, <2>4, <2>5
<1>14. Arm(s, win, mask) = r
  BY <1>1, <1>3, <1>6, <1>12 DEF Arm, there
<1>15. \A i \in 1 .. n : r[i] \in Elements(s)
  BY <1>10, <1>13 DEF Elements
<1>16. Once(r)
  <2> SUFFICES ASSUME NEW i \in 1 .. n + l, NEW j \in 1 .. n + l, r[i] = r[j] PROVE i = j
    BY <1>13 DEF Once
  <2>1. CASE i <= n /\ j <= n
    <3>1. i \in 1 .. n /\ j \in 1 .. n
      BY <2>1
    <3> QED BY <1>10, <1>13, <3>1 DEF Once
  <2>2. CASE ~(i <= n) /\ ~(j <= n)
    <3>1. i - n = j - n
      BY <1>9, <1>13, <2>2
    <3> QED BY <3>1
  <2>3. CASE i <= n /\ ~(j <= n)
    <3>1. i \in 1 .. n
      BY <2>3
    <3> QED BY <1>8, <1>13, <1>15, <2>3, <3>1
  <2>4. CASE ~(i <= n) /\ j <= n
    <3>1. j \in 1 .. n
      BY <2>4
    <3> QED BY <1>8, <1>13, <1>15, <2>4, <3>1
  <2> QED BY <2>1, <2>2, <2>3, <2>4
<1>17. Elements(s) \subseteq Elements(r)
  <2> SUFFICES ASSUME NEW x \in Elements(s) PROVE x \in Elements(r)
    OBVIOUS
  <2>1. PICK i \in 1 .. n : x = s[i]
    BY <1>10 DEF Elements
  <2>2. i \in 1 .. n + l /\ x = r[i]
    BY <1>13, <2>1
  <2> QED BY <1>13, <2>2 DEF Elements
<1> QED BY <1>13, <1>14, <1>16, <1>17

\* A walk, of a list that has the node it goes to next.
WalkFrames == [at : {"walk", "sink"}, addr : Addrs, next : Nodes \cup {None},
               mask : SUBSET Elements(Types), node : Nodes \cup {None},
               stale : BOOLEAN, list : BOOLEAN]
WalkOK(f, R) ==
  /\ ~f.stale /\ ("delete" \in f.mask => f.list)
  /\ f.next # None => f.next \in Elements(R[f.addr])
  /\ f.at = "sink" => f.node \in Nodes /\ f.next # f.node

\* The walks under way, each of another block.
WalksOK(fs, R) ==
  /\ fs \in Seq(WalkFrames)
  /\ \A i \in 1 .. Len(fs) : WalkOK(fs[i], R)
  /\ \A i, j \in 1 .. Len(fs) : fs[i].addr = fs[j].addr => i = j

\* The lists, and the keys of those that are not empty.
ListsOK(R, o) ==
  /\ R \in [Addrs -> Seq(Nodes)] /\ o \in Seq(Addrs)
  /\ Once(o) /\ \A a \in Addrs : Once(R[a])
  /\ Elements(o) = {a \in Addrs : R[a] # << >>}

\* Only live blocks are armed, and those whose walk for DELETE is under way.
Held(lv, R, fs) ==
  \A a \in Addrs : R[a] # << >> =>
     \/ a \in lv
     \/ \E i \in 1 .. Len(fs) : fs[i].addr = a /\ "delete" \in fs[i].mask

\* A sweep has cleaned what is before its position, and at its end all.
SweepOK(sw, R, o, fs) ==
  /\ sw.on \in BOOLEAN /\ sw.mask \subseteq Elements(Types)
  /\ sw = [on |-> sw.on, win |-> sw.win, mask |-> sw.mask, pos |-> sw.pos]
  /\ sw.on => fs = << >>
  /\ sw.on /\ ~Vector =>
       IF sw.pos = None THEN \A a \in Addrs : Taken(R[a], sw.win, sw.mask) = {}
       ELSE \E k \in 1 .. Len(o) :
              o[k] = sw.pos /\ \A i \in 1 .. k - 1 : Taken(R[o[i]], sw.win, sw.mask) = {}

TriggersHold(lv, o, R, fs, sw) ==
  /\ lv \subseteq Addrs /\ ListsOK(R, o) /\ WalksOK(fs, R) /\ Len(fs) <= TriggerMaxDepth
  /\ Held(lv, R, fs) /\ SweepOK(sw, R, o, fs)

TriggerInv == TriggersHold(live, order, regs, triggerFrames, sweep)

\* A walk still has its node when no list loses one.
LEMMA WalksGrow ==
  ASSUME NEW fs, NEW R, NEW Q, WalksOK(fs, R),
         \A a \in Addrs : Elements(R[a]) \subseteq Elements(Q[a])
  PROVE  WalksOK(fs, Q)
<1>1. fs \in Seq(WalkFrames) /\ \A i \in 1 .. Len(fs) : WalkOK(fs[i], R)
  BY DEF WalksOK
<1>2. ASSUME NEW i \in 1 .. Len(fs) PROVE WalkOK(fs[i], Q)
  <2>1. PICK f \in WalkFrames : f = fs[i]
    BY <1>1
  <2>2. WalkOK(f, R)
    BY <1>1, <2>1
  <2>3. f.addr \in Addrs
    BY DEF WalkFrames
  <2>4. WalkOK(f, Q)
    BY <2>2, <2>3 DEF WalkOK
  <2> QED BY <2>1, <2>4
<1> QED BY <1>2 DEF WalksOK

\* A walk of one more block: f stands before fs in g.
Pushed(fs, R, f, g) ==
  /\ g = <<f>> \o fs /\ WalksOK(g, R) /\ Len(g) = Len(fs) + 1
  /\ g[1] = f /\ \A i \in 1 .. Len(fs) : g[i + 1] = fs[i]

LEMMA WalkPushed ==
  ASSUME NEW fs, NEW R, WalksOK(fs, R), NEW f \in WalkFrames, WalkOK(f, R),
         \A i \in 1 .. Len(fs) : fs[i].addr # f.addr
  PROVE  \E g : Pushed(fs, R, f, g)
<1>1. fs \in Seq(WalkFrames) /\ \A i \in 1 .. Len(fs) : WalkOK(fs[i], R)
  BY DEF WalksOK
<1>2. <<f>> \in Seq(WalkFrames) /\ Len(<<f>>) = 1 /\ <<f>>[1] = f
  OBVIOUS
<1>3. PICK g : g = <<f>> \o fs /\ Joined(WalkFrames, <<f>>, fs, g)
  BY <1>1, <1>2, JoinedIs, Zenon
<1>4. PICK n \in Nat : n = Len(fs)
  BY <1>1
<1>5. /\ g \in Seq(WalkFrames) /\ Len(g) = n + 1 /\ g[1] = f
      /\ \A i \in 1 .. n : g[i + 1] = fs[i]
  <2>1. g \in Seq(WalkFrames) /\ Len(g) = n + 1
    BY <1>2, <1>3, <1>4 DEF Joined
  <2>2. g[1] = f
    <3>1. 1 \in 1 .. Len(<<f>>)
      BY <1>2
    <3>2. g[1] = <<f>>[1]
      BY <1>3, <3>1 DEF Joined
    <3> QED BY <1>2, <3>2
  <2>3. \A i \in 1 .. n : g[i + 1] = fs[i]
    BY <1>2, <1>3, <1>4 DEF Joined
  <2> QED BY <2>1, <2>2, <2>3
<1>6. ASSUME NEW i \in 1 .. n + 1 PROVE i = 1 \/ (i - 1 \in 1 .. n /\ g[i] = fs[i - 1])
  <2>1. CASE i # 1
    <3>1. i - 1 \in 1 .. n /\ (i - 1) + 1 = i
      BY <2>1
    <3> QED BY <1>5, <3>1
  <2> QED BY <2>1
<1>7. \A i \in 1 .. n + 1 : WalkOK(g[i], R)
  BY <1>1, <1>4, <1>5, <1>6
<1>8. ASSUME NEW i \in 1 .. n + 1, NEW j \in 1 .. n + 1, g[i].addr = g[j].addr PROVE i = j
  <2>1. \A k \in 1 .. n : fs[k].addr # f.addr
    BY <1>4
  <2>2. \A k, l \in 1 .. n : fs[k].addr = fs[l].addr => k = l
    BY <1>4 DEF WalksOK
  <2>3. CASE i = 1 /\ j = 1
    BY <2>3
  <2>4. CASE i = 1 /\ j # 1
    BY <1>5, <1>6, <1>8, <2>1, <2>4
  <2>5. CASE i # 1 /\ j = 1
    BY <1>5, <1>6, <1>8, <2>1, <2>5
  <2>6. CASE i # 1 /\ j # 1
    <3>1. i - 1 \in 1 .. n /\ j - 1 \in 1 .. n /\ fs[i - 1].addr = fs[j - 1].addr
      BY <1>6, <1>8, <2>6
    <3>2. i - 1 = j - 1
      BY <2>2, <3>1
    <3> QED BY <3>2
  <2> QED BY <2>3, <2>4, <2>5, <2>6
<1>9. WalksOK(g, R)
  BY <1>5, <1>7, <1>8 DEF WalksOK
<1>10. Pushed(fs, R, f, g)
  BY <1>3, <1>4, <1>5, <1>9 DEF Pushed
<1> QED BY <1>10

\* The innermost walk ends: g is left of fs.
Popped(fs, R, g) ==
  /\ g = Tail(fs) /\ WalksOK(g, R) /\ Len(g) = Len(fs) - 1
  /\ \A i \in 1 .. Len(g) : i + 1 \in 1 .. Len(fs) /\ g[i] = fs[i + 1]
  /\ \A i \in 1 .. Len(g) : g[i].addr # Head(fs).addr

LEMMA WalkPopped ==
  ASSUME NEW fs, NEW R, WalksOK(fs, R), fs # << >>
  PROVE  /\ Len(fs) \in Nat /\ 1 \in 1 .. Len(fs) /\ Head(fs) = fs[1]
         /\ Head(fs) \in WalkFrames /\ WalkOK(Head(fs), R)
         /\ \E g : Popped(fs, R, g)
<1>1. fs \in Seq(WalkFrames) /\ \A i \in 1 .. Len(fs) : WalkOK(fs[i], R)
  BY DEF WalksOK
<1>2. PICK n \in Nat : n = Len(fs) - 1 /\ Len(fs) = n + 1
  <2>1. Len(fs) \in Nat /\ 1 \in 1 .. Len(fs)
    BY <1>1, NotEmpty
  <2>2. Len(fs) - 1 \in Nat /\ Len(fs) = (Len(fs) - 1) + 1
    BY <2>1
  <2> QED BY <2>2
<1>3. 1 \in 1 .. Len(fs) /\ Head(fs) = fs[1]
  BY <1>1, <1>2
<1>4. PICK g : g = Tail(fs)
  OBVIOUS
<1>5. g \in Seq(WalkFrames) /\ Len(g) = n /\ \A i \in 1 .. n : i + 1 \in 1 .. n + 1 /\ g[i] = fs[i + 1]
  <2>1. g \in Seq(WalkFrames) /\ Len(g) = n
    BY <1>1, <1>2, <1>4
  <2>2. \A i \in 1 .. n : i + 1 \in 1 .. n + 1
    OBVIOUS
  <2>3. \A i \in 1 .. n : g[i] = fs[i + 1]
    BY <1>1, <1>2, <1>4
  <2> QED BY <2>1, <2>2, <2>3
<1>6. \A i, j \in 1 .. n + 1 : fs[i].addr = fs[j].addr => i = j
  BY <1>2 DEF WalksOK
<1>7. \A i, j \in 1 .. n : g[i].addr = g[j].addr => i = j
  <2> SUFFICES ASSUME NEW i \in 1 .. n, NEW j \in 1 .. n, g[i].addr = g[j].addr PROVE i = j
    OBVIOUS
  <2>1. i + 1 = j + 1
    BY <1>5, <1>6
  <2> QED BY <2>1
<1>8. \A i \in 1 .. n : g[i].addr # Head(fs).addr
  <2> SUFFICES ASSUME NEW i \in 1 .. n, g[i].addr = Head(fs).addr PROVE FALSE
    OBVIOUS
  <2>1. i + 1 = 1
    BY <1>2, <1>3, <1>5, <1>6
  <2> QED BY <2>1
<1>9. WalksOK(g, R)
  BY <1>1, <1>2, <1>5, <1>7 DEF WalksOK
<1>10. Len(g) = Len(fs) - 1
  BY <1>2, <1>5
<1>11. Popped(fs, R, g)
  BY <1>2, <1>4, <1>5, <1>8, <1>9, <1>10 DEF Popped
<1>12. Head(fs) \in WalkFrames /\ WalkOK(Head(fs), R)
  BY <1>1, <1>3
<1> QED BY <1>2, <1>3, <1>11, <1>12

\* Taking S out of the list of a is clear of a walk of a that stands behind it.
Clear(fs, a, S) ==
  \A i \in 1 .. Len(fs) : fs[i].addr = a => fs[i].next \notin S /\ "delete" \notin fs[i].mask

\* The walks gs are those of fs, of the same blocks and for the same masks.
SameWalks(fs, gs) ==
  /\ Len(gs) = Len(fs)
  /\ \A i \in 1 .. Len(fs) : gs[i].addr = fs[i].addr /\ gs[i].mask = fs[i].mask

LEMMA WalksKept ==
  ASSUME NEW fs, NEW R, NEW Q, NEW a \in Addrs, NEW S, NEW whole \in BOOLEAN,
         WalksOK(fs, R), Clear(fs, a, S),
         \A b \in Addrs \ {a} : Elements(Q[b]) = Elements(R[b]),
         Elements(Q[a]) = Elements(R[a]) \ S
  PROVE  \E gs : gs = Touched(fs, a, S, whole) /\ WalksOK(gs, Q) /\ SameWalks(fs, gs)
<1>1. /\ fs \in Seq(WalkFrames) /\ \A i \in 1 .. Len(fs) : WalkOK(fs[i], R)
      /\ \A i, j \in 1 .. Len(fs) : fs[i].addr = fs[j].addr => i = j
  BY DEF WalksOK
<1>2. PICK n \in Nat : n = Len(fs) /\ DOMAIN fs = 1 .. n /\ \A i \in 1 .. n : fs[i] \in WalkFrames
  BY <1>1
<1> DEFINE One(f) == IF f.addr # a THEN f
                     ELSE [f EXCEPT !.stale = @ \/ f.next \in S, !.list = @ /\ ~whole]
<1>3. PICK gs : gs = [i \in 1 .. n |-> One(fs[i])]
  OBVIOUS
<1>4. ASSUME NEW i \in 1 .. n
      PROVE  /\ One(fs[i]) \in WalkFrames /\ WalkOK(One(fs[i]), Q)
             /\ One(fs[i]).addr = fs[i].addr /\ One(fs[i]).mask = fs[i].mask
  <2>1. PICK f \in WalkFrames : f = fs[i]
    BY <1>2
  <2>2. WalkOK(f, R)
    BY <1>1, <1>2, <2>1
  <2>3. f.addr \in Addrs
    BY DEF WalkFrames
  <2>4. CASE f.addr # a
    <3>1. WalkOK(f, Q)
      BY <2>2, <2>3, <2>4 DEF WalkOK
    <3> QED BY <2>1, <2>4, <3>1
  <2>5. CASE f.addr = a
    <3>1. f.next \notin S /\ "delete" \notin f.mask
      BY <1>2, <2>1, <2>5 DEF Clear
    <3>2. PICK g : g = [f EXCEPT !.stale = @ \/ f.next \in S, !.list = @ /\ ~whole]
      OBVIOUS
    <3>3. f.stale \in BOOLEAN /\ f.list \in BOOLEAN /\ ~f.stale
      BY <2>2 DEF WalkFrames, WalkOK
    <3>4. (f.stale \/ f.next \in S) \in BOOLEAN /\ (f.list /\ ~whole) \in BOOLEAN
      OBVIOUS
    <3>5. g \in WalkFrames
      BY <3>2, <3>4 DEF WalkFrames
    <3>6. /\ g.at = f.at /\ g.addr = f.addr /\ g.next = f.next /\ g.mask = f.mask
          /\ g.node = f.node
      BY <3>2 DEF WalkFrames
    <3>7. g.stale = (f.stale \/ f.next \in S)
      BY <3>2 DEF WalkFrames
    <3>8. ~g.stale
      BY <3>1, <3>3, <3>7
    <3>9. f.next # None => f.next \in Elements(Q[f.addr])
      BY <2>2, <2>5, <3>1 DEF WalkOK
    <3>10. f.at = "sink" => f.node \in Nodes /\ f.next # f.node
      BY <2>2 DEF WalkOK
    <3>11. WalkOK(g, Q)
      BY <3>1, <3>6, <3>8, <3>9, <3>10 DEF WalkOK
    <3>12. One(fs[i]) = g
      BY <2>1, <2>5, <3>2
    <3> QED BY <2>1, <3>5, <3>6, <3>11, <3>12
  <2> QED BY <2>4, <2>5
<1>5. Touched(fs, a, S, whole) = gs
  BY <1>2, <1>3 DEF Touched
<1> HIDE DEF One
<1>6. gs \in Seq(WalkFrames) /\ Len(gs) = n /\ \A i \in 1 .. n : gs[i] = One(fs[i])
  <2>1. \A i \in 1 .. n : One(fs[i]) \in WalkFrames
    BY <1>4
  <2> QED BY <1>3, <2>1
<1>7. WalksOK(gs, Q)
  <2>1. \A i \in 1 .. n : WalkOK(gs[i], Q)
    BY <1>4, <1>6
  <2>2. \A i, j \in 1 .. n : gs[i].addr = gs[j].addr => i = j
    BY <1>1, <1>2, <1>4, <1>6
  <2> QED BY <1>6, <2>1, <2>2 DEF WalksOK
<1>8. SameWalks(fs, gs)
  BY <1>2, <1>4, <1>6 DEF SameWalks
<1> QED BY <1>5, <1>7, <1>8

\* What TakeOut makes of the lists, the keys and the walks.
TakesOut(R, o, fs, a, S, Q, p, gs) ==
  /\ Q = [R EXCEPT ![a] = Purged(R[a], S)]
  /\ p = IF Purged(R[a], S) = << >> THEN Purged(o, {a}) ELSE o
  /\ gs = Touched(fs, a, S, Purged(R[a], S) = << >>)

\* What is true of them then.
TookOut(R, fs, a, S, Q, p, gs) ==
  /\ ListsOK(Q, p) /\ WalksOK(gs, Q) /\ SameWalks(fs, gs)
  /\ Elements(Q[a]) = Elements(R[a]) \ S /\ \A b \in Addrs : b # a => Q[b] = R[b]
  /\ \A b \in Addrs : Q[b] # << >> => R[b] # << >>

LEMMA TakeOutKeeps ==
  ASSUME NEW R, NEW o, NEW fs, NEW a \in Addrs, NEW S, NEW Q, NEW p, NEW gs,
         TakesOut(R, o, fs, a, S, Q, p, gs), ListsOK(R, o), WalksOK(fs, R), Clear(fs, a, S)
  PROVE  TookOut(R, fs, a, S, Q, p, gs)
<1>1. /\ R \in [Addrs -> Seq(Nodes)] /\ o \in Seq(Addrs)
      /\ Once(o) /\ \A b \in Addrs : Once(R[b])
      /\ Elements(o) = {b \in Addrs : R[b] # << >>}
  BY DEF ListsOK
<1>2. PICK rest : rest = Purged(R[a], S)
  OBVIOUS
<1>3. rest \in Seq(Nodes) /\ Once(rest) /\ Elements(rest) = Elements(R[a]) \ S
  BY <1>1, <1>2, PurgedKeeps
<1>4. Q = [R EXCEPT ![a] = rest]
  BY <1>2 DEF TakesOut
<1>5. Q \in [Addrs -> Seq(Nodes)] /\ Q[a] = rest /\ \A b \in Addrs : b # a => Q[b] = R[b]
  BY <1>1, <1>3, <1>4
<1>6. \A b \in Addrs : Once(Q[b])
  BY <1>1, <1>3, <1>5
<1>7. rest # << >> => R[a] # << >>
  BY <1>1, <1>3, NoneLeft
<1>8. \A b \in Addrs : Q[b] # << >> => R[b] # << >>
  BY <1>5, <1>7
<1>9. ListsOK(Q, p)
  <2>1. CASE rest = << >>
    <3>1. p = Purged(o, {a})
      BY <1>2, <2>1 DEF TakesOut
    <3>2. p \in Seq(Addrs) /\ Once(p) /\ Elements(p) = Elements(o) \ {a}
      BY <1>1, <3>1, PurgedKeeps
    <3>3. Elements(p) = {b \in Addrs : Q[b] # << >>}
      BY <1>1, <1>5, <2>1, <3>2
    <3> QED BY <1>5, <1>6, <3>2, <3>3 DEF ListsOK
  <2>2. CASE rest # << >>
    <3>1. p = o
      BY <1>2, <2>2 DEF TakesOut
    <3>2. Elements(p) = {b \in Addrs : Q[b] # << >>}
      BY <1>1, <1>5, <1>7, <2>2, <3>1
    <3> QED BY <1>1, <1>5, <1>6, <3>1, <3>2 DEF ListsOK
  <2> QED BY <2>1, <2>2
<1>10. WalksOK(gs, Q) /\ SameWalks(fs, gs)
  <2>1. PICK whole \in BOOLEAN : whole = (rest = << >>)
    OBVIOUS
  <2>2. gs = Touched(fs, a, S, whole)
    BY <1>2, <2>1 DEF TakesOut
  <2>3. \A b \in Addrs \ {a} : Elements(Q[b]) = Elements(R[b])
    BY <1>5
  <2>4. Elements(Q[a]) = Elements(R[a]) \ S
    BY <1>3, <1>5
  <2> QED BY <2>2, <2>3, <2>4, WalksKept
<1> QED BY <1>3, <1>5, <1>8, <1>9, <1>10 DEF TookOut

\* Nothing that was held by a walk is left alone when a list shrinks.
LEMMA HeldStill ==
  ASSUME NEW lv, NEW R, NEW Q, NEW fs, NEW gs, Held(lv, R, fs), SameWalks(fs, gs),
         \A b \in Addrs : Q[b] # << >> => R[b] # << >>
  PROVE  Held(lv, Q, gs)
BY DEF Held, SameWalks

LEMMA TriggerInitOK == TriggerInit => TriggerInv
<1> SUFFICES ASSUME TriggerInit PROVE TriggerInv
  OBVIOUS
<1>1. /\ live = {} /\ order = << >> /\ triggerFrames = << >> /\ sweep = NoSweep
      /\ regs = [a \in Addrs |-> << >>]
  BY DEF TriggerInit
<1>2. PICK e : e = << >>
  OBVIOUS
<1>3. /\ e \in Seq(Nodes) /\ e \in Seq(Addrs) /\ e \in Seq(WalkFrames)
      /\ Once(e) /\ Elements(e) = {} /\ Len(e) = 0
  <2>1. DOMAIN e = {}
    BY <1>2
  <2>2. e \in Seq(Nodes) /\ e \in Seq(Addrs) /\ e \in Seq(WalkFrames) /\ Len(e) = 0
    BY <1>2
  <2> QED BY <2>1, <2>2 DEF Once, Elements
<1>4. \A a \in Addrs : regs[a] = e
  BY <1>1, <1>2
<1>5. ListsOK(regs, order)
  <2>1. regs \in [Addrs -> Seq(Nodes)]
    BY <1>1, <1>2, <1>3
  <2>2. Elements(e) = {a \in Addrs : regs[a] # << >>}
    BY <1>2, <1>3, <1>4
  <2> QED BY <1>1, <1>2, <1>3, <1>4, <2>1, <2>2 DEF ListsOK
<1>6. \A i \in 1 .. Len(e) : FALSE
  BY <1>3
<1>7. WalksOK(triggerFrames, regs)
  BY <1>1, <1>2, <1>3, <1>6 DEF WalksOK
<1>8. Len(triggerFrames) <= TriggerMaxDepth
  BY <1>1, <1>2, <1>3, TriggerAssumption
<1>9. Held(live, regs, triggerFrames)
  BY <1>2, <1>4 DEF Held
<1>10. SweepOK(sweep, regs, order, triggerFrames)
  <2>1. /\ sweep.on = FALSE /\ sweep.mask = {}
        /\ sweep = [on |-> sweep.on, win |-> sweep.win, mask |-> sweep.mask, pos |-> sweep.pos]
    BY <1>1 DEF NoSweep
  <2> QED BY <2>1 DEF SweepOK
<1> QED BY <1>1, <1>5, <1>7, <1>8, <1>9, <1>10 DEF TriggerInv, TriggersHold

\* What the invariant says, by its parts.
LEMMA TriggerParts ==
  ASSUME TriggerInv
  PROVE  /\ live \subseteq Addrs /\ ListsOK(regs, order) /\ WalksOK(triggerFrames, regs)
         /\ Len(triggerFrames) <= TriggerMaxDepth /\ Held(live, regs, triggerFrames)
         /\ SweepOK(sweep, regs, order, triggerFrames)
         /\ regs \in [Addrs -> Seq(Nodes)] /\ \A a \in Addrs : Once(regs[a])
         /\ triggerFrames \in Seq(WalkFrames)
         /\ sweep.on => triggerFrames = << >>
BY DEF TriggerInv, TriggersHold, ListsOK, WalksOK, SweepOK

\* From within a walk, or outside of all, no sweep is under way.
LEMMA NoSweepThen ==
  ASSUME TriggerInv
  PROVE  /\ \A act : May(act) => ~sweep.on
         /\ triggerFrames # << >> => ~sweep.on
BY TriggerParts DEF May, Outside, InSink

LEMMA SweepIdle ==
  ASSUME NEW sw, NEW R, NEW o, NEW fs, NEW Q, NEW p, NEW gs, SweepOK(sw, R, o, fs), ~sw.on
  PROVE  SweepOK(sw, Q, p, gs)
<1>1. /\ sw.on \in BOOLEAN /\ sw.mask \subseteq Elements(Types)
      /\ sw = [on |-> sw.on, win |-> sw.win, mask |-> sw.mask, pos |-> sw.pos]
  BY DEF SweepOK
<1> QED BY <1>1, Zenon DEF SweepOK

LEMMA AllocateKeeps ==
  ASSUME TriggerInv, Allocate PROVE TriggerInv'
<1>1. /\ live' \subseteq Addrs /\ live \subseteq live'
      /\ order' = order /\ regs' = regs /\ triggerFrames' = triggerFrames /\ sweep' = sweep
  BY TriggerParts DEF Allocate
<1>2. Held(live', regs, triggerFrames)
  BY <1>1, TriggerParts DEF Held
<1>3. TriggersHold(live', order, regs, triggerFrames, sweep)
  BY <1>1, <1>2, TriggerParts DEF TriggersHold
<1> QED BY <1>1, <1>3 DEF TriggerInv

LEMMA CreateTriggerKeeps ==
  ASSUME TriggerInv, CreateTrigger PROVE TriggerInv'
<1>1. ~sweep.on
  BY NoSweepThen DEF CreateTrigger
<1>2. PICK a \in live, win \in Windows, mask \in Masks :
        /\ regs' = [regs EXCEPT ![a] = Arm(@, win, mask)]
        /\ order' = IF a \in Elements(order) \/ Arm(regs[a], win, mask) = << >> THEN order
                    ELSE Append(order, a)
  BY DEF CreateTrigger
<1>3. live' = live /\ triggerFrames' = triggerFrames /\ sweep' = sweep
  BY DEF CreateTrigger
<1>4. /\ a \in Addrs /\ regs \in [Addrs -> Seq(Nodes)] /\ order \in Seq(Addrs) /\ Once(order)
      /\ \A b \in Addrs : Once(regs[b])
      /\ Elements(order) = {b \in Addrs : regs[b] # << >>}
  BY TriggerParts DEF ListsOK
<1>5. PICK s : s = Arm(regs[a], win, mask)
  OBVIOUS
<1>6. regs[a] \in Seq(Nodes) /\ Once(regs[a])
  BY <1>4
<1>7. s \in Seq(Nodes) /\ Once(s) /\ Elements(regs[a]) \subseteq Elements(s)
  BY <1>5, <1>6, ArmIs
<1>8. PICK Q : Q = [regs EXCEPT ![a] = s]
  OBVIOUS
<1>9. regs' = Q
  BY <1>2, <1>5, <1>8
<1>10. Q \in [Addrs -> Seq(Nodes)] /\ Q[a] = s /\ \A b \in Addrs : b # a => Q[b] = regs[b]
  BY <1>4, <1>7, <1>8
<1>11. PICK p : p = IF a \in Elements(order) \/ s = << >> THEN order ELSE Append(order, a)
  OBVIOUS
<1>12. order' = p
  BY <1>2, <1>5, <1>11
<1>13. regs[a] # << >> => s # << >>
  BY <1>6, <1>7, NoneLeft
<1>14. \A b \in Addrs : Once(Q[b])
  BY <1>4, <1>7, <1>10
<1>15. ListsOK(Q, p)
  <2>1. CASE a \in Elements(order) \/ s = << >>
    <3>1. p = order
      BY <1>11, <2>1
    <3>2. \A b \in Addrs : Q[b] # << >> <=> regs[b] # << >>
      BY <1>4, <1>10, <1>13, <2>1
    <3>3. Elements(p) = {b \in Addrs : Q[b] # << >>}
      BY <1>4, <3>1, <3>2
    <3> QED BY <1>4, <1>10, <1>14, <3>1, <3>3 DEF ListsOK
  <2>2. CASE a \notin Elements(order) /\ s # << >>
    <3>1. p = Append(order, a)
      BY <1>11, <2>2
    <3>2. p \in Seq(Addrs) /\ Once(p) /\ Elements(p) = Elements(order) \cup {a}
      BY <1>4, <2>2, <3>1, AppendedIs
    <3>3. Elements(p) = {b \in Addrs : Q[b] # << >>}
      BY <1>4, <1>10, <2>2, <3>2
    <3> QED BY <1>10, <1>14, <3>2, <3>3 DEF ListsOK
  <2> QED BY <2>1, <2>2
<1>16. WalksOK(triggerFrames, Q)
  <2>1. \A b \in Addrs : Elements(regs[b]) \subseteq Elements(Q[b])
    BY <1>7, <1>10
  <2> QED BY <2>1, TriggerParts, WalksGrow
<1>17. Held(live, Q, triggerFrames)
  <2>1. Held(live, regs, triggerFrames)
    BY TriggerParts
  <2> QED BY <1>10, <2>1 DEF Held
<1>18. SweepOK(sweep, Q, p, triggerFrames)
  BY <1>1, TriggerParts, SweepIdle
<1>19. TriggersHold(live, p, Q, triggerFrames, sweep)
  BY <1>15, <1>16, <1>17, <1>18, TriggerParts DEF TriggersHold
<1> QED BY <1>3, <1>9, <1>12, <1>19 DEF TriggerInv

\* A walk begins, of a list that is not empty.
BeginsWalk(R, fs, a, mask, gs) ==
  IF R[a] = << >> THEN gs = fs
  ELSE gs = <<[at |-> "walk", addr |-> a, next |-> Head(R[a]), mask |-> mask,
               node |-> None, stale |-> FALSE, list |-> TRUE]>> \o fs

\* gs has the walks of fs, and the one that has begun.
Begun(R, fs, a, mask, gs) ==
  /\ WalksOK(gs, R) /\ Len(gs) <= Len(fs) + 1
  /\ \A i \in 1 .. Len(fs) : \E j \in 1 .. Len(gs) : gs[j] = fs[i]
  /\ R[a] # << >> => \E j \in 1 .. Len(gs) : gs[j].addr = a /\ gs[j].mask = mask

LEMMA BeginKeeps ==
  ASSUME NEW R \in [Addrs -> Seq(Nodes)], NEW fs, NEW a \in Addrs, NEW gs,
         NEW mask \in SUBSET Elements(Types), BeginsWalk(R, fs, a, mask, gs), WalksOK(fs, R),
         \A i \in 1 .. Len(fs) : fs[i].addr # a
  PROVE  Begun(R, fs, a, mask, gs)
<1>1. PICK n \in Nat : n = Len(fs)
  BY DEF WalksOK
<1>2. CASE R[a] = << >>
  <2>1. gs = fs
    BY <1>2 DEF BeginsWalk
  <2> QED BY <1>1, <1>2, <2>1 DEF Begun
<1>3. CASE R[a] # << >>
  <2>1. PICK h \in Nodes : h = Head(R[a]) /\ h \in Elements(R[a])
    BY <1>3, ElementsIn
  <2>2. PICK f : f = [at |-> "walk", addr |-> a, next |-> h, mask |-> mask,
                      node |-> None, stale |-> FALSE, list |-> TRUE]
    OBVIOUS
  <2>3. f \in WalkFrames
    BY <2>1, <2>2 DEF WalkFrames
  <2>4. f.at = "walk" /\ f.addr = a /\ f.next = h /\ f.mask = mask /\ ~f.stale /\ f.list
    BY <2>2
  <2>5. WalkOK(f, R)
    BY <2>1, <2>4 DEF WalkOK
  <2>6. \A i \in 1 .. Len(fs) : fs[i].addr # f.addr
    BY <2>4
  <2>7. PICK g : Pushed(fs, R, f, g)
    BY <2>3, <2>5, <2>6, WalkPushed
  <2>8. gs = g
    BY <1>3, <2>1, <2>2, <2>7 DEF BeginsWalk, Pushed
  <2>9. Len(gs) = n + 1 /\ gs[1] = f /\ \A i \in 1 .. n : gs[i + 1] = fs[i]
    BY <1>1, <2>7, <2>8 DEF Pushed
  <2>10. 1 \in 1 .. n + 1 /\ \A i \in 1 .. n : i + 1 \in 1 .. n + 1
    OBVIOUS
  <2>11. \A i \in 1 .. n : \E j \in 1 .. n + 1 : gs[j] = fs[i]
    BY <2>9, <2>10
  <2>12. \E j \in 1 .. n + 1 : gs[j].addr = a /\ gs[j].mask = mask
    BY <2>4, <2>9, <2>10
  <2> QED BY <1>1, <2>7, <2>8, <2>9, <2>11, <2>12 DEF Begun, Pushed
<1> QED BY <1>2, <1>3

\* The types there are.
LEMMA TypesAre == Elements(Types) = {Types[i] : i \in DOMAIN Types} /\ "delete" \in Elements(Types)
<1>1. DOMAIN Types = 1 .. 4 /\ Types[3] = "delete"
  BY DEF Types
<1> QED BY <1>1 DEF Elements

LEMMA FireTriggerKeeps ==
  ASSUME TriggerInv, FireTrigger PROVE TriggerInv'
<1>1. ~sweep.on /\ Len(triggerFrames) < TriggerMaxDepth
  BY NoSweepThen DEF FireTrigger
<1>2. PICK a \in live, mask \in Masks :
        /\ \A i \in DOMAIN triggerFrames : triggerFrames[i].addr # a
        /\ Begin(a, mask)
  BY DEF FireTrigger
<1>3. live' = live /\ order' = order /\ regs' = regs /\ sweep' = sweep
  BY DEF FireTrigger
<1>4. PICK gs : gs = triggerFrames'
  OBVIOUS
<1>5. BeginsWalk(regs, triggerFrames, a, mask, gs)
  BY <1>2, <1>4 DEF Begin, BeginsWalk
<1>6. a \in Addrs /\ mask \in SUBSET Elements(Types)
  BY TriggerParts, TriggerAssumption, TypesAre
<1>7. PICK n \in Nat : n = Len(triggerFrames) /\ DOMAIN triggerFrames = 1 .. n
  BY TriggerParts
<1>8. /\ WalksOK(gs, regs) /\ Len(gs) <= n + 1
      /\ \A i \in 1 .. n : \E j \in 1 .. Len(gs) : gs[j] = triggerFrames[i]
  <2>1. \A i \in 1 .. Len(triggerFrames) : triggerFrames[i].addr # a
    BY <1>2, <1>7
  <2>2. regs \in [Addrs -> Seq(Nodes)] /\ WalksOK(triggerFrames, regs)
    BY TriggerParts
  <2>3. Begun(regs, triggerFrames, a, mask, gs)
    BY <1>5, <1>6, <2>1, <2>2, BeginKeeps
  <2>4. Len(gs) <= n + 1
    BY <1>7, <2>3 DEF Begun
  <2>5. \A i \in 1 .. n : \E j \in 1 .. Len(gs) : gs[j] = triggerFrames[i]
    BY <1>7, <2>3 DEF Begun
  <2> QED BY <2>3, <2>4, <2>5 DEF Begun
<1>9. Len(gs) <= TriggerMaxDepth
  <2>1. Len(gs) \in Nat /\ TriggerMaxDepth \in Nat
    BY <1>8, TriggerAssumption DEF WalksOK
  <2> QED BY <1>1, <1>7, <1>8, <2>1
<1>10. Held(live, regs, gs)
  <2>1. Held(live, regs, triggerFrames)
    BY TriggerParts
  <2> QED BY <1>7, <1>8, <2>1 DEF Held
<1>11. SweepOK(sweep, regs, order, gs)
  BY <1>1, TriggerParts, SweepIdle
<1>12. TriggersHold(live, order, regs, gs, sweep)
  BY <1>8, <1>9, <1>10, <1>11, TriggerParts DEF TriggersHold
<1> QED BY <1>3, <1>4, <1>12 DEF TriggerInv

LEMMA TriggerFreeKeeps ==
  ASSUME TriggerMaxDepth >= 1, TriggerInv, TriggerFree PROVE TriggerInv'
<1>1. triggerFrames = << >> /\ ~sweep.on
  BY DEF TriggerFree, Outside
<1>2. PICK a \in live : live' = live \ {a} /\ Begin(a, {"delete"})
  BY DEF TriggerFree
<1>3. order' = order /\ regs' = regs /\ sweep' = sweep
  BY DEF TriggerFree
<1>4. PICK gs, mask : gs = triggerFrames' /\ mask = {"delete"}
  OBVIOUS
<1>5. BeginsWalk(regs, triggerFrames, a, mask, gs)
  BY <1>2, <1>4 DEF Begin, BeginsWalk
<1>6. a \in Addrs /\ mask \in SUBSET Elements(Types) /\ "delete" \in mask
  BY <1>4, TriggerParts, TypesAre
<1>7. Len(triggerFrames) = 0 /\ \A i \in 1 .. 0 : FALSE
  BY <1>1
<1>8. /\ WalksOK(gs, regs) /\ Len(gs) <= 0 + 1
      /\ regs[a] # << >> => \E j \in 1 .. Len(gs) : gs[j].addr = a /\ gs[j].mask = mask
  <2>1. \A i \in 1 .. Len(triggerFrames) : triggerFrames[i].addr # a
    BY <1>7
  <2>2. regs \in [Addrs -> Seq(Nodes)] /\ WalksOK(triggerFrames, regs)
    BY TriggerParts
  <2>3. Begun(regs, triggerFrames, a, mask, gs)
    BY <1>5, <1>6, <2>1, <2>2, BeginKeeps
  <2> QED BY <1>7, <2>3 DEF Begun
<1>9. Len(gs) <= TriggerMaxDepth
  <2>1. Len(gs) \in Nat /\ TriggerMaxDepth \in Nat
    BY <1>8, TriggerAssumption DEF WalksOK
  <2> QED BY <1>8, <2>1
<1>10. Held(live', regs, gs)
  <2>1. Held(live, regs, triggerFrames)
    BY TriggerParts
  <2>2. \A b \in Addrs : regs[b] # << >> => b \in live
    BY <1>7, <2>1 DEF Held
  <2> QED BY <1>2, <1>6, <1>8, <2>2 DEF Held
<1>11. SweepOK(sweep, regs, order, gs)
  BY <1>1, TriggerParts, SweepIdle
<1>12. live' \subseteq Addrs
  BY <1>2, TriggerParts
<1>13. TriggersHold(live', order, regs, gs, sweep)
  BY <1>8, <1>9, <1>10, <1>11, <1>12, TriggerParts DEF TriggersHold
<1> QED BY <1>3, <1>4, <1>13 DEF TriggerInv

\* The innermost walk goes on, as f.
GoesOn(fs, f, gs) == gs = <<f>> \o Tail(fs)

LEMMA WalkGoesOn ==
  ASSUME NEW fs, NEW R, WalksOK(fs, R), fs # << >>, NEW f \in WalkFrames, WalkOK(f, R),
         f.addr = Head(fs).addr, f.mask = Head(fs).mask, NEW gs, GoesOn(fs, f, gs)
  PROVE  WalksOK(gs, R) /\ SameWalks(fs, gs)
<1>1. Len(fs) \in Nat /\ 1 \in 1 .. Len(fs) /\ Head(fs) = fs[1]
  BY WalkPopped
<1>2. PICK t : Popped(fs, R, t)
  BY WalkPopped
<1>3. PICK n : n = Len(t)
  OBVIOUS
<1>4. /\ t = Tail(fs) /\ WalksOK(t, R) /\ n = Len(fs) - 1
      /\ \A i \in 1 .. n : t[i] = fs[i + 1]
      /\ \A i \in 1 .. n : t[i].addr # f.addr
  BY <1>2, <1>3 DEF Popped
<1>5. \A i \in 1 .. Len(t) : t[i].addr # f.addr
  BY <1>3, <1>4
<1>6. PICK g : Pushed(t, R, f, g)
  BY <1>4, <1>5, WalkPushed
<1>7. gs = g
  BY <1>4, <1>6 DEF GoesOn, Pushed
<1>8. Len(g) = Len(fs) /\ \A i \in 1 .. n : g[i + 1] = t[i]
  BY <1>1, <1>3, <1>4, <1>6 DEF Pushed
<1>9. ASSUME NEW i \in 1 .. Len(fs) PROVE g[i].addr = fs[i].addr /\ g[i].mask = fs[i].mask
  <2>1. CASE i = 1
    BY <1>1, <1>6, <2>1 DEF Pushed
  <2>2. CASE i # 1
    <3>1. i - 1 \in 1 .. n /\ (i - 1) + 1 = i
      BY <1>1, <1>4, <2>2
    <3>2. g[i] = t[i - 1] /\ t[i - 1] = fs[i]
      BY <1>4, <1>8, <3>1
    <3> QED BY <3>2
  <2> QED BY <2>1, <2>2
<1> QED BY <1>6, <1>7, <1>8, <1>9 DEF SameWalks, Pushed

\* The invariant, when a step only moves the innermost walk.
LEMMA OnlyWalks ==
  ASSUME TriggerInv, triggerFrames # << >>, UNCHANGED <<live, order, regs, sweep>>,
         WalksOK(triggerFrames', regs), SameWalks(triggerFrames, triggerFrames')
  PROVE  TriggerInv'
<1>1. PICK gs : gs = triggerFrames'
  OBVIOUS
<1>2. WalksOK(gs, regs) /\ SameWalks(triggerFrames, gs)
  BY <1>1
<1>3. Len(gs) <= TriggerMaxDepth
  BY <1>2, TriggerParts DEF SameWalks
<1>4. Held(live, regs, gs)
  BY <1>2, TriggerParts, HeldStill
<1>5. SweepOK(sweep, regs, order, gs)
  BY NoSweepThen, TriggerParts, SweepIdle
<1>6. TriggersHold(live, order, regs, gs, sweep)
  BY <1>2, <1>3, <1>4, <1>5, TriggerParts DEF TriggersHold
<1> QED BY <1>1, <1>6 DEF TriggerInv

\* The innermost walk, of a list that has each registration once.
LEMMA TopIs ==
  ASSUME TriggerInv, triggerFrames # << >>
  PROVE  /\ TriggerTop \in WalkFrames /\ WalkOK(TriggerTop, regs) /\ TriggerTop = triggerFrames[1]
         /\ TriggerTop.addr \in Addrs /\ regs[TriggerTop.addr] \in Seq(Nodes)
         /\ Once(regs[TriggerTop.addr]) /\ 1 \in 1 .. Len(triggerFrames)
<1>1. /\ TriggerTop \in WalkFrames /\ WalkOK(TriggerTop, regs) /\ TriggerTop = triggerFrames[1]
      /\ 1 \in 1 .. Len(triggerFrames)
  BY TriggerParts, WalkPopped DEF TriggerTop
<1>2. TriggerTop.addr \in Addrs
  BY <1>1 DEF WalkFrames
<1> QED BY <1>1, <1>2, TriggerParts

LEMMA VisitKeeps ==
  ASSUME TriggerInv, Visit PROVE TriggerInv'
<1>1. /\ triggerFrames # << >> /\ TriggerTop.at = "walk" /\ TriggerTop.next # None
      /\ UNCHANGED <<live, order, regs, sweep>>
  BY DEF Visit
<1>2. PICK t, s, x : t = TriggerTop /\ s = regs[t.addr] /\ x = t.next
  OBVIOUS
<1>3. t \in WalkFrames /\ WalkOK(t, regs) /\ s \in Seq(Nodes) /\ Once(s)
  BY <1>1, <1>2, TopIs
<1>4. x \in Elements(s)
  BY <1>1, <1>2, <1>3 DEF WalkOK
<1>5. PICK i \in 1 .. Len(s) : s[i] = x
  BY <1>3, <1>4, ElementsIn
<1>6. PICK y : y = After(s, x)
  OBVIOUS
<1>7. y = IF i < Len(s) THEN s[i + 1] ELSE None
  BY <1>3, <1>5, <1>6, AfterIs
<1>8. x \in Nodes /\ x # None
  BY <1>3, <1>4, ElementsIn, TriggerAssumption
<1>9. y # None => y \in Elements(s)
  BY <1>3, <1>5, <1>7, ElementsIn
<1>10. y # x
  <2>1. CASE i < Len(s)
    <3>1. PICK n \in Nat : n = Len(s) /\ DOMAIN s = 1 .. n
      BY <1>3
    <3>2. i + 1 \in 1 .. n /\ i \in 1 .. n /\ i + 1 # i
      BY <2>1, <3>1
    <3>3. s[i + 1] # s[i]
      BY <1>3, <3>1, <3>2 DEF Once
    <3> QED BY <1>5, <1>7, <2>1, <3>3
  <2>2. CASE ~(i < Len(s))
    BY <1>7, <1>8, <2>2
  <2> QED BY <2>1, <2>2
<1>11. y \in Nodes \cup {None}
  BY <1>3, <1>9, ElementsIn
<1>12. PICK w : w = IF t.next.type \in t.mask THEN "sink" ELSE "walk"
  OBVIOUS
<1>13. w \in {"walk", "sink"}
  BY <1>12
<1>14. PICK f : f = [t EXCEPT !.next = y, !.node = x, !.at = w]
  OBVIOUS
<1>15. f \in WalkFrames
  BY <1>3, <1>8, <1>11, <1>13, <1>14 DEF WalkFrames
<1>16. /\ f.addr = t.addr /\ f.mask = t.mask /\ f.next = y /\ f.node = x
       /\ f.stale = t.stale /\ f.list = t.list
  BY <1>3, <1>14 DEF WalkFrames
<1>17. WalkOK(f, regs)
  BY <1>2, <1>3, <1>8, <1>9, <1>10, <1>16 DEF WalkOK
<1>18. GoesOn(triggerFrames, f, triggerFrames')
  <2>1. triggerFrames' = <<[TriggerTop EXCEPT !.next = StepOn(regs[TriggerTop.addr], TriggerTop.next),
                                             !.node = TriggerTop.next,
                               !.at = IF TriggerTop.next.type \in TriggerTop.mask THEN "sink" ELSE "walk"]>>
                 \o Tail(triggerFrames)
    BY DEF Visit
  <2> QED BY <1>2, <1>6, <1>12, <1>14, <2>1 DEF GoesOn, StepOn
<1>19. PICK gs : gs = triggerFrames'
  OBVIOUS
<1>20. f.addr = Head(triggerFrames).addr /\ f.mask = Head(triggerFrames).mask
  BY <1>2, <1>16 DEF TriggerTop
<1>21. WalksOK(gs, regs) /\ SameWalks(triggerFrames, gs)
  BY <1>1, <1>15, <1>17, <1>18, <1>19, <1>20, TriggerParts, WalkGoesOn
<1> QED BY <1>1, <1>19, <1>21, OnlyWalks

LEMMA SinkReturnsKeeps ==
  ASSUME TriggerInv, SinkReturns PROVE TriggerInv'
<1>1. triggerFrames # << >> /\ UNCHANGED <<live, order, regs, sweep>>
  BY DEF SinkReturns, InSink
<1>2. PICK t : t = TriggerTop
  OBVIOUS
<1>3. t \in WalkFrames /\ WalkOK(t, regs)
  BY <1>1, <1>2, TopIs
<1>4. PICK f : f = [t EXCEPT !.at = "walk"]
  OBVIOUS
<1>5. f \in WalkFrames
  BY <1>3, <1>4 DEF WalkFrames
<1>6. /\ f.addr = t.addr /\ f.mask = t.mask /\ f.next = t.next /\ f.at = "walk"
      /\ f.stale = t.stale /\ f.list = t.list
  BY <1>3, <1>4 DEF WalkFrames
<1>7. WalkOK(f, regs)
  BY <1>3, <1>6 DEF WalkOK
<1>8. PICK gs : gs = triggerFrames'
  OBVIOUS
<1>9. GoesOn(triggerFrames, f, gs)
  BY <1>2, <1>4, <1>8 DEF GoesOn, SinkReturns
<1>10. f.addr = Head(triggerFrames).addr /\ f.mask = Head(triggerFrames).mask
  BY <1>2, <1>6 DEF TriggerTop
<1>11. WalksOK(gs, regs) /\ SameWalks(triggerFrames, gs)
  BY <1>1, <1>5, <1>7, <1>9, <1>10, TriggerParts, WalkGoesOn
<1> QED BY <1>1, <1>8, <1>11, OnlyWalks

\* The invariant, when a step takes registrations out of the list of a.
LEMMA OnlyTakes ==
  ASSUME TriggerInv, NEW fs, NEW a \in Addrs, NEW S, TakeOut(a, S, fs), Clear(fs, a, S),
         WalksOK(fs, regs), Len(fs) <= TriggerMaxDepth, Held(live, [regs EXCEPT ![a] = Purged(@, S)], fs),
         live' = live
  PROVE  /\ live' \subseteq Addrs /\ ListsOK(regs', order') /\ WalksOK(triggerFrames', regs')
         /\ Len(triggerFrames') <= TriggerMaxDepth /\ Held(live', regs', triggerFrames')
         /\ SameWalks(fs, triggerFrames')
         /\ Elements(regs'[a]) = Elements(regs[a]) \ S
         /\ \A b \in Addrs : b # a => regs'[b] = regs[b]
<1>1. PICK Q, p, gs : Q = regs' /\ p = order' /\ gs = triggerFrames'
  OBVIOUS
<1>2. TakesOut(regs, order, fs, a, S, Q, p, gs)
  BY <1>1 DEF TakeOut, TakesOut, KeysLeft
<1>3. /\ ListsOK(Q, p) /\ WalksOK(gs, Q) /\ SameWalks(fs, gs)
      /\ Elements(Q[a]) = Elements(regs[a]) \ S /\ \A b \in Addrs : b # a => Q[b] = regs[b]
  <2>1. ListsOK(regs, order) /\ WalksOK(fs, regs) /\ Clear(fs, a, S) /\ a \in Addrs
    BY TriggerParts
  <2>2. TookOut(regs, fs, a, S, Q, p, gs)
    BY ONLY <1>2, <2>1, TakeOutKeeps
  <2> QED BY <2>2 DEF TookOut
<1>4. Len(gs) <= TriggerMaxDepth
  BY <1>3 DEF SameWalks
<1>5. Q = [regs EXCEPT ![a] = Purged(@, S)]
  BY <1>2 DEF TakesOut
<1>6. Held(live, Q, fs)
  BY <1>5
<1>7. Held(live, Q, gs)
  BY <1>3, <1>6, HeldStill
<1> QED BY <1>1, <1>3, <1>4, <1>7, TriggerParts

\* What Held says of the lists with S taken out of one.
LEMMA HeldTaken ==
  ASSUME TriggerInv, NEW a \in Addrs, NEW S, NEW fs, Held(live, regs, fs)
  PROVE  Held(live, [regs EXCEPT ![a] = Purged(@, S)], fs)
<1>1. PICK Q : Q = [regs EXCEPT ![a] = Purged(@, S)]
  OBVIOUS
<1>2. regs[a] \in Seq(Nodes) /\ Once(regs[a]) /\ regs \in [Addrs -> Seq(Nodes)]
  BY TriggerParts
<1>3. Purged(regs[a], S) \in Seq(Nodes) /\ Elements(Purged(regs[a], S)) = Elements(regs[a]) \ S
  BY <1>2, PurgedKeeps
<1>4. Purged(regs[a], S) # << >> => regs[a] # << >>
  BY <1>2, <1>3, NoneLeft
<1>5. \A b \in Addrs : Q[b] # << >> => regs[b] # << >>
  BY <1>1, <1>2, <1>4
<1>6. Held(live, Q, fs)
  BY <1>5 DEF Held
<1> QED BY <1>1, <1>6

LEMMA EndsKeeps ==
  ASSUME TriggerInv, Ends PROVE TriggerInv'
<1>1. /\ triggerFrames # << >> /\ live' = live /\ sweep' = sweep /\ ~sweep.on
      /\ TriggerTop.next = None
  BY NoSweepThen DEF Ends
<1>2. PICK t, a, S : t = TriggerTop /\ a = t.addr /\ S = Dropped(regs[a], t.mask)
  OBVIOUS
<1>3. /\ a \in Addrs /\ t = triggerFrames[1] /\ regs[a] \in Seq(Nodes) /\ Once(regs[a])
      /\ 1 \in 1 .. Len(triggerFrames) /\ t.addr = a
  BY <1>1, <1>2, TopIs
<1>4. PICK fs : Popped(triggerFrames, regs, fs)
  BY <1>1, TriggerParts, WalkPopped
<1>5. PICK n \in Nat, l \in Nat : n = Len(triggerFrames) /\ l = Len(fs)
  BY <1>4, TriggerParts DEF Popped, WalksOK
<1>6. /\ fs = Tail(triggerFrames) /\ WalksOK(fs, regs) /\ l = n - 1
      /\ \A i \in 1 .. l : fs[i] = triggerFrames[i + 1]
      /\ \A i \in 1 .. l : fs[i].addr # a
  BY <1>2, <1>4, <1>5 DEF Popped, TriggerTop
<1>7. Len(fs) <= TriggerMaxDepth
  BY <1>5, <1>6, TriggerParts, TriggerAssumption
<1>8. \* all but the list of a is held by what is left
      \A b \in Addrs \ {a} : regs[b] # << >> =>
        \/ b \in live
        \/ \E i \in 1 .. Len(fs) : fs[i].addr = b /\ "delete" \in fs[i].mask
  <2> SUFFICES ASSUME NEW b \in Addrs, b # a, regs[b] # << >>, b \notin live
               PROVE  \E i \in 1 .. Len(fs) : fs[i].addr = b /\ "delete" \in fs[i].mask
    OBVIOUS
  <2>1. PICK j \in 1 .. n : triggerFrames[j].addr = b /\ "delete" \in triggerFrames[j].mask
    BY <1>5, TriggerParts DEF Held
  <2>2. j # 1
    BY <1>2, <1>3, <2>1
  <2>3. j - 1 \in 1 .. l /\ (j - 1) + 1 = j
    BY <1>6, <2>2
  <2>4. fs[j - 1] = triggerFrames[j]
    BY <1>6, <2>3
  <2> QED BY <1>5, <2>1, <2>3, <2>4
<1>9. CASE S = {}
  <2>1. triggerFrames' = fs /\ order' = order /\ regs' = regs
    BY <1>2, <1>6, <1>9 DEF Ends
  <2>2. "delete" \in t.mask => regs[a] = << >>
    <3>1. "delete" \in t.mask => Elements(regs[a]) = {}
      BY <1>2, <1>9 DEF Dropped
    <3> QED BY <1>3, <3>1, NoneLeft
  <2>3. \A i \in 1 .. n : triggerFrames[i].addr = a => i = 1
    BY <1>3, <1>5, TriggerParts DEF WalksOK
  <2>4. Held(live, regs, triggerFrames)
    BY TriggerParts
  <2>5. regs[a] # << >> => a \in live
    BY <1>3, <1>5, <2>2, <2>3, <2>4 DEF Held
  <2>6. Held(live, regs, fs)
    BY <1>8, <2>5 DEF Held
  <2>7. SweepOK(sweep, regs, order, fs)
    BY <1>1, TriggerParts, SweepIdle
  <2>8. TriggersHold(live, order, regs, fs, sweep)
    BY <1>6, <1>7, <2>6, <2>7, TriggerParts DEF TriggersHold
  <2> QED BY <1>1, <2>1, <2>8 DEF TriggerInv
<1>10. CASE S # {}
  <2>1. TakeOut(a, S, fs)
    BY <1>2, <1>6, <1>10 DEF Ends
  <2>2. Clear(fs, a, S)
    BY <1>5, <1>6 DEF Clear
  <2>3. S = Elements(regs[a])
    BY <1>2, <1>10 DEF Dropped
  <2>4. Held(live, [regs EXCEPT ![a] = Purged(@, S)], fs)
    <3>1. PICK Q : Q = [regs EXCEPT ![a] = Purged(@, S)]
      OBVIOUS
    <3>2. Purged(regs[a], S) \in Seq(Nodes) /\ Elements(Purged(regs[a], S)) = {}
      BY <1>3, <2>3, PurgedKeeps
    <3>3. Purged(regs[a], S) = << >>
      BY <3>2, NoneLeft
    <3>4. Q[a] = << >> /\ \A b \in Addrs : b # a => Q[b] = regs[b]
      <4>1. PICK u : u = Purged(regs[a], S)
        OBVIOUS
      <4>2. regs \in [Addrs -> Seq(Nodes)] /\ Q = [regs EXCEPT ![a] = u] /\ u = << >>
        BY <3>1, <3>3, <4>1, TriggerParts
      <4>3. Q[a] = u
        BY <1>3, <4>2
      <4> QED BY <4>2, <4>3
    <3>5. Held(live, Q, fs)
      BY <1>8, <3>4 DEF Held
    <3> QED BY <3>1, <3>5
  <2>5. /\ live' \subseteq Addrs /\ ListsOK(regs', order') /\ WalksOK(triggerFrames', regs')
        /\ Len(triggerFrames') <= TriggerMaxDepth /\ Held(live', regs', triggerFrames')
    BY <1>1, <1>3, <1>6, <1>7, <2>1, <2>2, <2>4, OnlyTakes
  <2>6. SweepOK(sweep', regs', order', triggerFrames')
    BY <1>1, TriggerParts, SweepIdle
  <2> QED BY <2>5, <2>6 DEF TriggerInv, TriggersHold
<1> QED BY <1>9, <1>10

\* The invariant, when a step outside of a sweep takes registrations out.
LEMMA TakesIdle ==
  ASSUME TriggerInv, ~sweep.on, NEW a \in Addrs, NEW S, TakeOut(a, S, triggerFrames),
         Clear(triggerFrames, a, S), UNCHANGED <<live, sweep>>
  PROVE  TriggerInv'
<1>1. Held(live, [regs EXCEPT ![a] = Purged(@, S)], triggerFrames)
  BY TriggerParts, HeldTaken
<1>2. /\ live' \subseteq Addrs /\ ListsOK(regs', order') /\ WalksOK(triggerFrames', regs')
      /\ Len(triggerFrames') <= TriggerMaxDepth /\ Held(live', regs', triggerFrames')
  BY <1>1, TriggerParts, OnlyTakes
<1>3. SweepOK(sweep', regs', order', triggerFrames')
  BY TriggerParts, SweepIdle
<1> QED BY <1>2, <1>3 DEF TriggerInv, TriggersHold

LEMMA DropTriggerKeeps ==
  ASSUME TriggerInv, DropTrigger PROVE TriggerInv'
<1>1. UNCHANGED <<live, sweep>>
  BY DEF DropTrigger
<1>2. ASSUME Outside, NEW a \in Addrs, NEW win \in Windows, NEW mask \in Masks,
             TakeOut(a, Taken(regs[a], win, mask), triggerFrames)
      PROVE  TriggerInv'
  <2>1. ~sweep.on /\ triggerFrames = << >> /\ \A i \in 1 .. 0 : FALSE
    BY <1>2 DEF Outside
  <2>2. Len(triggerFrames) = 0
    BY <2>1
  <2>3. Clear(triggerFrames, a, Taken(regs[a], win, mask))
    BY <2>1, <2>2 DEF Clear
  <2> QED BY <1>1, <1>2, <2>1, <2>3, TakesIdle
<1>3. ASSUME DropOwn PROVE TriggerInv'
  <2>1. /\ triggerFrames # << >> /\ TriggerTop.at = "sink" /\ "delete" \notin TriggerTop.mask
        /\ ~sweep.on
    BY <1>3, NoSweepThen DEF DropOwn, InSink
  <2>2. PICK t, a, S : /\ t = TriggerTop /\ a = t.addr
                       /\ S = Taken(regs[a], t.node.win, {t.node.type})
    OBVIOUS
  <2>3. TakeOut(a, S, triggerFrames)
    BY <1>3, <2>2 DEF DropOwn
  <2>4. /\ WalkOK(t, regs) /\ t = triggerFrames[1] /\ a \in Addrs /\ regs[a] \in Seq(Nodes)
        /\ 1 \in 1 .. Len(triggerFrames) /\ t.addr = a
    BY <2>1, <2>2, TopIs
  <2>5. t.node \in Nodes /\ t.next # t.node
    BY <2>1, <2>2, <2>4 DEF WalkOK
  <2>6. t.next \notin S
    <3> SUFFICES ASSUME t.next \in S PROVE FALSE
      OBVIOUS
    <3>1. t.next \in Elements(regs[a]) /\ t.next.win = t.node.win /\ t.next.type = t.node.type
      BY <2>2 DEF Taken
    <3>2. t.next \in Nodes
      BY <2>4, <3>1, ElementsIn
    <3>3. t.next = t.node
      <4>1. PICK x \in Nodes, y \in Nodes : x = t.next /\ y = t.node
        BY <2>5, <3>2
      <4>2. x.win = y.win /\ x.type = y.type
        BY <3>1, <4>1
      <4>3. x = y
        BY <4>2 DEF Nodes
      <4> QED BY <4>1, <4>3
    <3> QED BY <2>5, <3>3
  <2>7. Clear(triggerFrames, a, S)
    <3>1. \A i \in 1 .. Len(triggerFrames) : triggerFrames[i].addr = a => i = 1
      BY <2>4, TriggerParts DEF WalksOK
    <3> QED BY <2>1, <2>2, <2>4, <2>6, <3>1 DEF Clear
  <2> QED BY <1>1, <2>1, <2>3, <2>4, <2>7, TakesIdle
<1> QED BY <1>2, <1>3 DEF DropTrigger

LEMMA DropTriggersKeeps ==
  ASSUME TriggerInv, DropTriggers PROVE TriggerInv'
<1>1. /\ triggerFrames = << >> /\ order # << >>
      /\ live' = live /\ order' = order /\ regs' = regs /\ triggerFrames' = triggerFrames
  BY DEF DropTriggers, Outside
<1>2. PICK win \in Windows, mask \in Masks :
        sweep' = [on |-> TRUE, win |-> win, mask |-> mask,
                  pos |-> IF Vector THEN 1 ELSE Head(order)]
  BY DEF DropTriggers
<1>3. PICK sw : sw = sweep'
  OBVIOUS
<1>4. PICK p : p = IF Vector THEN 1 ELSE Head(order)
  OBVIOUS
<1>5. /\ sw.on = TRUE /\ sw.mask = mask /\ sw.pos = p
      /\ sw = [on |-> sw.on, win |-> sw.win, mask |-> sw.mask, pos |-> sw.pos]
  BY <1>2, <1>3, <1>4
<1>6. mask \subseteq Elements(Types)
  BY TriggerAssumption, TypesAre
<1>7. order \in Seq(Addrs)
  BY TriggerParts DEF ListsOK
<1>8. 1 \in 1 .. Len(order) /\ Head(order) = order[1] /\ Head(order) \in Addrs
  BY <1>1, <1>7, NotEmpty, ElementsIn
<1>9. ASSUME ~Vector
      PROVE  /\ sw.pos # None
             /\ \E k \in 1 .. Len(order) :
                  order[k] = sw.pos /\ \A i \in 1 .. k - 1 : Taken(regs[order[i]], sw.win, sw.mask) = {}
  <2>1. sw.pos = order[1] /\ sw.pos \in Addrs
    BY <1>4, <1>5, <1>8, <1>9
  <2>2. \A i \in 1 .. 1 - 1 : FALSE
    OBVIOUS
  <2> QED BY <1>8, <2>1, <2>2, TriggerAssumption
<1>10. SweepOK(sw, regs, order, triggerFrames)
  BY <1>1, <1>5, <1>6, <1>9, Zenon DEF SweepOK
<1>11. TriggersHold(live, order, regs, triggerFrames, sw)
  BY <1>10, TriggerParts DEF TriggersHold
<1> QED BY <1>1, <1>3, <1>11 DEF TriggerInv

LEMMA SweepEndsKeeps ==
  ASSUME TriggerInv, SweepEnds PROVE TriggerInv'
<1>1. /\ sweep' = NoSweep /\ live' = live /\ order' = order /\ regs' = regs
      /\ triggerFrames' = triggerFrames
  BY DEF SweepEnds
<1>2. PICK sw : sw = NoSweep
  OBVIOUS
<1>3. /\ sw.on = FALSE /\ sw.mask = {}
      /\ sw = [on |-> sw.on, win |-> sw.win, mask |-> sw.mask, pos |-> sw.pos]
  BY <1>2 DEF NoSweep
<1>4. SweepOK(sw, regs, order, triggerFrames)
  BY <1>3 DEF SweepOK
<1>5. TriggersHold(live, order, regs, triggerFrames, sw)
  BY <1>4, TriggerParts DEF TriggersHold
<1> QED BY <1>1, <1>2, <1>5 DEF TriggerInv

\* What a sweep leaves at a block: nothing of what it was asked to drop.
Clean(R, b, win, mask) == Taken(R[b], win, mask) = {}

\* The sweep stands at y: what is before is clean, and at the end all is.
StandsAt(y, p, Q, win, mask) ==
  IF y = None THEN \A b \in Addrs : Clean(Q, b, win, mask)
  ELSE \E l \in 1 .. Len(p) : p[l] = y /\ \A i \in 1 .. l - 1 : Clean(Q, p[i], win, mask)

\* A step of a sweep of the chained map: the key x is cleaned, and the sweep
\* stands at the next one, y.
LEMMA SweptOn ==
  ASSUME NEW R, NEW o, ListsOK(R, o), NEW Q, NEW win, NEW mask,
         NEW k \in 1 .. Len(o), \A i \in 1 .. k - 1 : Clean(R, o[i], win, mask),
         Clean(Q, o[k], win, mask), \A b \in Addrs : b # o[k] => Q[b] = R[b],
         NEW p, p = o \/ p = Purged(o, {o[k]}), NEW y, y = After(o, o[k])
  PROVE  StandsAt(y, p, Q, win, mask)
<1>1. /\ R \in [Addrs -> Seq(Nodes)] /\ o \in Seq(Addrs) /\ Once(o)
      /\ Elements(o) = {b \in Addrs : R[b] # << >>}
  BY DEF ListsOK
<1>2. PICK n \in Nat : n = Len(o) /\ DOMAIN o = 1 .. n /\ \A i \in 1 .. n : o[i] \in Addrs
  BY <1>1
<1>3. k \in 1 .. n /\ k \in Nat /\ \A i \in 1 .. k - 1 : i \in 1 .. n /\ i # k
  BY <1>2
<1>4. y = IF k < n THEN o[k + 1] ELSE None
  BY <1>1, <1>2, AfterIs
<1>5. \A i, j \in 1 .. n : o[i] = o[j] => i = j
  BY <1>1, <1>2 DEF Once
<1>6. ASSUME NEW i \in 1 .. n, i <= k PROVE Clean(Q, o[i], win, mask)
  <2>1. CASE i = k
    BY <2>1
  <2>2. CASE i # k
    <3>1. i \in 1 .. k - 1
      BY <1>3, <1>6, <2>2
    <3>2. o[i] # o[k] /\ o[i] \in Addrs
      BY <1>2, <1>3, <1>5, <2>2
    <3>3. Q[o[i]] = R[o[i]] /\ Clean(R, o[i], win, mask)
      BY <3>1, <3>2
    <3> QED BY <3>3 DEF Clean
  <2> QED BY <2>1, <2>2
<1>7. CASE k < n
  <2>1. k + 1 \in 1 .. n /\ y = o[k + 1] /\ y \in Addrs /\ y # None
    <3>1. k + 1 \in 1 .. n
      BY <1>3, <1>7
    <3> QED BY <1>2, <1>4, <1>7, <3>1, TriggerAssumption
  <2>2. CASE p = o
    <3>1. \A i \in 1 .. (k + 1) - 1 : i \in 1 .. n /\ i <= k
      BY <1>3
    <3>2. \A i \in 1 .. (k + 1) - 1 : Clean(Q, o[i], win, mask)
      BY <1>6, <3>1
    <3>3. k + 1 \in 1 .. Len(p) /\ p[k + 1] = y
      BY <1>2, <2>1, <2>2
    <3> QED BY <2>1, <2>2, <3>2, <3>3 DEF StandsAt
  <2>3. CASE p = Purged(o, {o[k]})
    <3>1. PICK h : p \in Seq(Addrs) /\ Survivors(o, {o[k]}, p, h)
      BY <1>1, <2>3, PurgedIs
    <3>2. PICK m \in Nat : m = Len(p) /\ DOMAIN p = 1 .. m
      BY <3>1
    <3>3. /\ \A i \in 1 .. m : h[i] \in 1 .. n
          /\ \A i, j \in 1 .. m : i < j => h[i] < h[j]
          /\ \A i \in 1 .. m : p[i] = o[h[i]]
          /\ \A j \in 1 .. n : o[j] \notin {o[k]} <=> \E i \in 1 .. m : h[i] = j
      BY <1>2, <3>1, <3>2 DEF Survivors
    <3>4. o[k + 1] \notin {o[k]}
      BY <1>3, <1>5, <2>1
    <3>5. PICK l \in 1 .. m : h[l] = k + 1
      BY <2>1, <3>3, <3>4
    <3>6. p[l] = y
      BY <2>1, <3>3, <3>5
    <3>7. ASSUME NEW i \in 1 .. l - 1 PROVE Clean(Q, p[i], win, mask)
      <4>1. i \in 1 .. m /\ i < l
        OBVIOUS
      <4>2. h[i] \in 1 .. n /\ h[i] < k + 1 /\ p[i] = o[h[i]]
        BY <3>3, <3>5, <4>1
      <4>3. h[i] <= k
        BY <1>3, <4>2
      <4> QED BY <1>6, <4>2, <4>3
    <3> QED BY <2>1, <3>2, <3>6, <3>7 DEF StandsAt
  <2> QED BY <2>2, <2>3
<1>8. CASE ~(k < n)
  <2>1. y = None
    BY <1>4, <1>8
  <2>2. ASSUME NEW b \in Addrs PROVE Clean(Q, b, win, mask)
    <3>1. CASE b \in Elements(o)
      <4>1. PICK i \in 1 .. n : b = o[i]
        BY <1>2, <3>1 DEF Elements
      <4>2. i <= k
        BY <1>3, <1>8
      <4> QED BY <1>6, <4>1, <4>2
    <3>2. CASE b \notin Elements(o)
      <4>1. o[k] \in Elements(o)
        BY <1>2, <1>3 DEF Elements
      <4>2. Q[b] = R[b] /\ R[b] = << >> /\ R[b] \in Seq(Nodes)
        BY <1>1, <3>2, <4>1
      <4>3. Elements(R[b]) = {}
        BY <4>2, NoneLeft
      <4> QED BY <4>2, <4>3 DEF Clean, Taken
    <3> QED BY <3>1, <3>2
  <2> QED BY <2>1, <2>2 DEF StandsAt
<1> QED BY <1>7, <1>8

LEMMA SweepOneKeeps ==
  ASSUME Vector \in BOOLEAN, TriggerInv, SweepOne PROVE TriggerInv'
<1>1. /\ sweep.on /\ sweep.pos # None /\ live' = live
      /\ Vector => sweep.pos \in DOMAIN order
  BY DEF SweepOne
<1>2. PICK a, win, mask, S : /\ a = IF Vector THEN order[sweep.pos] ELSE sweep.pos
                             /\ win = sweep.win /\ mask = sweep.mask
                             /\ S = Taken(regs[a], win, mask)
  OBVIOUS
<1>3. TakeOut(a, S, triggerFrames)
  BY <1>2 DEF SweepOne
<1>4. ListsOK(regs, order) /\ order \in Seq(Addrs) /\ SweepOK(sweep, regs, order, triggerFrames)
  BY TriggerParts DEF ListsOK
<1>5. ASSUME ~Vector
      PROVE  \E k \in 1 .. Len(order) :
               order[k] = a /\ \A i \in 1 .. k - 1 : Clean(regs, order[i], win, mask)
  <2>1. \E k \in 1 .. Len(order) :
          /\ order[k] = sweep.pos
          /\ \A i \in 1 .. k - 1 : Taken(regs[order[i]], sweep.win, sweep.mask) = {}
    BY <1>1, <1>4, <1>5, Zenon DEF SweepOK
  <2>2. a = sweep.pos /\ win = sweep.win /\ mask = sweep.mask
    BY <1>2, <1>5
  <2> QED BY <2>1, <2>2 DEF Clean
<1>6. a \in Addrs
  <2>1. CASE Vector
    <3>1. a \in Elements(order)
      BY <1>1, <1>2, <2>1 DEF Elements
    <3> QED BY <1>4, <3>1, ElementsIn
  <2>2. CASE ~Vector
    BY <1>4, <1>5, <2>2
  <2> QED BY <2>1, <2>2
<1>7. triggerFrames = << >> /\ Len(triggerFrames) = 0 /\ \A i \in 1 .. 0 : FALSE
  <2>1. triggerFrames = << >>
    BY <1>1, TriggerParts
  <2> QED BY <2>1
<1>8. Clear(triggerFrames, a, S)
  BY <1>7 DEF Clear
<1>9. Held(live, [regs EXCEPT ![a] = Purged(@, S)], triggerFrames)
  BY <1>6, TriggerParts, HeldTaken
<1>10. PICK Q, p, gs, sw : Q = regs' /\ p = order' /\ gs = triggerFrames' /\ sw = sweep'
  OBVIOUS
<1>11. /\ live \subseteq Addrs /\ ListsOK(Q, p) /\ WalksOK(gs, Q)
       /\ Len(gs) <= TriggerMaxDepth /\ Held(live, Q, gs)
       /\ SameWalks(triggerFrames, gs)
       /\ Elements(Q[a]) = Elements(regs[a]) \ S
       /\ \A b \in Addrs : b # a => Q[b] = regs[b]
  BY <1>1, <1>3, <1>6, <1>8, <1>9, <1>10, TriggerParts, OnlyTakes
<1>12. gs = << >>
  <2>1. Len(gs) = 0 /\ gs \in Seq(WalkFrames)
    BY <1>7, <1>11 DEF SameWalks, WalksOK
  <2> QED BY <2>1, NotEmpty
<1>13. PICK y : y = NextPos(sweep.pos)
  OBVIOUS
<1>14. sw = [sweep EXCEPT !.pos = y]
  BY <1>10, <1>13 DEF SweepOne
<1>15. /\ sw.on = sweep.on /\ sw.win = win /\ sw.mask = mask /\ sw.pos = y
       /\ sw = [on |-> sw.on, win |-> sw.win, mask |-> sw.mask, pos |-> sw.pos]
  <2>1. sweep = [on |-> sweep.on, win |-> sweep.win, mask |-> sweep.mask, pos |-> sweep.pos]
    BY <1>4 DEF SweepOK
  <2>2. PICK s, on, pos : s = sweep /\ on = sweep.on /\ pos = sweep.pos
    OBVIOUS
  <2>3. s = [on |-> on, win |-> win, mask |-> mask, pos |-> pos]
    BY <1>2, <2>1, <2>2
  <2>4. sw = [s EXCEPT !.pos = y]
    BY <1>14, <2>2
  <2>5. sw = [on |-> on, win |-> win, mask |-> mask, pos |-> y]
    BY <2>3, <2>4
  <2> QED BY <2>2, <2>5
<1>16. sw.on \in BOOLEAN /\ sw.mask \subseteq Elements(Types)
  BY <1>2, <1>4, <1>15 DEF SweepOK
<1>17. ASSUME ~Vector
       PROVE  IF sw.pos = None THEN \A b \in Addrs : Taken(Q[b], sw.win, sw.mask) = {}
              ELSE \E l \in 1 .. Len(p) :
                     p[l] = sw.pos /\ \A i \in 1 .. l - 1 : Taken(Q[p[i]], sw.win, sw.mask) = {}
  <2>1. PICK k \in 1 .. Len(order) :
          order[k] = a /\ \A i \in 1 .. k - 1 : Clean(regs, order[i], win, mask)
    BY <1>5, <1>17
  <2>2. y = After(order, order[k])
    BY <1>2, <1>13, <1>17, <2>1 DEF NextPos
  <2>3. p = order \/ p = Purged(order, {order[k]})
    BY <1>3, <1>10, <2>1 DEF TakeOut, KeysLeft
  <2>4. Clean(Q, order[k], win, mask)
    <3>1. \A x \in Elements(Q[a]) : ~(x.win = win /\ x.type \in mask)
      BY <1>2, <1>11 DEF Taken
    <3> QED BY <2>1, <3>1 DEF Clean, Taken
  <2>5. \A b \in Addrs : b # order[k] => Q[b] = regs[b]
    BY <1>11, <2>1
  <2>6. StandsAt(y, p, Q, win, mask)
    BY <1>4, <2>1, <2>2, <2>3, <2>4, <2>5, SweptOn
  <2> QED BY <1>15, <2>6 DEF Clean, StandsAt
<1>18. SweepOK(sw, Q, p, gs)
  BY <1>12, <1>15, <1>16, <1>17, Zenon DEF SweepOK
<1>19. TriggersHold(live, p, Q, gs, sw)
  BY <1>11, <1>18 DEF TriggersHold
<1> QED BY <1>1, <1>10, <1>19 DEF TriggerInv

\* Every step keeps the invariant.
LEMMA TriggerStep ==
  ASSUME TriggerMaxDepth >= 1, TriggerInv, TriggerNext PROVE TriggerInv'
<1>1. CASE Allocate
  BY <1>1, AllocateKeeps
<1>2. CASE CreateTrigger
  BY <1>2, CreateTriggerKeeps
<1>3. CASE FireTrigger
  BY <1>3, FireTriggerKeeps
<1>4. CASE TriggerFree
  BY <1>4, TriggerFreeKeeps
<1>5. CASE Visit
  BY <1>5, VisitKeeps
<1>6. CASE SinkReturns
  BY <1>6, SinkReturnsKeeps
<1>7. CASE Ends
  BY <1>7, EndsKeeps
<1>8. CASE DropTrigger
  BY <1>8, DropTriggerKeeps
<1>9. CASE DropTriggers
  BY <1>9, DropTriggersKeeps
<1>10. CASE SweepOne
  BY <1>10, SweepOneKeeps, TriggerAssumption
<1>11. CASE SweepEnds
  BY <1>11, SweepEndsKeeps
<1> QED BY <1>1, <1>2, <1>3, <1>4, <1>5, <1>6, <1>7, <1>8, <1>9, <1>10, <1>11 DEF TriggerNext

\* A sequence without repetition is as long as its elements are many.
LEMMA LengthIs ==
  ASSUME NEW T, NEW s \in Seq(T), Once(s)
  PROVE  Len(s) = Cardinality(Elements(s))
<1>1. PICK n \in Nat : n = Len(s) /\ DOMAIN s = 1 .. n
  OBVIOUS
<1>2. \A x : x \in Elements(s) <=> \E i \in 1 .. n : s[i] = x
  BY <1>1 DEF Elements
<1>3. s \in [1 .. n -> Elements(s)]
  <2>1. s = [i \in 1 .. n |-> s[i]]
    BY <1>1
  <2>2. \A i \in 1 .. n : s[i] \in Elements(s)
    BY <1>2
  <2> QED BY <2>1, <2>2
<1>4. \A i, j \in 1 .. n : s[i] = s[j] => i = j
  BY <1>1 DEF Once
<1>5. s \in Bijection(1 .. n, Elements(s))
  BY <1>1, <1>2, <1>3, <1>4 DEF Bijection, Injection, Surjection, IsInjective
<1>6. IsFiniteSet(1 .. n) /\ Cardinality(1 .. n) = n
  BY FS_Interval
<1>7. ExistsBijection(1 .. n, Elements(s))
  BY <1>5 DEF ExistsBijection
<1> QED BY <1>1, <1>6, <1>7, FS_Bijection

\* The invariant implies what the theorems state.
LEMMA TriggerInvMeans ==
  ASSUME TriggerInv
  PROVE  TriggerTypeOK /\ NoStaleWalk /\ NoneInherited /\ KeysMatch /\ (~Vector => SweptClean)
<1>1. /\ order \in Seq(Addrs) /\ Once(order)
      /\ Elements(order) = {a \in Addrs : regs[a] # << >>}
  BY TriggerParts DEF ListsOK
<1>2. PICK n \in Nat : n = Len(triggerFrames) /\ DOMAIN triggerFrames = 1 .. n
  BY TriggerParts
<1>3. TriggerTypeOK
  <2>1. \A i \in DOMAIN order : order[i] \in Addrs
    BY <1>1
  <2>2. sweep.on \in BOOLEAN /\ sweep.mask \subseteq Elements(Types)
    BY TriggerParts DEF SweepOK
  <2> QED BY <2>1, <2>2, TriggerParts DEF TriggerTypeOK
<1>4. NoStaleWalk
  BY <1>2, TriggerParts DEF NoStaleWalk, WalksOK, WalkOK
<1>5. NoneInherited
  <2> SUFFICES ASSUME triggerFrames = << >> PROVE \A a \in Addrs : regs[a] # << >> => a \in live
    BY DEF NoneInherited, Outside
  <2>1. Len(triggerFrames) = 0 /\ \A i \in 1 .. 0 : FALSE
    OBVIOUS
  <2> QED BY <2>1, TriggerParts DEF Held
<1>6. KeysMatch
  BY <1>1, LengthIs DEF KeysMatch
<1>7. ~Vector => SweptClean
  BY TriggerParts DEF SweptClean, SweepOK
<1> QED BY <1>3, <1>4, <1>5, <1>6, <1>7

\* For any blocks, windows, masks and sinks, and for the map of either kind: a
\* walk never goes on to a registration, nor deletes a list, that its own sink had
\* freed; a freed block leaves no registration to the next at its address; and the
\* keys of the map are the blocks that have a registration, each once.
THEOREM WalksAreSafe ==
  ASSUME TriggerMaxDepth >= 1
  PROVE  TriggerSpec => [](TriggerTypeOK /\ NoStaleWalk /\ NoneInherited /\ KeysMatch)
<1>1. TriggerInv /\ [TriggerNext]_triggerVars => TriggerInv'
  <2>1. ASSUME TriggerInv, UNCHANGED triggerVars PROVE TriggerInv'
    BY <2>1 DEF triggerVars, TriggerInv
  <2> QED BY <2>1, TriggerStep
<1>2. TriggerInv => TriggerTypeOK /\ NoStaleWalk /\ NoneInherited /\ KeysMatch
  BY TriggerInvMeans
<1> QED BY <1>1, <1>2, TriggerInitOK, PTL DEF TriggerSpec

\* All of it, for the chained map: a sweep over every key misses none, though the
\* key it stands at may leave the map under it (TriggersSound).
THEOREM TriggersAreSound ==
  ASSUME TriggerMaxDepth >= 1, Vector = FALSE
  PROVE  TriggerSpec => []TriggersSound
<1>1. TriggerInv /\ [TriggerNext]_triggerVars => TriggerInv'
  <2>1. ASSUME TriggerInv, UNCHANGED triggerVars PROVE TriggerInv'
    BY <2>1 DEF triggerVars, TriggerInv
  <2> QED BY <2>1, TriggerStep
<1>2. TriggerInv => TriggersSound
  BY TriggerInvMeans DEF TriggersSound
<1> QED BY <1>1, <1>2, TriggerInitOK, PTL DEF TriggerSpec
=============================================================================
