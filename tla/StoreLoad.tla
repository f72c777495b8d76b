----------------------------- MODULE StoreLoad -----------------------------
(***************************************************************************)
(* How a P2PmsgMgr comes by its heap and loses it (src/P2PmsgMgr.cpp): the  *)
(* constructors, Load with each place where it can fail, Save's             *)
(* defragmentation, Nullify, the factories and the destructor.  A heap is   *)
(* counted by hand: once for the manager that made it, and once for every   *)
(* object on it - the manager's own root object, and the views a program    *)
(* takes.  The buffer a file is read into is the loader's until a heap is   *)
(* made of it, and the heap's from then on.                                 *)
(***************************************************************************)
EXTENDS Naturals, FiniteSets, NoValue

CONSTANTS
    Mgrs,        \* managers of a program
    Heaps,       \* heaps that exist at once: a step that makes one waits for room
    Buffers      \* buffers that files are read into, each used once

ASSUME LoadAssumption ==
    /\ None \notin Mgrs \cup Heaps \cup Buffers
    /\ IsFiniteSet(Mgrs) /\ IsFiniteSet(Heaps)

VARIABLES
    loadDisk,        \* what the store's file is
    mgr,         \* the managers
    refs,        \* nRefCount of each heap, 0 when it is closed
    views,       \* the objects on each heap that are no manager's
    image,       \* the buffer a heap was made of
    frees,       \* how often each buffer was deleted
    loading      \* the Load in progress

loadVars == <<loadDisk, mgr, refs, views, image, frees, loading>>

\* A file: none; created by a factory and never saved; no heap at all; a heap
\* the gate refuses; one whose root leads out of it; a good one.
Forms == {"absent", "new", "junk", "corrupt", "rootless", "good"}
NoMgr == [there |-> FALSE, heap |-> None, root |-> None, file |-> FALSE]
NoLoad == [by |-> None, at |-> "idle", buf |-> None]

LoadTypeOK ==
    /\ loadDisk \in Forms /\ refs \in [Heaps -> Nat] /\ views \in [Heaps -> 0 .. 1]
    /\ mgr \in [Mgrs -> [there : BOOLEAN, heap : Heaps \cup {None}, root : Heaps \cup {None},
                         file : BOOLEAN]]
    /\ image \in [Heaps -> Buffers \cup {None}] /\ frees \in [Buffers -> Nat]
    /\ loading.by \in Mgrs \cup {None} /\ loading.buf \in Buffers \cup {None}

LoadInit ==
    /\ loadDisk \in {"absent", "junk", "corrupt", "rootless", "good"}
    /\ mgr = [m \in Mgrs |-> NoMgr]
    /\ refs = [h \in Heaps |-> 0] /\ views = [h \in Heaps |-> 0]
    /\ image = [h \in Heaps |-> None] /\ frees = [b \in Buffers |-> 0]
    /\ loading = NoLoad

-----------------------------------------------------------------------------
(* Counting *)

\* P2PmsgHeap_Close, once for each holder that lets go: the last one deletes
\* the heap, and the buffer it was made of.
Close(h, n) ==
    IF h = None THEN UNCHANGED <<refs, image, frees>>
    ELSE LET last == refs[h] = n IN
         /\ refs' = [refs EXCEPT ![h] = @ - n]
         /\ image' = IF last THEN [image EXCEPT ![h] = None] ELSE image
         /\ frees' = IF last /\ image[h] # None THEN [frees EXCEPT ![image[h]] = @ + 1] ELSE frees

\* P2PmsgHeap_Create: a heap that its maker holds.
Created(h) == refs[h] = 0

\* Mutant: the base class is left connected.
HoldsOfManager(m) == IF mgr[m].heap = None THEN 0 ELSE 1

\* How often a manager holds its heap: itself, and by its root object.
Holds(m) == Cardinality({x \in {"heap", "root"} : mgr[m][x] # None})

Unused == {b \in Buffers : frees[b] = 0 /\ \A h \in Heaps : image[h] # b}
Quiet == loading = NoLoad
Locked(m) == \E n \in Mgrs \ {m} : mgr[n].file

-----------------------------------------------------------------------------
(* Managers *)

\* A constructor: a heap, and the root object on it (Attacheap).
RootAttached(m, h, file) ==
    /\ Created(h) /\ refs' = [refs EXCEPT ![h] = 2]
    /\ mgr' = [mgr EXCEPT ![m] = [there |-> TRUE, heap |-> h, root |-> h,
                                  file |-> file]]

Construct(m) ==
    /\ Quiet /\ ~mgr[m].there
    /\ \E h \in Heaps : RootAttached(m, h, FALSE)
    /\ UNCHANGED <<loadDisk, views, image, frees, loading>>

\* Factory of a new store: CREATE_NEW comes first, and the file it makes stays
\* when the manager cannot be made.
FactoryCreate(m) ==
    /\ Quiet /\ ~mgr[m].there /\ loadDisk = "absent"
    /\ loadDisk' = "new"
    /\ \/ \E h \in Heaps : RootAttached(m, h, TRUE)
       \/ UNCHANGED <<mgr, refs>>
    /\ UNCHANGED <<views, image, frees, loading>>

\* The constructor of a file's name, behind msgcore_mgr_open_file: an empty
\* manager first, and then Load, whose answer it does not look at.
OpenFile(m) ==
    /\ Quiet /\ ~mgr[m].there
    /\ \E h \in Heaps :
          /\ Created(h) /\ refs' = [refs EXCEPT ![h] = 2]
          /\ mgr' = [mgr EXCEPT ![m] = [there |-> TRUE, heap |-> h, root |-> h, file |-> FALSE]]
    /\ loading' = [by |-> m, at |-> "open", buf |-> None]
    /\ UNCHANGED <<loadDisk, views, image, frees>>

\* Mutant: the manager lets its heap go and not the root object's.
LetGoOfManager(x) == [x EXCEPT !.heap = None]

\* The manager lets go of its heap, and so does the base class, its root object.
LetGo(x) == [x EXCEPT !.heap = None, !.root = None]

\* P2PmsgMgr::Nullify.
Nullify(m) ==
    /\ Quiet /\ mgr[m].there
    /\ Close(mgr[m].heap, Holds(m))
    /\ mgr' = [mgr EXCEPT ![m] = [LetGo(@) EXCEPT !.file = FALSE]]
    /\ UNCHANGED <<loadDisk, views, loading>>

\* ~P2PmsgMgr, and the destructor of the root object.
LoadDestroy(m) ==
    /\ Quiet /\ mgr[m].there
    /\ Close(mgr[m].heap, Holds(m))
    /\ mgr' = [mgr EXCEPT ![m] = NoMgr]
    /\ UNCHANGED <<loadDisk, views, loading>>

\* A program takes an object of the store, and lets it go, perhaps long after.
TakeView(h) ==
    /\ Quiet /\ views[h] = 0 /\ \E m \in Mgrs : mgr[m].heap = h
    /\ views' = [views EXCEPT ![h] = 1] /\ refs' = [refs EXCEPT ![h] = @ + 1]
    /\ UNCHANGED <<loadDisk, mgr, image, frees, loading>>

DropView(h) ==
    /\ Quiet /\ views[h] = 1
    /\ views' = [views EXCEPT ![h] = 0] /\ Close(h, 1)
    /\ UNCHANGED <<loadDisk, mgr, loading>>

-----------------------------------------------------------------------------
(* Load, one failure point at a time *)

\* The handle goes before the file is looked at.  The
\* heap stays until the file has been read.
LoadBegins(m) ==
    /\ Quiet /\ mgr[m].there
    /\ mgr' = [mgr EXCEPT ![m].file = FALSE]
    /\ loading' = [by |-> m, at |-> "open", buf |-> None]
    /\ UNCHANGED <<loadDisk, refs, views, image, frees>>

\* The tail every failure reaches: the loader deletes the buffer it still has.
Failed(buf) ==
    /\ loading' = NoLoad
    /\ frees' = IF buf = None THEN frees ELSE [frees EXCEPT ![buf] = @ + 1]

\* CreateFile, GetFileSize, ReadFile: on a failure the manager keeps its heap.
ReadIn ==
    /\ loading.at = "open"
    /\ \/ Failed(None)
       \/ /\ loadDisk \notin {"absent", "new"} /\ ~Locked(loading.by)
          /\ \E h \in Heaps : Created(h)
          /\ \E b \in Unused :
                \/ loading' = [loading EXCEPT !.at = "read", !.buf = b] /\ UNCHANGED frees
                \/ Failed(b)
    /\ UNCHANGED <<loadDisk, mgr, refs, views, image>>

\* Nullify, before the form of the buffer is known.
NullifyFirst ==
    /\ loading.at = "read"
    /\ LET m == loading.by IN
          /\ Close(mgr[m].heap, Holds(m))
          /\ mgr' = [mgr EXCEPT ![m] = LetGo(@)]
    /\ loading' = [loading EXCEPT !.at = "form"]
    /\ UNCHANGED <<loadDisk, views>>

\* No known form, or the gate's refusal: the handle the gate made goes, without
\* the buffer.
Refuse ==
    /\ loading.at = "form" /\ loadDisk \in {"junk", "corrupt"}
    /\ Failed(loading.buf)
    /\ UNCHANGED <<loadDisk, mgr, refs, views, image>>

\* Mutant: the loader keeps its pointer to the buffer.
HandedKept == loading.buf
\* Once a heap is made of it, the buffer is the heap's.
HandedOver == None

\* The heap made of a buffer, held by its maker; Close deletes the buffer.
MadeOf(h, buf) ==
    /\ Created(h) /\ refs' = [refs EXCEPT ![h] = 1]
    /\ image' = [image EXCEPT ![h] = buf]

Adopt ==
    /\ loading.at = "form" /\ loadDisk \in {"rootless", "good"}
    /\ \E h \in Heaps :
          /\ MadeOf(h, loading.buf)
          /\ mgr' = [mgr EXCEPT ![loading.by].heap = h]
    /\ loading' = [loading EXCEPT !.at = "root", !.buf = HandedOver]
    /\ UNCHANGED <<loadDisk, views, frees>>

\* Connect counts the root object before its bound check throws.
ConnectRoot ==
    /\ loading.at = "root"
    /\ LET m == loading.by   h == mgr[loading.by].heap IN
          /\ refs' = [refs EXCEPT ![h] = @ + 1]
          /\ mgr' = [mgr EXCEPT ![m].root = h]
    /\ IF loadDisk = "good" THEN loading' = NoLoad /\ UNCHANGED frees ELSE Failed(loading.buf)
    /\ UNCHANGED <<loadDisk, views, image>>

-----------------------------------------------------------------------------
(* Save *)

\* Mutant: the new heap is taken over and not counted.
TakenOver == 1
\* The manager and its root object hold the copy's heap when the copy has gone.
Defragmented == 2

\* Save of a manager with a heap (one without has nothing to read the image
\* from).  The defragmented copy replaces the heap before anything is written.
Save(m) ==
    /\ Quiet /\ mgr[m].there /\ mgr[m].heap # None
    /\ \/ UNCHANGED <<refs, image, frees>> /\ mgr' = [mgr EXCEPT ![m].file = FALSE]
       \/ \E h \in Heaps :
             /\ Created(h)
             /\ LET old == mgr[m].heap   last == refs[old] = Holds(m) IN
                   /\ refs' = [refs EXCEPT ![old] = @ - Holds(m), ![h] = Defragmented]
                   /\ image' = IF last THEN [image EXCEPT ![old] = None] ELSE image
                   /\ frees' = IF last /\ image[old] # None
                               THEN [frees EXCEPT ![image[old]] = @ + 1] ELSE frees
             /\ mgr' = [mgr EXCEPT ![m].heap = h, ![m].root = h, ![m].file = FALSE]
    /\ loadDisk' \in {loadDisk} \cup (IF Locked(m) THEN {} ELSE {"good"})
    /\ UNCHANGED <<views, loading>>

LoadNext ==
    \/ \E m \in Mgrs : \/ Construct(m) \/ FactoryCreate(m) \/ OpenFile(m) \/ Nullify(m)
                       \/ LoadDestroy(m) \/ LoadBegins(m) \/ Save(m)
    \/ \E h \in Heaps : TakeView(h) \/ DropView(h)
    \/ ReadIn \/ NullifyFirst \/ Refuse \/ Adopt \/ ConnectRoot

LoadSpec == LoadInit /\ [][LoadNext]_loadVars

-----------------------------------------------------------------------------
(* Properties *)

\* A heap is counted by those who hold it and by nobody else, wherever a Load
\* fails and however Save replaces it: it is closed with the last of them, and
\* no sooner.
HeapsCounted ==
    \A h \in Heaps :
        refs[h] = Cardinality({p \in Mgrs \X {"heap", "root"} : mgr[p[1]][p[2]] = h}) + views[h]

\* Every buffer a file was read into is deleted once: by the Load that failed
\* before there was a heap, or with the last holder of the heap it became.
BufferOnce ==
    \A b \in Buffers :
        /\ frees[b] <= 1
        /\ frees[b] = 1 => loading.buf # b /\ \A h \in Heaps : refs[h] > 0 => image[h] # b

\* Between two calls a manager and its root object are on one heap or on none
\* (the assertion m_hMgr == r_Object().m_hVBList), failed calls included.
Paired == Quiet => \A m \in Mgrs : mgr[m].heap = mgr[m].root

\* All together, wherever Load, Save and the factories break off.
LoadSound == LoadTypeOK /\ HeapsCounted /\ BufferOnce /\ Paired
=============================================================================
