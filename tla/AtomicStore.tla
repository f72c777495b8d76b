---------------------------- MODULE AtomicStore ----------------------------
(***************************************************************************)
(* What P2PmsgMgr::Save and Load promise of a store: a Save that returns   *)
(* TRUE replaced the whole value in one instant, a Save that returns FALSE *)
(* left it alone, and a Load sees the value of one instant.  After a loss  *)
(* of power the store has the value it had or one it had before.           *)
(***************************************************************************)
CONSTANTS Saver, Loader, Value, None

VARIABLES store,    \* the value, or None
          disk,     \* the value that a loss of power cannot undo
          asked,    \* the value each caller of Save is saving, or None
          outcome,  \* what its Save returns
          reading   \* the value each Load is reading, or None

avars == <<store, disk, asked, outcome, reading>>

AInit ==
  /\ store = None /\ disk = None
  /\ asked = [p \in Saver |-> None] /\ outcome = [p \in Saver |-> "none"]
  /\ reading = [l \in Loader |-> None]

Ask(p) ==
  /\ asked[p] = None
  /\ \E v \in Value : asked' = [asked EXCEPT ![p] = v]
  /\ outcome' = [outcome EXCEPT ![p] = "none"]
  /\ UNCHANGED <<store, disk, reading>>

Put(p) ==
  /\ asked[p] # None /\ outcome[p] = "none"
  /\ store' = asked[p]
  /\ outcome' = [outcome EXCEPT ![p] = "saved"]
  /\ UNCHANGED <<disk, asked, reading>>

Refuse(p) ==
  /\ asked[p] # None /\ outcome[p] = "none"
  /\ outcome' = [outcome EXCEPT ![p] = "failed"]
  /\ asked' \in {asked, [asked EXCEPT ![p] = None]}
  /\ UNCHANGED <<store, disk, reading>>

Return(p) ==
  /\ asked[p] # None /\ outcome[p] # "none"
  /\ asked' = [asked EXCEPT ![p] = None]
  /\ UNCHANGED <<store, disk, outcome, reading>>

Open(l) ==
  /\ reading[l] = None /\ store # None
  /\ reading' = [reading EXCEPT ![l] = store]
  /\ UNCHANGED <<store, disk, asked, outcome>>

Close(l) ==
  /\ reading[l] # None
  /\ reading' = [reading EXCEPT ![l] = None]
  /\ UNCHANGED <<store, disk, asked, outcome>>

Sync ==
  /\ disk' = store
  /\ UNCHANGED <<store, asked, outcome, reading>>

Die(dead) ==
  /\ asked' = [p \in Saver |-> IF p \in dead THEN None ELSE asked[p]]
  /\ outcome' = [p \in Saver |-> IF p \in dead THEN "none" ELSE outcome[p]]

Crash(dead) == Die(dead) /\ UNCHANGED <<store, disk, reading>>

PowerLoss ==
  /\ Die(Saver)
  /\ store' \in {store, disk} /\ disk' = store'
  /\ reading' = [l \in Loader |-> None]

ANext ==
  \/ \E p \in Saver : Ask(p) \/ Put(p) \/ Refuse(p) \/ Return(p)
  \/ \E l \in Loader : Open(l) \/ Close(l)
  \/ \E dead \in SUBSET Saver : Crash(dead)
  \/ Sync \/ PowerLoss

ASpec == AInit /\ [][ANext]_avars
=============================================================================
