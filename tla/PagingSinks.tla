---------------------------- MODULE PagingSinks ----------------------------
(***************************************************************************)
(* The paging callbacks of one manager (P2PmsgMgr.cpp, Msgcore_c.cpp).     *)
(* The core keeps a key and function pointers, twice: one registration for *)
(* page-in and page-out, one for populate.  The C ABI keeps one record for *)
(* both, with the host's functions, and registers the record's address as  *)
(* the key of each.  The record lives while either kind of sink is set.    *)
(***************************************************************************)
EXTENDS Naturals, NoValue

CONSTANTS
    Rec,     \* places the map may put the record, again after an erase
    Pushes   \* does the host use push and pop?

ASSUME PagingAssumption == None \notin Rec /\ Pushes \in BOOLEAN

VARIABLES
    record,    \* s_mapPaging: where the manager's record is
    sinks,     \* which of pfnIn, pfnOut, pfnPopulate it holds
    page,      \* m_nfncP2PageCBKey, and which of m_pfncP2PageinCB, m_pfncP2PageoutCB
    populate,  \* m_nfncP2PopulateCBKey, and m_pfncP2PopulateCB
    saved,     \* the p-suffixed twins of page
    section    \* "pushed" between a push and its pop, "plain" otherwise

pagingVars == <<record, sinks, page, populate, saved, section>>

Paging == {"in", "out"}
Populating == {"populate"}
Nothing == [key |-> None, fns |-> {}]

PagingInit ==
    /\ record = None /\ sinks = {}
    /\ page = Nothing /\ populate = Nothing
    /\ saved = Nothing /\ section = "plain"

\* s_mapPaging[pMgr]: the record there is, or a new one at any place.
Place == IF record = None THEN Rec ELSE {record}

-----------------------------------------------------------------------------
(* The core.                                                               *)

\* The two PageRegistration: the fields are overwritten.
PageRegistration(key, fns) == page' = [key |-> key, fns |-> fns]
PopulateRegistration(key, fns) == populate' = [key |-> key, fns |-> fns]

\* PageRegistrationPush: the registration is saved, and stays in place.
PagingPush ==
    /\ Pushes
    /\ saved' = page
    /\ section' = "pushed"
    /\ UNCHANGED <<record, sinks, page, populate>>

\* PageRegistrationPop: whatever was saved, nothing included.
PagingPop ==
    /\ Pushes
    /\ page' = saved
    /\ saved' = Nothing
    /\ section' = "plain"
    /\ UNCHANGED <<record, sinks, populate>>

-----------------------------------------------------------------------------
(* The C ABI.                                                              *)

\* Clearing one kind of sink: the record goes, or stays for the other kind.
\* A slip: it always goes.
ErasedAlways(left) == record' = None /\ sinks' = {}

Erased(left) ==
    IF left = {} THEN record' = None /\ sinks' = {}
    ELSE sinks' = left /\ UNCHANGED record

\* msgcore_mgr_set_paging_sinks.
SetPagingSinks(fns) ==
    /\ IF fns = {}
       THEN PageRegistration(None, {}) /\ Erased(sinks \ Paging)
       ELSE \E r \in Place :
            /\ record' = r
            /\ sinks' = (sinks \ Paging) \cup fns
            /\ PageRegistration(r, fns)
    /\ UNCHANGED <<populate, saved, section>>

\* msgcore_mgr_set_populate_sink.
SetPopulateSink(fns) ==
    /\ IF fns = {}
       THEN PopulateRegistration(None, {}) /\ Erased(sinks \ Populating)
       ELSE \E r \in Place :
            /\ record' = r
            /\ sinks' = sinks \cup fns
            /\ PopulateRegistration(r, fns)
    /\ UNCHANGED <<page, saved, section>>

PagingNext ==
    \/ PagingPush \/ PagingPop
    \/ \E fns \in SUBSET Paging : SetPagingSinks(fns)
    \/ \E fns \in SUBSET Populating : SetPopulateSink(fns)

PagingSpec == PagingInit /\ [][PagingNext]_pagingVars

-----------------------------------------------------------------------------
(* What a call into the core does with the registration.                   *)

\* The trampolines read the record at the key.
Reaches(key) == key # None /\ key = record

PagingTypeOK ==
    /\ record \in Rec \cup {None}
    /\ sinks \subseteq Paging \cup Populating
    /\ {page, saved} \subseteq [key : Rec \cup {None}, fns : SUBSET Paging]
    /\ populate \in [key : Rec \cup {None}, fns : SUBSET Populating]
    /\ section \in {"plain", "pushed"}

(***************************************************************************)
(* Whatever the core would call reads a live record that says the same:    *)
(* clearing one kind of sink never takes the record from under the other,  *)
(* and the record is released with the last of them ("so no in-flight call *)
(* can reach a record that is about to be erased").                        *)
(***************************************************************************)
KeyHeld ==
    /\ page.key # None => Reaches(page.key) /\ page.fns = sinks \cap Paging
    /\ populate.key # None => Reaches(populate.key) /\ populate.fns = sinks \cap Populating
    /\ record # None => page.key # None \/ populate.key # None
=============================================================================
