------------------------------ MODULE P2PEvent ------------------------------
(***************************************************************************)
(* An event of the Linux shim (Platform/p2pthread.h) and the threads that  *)
(* set it, reset it and wait on it.  The signal is the count of an         *)
(* eventfd; the generation beside it carries the order of memory: a waiter *)
(* that is only told its descriptor is readable is ordered after nothing.  *)
(* A wait is three steps, poll, read and acquire, and a set is two, the    *)
(* write and the release; other threads run between them.                  *)
(***************************************************************************)
EXTENDS Naturals, FiniteSets

CONSTANTS
    Setter, Waiter,   \* threads
    Manual,           \* P2PEventImpl::manual
    Signalled,        \* is the event created signalled?
    Resets,           \* is ResetEvent called?
    Rounds            \* bound on the SetEvent calls

ASSUME EventAssumption ==
    /\ Manual \in BOOLEAN /\ Signalled \in BOOLEAN /\ Resets \in BOOLEAN
    /\ Rounds \in Nat
    /\ Setter \cap Waiter = {}

VARIABLES
    fd,       \* the writes the eventfd counts, since it was last read
    gen,      \* gen, as the signals released into it: empty is zero
    sets,     \* signals so far; 0 is the one of CreateEventW
    at,       \* where each thread is in its call
    signal,   \* the signal a setter is sending
    seen,     \* the signals a waiter's poll found
    after,    \* the signals a waiter is ordered after
    answers   \* the waits that returned WAIT_OBJECT_0

eventVars == <<fd, gen, sets, at, signal, seen, after, answers>>

EventFirst == IF Signalled THEN {0} ELSE {}

\* CreateEventW.
EventInit ==
    /\ fd = EventFirst /\ gen = EventFirst
    /\ sets = 0 /\ answers = 0
    /\ at = [t \in Setter \cup Waiter |-> "idle"]
    /\ signal = [t \in Setter |-> 0]
    /\ seen = [t \in Waiter |-> {}]
    /\ after = [t \in Waiter |-> {}]

\* SetEvent: the write, then the release.  Each signal stands for all its
\* setter did before the call.
Write(t) ==
    /\ at[t] = "idle" /\ sets < Rounds
    /\ sets' = sets + 1
    /\ signal' = [signal EXCEPT ![t] = sets']
    /\ fd' = fd \cup {sets'}
    /\ at' = [at EXCEPT ![t] = "release"]
    /\ UNCHANGED <<gen, seen, after, answers>>

Release(t) ==
    /\ at[t] = "release"
    /\ gen' = gen \cup {signal[t]}
    /\ at' = [at EXCEPT ![t] = "idle"]
    /\ UNCHANGED <<fd, sets, signal, seen, after, answers>>

\* ResetEvent drains the descriptor.  A slip: it clears the generation too.
ResetGeneration(t) ==
    /\ at[t] = "idle" /\ Resets
    /\ fd' = {} /\ gen' = {}
    /\ UNCHANGED <<sets, at, signal, seen, after, answers>>

Reset(t) ==
    /\ at[t] = "idle" /\ Resets
    /\ fd' = {}
    /\ UNCHANGED <<gen, sets, at, signal, seen, after, answers>>

\* WaitForSingleObject, the readiness test of WaitForMultipleObjects.
Poll(t) ==
    /\ at[t] = "idle" /\ fd # {}
    /\ seen' = [seen EXCEPT ![t] = fd]
    /\ after' = [after EXCEPT ![t] = {}]
    /\ at' = [at EXCEPT ![t] = IF Manual THEN "acquire" ELSE "read"]
    /\ UNCHANGED <<fd, gen, sets, signal, answers>>

\* The read of an auto-reset event orders as what it read does; whether it
\* read anything is not looked at.
Read(t) ==
    /\ at[t] = "read"
    /\ after' = [after EXCEPT ![t] = @ \cup fd]
    /\ fd' = {}
    /\ at' = [at EXCEPT ![t] = "acquire"]
    /\ UNCHANGED <<gen, sets, signal, seen, answers>>

\* p2p_event_acquire spins until the generation is not zero.
\* A slip: it loads once.
AcquireAtOnce(t) ==
    /\ at[t] = "acquire"
    /\ after' = [after EXCEPT ![t] = @ \cup gen]
    /\ answers' = answers + 1
    /\ at' = [at EXCEPT ![t] = "answered"]
    /\ UNCHANGED <<fd, gen, sets, signal, seen>>

Acquire(t) ==
    /\ at[t] = "acquire" /\ gen # {}
    /\ after' = [after EXCEPT ![t] = @ \cup gen]
    /\ answers' = answers + 1
    /\ at' = [at EXCEPT ![t] = "answered"]
    /\ UNCHANGED <<fd, gen, sets, signal, seen>>

\* The caller goes on, and waits again.
Again(t) ==
    /\ at[t] = "answered" /\ answers < Rounds + 1
    /\ at' = [at EXCEPT ![t] = "idle"]
    /\ UNCHANGED <<fd, gen, sets, signal, seen, after, answers>>

EventNext ==
    \/ \E t \in Setter : Write(t) \/ Release(t) \/ Reset(t)
    \/ \E t \in Waiter : Poll(t) \/ Read(t) \/ Acquire(t) \/ Again(t)

EventSpec == EventInit /\ [][EventNext]_eventVars

-----------------------------------------------------------------------------
Signals == 0..Rounds

EventTypeOK ==
    /\ fd \subseteq Signals /\ gen \subseteq Signals /\ sets \in Signals
    /\ at \in [Setter \cup Waiter -> {"idle", "release", "read", "acquire", "answered"}]
    /\ signal \in [Setter -> Signals]
    /\ seen \in [Waiter -> SUBSET Signals] /\ after \in [Waiter -> SUBSET Signals]
    /\ answers \in Nat

(***************************************************************************)
(* No wait spins for ever: a waiter past its poll finds the generation     *)
(* moved, or the setter that will move it is on its way ("clearing it      *)
(* would let a waiter that has already polled readable spin for ever").    *)
(***************************************************************************)
SpinEnds ==
    \A t \in Waiter : at[t] \in {"read", "acquire"} =>
        gen # {} \/ \E u \in Setter : at[u] = "release"

(***************************************************************************)
(* A wait that returned is ordered after a signal there was: never after   *)
(* none at all, which is what poll alone gave.                             *)
(***************************************************************************)
AfterSome == \A t \in Waiter : at[t] = "answered" => after[t] # {}

\* All together: a wait neither hangs on a generation that was cleared nor
\* comes back before a signal did.
WaitsSound == EventTypeOK /\ SpinEnds /\ AfterSome
=============================================================================
