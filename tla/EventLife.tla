----------------------------- MODULE EventLife -----------------------------
(***************************************************************************)
(* The life of a P2Pevent on one thread (src/Msgexception.cpp).  An event   *)
(* is made, carried along a chain of calls, and then parked in the thread's *)
(* slot, thrown, or cancelled.  It is freed by hand in four places: Cancel, *)
(* the park that displaces it, the owner that took it out of the slot, and  *)
(* the reaper that runs when the thread ends.  A thrown event is both in    *)
(* flight and in the slot.                                                  *)
(*                                                                         *)
(* frames is the thread's call stack, top first: each frame holds the event *)
(* its code has a pointer to.  Code that runs inside Cancel (a notification *)
(* sink) and inside an unwinding (a destructor) makes events of its own;    *)
(* what such inner code may do with them is the parameter Inner.            *)
(***************************************************************************)
EXTENDS Naturals, Sequences, NoValue

CONSTANTS
    Events,      \* the events a thread can have at once
    Inner,       \* what sinks and destructors do with an event: subset of
                 \* {"cancel", "park"}
    LifeMaxDepth,    \* bound: frames
    MaxMade      \* bound: how often one event is made (its memory is reused)

ASSUME LifeAssumption ==
    /\ None \notin Events /\ Inner \subseteq {"cancel", "park"}
    /\ {LifeMaxDepth, MaxMade} \subseteq Nat

VARIABLES
    made,        \* per event: how often it has been made
    lifeFreed,       \* per event: how often it has been deleted
    slot,        \* tls_pMsgexception
    armed,       \* the thread's reaper has been registered
    kept,        \* events an owner took out of the slot (Isolate)
    lifeFrames,      \* the call stack
    ended        \* the thread is over

lifeVars == <<made, lifeFreed, slot, armed, kept, lifeFrames, ended>>

\* Where a frame stands: the maker's chain, an exception in flight, a handler,
\* a Cancel whose sink runs.
Places == {"made", "flight", "handler", "cancel"}

LifeTypeOK ==
    /\ made \in [Events -> 0 .. MaxMade] /\ lifeFreed \in [Events -> Nat]
    /\ slot \in Events \cup {None} /\ armed \in BOOLEAN /\ ended \in BOOLEAN
    /\ kept \subseteq Events /\ Len(lifeFrames) <= LifeMaxDepth
    /\ \A i \in DOMAIN lifeFrames : lifeFrames[i].at \in Places /\ lifeFrames[i].event \in Events

LifeInit ==
    /\ made = [e \in Events |-> 0] /\ lifeFreed = [e \in Events |-> 0]
    /\ slot = None /\ armed = FALSE /\ kept = {} /\ lifeFrames = << >>
    /\ ended = FALSE

Live(e) == made[e] > lifeFreed[e]
LifeHeld == {lifeFrames[i].event : i \in DOMAIN lifeFrames}
LifeTop == Head(lifeFrames)
On(place) == lifeFrames # << >> /\ LifeTop.at = place
LifePop == Tail(lifeFrames)
LifePush(place, e) == <<[at |-> place, event |-> e]>> \o lifeFrames
Become(place, e) == <<[at |-> place, event |-> e]>> \o LifePop

\* Inner code: it runs above a Cancel or above an exception in flight.
Within == \E i \in DOMAIN lifeFrames : i > 1 /\ lifeFrames[i].at \in {"cancel", "flight"}
MayPark == Within => "park" \in Inner

-----------------------------------------------------------------------------
(* The slot *)

\* Mutant: the destructor leaves the slot alone.
IsolatedNot(at) == at

\* ~P2Pevent: an event that is the thread's last takes itself out of the slot.
Isolated(e) == IF slot = e THEN None ELSE slot

\* Mutant: an event parked twice displaces itself.
DisplacedAlways(e) == slot

\* SetP2Pevent: the event the slot gives up, None when it is the same event.
Displaced(e) == IF slot = e THEN None ELSE slot

LifeDelete(es) == lifeFreed' = [e \in Events |-> IF e \in es THEN lifeFreed[e] + 1 ELSE lifeFreed[e]]

\* SetP2Pevent: delete what is displaced, arm the reaper, fill the slot.
SetP2Pevent(e) ==
    /\ LifeDelete({Displaced(e)} \ {None}) /\ slot' = e
    /\ armed' = (armed \/ slot # e)

-----------------------------------------------------------------------------
(* The actions *)

\* MakeEvent, in code of the thread's own, in a sink or in a destructor; what
\* it has of a half-made event on a failure is deleted there and then.
MakeEvent ==
    /\ ~ended /\ Len(lifeFrames) < LifeMaxDepth
    /\ lifeFrames # << >> => LifeTop.at \in {"cancel", "flight"} /\ Inner # {}
    /\ \E e \in Events :
          /\ ~Live(e) /\ made[e] < MaxMade /\ e \notin LifeHeld
          /\ made' = [made EXCEPT ![e] = @ + 1]
          /\ \/ lifeFrames' = LifePush("made", e) /\ UNCHANGED lifeFreed
             \/ LifeDelete({e}) /\ UNCHANGED lifeFrames
    /\ UNCHANGED <<slot, armed, kept, ended>>

\* ... ->SetLast(): park the event and go on.
SetLast ==
    /\ On("made") \/ On("handler")
    /\ MayPark
    /\ SetP2Pevent(LifeTop.event) /\ lifeFrames' = LifePop
    /\ UNCHANGED <<made, kept, ended>>

\* ... ->Throw(): the event becomes the thread's last and goes into flight.
Throw ==
    /\ On("made") /\ MayPark
    /\ SetP2Pevent(LifeTop.event) /\ lifeFrames' = Become("flight", LifeTop.event)
    /\ UNCHANGED <<made, kept, ended>>

\* A handler: of the library's own macros, or the catch-all of the C boundary,
\* which returns without a look at the event.
Catch ==
    /\ On("flight")
    /\ \/ lifeFrames' = Become("handler", LifeTop.event)
       \/ lifeFrames' = LifePop
    /\ UNCHANGED <<made, lifeFreed, slot, armed, kept, ended>>

\* ThrowP2Pevent: throws the thread's last event, if there is one.
ThrowP2Pevent ==
    /\ ~ended /\ lifeFrames = << >> /\ slot # None
    /\ lifeFrames' = LifePush("flight", slot)
    /\ UNCHANGED <<made, lifeFreed, slot, armed, kept, ended>>

\* Cancel: display and notify (the sinks run), then delete the event.
Cancel ==
    /\ On("made") \/ On("handler")
    /\ lifeFrames' = Become("cancel", LifeTop.event)
    /\ UNCHANGED <<made, lifeFreed, slot, armed, kept, ended>>

DeleteThis ==
    /\ On("cancel")
    /\ LifeDelete({LifeTop.event}) /\ slot' = Isolated(LifeTop.event) /\ lifeFrames' = LifePop
    /\ UNCHANGED <<made, armed, kept, ended>>

\* IsolateP2Pevent: the slot is emptied, and its event is the caller's.
IsolateP2Pevent == kept' = kept \cup {slot} /\ slot' = None

\* GetP2Pevent()->Isolate(): the caller takes the event over.
Isolate ==
    /\ ~ended /\ lifeFrames = << >> /\ slot # None
    /\ IsolateP2Pevent
    /\ UNCHANGED <<made, lifeFreed, armed, lifeFrames, ended>>

\* The owner cancels what it took.
CancelKept ==
    /\ lifeFrames = << >>
    /\ \E e \in kept :
          kept' = kept \ {e} /\ lifeFrames' = LifePush("cancel", e)
    /\ UNCHANGED <<made, lifeFreed, slot, armed, ended>>

\* SetP2Pevent(0): what a caller clears the slot with.
ClearLast ==
    /\ ~ended /\ lifeFrames = << >> /\ slot # None
    /\ LifeDelete({slot}) /\ slot' = None
    /\ UNCHANGED <<made, armed, kept, lifeFrames, ended>>

\* Mutant: the reaper is not run.
ThreadEndsUnreaped ==
    /\ ~ended /\ lifeFrames = << >> /\ ended' = TRUE
    /\ slot' = None
    /\ UNCHANGED <<made, lifeFreed, armed, kept, lifeFrames>>

\* The thread ends: the reaper empties the slot and deletes what was in it.
ThreadEnds ==
    /\ ~ended /\ lifeFrames = << >> /\ ended' = TRUE
    /\ IF armed THEN slot' = None /\ LifeDelete({slot} \ {None})
                ELSE UNCHANGED <<slot, lifeFreed>>
    /\ UNCHANGED <<made, armed, kept, lifeFrames>>

Over == ended /\ kept = {} /\ lifeFrames = << >> /\ UNCHANGED lifeVars

LifeNext ==
    \/ MakeEvent \/ SetLast \/ Throw \/ Catch \/ ThrowP2Pevent \/ Cancel
    \/ DeleteThis \/ Isolate \/ CancelKept \/ ClearLast \/ ThreadEnds \/ Over

LifeSpec == LifeInit /\ [][LifeNext]_lifeVars

-----------------------------------------------------------------------------
(* Properties *)

\* No event is deleted that is not there: Cancel, the park that displaces and
\* the reaper never meet on one event.
FreedOnce == \A e \in Events : lifeFreed[e] <= made[e]

\* What somebody still has a pointer to is there: the event of every frame (a
\* maker's chain, an exception in flight, a handler, a Cancel whose sink runs),
\* the slot, and what an owner took.
NoneDangles ==
    \A e \in LifeHeld \cup kept \cup ({slot} \ {None}) : Live(e)

\* Nothing is left behind: once the thread is over, an event that is alive is
\* one an owner took.
NothingLeft == ended /\ lifeFrames = << >> => \A e \in Events : Live(e) => e \in kept

\* All together: an event is deleted once, by whom it belongs to, and not
\* before the last who can reach it has let go.
LivesSound == LifeTypeOK /\ FreedOnce /\ NoneDangles /\ NothingLeft
=============================================================================
