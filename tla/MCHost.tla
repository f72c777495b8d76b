------------------------------- MODULE MCHost -------------------------------
(***************************************************************************)
(* The components behind the C boundary, checked side by side: the handle  *)
(* table, the paging sinks, the inodes, the events of p2pthread.h, the     *)
(* diagnostics and their lives, the triggers, and Load.  None of them      *)
(* reads another's state at the grain they are modelled at, so a behaviour *)
(* runs one of them, `part', and leaves the others as they start.          *)
(***************************************************************************)
EXTENDS HandleTable, PagingSinks, InodeTable, P2PEvent,
        EventReport, EventLife, Triggers, StoreLoad

VARIABLE part

HostParts == {"handle", "paging", "inode", "event", "report", "life", "trigger", "load"}

HostInit ==
    /\ part \in HostParts
    /\ HandleInit /\ PagingInit /\ InodeInit /\ EventInit
    /\ ReportInit /\ LifeInit /\ TriggerInit /\ LoadInit
    /\ part # "report" => settled /\ \A f \in Files : reportDisk[f] = "absent"
    /\ part # "load" => loadDisk = "absent"

\* The part p takes a step, and every other component stays where it is.
Only(p) ==
    /\ part = p /\ UNCHANGED part
    /\ p # "handle" => UNCHANGED handleVars
    /\ p # "paging" => UNCHANGED pagingVars
    /\ p # "inode" => UNCHANGED inodeVars
    /\ p # "event" => UNCHANGED eventVars
    /\ p # "report" => UNCHANGED reportVars
    /\ p # "life" => UNCHANGED lifeVars
    /\ p # "trigger" => UNCHANGED triggerVars
    /\ p # "load" => UNCHANGED loadVars

HostNext ==
    \/ Only("handle") /\ HandleNext
    \/ Only("paging") /\ PagingNext
    \/ Only("inode") /\ InodeNext
    \/ Only("event") /\ EventNext
    \/ Only("report") /\ ReportNext
    \/ Only("life") /\ LifeNext
    \/ Only("trigger") /\ TriggerNext
    \/ Only("load") /\ LoadNext

hostVars == <<part, handleVars, pagingVars, inodeVars, eventVars,
              reportVars, lifeVars, triggerVars, loadVars>>

HostSpec == HostInit /\ [][HostNext]_hostVars
=============================================================================
