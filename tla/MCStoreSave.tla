---------------------------- MODULE MCStoreSave ----------------------------
(* StoreSave with a few savers. *)
EXTENDS StoreSave, SequencesExt

\* Two savers, 1 and 2.  Threads of one process have ids of their own; each
\* process counts its threads from 1, so its first threads share an id.
ProcessEach == [p \in Saver |-> p]
ThreadIds == [p \in Saver |-> p]
FirstThreads == [p \in Saver |-> 1]

\* What a state tells apart.  The locals of a Save that is over, and the content
\* of a file that no loader, writer or store path leads to, are never read: a
\* temporary file left behind is truncated when it is opened.  Nor are the names
\* of inodes: a descriptor or a path stands for the first that leads where it does.
Read(i) ==
  \/ i \in {storeAt, dirAt}
  \/ \E l \in Loader : loadFd[l] = i
  \/ \E p \in Saver : tempFd[p] = i \/ (pc[p] = "rename" /\ tempAt[Tid[p]] = i)
Refs == <<storeAt, dirAt, lockAt>> \o tempAt \o loadFd \o lockFd \o tempFd
View ==
  <<[k \in DOMAIN Refs |->
       LET i == Refs[k] IN
         <<IF i = None THEN 0 ELSE SelectInSeq(Refs, LAMBDA r : r = i),
           IF i # None /\ Read(i) THEN <<data[i], synced[i]>> ELSE <<>> >>],
    pc,
    [p \in Saver |-> CASE pc[p] = "idle" -> <<>>
                       [] pc[p] \in {"lock", "flock"} -> <<image[p], tries[p]>>
                       [] pc[p] \in {"discard", "unlock", "closeLock"} -> <<outcome[p]>>
                       [] OTHER -> <<image[p], wrote[p]>>]>>

Images == Permutations(Image)
=============================================================================
