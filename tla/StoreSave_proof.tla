-------------------------- MODULE StoreSave_proof --------------------------
(***************************************************************************)
(* Proofs about StoreSave, for any savers, loaders, images, parts and      *)
(* inodes.  TypeCorrect assumes nothing more.  The store is whole, and     *)
(* every Load reads a whole image, when no two savers share a thread id and*)
(* fsync(2) does not fail.  Without the first a Save may rename what       *)
(* another is writing (the run store_processes); without the second, data  *)
(* may be lost under its new name.  The lock file plays no part.           *)
(***************************************************************************)
EXTENDS StoreSave, TLAPS

UniqueIds == \A p, q \in Saver : Tid[p] = Tid[q] => p = q

\* The inodes that must never be written: a path or a loader can reach them.
Published == {storeAt, dirAt} \cup {loadFd[l] : l \in Loader}

PublishedWhole ==
  \A i \in Inode : i \in Published => IsWhole(data[i]) /\ synced[i] = data[i]

\* A temporary name leads to an inode that nothing else leads to.
TempsPrivate ==
  /\ \A t \in TempName : tempAt[t] # None => tempAt[t] \notin Published
  /\ \A t, u \in TempName : tempAt[t] = tempAt[u] /\ tempAt[t] # None => t = u

\* A Save has written nothing before it opens its file, and stops in time.
Counted(p) ==
  /\ pc[p] \in {"lock", "flock", "temp", "tempFlock"} => wrote[p] = 0
  /\ pc[p] = "write" => wrote[p] < Parts

\* What a Save will return is settled when it leaves its file, and only then.
Settled(p) ==
  /\ pc[p] \in {"lock", "flock", "temp", "tempFlock", "write", "flush", "close", "rename"} =>
       outcome[p] = "none"
  /\ pc[p] \in {"discard", "unlock", "closeLock"} => outcome[p] \in {"saved", "failed"}

\* How much of its image a Save has put in its temporary file, and on the disk.
Written(p) ==
  /\ pc[p] \in {"tempFlock", "write", "flush", "close"} =>
       tempFd[p] # None /\ tempFd[p] = tempAt[Tid[p]]
  /\ pc[p] = "write" => \A k \in 1 .. wrote[p] : data[tempFd[p]][k] = image[p]
  /\ pc[p] \in {"flush", "close"} => data[tempFd[p]] = Whole(image[p])
  /\ pc[p] = "close" => synced[tempFd[p]] = Whole(image[p])
  /\ pc[p] = "rename" => /\ tempAt[Tid[p]] # None
                         /\ data[tempAt[Tid[p]]] = Whole(image[p])
                         /\ synced[tempAt[Tid[p]]] = Whole(image[p])

TInv == TypeOK /\ \A p \in Saver : Counted(p) /\ Settled(p)
WInv == TInv /\ PublishedWhole /\ TempsPrivate /\ \A p \in Saver : Written(p)
-----------------------------------------------------------------------------
\* The name of a saver's temporary file is one of the names.
LEMMA TempNameOf == \A p \in Saver : Tid[p] \in TempName
  BY DEF TempName

\* Every variable keeps its type, whatever the savers share.
LEMMA TypeInit == Init => TInv
  BY StoreAssumption DEF Init, TInv, TypeOK, Counted, Settled, Content, Empty

LEMMA TypeStep == TInv /\ [Next]_vars => TInv'
<1> SUFFICES ASSUME TInv, [Next]_vars PROVE TInv'
  OBVIOUS
<1> USE StoreAssumption, TempNameOf
<1> Empty \in Content
  BY DEF Empty, Content
<1>1. ASSUME NEW p \in Saver, SaveCall(p) PROVE TInv'
  BY <1>1 DEF SaveCall, TypeOK, TInv, Counted, Settled, Goto, paths, files
<1>2. ASSUME NEW p \in Saver, LockOpen(p) PROVE TInv'
  BY <1>2 DEF LockOpen, TypeOK, TInv, Counted, Settled, Goto, files
<1>3. ASSUME NEW p \in Saver, LockFails(p) PROVE TInv'
  BY <1>3 DEF LockFails, TypeOK, TInv, Counted, Settled, Goto, paths, files
<1>4. ASSUME NEW p \in Saver, Flock(p) PROVE TInv'
  BY <1>4 DEF Flock, TypeOK, TInv, Counted, Settled, Goto, paths, files
<1>5. ASSUME NEW p \in Saver, LockBusy(p) PROVE TInv'
  <2>1. TypeOK'
    <3>1. tries[p] \in 0 .. MaxTries /\ MaxTries \in Nat
      BY DEF TypeOK, TInv
    <3>2. (IF tries[p] < MaxTries THEN tries[p] + 1 ELSE tries[p]) \in 0 .. MaxTries
      BY <3>1
    <3>3. tries' \in [Saver -> 0 .. MaxTries]
      BY <1>5, <3>2 DEF LockBusy, TypeOK, TInv
    <3> QED
      BY <1>5, <3>3 DEF LockBusy, TypeOK, TInv, Goto, paths, files
  <2>2. \A q \in Saver : Counted(q)' /\ Settled(q)'
    BY <1>5 DEF LockBusy, TypeOK, TInv, Counted, Settled, Goto
  <2> QED
    BY <2>1, <2>2 DEF TInv
<1>6. ASSUME NEW p \in Saver, TempOpen(p) PROVE TInv'
  BY <1>6 DEF TempOpen, TypeOK, TInv, Counted, Settled, Goto
<1>7. ASSUME NEW p \in Saver, Abandon(p) PROVE TInv'
  BY <1>7 DEF Abandon, TypeOK, TInv, Counted, Settled, Goto, paths, files
<1>8. ASSUME NEW p \in Saver, Discard(p) PROVE TInv'
  BY <1>8 DEF Discard, WithoutTemp, TypeOK, TInv, Counted, Settled, Goto, files
<1>9. ASSUME NEW p \in Saver, TempFlock(p) PROVE TInv'
  BY <1>9 DEF TempFlock, TypeOK, TInv, Counted, Settled, Goto, paths, files
<1>10. ASSUME NEW p \in Saver, Write(p) PROVE TInv'
  <2>1. wrote[p] \in 0 .. Parts /\ wrote[p] + 1 \in 1 .. Parts
    BY <1>10 DEF Write, TypeOK, TInv, Counted, Settled
  <2>2. data' \in [Inode -> Content]
    <3> DEFINE c == [data[tempFd[p]] EXCEPT ![wrote[p] + 1] = image[p]]
    <3>1. tempFd[p] \in Inode => c \in Content
      BY <2>1 DEF TInv, TypeOK, Content
    <3>2. data' = [data EXCEPT ![tempFd[p]] = c]
      BY <1>10 DEF Write
    <3> HIDE DEF c
    <3> QED
      BY <3>1, <3>2 DEF TInv, TypeOK
  <2>3. TypeOK'
    <3>1. wrote' \in [Saver -> 0 .. Parts]
      BY <1>10, <2>1 DEF Write, TypeOK, TInv
    <3>2. \E there \in {"flush", "write"} : pc' = [pc EXCEPT ![p] = there]
      BY <1>10 DEF Write, Goto
    <3>3. UNCHANGED <<paths, synced, image, tries, lockFd, tempFd, outcome, loadFd>>
      BY <1>10 DEF Write
    <3> QED
      BY <2>2, <3>1, <3>2, <3>3 DEF TypeOK, TInv, paths
  <2>4. \A q \in Saver : Counted(q)' /\ Settled(q)'
    BY <1>10, <2>1 DEF Write, LastPart, TypeOK, TInv, Counted, Settled, Goto
  <2> QED
    BY <2>3, <2>4 DEF TInv
<1>11. ASSUME NEW p \in Saver, Flush(p) PROVE TInv'
  <2>1. synced' \in [Inode -> Content]
    <3>1. synced \in [Inode -> Content] /\ data \in [Inode -> Content]
      BY DEF TypeOK, TInv
    <3>2. \/ synced' = synced
          \/ synced' = [synced EXCEPT ![tempFd[p]] = data[tempFd[p]]]
      BY <1>11 DEF Flush, Flushed
    <3> QED
      BY <3>1, <3>2
  <2>2. TypeOK'
    BY <1>11, <2>1 DEF Flush, TypeOK, TInv, Goto, paths
  <2>3. \A q \in Saver : Counted(q)' /\ Settled(q)'
    BY <1>11 DEF Flush, TypeOK, TInv, Counted, Settled, Goto
  <2> QED
    BY <2>2, <2>3 DEF TInv
<1>12. ASSUME NEW p \in Saver, CloseTemp(p) PROVE TInv'
  <2>1. TypeOK'
    BY <1>12 DEF CloseTemp, TypeOK, TInv, Goto, paths, files
  <2>2. \A q \in Saver : Counted(q)' /\ Settled(q)'
    BY <1>12 DEF CloseTemp, TypeOK, TInv, Counted, Settled, Goto
  <2> QED
    BY <2>1, <2>2 DEF TInv
<1>13. ASSUME NEW p \in Saver, Rename(p) PROVE TInv'
  BY <1>13 DEF Rename, WithoutTemp, TypeOK, TInv, Counted, Settled, Goto, files
<1>14. ASSUME NEW p \in Saver, Unlock(p) PROVE TInv'
  BY <1>14 DEF Unlock, TypeOK, TInv, Counted, Settled, Goto, files
<1>15. ASSUME NEW p \in Saver, CloseLock(p) PROVE TInv'
  BY <1>15 DEF CloseLock, TypeOK, TInv, Counted, Settled, Goto, paths, files
<1>16. ASSUME NEW l \in Loader, LoadOpen(l) \/ LoadClose(l) PROVE TInv'
  <2>1. loadFd' \in [Loader -> Inode \cup {None}]
    <3>1. loadFd \in [Loader -> Inode \cup {None}] /\ storeAt \in Inode \cup {None}
      BY DEF TypeOK, TInv
    <3>2. \E i \in Inode \cup {None} : loadFd' = [loadFd EXCEPT ![l] = i]
      BY <1>16, <3>1 DEF LoadOpen, LoadClose
    <3> QED
      BY <3>1, <3>2
  <2>2. UNCHANGED <<paths, files, calls>>
    BY <1>16 DEF LoadOpen, LoadClose
  <2> QED
    BY <2>1, <2>2 DEF TypeOK, TInv, Counted, Settled, paths, files, calls
<1>17. ASSUME NEW h \in Process, Crash(h) PROVE TInv'
  BY <1>17 DEF Crash, TypeOK, TInv, Counted, Settled, paths, files
<1>18. ASSUME DirSync PROVE TInv'
  BY <1>18 DEF DirSync, TypeOK, TInv, Counted, Settled, files, calls
<1>19. ASSUME PowerLoss PROVE TInv'
  BY <1>19 DEF PowerLoss, TypeOK, TInv, Counted, Settled
<1>20. ASSUME UNCHANGED vars PROVE TInv'
  BY <1>20 DEF vars, paths, files, calls, TypeOK, TInv, Counted, Settled
<1> QED
  BY <1>1, <1>2, <1>3, <1>4, <1>5, <1>6, <1>7, <1>8, <1>9, <1>10, <1>11, <1>12,
     <1>13, <1>14, <1>15, <1>16, <1>17, <1>18, <1>19, <1>20
     DEF Next, Step, TempFails, TempBusy, WriteFails, RenameFails
-----------------------------------------------------------------------------
LEMMA WholeInit == Init => WInv
<1> SUFFICES ASSUME Init PROVE WInv
  OBVIOUS
<1>1. TInv
  BY TypeInit
<1>2. PublishedWhole
  BY StoreAssumption DEF Init, PublishedWhole, Published
<1>3. TempsPrivate
  BY DEF Init, TempsPrivate
<1>4. \A p \in Saver : Written(p)
  BY DEF Init, Written
<1> QED
  BY <1>1, <1>2, <1>3, <1>4 DEF WInv

\* A step that changes no path, no file and no loader keeps what is said of them.
LEMMA SameFiles ==
  ASSUME WInv, UNCHANGED <<storeAt, dirAt, tempAt, data, synced, loadFd>>
  PROVE  PublishedWhole' /\ TempsPrivate'
  BY DEF WInv, PublishedWhole, TempsPrivate, Published

\* A Save that does not move keeps what it has written, as long as its name and
\* the file it leads to stay.
LEMMA SameCall ==
  ASSUME NEW q \in Saver, Written(q),
         pc'[q] = pc[q], image'[q] = image[q], tempFd'[q] = tempFd[q], wrote'[q] = wrote[q],
         pc[q] \in {"tempFlock", "write", "flush", "close", "rename"} =>
           /\ tempAt'[Tid[q]] = tempAt[Tid[q]]
           /\ data'[tempAt[Tid[q]]] = data[tempAt[Tid[q]]]
           /\ synced'[tempAt[Tid[q]]] = synced[tempAt[Tid[q]]]
  PROVE  Written(q)'
  BY DEF Written

\* The steps of a Save that touch no file: the lock, the decisions, the ends.
LEMMA QuietStep ==
  ASSUME NEW p \in Saver, WInv,
         \/ SaveCall(p) \/ LockOpen(p) \/ LockFails(p) \/ Flock(p) \/ LockBusy(p)
         \/ Abandon(p) \/ TempFlock(p) \/ CloseTemp(p) \/ Unlock(p) \/ CloseLock(p)
  PROVE  PublishedWhole' /\ TempsPrivate' /\ \A q \in Saver : Written(q)'
<1>1. UNCHANGED <<storeAt, dirAt, tempAt, data, synced, loadFd>>
  BY DEF SaveCall, LockOpen, LockFails, Flock, LockBusy, Abandon, TempFlock, CloseTemp,
         Unlock, CloseLock, paths, files
<1>2. ASSUME NEW q \in Saver, q # p PROVE Written(q)'
  <2>1. /\ pc'[q] = pc[q] /\ image'[q] = image[q]
        /\ tempFd'[q] = tempFd[q] /\ wrote'[q] = wrote[q]
    BY <1>2 DEF SaveCall, LockOpen, LockFails, Flock, LockBusy, Abandon, TempFlock,
                CloseTemp, Unlock, CloseLock, Goto, WInv, TInv, TypeOK
  <2> QED
    BY <1>1, <2>1, SameCall DEF WInv
<1>3. Written(p)'
  <2>1. CASE SaveCall(p) \/ LockOpen(p) \/ LockFails(p) \/ Flock(p) \/ LockBusy(p)
              \/ Abandon(p) \/ Unlock(p) \/ CloseLock(p)
    <3>1. pc'[p] \in {"idle", "lock", "flock", "temp", "discard", "closeLock"}
      BY <2>1 DEF SaveCall, LockOpen, LockFails, Flock, LockBusy, Abandon, Unlock,
                  CloseLock, Goto, WInv, TInv, TypeOK
    <3> QED
      BY <3>1 DEF Written
  <2>2. CASE TempFlock(p)
    <3>1. /\ pc[p] = "tempFlock" /\ pc'[p] = "write" /\ wrote[p] = 0
          /\ UNCHANGED <<tempFd, tempAt, wrote>>
      BY <2>2 DEF TempFlock, Goto, WInv, TInv, TypeOK, Counted, paths
    <3> QED
      BY <3>1 DEF WInv, Written
  <2>3. CASE CloseTemp(p)
    <3>1. /\ pc[p] = "close" /\ pc'[p] = "rename"
          /\ UNCHANGED <<tempAt, data, synced, image>>
      BY <2>3 DEF CloseTemp, Goto, WInv, TInv, TypeOK, paths, files
    <3> QED
      BY <3>1 DEF WInv, Written
  <2> QED
    BY <2>1, <2>2, <2>3
<1> QED
  BY <1>1, <1>2, <1>3, SameFiles

\* Savers with ids of their own have files of their own.
LEMMA OthersFile ==
  ASSUME WInv, UniqueIds, NEW p \in Saver, NEW q \in Saver, q # p,
         pc[q] \in {"tempFlock", "write", "flush", "close", "rename"}
  PROVE  /\ Tid[q] # Tid[p] /\ tempAt[Tid[q]] # None
         /\ tempAt[Tid[q]] # tempAt[Tid[p]]
  BY TempNameOf DEF WInv, UniqueIds, Written, TempsPrivate

LEMMA TempOpenStep ==
  ASSUME NEW p \in Saver, WInv, UniqueIds, TempOpen(p)
  PROVE  PublishedWhole' /\ TempsPrivate' /\ \A q \in Saver : Written(q)'
<1>1. PICK i \in Inode : /\ Opened(tempAt[Tid[p]], i)
                         /\ tempAt' = [tempAt EXCEPT ![Tid[p]] = i]
                         /\ tempFd' = [tempFd EXCEPT ![p] = i]
                         /\ data' = [data EXCEPT ![i] = Empty]
                         /\ synced' = IF tempAt[Tid[p]] = None
                                        THEN [synced EXCEPT ![i] = Empty] ELSE synced
  BY DEF TempOpen
<1>2. /\ pc[p] = "temp" /\ pc' = [pc EXCEPT ![p] = "tempFlock"]
      /\ UNCHANGED <<storeAt, dirAt, loadFd, image, wrote>>
  BY DEF TempOpen, Goto
<1>3. i # None /\ Tid[p] \in TempName /\ i \notin Published
  BY <1>1, TempNameOf, StoreAssumption DEF Opened, InUse, Published, WInv, TempsPrivate
<1>4. \A t \in TempName : t # Tid[p] => tempAt[t] # i
  <2>1. CASE tempAt[Tid[p]] = None
    BY <1>1, <2>1 DEF Opened, InUse
  <2>2. CASE tempAt[Tid[p]] # None
    BY <1>1, <1>3, <2>2 DEF Opened, WInv, TempsPrivate
  <2> QED
    BY <2>1, <2>2
<1>5. Published' = Published
  BY <1>2 DEF Published
<1>6. PublishedWhole'
  BY <1>1, <1>3, <1>5 DEF PublishedWhole, WInv, TInv, TypeOK
<1>7. TempsPrivate'
  <2>1. \A t \in TempName : tempAt'[t] = IF t = Tid[p] THEN i ELSE tempAt[t]
    BY <1>1, <1>3 DEF WInv, TInv, TypeOK
  <2> QED
    BY <1>3, <1>4, <1>5, <2>1 DEF TempsPrivate, WInv
<1>8. ASSUME NEW q \in Saver, q # p PROVE Written(q)'
  <2>1. /\ pc'[q] = pc[q] /\ image'[q] = image[q]
        /\ tempFd'[q] = tempFd[q] /\ wrote'[q] = wrote[q]
    BY <1>1, <1>2, <1>8 DEF WInv, TInv, TypeOK
  <2>2. ASSUME pc[q] \in {"tempFlock", "write", "flush", "close", "rename"}
        PROVE  /\ tempAt'[Tid[q]] = tempAt[Tid[q]]
               /\ data'[tempAt[Tid[q]]] = data[tempAt[Tid[q]]]
               /\ synced'[tempAt[Tid[q]]] = synced[tempAt[Tid[q]]]
    <3>1. Tid[q] # Tid[p] /\ tempAt[Tid[q]] # None /\ Tid[q] \in TempName
      BY <1>8, <2>2, OthersFile, TempNameOf
    <3>2. tempAt[Tid[q]] # i /\ tempAt[Tid[q]] \in Inode
      BY <1>4, <3>1 DEF WInv, TInv, TypeOK
    <3> QED
      BY <1>1, <3>1, <3>2 DEF WInv, TInv, TypeOK
  <2> QED
    BY <2>1, <2>2, SameCall DEF WInv
<1>9. Written(p)'
  <2>1. pc'[p] = "tempFlock" /\ tempFd'[p] = i /\ tempAt'[Tid[p]] = i
    BY <1>1, <1>2, <1>3 DEF WInv, TInv, TypeOK
  <2> QED
    BY <1>3, <2>1 DEF Written
<1> QED
  BY <1>6, <1>7, <1>8, <1>9

\* Writing and flushing reach p's own file only.
LEMMA FileStep ==
  ASSUME NEW p \in Saver, WInv, UniqueIds, Write(p) \/ (Flush(p) /\ ~FlushMayFail)
  PROVE  PublishedWhole' /\ TempsPrivate' /\ \A q \in Saver : Written(q)'
<1> DEFINE f == tempFd[p]
<1>1. /\ pc[p] \in {"write", "flush"}
      /\ UNCHANGED <<storeAt, dirAt, loadFd, tempAt, image, tempFd>>
  BY DEF Write, Flush, paths
<1>2. f \in Inode /\ f = tempAt[Tid[p]] /\ f \notin Published
  BY <1>1, TempNameOf DEF WInv, Written, TempsPrivate, TInv, TypeOK
<1>3. \A i \in Inode \ {f} : data'[i] = data[i] /\ synced'[i] = synced[i]
  BY DEF Write, Flush, Flushed, WInv, TInv, TypeOK
<1>4. Published' = Published
  BY <1>1 DEF Published
<1>5. PublishedWhole'
  BY <1>2, <1>3, <1>4 DEF PublishedWhole, WInv
<1>6. TempsPrivate'
  BY <1>1, <1>4 DEF TempsPrivate, WInv
<1>7. ASSUME NEW q \in Saver, q # p PROVE Written(q)'
  <2>1. /\ pc'[q] = pc[q] /\ image'[q] = image[q]
        /\ tempFd'[q] = tempFd[q] /\ wrote'[q] = wrote[q]
    BY <1>7 DEF Write, Flush, Goto, WInv, TInv, TypeOK
  <2>2. ASSUME pc[q] \in {"tempFlock", "write", "flush", "close", "rename"}
        PROVE  tempAt[Tid[q]] \in Inode \ {f}
    BY <1>2, <1>7, <2>2, OthersFile, TempNameOf DEF WInv, TInv, TypeOK
  <2> QED
    BY <1>1, <1>3, <2>1, <2>2, SameCall DEF WInv
<1>8. Written(p)'
  <2>1. CASE Write(p)
    <3>1. /\ wrote[p] \in 0 .. Parts /\ wrote[p] < Parts /\ wrote'[p] = wrote[p] + 1
          /\ pc'[p] = IF wrote[p] + 1 = Parts THEN "flush" ELSE "write"
      BY <2>1 DEF Write, LastPart, Goto, WInv, TInv, TypeOK, Counted
    <3>2. data[f] \in Content /\ data'[f] = [data[f] EXCEPT ![wrote[p] + 1] = image[p]]
      BY <1>2, <2>1 DEF Write, WInv, TInv, TypeOK
    <3>3. \A k \in 1 .. wrote[p] : data[f][k] = image[p]
      BY <2>1 DEF Write, WInv, Written
    <3>4. data'[f] \in Content /\ \A k \in 1 .. wrote[p] + 1 : data'[f][k] = image[p]
      <4>1. image[p] \in Image
        BY DEF WInv, TInv, TypeOK
      <4> DEFINE c == data[f]
                 d == [c EXCEPT ![wrote[p] + 1] = image[p]]
      <4>2. c \in Content /\ \A k \in 1 .. wrote[p] : c[k] = image[p]
        BY <3>2, <3>3
      <4> HIDE DEF c
      <4>3. d \in Content
        BY <4>1, <4>2 DEF Content
      <4>4. wrote[p] + 1 \in 1 .. Parts
        BY <3>1, StoreAssumption
      <4>5. \A k \in 1 .. Parts : d[k] = IF k = wrote[p] + 1 THEN image[p] ELSE c[k]
        BY <4>2 DEF Content
      <4>6. \A k \in 1 .. wrote[p] + 1 :
               k \in 1 .. Parts /\ (k = wrote[p] + 1 \/ k \in 1 .. wrote[p])
        BY <3>1, <4>4, StoreAssumption
      <4>7. \A k \in 1 .. wrote[p] + 1 : d[k] = image[p]
        BY <4>2, <4>5, <4>6
      <4> QED
        BY <3>2, <4>3, <4>7 DEF c
    <3>5. wrote[p] + 1 = Parts => data'[f] = Whole(image[p])
      BY <3>4 DEF Content, Whole
    <3>6. f # None /\ f = tempAt[Tid[p]]
      BY <1>2, StoreAssumption
    <3> QED
      BY <1>1, <3>1, <3>4, <3>5, <3>6 DEF Written
  <2>2. CASE Flush(p) /\ ~FlushMayFail
    <3>1. pc[p] = "flush" /\ pc'[p] = "close" /\ data' = data /\ synced'[f] = data[f]
      BY <1>2, <2>2 DEF Flush, Flushed, Goto, WInv, TInv, TypeOK
    <3> QED
      BY <1>1, <3>1 DEF WInv, Written
  <2> QED
    BY <2>1, <2>2
<1> QED
  BY <1>5, <1>6, <1>7, <1>8

\* Dropping p's name, or moving what it leads to into the store's place.
LEMMA NameStep ==
  ASSUME NEW p \in Saver, WInv, UniqueIds, Discard(p) \/ Rename(p)
  PROVE  PublishedWhole' /\ TempsPrivate' /\ \A q \in Saver : Written(q)'
<1> DEFINE f == tempAt[Tid[p]]
<1>1. /\ pc' = [pc EXCEPT ![p] = "unlock"]
      /\ tempAt' = [tempAt EXCEPT ![Tid[p]] = None]
      /\ UNCHANGED <<dirAt, loadFd, data, synced, image, tempFd, wrote>>
      /\ storeAt' = storeAt \/ (pc[p] = "rename" /\ f # None /\ storeAt' = f)
  BY DEF Discard, Rename, WithoutTemp, Goto, files
<1>2. Tid[p] \in TempName /\ \A t \in TempName :
        tempAt'[t] = IF t = Tid[p] THEN None ELSE tempAt[t]
  BY <1>1, TempNameOf DEF WInv, TInv, TypeOK
<1>3. PublishedWhole'
  <2>1. ASSUME NEW i \in Inode, i \in Published', i \notin Published
        PROVE  pc[p] = "rename" /\ i = f
    BY <1>1, <2>1 DEF Published
  <2>2. pc[p] = "rename" => /\ data[f] = Whole(image[p]) /\ synced[f] = Whole(image[p])
                            /\ image[p] \in Image
    BY DEF WInv, Written, TInv, TypeOK
  <2>3. UNCHANGED <<data, synced>>
    BY <1>1
  <2> QED
    BY <2>1, <2>2, <2>3 DEF PublishedWhole, WInv, IsWhole
<1>4. TempsPrivate'
  <2>1. ASSUME NEW t \in TempName, tempAt'[t] # None PROVE tempAt'[t] \notin Published'
    <3>1. t # Tid[p] /\ tempAt'[t] = tempAt[t] /\ tempAt[t] \notin Published /\ tempAt[t] # f
      BY <1>2, <2>1 DEF WInv, TempsPrivate
    <3> QED
      BY <1>1, <3>1 DEF Published
  <2>2. \A t, u \in TempName : tempAt'[t] = tempAt'[u] /\ tempAt'[t] # None => t = u
    BY <1>2 DEF WInv, TempsPrivate
  <2> QED
    BY <2>1, <2>2 DEF TempsPrivate
<1>5. ASSUME NEW q \in Saver, q # p PROVE Written(q)'
  <2>1. /\ pc'[q] = pc[q] /\ image'[q] = image[q]
        /\ tempFd'[q] = tempFd[q] /\ wrote'[q] = wrote[q]
    BY <1>1, <1>5 DEF WInv, TInv, TypeOK
  <2>2. ASSUME pc[q] \in {"tempFlock", "write", "flush", "close", "rename"}
        PROVE  tempAt'[Tid[q]] = tempAt[Tid[q]]
    BY <1>2, <1>5, <2>2, OthersFile, TempNameOf
  <2> QED
    BY <1>1, <2>1, <2>2, SameCall DEF WInv
<1>6. Written(p)'
  <2>1. pc'[p] = "unlock"
    BY <1>1 DEF WInv, TInv, TypeOK
  <2> QED
    BY <2>1 DEF Written
<1> QED
  BY <1>3, <1>4, <1>5, <1>6

\* Loads, the directory's way to the disk, the end of a process.
LEMMA OutsideStep ==
  ASSUME WInv,
         \/ \E l \in Loader : LoadOpen(l) \/ LoadClose(l)
         \/ \E h \in Process : Crash(h)
         \/ DirSync \/ PowerLoss \/ UNCHANGED vars
  PROVE  PublishedWhole' /\ TempsPrivate' /\ \A q \in Saver : Written(q)'
<1>1. ASSUME NEW l \in Loader, LoadOpen(l) \/ LoadClose(l)
      PROVE  PublishedWhole' /\ TempsPrivate' /\ \A q \in Saver : Written(q)'
  <2>1. UNCHANGED <<storeAt, dirAt, tempAt, data, synced, pc, image, tempFd, wrote>>
    BY <1>1 DEF LoadOpen, LoadClose, paths, files, calls
  <2>2. \A i : i \in Published' /\ i # None => i \in Published
    BY <1>1, <2>1 DEF LoadOpen, LoadClose, Published, WInv, TInv, TypeOK
  <2>3. PublishedWhole'
    BY <2>1, <2>2, StoreAssumption DEF PublishedWhole, WInv
  <2>4. TempsPrivate'
    BY <2>1, <2>2 DEF TempsPrivate, WInv
  <2> QED
    BY <2>1, <2>3, <2>4, SameCall DEF WInv
<1>2. ASSUME NEW h \in Process, Crash(h)
      PROVE  PublishedWhole' /\ TempsPrivate' /\ \A q \in Saver : Written(q)'
  <2>1. UNCHANGED <<storeAt, dirAt, tempAt, data, synced, loadFd, image, wrote>>
    BY <1>2 DEF Crash, paths, files
  <2>2. ASSUME NEW q \in Saver PROVE Written(q)'
    <3>1. CASE Home[q] = h
      BY <1>2, <3>1 DEF Crash, Written
    <3>2. CASE Home[q] # h
      BY <1>2, <2>1, <3>2, SameCall DEF Crash, WInv
    <3> QED
      BY <3>1, <3>2
  <2> QED
    BY <2>1, <2>2, SameFiles
<1>3. ASSUME DirSync
      PROVE  PublishedWhole' /\ TempsPrivate' /\ \A q \in Saver : Written(q)'
  <2>1. /\ dirAt' = storeAt
        /\ UNCHANGED <<storeAt, tempAt, data, synced, loadFd, pc, image, tempFd, wrote>>
    BY <1>3 DEF DirSync, files, calls
  <2>2. Published' \subseteq Published
    BY <2>1 DEF Published
  <2>3. PublishedWhole' /\ TempsPrivate'
    BY <2>1, <2>2 DEF PublishedWhole, TempsPrivate, WInv
  <2> QED
    BY <2>1, <2>3, SameCall DEF WInv
<1>4. ASSUME PowerLoss
      PROVE  PublishedWhole' /\ TempsPrivate' /\ \A q \in Saver : Written(q)'
  <2>1. \A i : i \in Published' /\ i # None => i \in {storeAt, dirAt}
    BY <1>4 DEF PowerLoss, Published
  <2>2. synced' = data' /\ \A i \in Inode : data'[i] \in {data[i], synced[i]}
    BY <1>4 DEF PowerLoss
  <2>3. PublishedWhole'
    BY <2>1, <2>2, StoreAssumption DEF PublishedWhole, Published, WInv
  <2>4. TempsPrivate' /\ \A q \in Saver : Written(q)'
    BY <1>4 DEF PowerLoss, TempsPrivate, Written
  <2> QED
    BY <2>3, <2>4
<1>5. ASSUME UNCHANGED vars
      PROVE  PublishedWhole' /\ TempsPrivate' /\ \A q \in Saver : Written(q)'
  <2>1. UNCHANGED <<storeAt, dirAt, tempAt, data, synced, loadFd, pc, image, tempFd, wrote>>
    BY <1>5 DEF vars, paths, files, calls
  <2> QED
    BY <2>1, SameFiles, SameCall DEF WInv
<1> QED
  BY <1>1, <1>2, <1>3, <1>4, <1>5

LEMMA WholeStep ==
  ASSUME WInv, [Next]_vars, UniqueIds, ~FlushMayFail
  PROVE  WInv'
<1>1. TInv'
  BY TypeStep DEF WInv
<1>2. PublishedWhole' /\ TempsPrivate' /\ \A q \in Saver : Written(q)'
  <2>1. ASSUME NEW p \in Saver, SaveCall(p) \/ Step(p)
        PROVE  PublishedWhole' /\ TempsPrivate' /\ \A q \in Saver : Written(q)'
    BY <2>1, QuietStep, TempOpenStep, FileStep, NameStep
       DEF Step, TempFails, TempBusy, WriteFails, RenameFails
  <2> QED
    BY <2>1, OutsideStep DEF Next
<1> QED
  BY <1>1, <1>2 DEF WInv
-----------------------------------------------------------------------------
\* Every variable keeps its type, whatever ids the savers have and whether or
\* not fsync(2) fails (P2PmsgMgr::Save, P2PmsgMgr::Load).
THEOREM TypeCorrect == Spec => []TypeOK
<1>1. Init => TInv
  BY TypeInit
<1>2. TInv /\ [Next]_vars => TInv'
  BY TypeStep
<1>3. TInv => TypeOK
  BY DEF TInv
<1> QED
  BY <1>1, <1>2, <1>3, PTL DEF Spec

\* The invariant the two theorems below rest on.
THEOREM Invariant ==
  ASSUME UniqueIds, ~FlushMayFail
  PROVE  Spec => []WInv
<1>1. Init => WInv
  BY WholeInit
<1>2. WInv /\ [Next]_vars => WInv'
  BY WholeStep
<1> QED
  BY <1>1, <1>2, PTL DEF Spec

\* P2PmsgMgr::Save: the store's path never leads to anything but a whole image,
\* through any interleaving of Saves, crashes and losses of power, as long as
\* thread ids are unique and fsync(2) tells the truth.
THEOREM StoreIsWhole ==
  ASSUME UniqueIds, ~FlushMayFail
  PROVE  Spec => []StoreWhole
<1>1. WInv => StoreWhole
  BY DEF WInv, TInv, TypeOK, PublishedWhole, Published, StoreWhole
<1> QED
  BY <1>1, Invariant, PTL

\* P2PmsgMgr::Load: what a Load has open is a whole image until it is closed.
THEOREM ReadersReadWhole ==
  ASSUME UniqueIds, ~FlushMayFail
  PROVE  Spec => []ReaderWhole
<1>1. WInv => ReaderWhole
  BY DEF WInv, TInv, TypeOK, PublishedWhole, Published, ReaderWhole
<1> QED
  BY <1>1, Invariant, PTL
-----------------------------------------------------------------------------
LEMMA WholeIsSomething == \A v \in Image : Whole(v) # None
  BY StoreAssumption DEF Whole

LEMMA PublishedIsSomething ==
  ASSUME WInv, NEW i \in Published, i # None
  PROVE  data[i] # None /\ synced[i] = data[i] /\ i \in Inode
  BY WholeIsSomething DEF WInv, TInv, TypeOK, PublishedWhole, Published, IsWhole

\* Only private files are written, so nobody who looks at the store sees it.
LEMMA Unseen ==
  ASSUME WInv, UNCHANGED <<storeAt, dirAt, loadFd>>,
         \A i \in Inode : i \in Published => data'[i] = data[i] /\ synced'[i] = synced[i]
  PROVE  UNCHANGED <<StoreValue, DiskValue, Reading>>
<1>1. UNCHANGED <<StoreValue, DiskValue>>
  BY DEF StoreValue, DiskValue, ContentAt, Published, WInv, TInv, TypeOK
<1>2. \A l \in Loader : ContentAt(data, loadFd[l])' = ContentAt(data, loadFd[l])
  BY DEF ContentAt, Published, WInv, TInv, TypeOK
<1> QED
  BY <1>1, <1>2 DEF Reading

LEMMA PrivateWrites ==
  ASSUME NEW p \in Saver, WInv, UniqueIds, TempOpen(p) \/ Write(p) \/ Flush(p)
  PROVE  UNCHANGED <<StoreValue, DiskValue, Reading, Asked, outcome>>
<1>1. UNCHANGED <<storeAt, dirAt, loadFd, outcome, image>>
  BY DEF TempOpen, Write, Flush, paths
<1>2. ASSUME NEW i \in Inode, i \in Published
      PROVE  data'[i] = data[i] /\ synced'[i] = synced[i]
  <2>1. CASE TempOpen(p)
    <3>1. PICK j \in Inode : /\ Opened(tempAt[Tid[p]], j)
                             /\ data' = [data EXCEPT ![j] = Empty]
                             /\ synced' = IF tempAt[Tid[p]] = None
                                            THEN [synced EXCEPT ![j] = Empty] ELSE synced
      BY <2>1 DEF TempOpen
    <3>2. j \notin Published
      BY <3>1, TempNameOf, StoreAssumption DEF Opened, InUse, Published, WInv, TempsPrivate
    <3> QED
      BY <1>2, <3>1, <3>2 DEF WInv, TInv, TypeOK
  <2>2. CASE Write(p) \/ Flush(p)
    <3>1. tempFd[p] \notin Published
      BY <2>2, TempNameOf DEF Write, Flush, WInv, Written, TempsPrivate
    <3> QED
      BY <1>2, <2>2, <3>1 DEF Write, Flush, Flushed, WInv, TInv, TypeOK
  <2> QED
    BY <2>1, <2>2
<1>3. \A q \in Saver : pc[q] = "idle" <=> pc'[q] = "idle"
  BY DEF TempOpen, Write, Flush, Goto, WInv, TInv, TypeOK
<1> QED
  BY <1>1, <1>2, <1>3, Unseen DEF Asked

\* The steps of a Save that its caller and the store's other users do not see.
LEMMA HiddenStep ==
  ASSUME NEW p \in Saver, WInv,
         \/ LockOpen(p) \/ Flock(p) \/ (LockBusy(p) /\ MayRetry(p)) \/ TempFlock(p)
         \/ CloseTemp(p) \/ Discard(p) \/ Unlock(p)
  PROVE  UNCHANGED <<StoreValue, DiskValue, Reading, Asked, outcome>>
<1>1. UNCHANGED <<storeAt, dirAt, loadFd, data, synced, outcome, image>>
  BY DEF LockOpen, Flock, LockBusy, TempFlock, CloseTemp, Discard, Unlock, paths, files
<1>2. \A q \in Saver : pc[q] = "idle" <=> pc'[q] = "idle"
  BY DEF LockOpen, Flock, LockBusy, TempFlock, CloseTemp, Discard, Unlock, Goto, WInv, TInv,
         TypeOK
<1> QED
  BY <1>1, <1>2, Unseen DEF Asked

\* A Save that is over is no longer asked for; one that gives up still is.
LEMMA AskedEnds ==
  ASSUME NEW p \in Saver, TypeOK, image' = image, pc' = [pc EXCEPT ![p] = "idle"]
  PROVE  Asked' = [Asked EXCEPT ![p] = None]
<1>1. \A q \in Saver : pc'[q] = IF q = p THEN "idle" ELSE pc[q]
  BY DEF TypeOK
<1>2. \A q \in Saver : Whole(image[q])' = Whole(image[q])
  BY DEF Whole
<1> QED
  BY <1>1, <1>2 DEF Asked

LEMMA AskedStays ==
  ASSUME NEW p \in Saver, TypeOK, image' = image, pc' = [pc EXCEPT ![p] = "discard"],
         pc[p] # "idle"
  PROVE  Asked' = Asked
<1>1. \A q \in Saver : pc'[q] = "idle" <=> pc[q] = "idle"
  BY DEF TypeOK
<1>2. \A q \in Saver : Whole(image[q])' = Whole(image[q])
  BY DEF Whole
<1> QED
  BY <1>1, <1>2 DEF Asked

\* The steps that begin a Save or settle what it returns.
LEMMA SeenStep ==
  ASSUME NEW p \in Saver, WInv,
         \/ SaveCall(p) \/ LockFails(p) \/ (LockBusy(p) /\ ~MayRetry(p))
         \/ Abandon(p) /\ pc[p] \in {"temp", "tempFlock", "write", "rename"}
         \/ CloseLock(p)
  PROVE  Promise!Ask(p) \/ Promise!Refuse(p) \/ Promise!Return(p)
<1>1. UNCHANGED <<StoreValue, DiskValue, Reading>>
  <2>1. UNCHANGED <<storeAt, dirAt, loadFd, data, synced>>
    BY DEF SaveCall, LockFails, LockBusy, Abandon, CloseLock, paths, files
  <2> QED
    BY <2>1, Unseen
<1>2. CASE SaveCall(p)
  <2>1. pc[p] = "idle" /\ image'[p] \in Image /\ outcome' = [outcome EXCEPT ![p] = "none"]
    BY <1>2 DEF SaveCall, WInv, TInv, TypeOK
  <2>2. Asked' = [Asked EXCEPT ![p] = Whole(image'[p])]
    BY <1>2 DEF SaveCall, Asked, Goto, Whole, WInv, TInv, TypeOK
  <2> QED
    BY <1>1, <2>1, <2>2 DEF Promise!Ask, Asked
<1>3. CASE LockFails(p) \/ (LockBusy(p) /\ ~MayRetry(p))
  <2>1. pc[p] \in {"lock", "flock"} /\ outcome' = [outcome EXCEPT ![p] = "failed"]
    BY <1>3 DEF LockFails, LockBusy
  <2>2. Asked' = [Asked EXCEPT ![p] = None]
    <3>1. image' = image /\ pc' = [pc EXCEPT ![p] = "idle"] /\ TypeOK
      BY <1>3 DEF LockFails, LockBusy, Goto, WInv, TInv
    <3> QED
      BY <3>1, AskedEnds
  <2>3. Asked[p] # None /\ outcome[p] = "none"
    BY <2>1, WholeIsSomething DEF Asked, WInv, TInv, TypeOK, Settled
  <2> QED
    BY <1>1, <2>1, <2>2, <2>3 DEF Promise!Refuse
<1>4. CASE Abandon(p) /\ pc[p] \in {"temp", "tempFlock", "write", "rename"}
  <2>1. outcome' = [outcome EXCEPT ![p] = "failed"]
    BY <1>4 DEF Abandon
  <2>2. Asked' = Asked
    <3>1. image' = image /\ pc' = [pc EXCEPT ![p] = "discard"] /\ TypeOK
      BY <1>4 DEF Abandon, Goto, WInv, TInv
    <3>2. pc[p] # "idle"
      BY <1>4
    <3> QED
      BY <3>1, <3>2, AskedStays
  <2>3. Asked[p] # None /\ outcome[p] = "none"
    BY <1>4, WholeIsSomething DEF Asked, WInv, TInv, TypeOK, Settled
  <2> QED
    BY <1>1, <2>1, <2>2, <2>3 DEF Promise!Refuse
<1>5. CASE CloseLock(p)
  <2>1. pc[p] = "closeLock" /\ outcome' = outcome
    BY <1>5 DEF CloseLock
  <2>2. Asked' = [Asked EXCEPT ![p] = None]
    <3>1. image' = image /\ pc' = [pc EXCEPT ![p] = "idle"] /\ TypeOK
      BY <1>5 DEF CloseLock, Goto, WInv, TInv
    <3> QED
      BY <3>1, AskedEnds
  <2>3. Asked[p] # None /\ outcome[p] # "none"
    BY <2>1, WholeIsSomething DEF Asked, WInv, TInv, TypeOK, Settled
  <2> QED
    BY <1>1, <2>1, <2>2, <2>3 DEF Promise!Return
<1> QED
  BY <1>2, <1>3, <1>4, <1>5

LEMMA RenamePuts ==
  ASSUME NEW p \in Saver, WInv, UniqueIds, Rename(p)
  PROVE  Promise!Put(p)
<1> DEFINE f == tempAt[Tid[p]]
<1>1. /\ pc[p] = "rename" /\ f # None /\ storeAt' = f
      /\ pc' = [pc EXCEPT ![p] = "unlock"]
      /\ outcome' = [outcome EXCEPT ![p] = "saved"]
      /\ UNCHANGED <<dirAt, loadFd, data, synced, image>>
  BY DEF Rename, Goto, files
<1>2. StoreValue' = Whole(image[p])
  BY <1>1 DEF StoreValue, ContentAt, WInv, Written
<1>3. UNCHANGED <<DiskValue, Reading>>
  BY <1>1 DEF DiskValue, Reading, ContentAt
<1>4. Asked' = Asked
  BY <1>1 DEF Asked, Whole, WInv, TInv, TypeOK
<1>5. Asked[p] = Whole(image[p]) /\ Asked[p] # None /\ outcome[p] = "none"
  BY <1>1, WholeIsSomething DEF Asked, WInv, TInv, TypeOK, Settled
<1> QED
  BY <1>1, <1>2, <1>3, <1>4, <1>5 DEF Promise!Put

LEMMA LoadIsAtomic ==
  ASSUME NEW l \in Loader, WInv, LoadOpen(l) \/ LoadClose(l)
  PROVE  Promise!Open(l) \/ Promise!Close(l)
<1>1. UNCHANGED <<storeAt, dirAt, data, synced, pc, image, outcome>>
  BY DEF LoadOpen, LoadClose, paths, files, calls
<1>2. UNCHANGED <<StoreValue, DiskValue, Asked>>
  BY <1>1 DEF StoreValue, DiskValue, Asked, ContentAt
<1>3. CASE LoadOpen(l)
  <2>1. loadFd[l] = None /\ storeAt # None /\ loadFd' = [loadFd EXCEPT ![l] = storeAt]
    BY <1>3 DEF LoadOpen
  <2>2. StoreValue # None
    BY <2>1, PublishedIsSomething DEF StoreValue, ContentAt, Published
  <2>3. Reading' = [Reading EXCEPT ![l] = StoreValue]
    BY <1>1, <2>1 DEF Reading, StoreValue, ContentAt, WInv, TInv, TypeOK
  <2> QED
    BY <1>1, <1>2, <2>1, <2>2, <2>3 DEF Promise!Open, Reading, ContentAt
<1>4. CASE LoadClose(l)
  <2>1. loadFd[l] # None /\ loadFd' = [loadFd EXCEPT ![l] = None]
    BY <1>4 DEF LoadClose
  <2>2. Reading[l] # None
    BY <2>1, PublishedIsSomething DEF Reading, ContentAt, Published
  <2>3. Reading' = [Reading EXCEPT ![l] = None]
    BY <1>1, <2>1 DEF Reading, ContentAt, WInv, TInv, TypeOK
  <2> QED
    BY <1>1, <1>2, <2>2, <2>3 DEF Promise!Close
<1> QED
  BY <1>3, <1>4

LEMMA CrashForgets ==
  ASSUME NEW h \in Process, WInv, Crash(h)
  PROVE  \E dead \in SUBSET Saver : Promise!Crash(dead)
<1> DEFINE dead == {p \in Saver : Home[p] = h}
<1>1. /\ UNCHANGED <<storeAt, dirAt, loadFd, data, synced, image>>
      /\ pc' = [p \in Saver |-> IF Home[p] = h THEN "idle" ELSE pc[p]]
      /\ outcome' = [p \in Saver |-> IF Home[p] = h THEN "none" ELSE outcome[p]]
  BY DEF Crash, paths, files
<1>2. UNCHANGED <<StoreValue, DiskValue, Reading>>
  BY <1>1, Unseen
<1>3. Asked' = [p \in Saver |-> IF p \in dead THEN None ELSE Asked[p]]
  BY <1>1 DEF Asked, Whole
<1>4. outcome' = [p \in Saver |-> IF p \in dead THEN "none" ELSE outcome[p]]
  BY <1>1
<1> HIDE DEF dead
<1>5. Promise!Crash(dead)
  BY <1>2, <1>3, <1>4 DEF Promise!Crash, Promise!Die
<1>6. dead \in SUBSET Saver
  BY DEF dead
<1> QED
  BY <1>5, <1>6

LEMMA SyncSyncs ==
  ASSUME WInv, DirSync
  PROVE  Promise!Sync
<1>1. dirAt' = storeAt /\ UNCHANGED <<storeAt, loadFd, data, synced, pc, image, outcome>>
  BY DEF DirSync, files, calls
<1>2. UNCHANGED <<StoreValue, Reading, Asked>>
  BY <1>1 DEF StoreValue, Reading, Asked, ContentAt
<1>3. DiskValue' = StoreValue
  BY <1>1, PublishedIsSomething DEF StoreValue, DiskValue, ContentAt, Published
<1> QED
  BY <1>1, <1>2, <1>3 DEF Promise!Sync

LEMMA PowerLossForgets ==
  ASSUME WInv, PowerLoss
  PROVE  Promise!PowerLoss
<1>1. /\ storeAt' \in {storeAt, dirAt} /\ dirAt' = storeAt' /\ synced' = data'
      /\ \A i \in Inode : data'[i] \in {data[i], synced[i]}
      /\ pc' = [p \in Saver |-> "idle"] /\ outcome' = [p \in Saver |-> "none"]
      /\ loadFd' = [l \in Loader |-> None]
  BY DEF PowerLoss
<1>2. \A i \in {storeAt, dirAt} : i # None => data'[i] = data[i] /\ synced[i] = data[i]
  BY <1>1, PublishedIsSomething DEF Published
<1>3. StoreValue' \in {StoreValue, DiskValue} /\ DiskValue' = StoreValue'
  BY <1>1, <1>2 DEF StoreValue, DiskValue, ContentAt
<1>4. Reading' = [l \in Loader |-> None]
  BY <1>1 DEF Reading, ContentAt
<1>5. Asked' = [p \in Saver |-> IF p \in Saver THEN None ELSE Asked[p]]
  BY <1>1 DEF Asked
<1>6. outcome' = [p \in Saver |-> IF p \in Saver THEN "none" ELSE outcome[p]]
  BY <1>1
<1> QED
  BY <1>3, <1>4, <1>5, <1>6 DEF Promise!PowerLoss, Promise!Die

\* P2PmsgMgr::Save and Load keep the promise of AtomicStore: a Save that returns
\* TRUE put its image in place in one instant, one that returns FALSE changed
\* nothing, and a Load reads one instant's image.
THEOREM PromiseKept ==
  ASSUME UniqueIds, ~FlushMayFail
  PROVE  Spec => Implements
<1>1. Init => Promise!AInit
  <2> SUFFICES ASSUME Init PROVE Promise!AInit
    OBVIOUS
  <2>1. StoreValue = None /\ DiskValue = None
    BY DEF Init, StoreValue, DiskValue, ContentAt
  <2>2. Asked = [p \in Saver |-> None] /\ Reading = [l \in Loader |-> None]
    BY DEF Init, Asked, Reading, ContentAt
  <2> QED
    BY <2>1, <2>2 DEF Init, Promise!AInit
<1>2. WInv /\ [Next]_vars => [Promise!ANext]_(Promise!avars)
  <2> SUFFICES ASSUME WInv, [Next]_vars PROVE [Promise!ANext]_(Promise!avars)
    OBVIOUS
  <2>1. ASSUME NEW p \in Saver, SaveCall(p) \/ Step(p)
        PROVE  [Promise!ANext]_(Promise!avars)
    <3>1. CASE TempOpen(p) \/ Write(p) \/ Flush(p)
      BY <3>1, PrivateWrites DEF Promise!avars
    <3>2. CASE \/ LockOpen(p) \/ Flock(p) \/ (LockBusy(p) /\ MayRetry(p)) \/ TempFlock(p)
               \/ CloseTemp(p) \/ Discard(p) \/ Unlock(p)
      BY <3>2, HiddenStep DEF Promise!avars
    <3>3. CASE \/ SaveCall(p) \/ LockFails(p) \/ (LockBusy(p) /\ ~MayRetry(p))
               \/ TempFails(p) \/ TempBusy(p) \/ WriteFails(p) \/ RenameFails(p)
               \/ CloseLock(p)
      BY <3>3, SeenStep DEF Promise!ANext, TempFails, TempBusy, WriteFails, RenameFails
    <3>4. CASE Rename(p)
      BY <3>4, RenamePuts DEF Promise!ANext
    <3> QED
      BY <2>1, <3>1, <3>2, <3>3, <3>4 DEF Step
  <2>2. CASE \E l \in Loader : LoadOpen(l) \/ LoadClose(l)
    BY <2>2, LoadIsAtomic DEF Promise!ANext
  <2>3. CASE \E h \in Process : Crash(h)
    BY <2>3, CrashForgets DEF Promise!ANext
  <2>4. CASE DirSync \/ PowerLoss
    BY <2>4, SyncSyncs, PowerLossForgets DEF Promise!ANext
  <2>5. CASE UNCHANGED vars
    BY <2>5 DEF vars, paths, files, calls, Promise!avars, StoreValue, DiskValue, Asked,
                Reading, ContentAt
  <2> QED
    BY <2>1, <2>2, <2>3, <2>4, <2>5 DEF Next
<1>3. WInv /\ [Next]_vars => WInv'
  BY WholeStep
<1>4. Init => WInv
  BY WholeInit
<1> QED
  BY <1>1, <1>2, <1>3, <1>4, PTL DEF Spec, Implements, Promise!ASpec
-----------------------------------------------------------------------------
(***************************************************************************)
(* What a Save leaves behind.  Without crashes, and when flock fails only  *)
(* where the lock is held, the path of the lock leads to an inode that     *)
(* some saver has open and is going to unlink, also when several savers    *)
(* are past the lock at once and one has unlinked it under the others.     *)
(***************************************************************************)

LockAlive == {"flock", "temp", "tempFlock", "write", "flush", "close", "rename", "discard", "unlock"}
TempAlive == {"tempFlock", "write", "flush", "close", "rename", "discard"}

\* Who has yet to remove what a path leads to.
Removers ==
  /\ lockAt # None => \E q \in Saver : lockFd[q] = lockAt /\ pc[q] \in LockAlive
  /\ \A t \in TempName : tempAt[t] # None => \E q \in Saver : Tid[q] = t /\ pc[q] \in TempAlive

\* A saver past the lock has the lock open, and one that has unlinked it does not have the
\* one that is there now.
LockOpened == \A q \in Saver : /\ pc[q] \in LockAlive \cup {"closeLock"} => lockFd[q] # None
                               /\ pc[q] = "closeLock" => lockFd[q] # lockAt

\* No inode is a lock file and a temporary file.
LockInode == {lockAt} \cup {lockFd[p] : p \in Saver}
TempInode == {tempAt[t] : t \in TempName} \cup {tempFd[p] : p \in Saver}
KindsApart == \A i \in LockInode : i \in TempInode => i = None

TidyInv == TInv /\ Removers /\ LockOpened /\ KindsApart

LEMMA TidyStarts == Init => TidyInv
<1> SUFFICES ASSUME Init PROVE TidyInv
  OBVIOUS
<1>1. TInv
  BY TypeInit
<1>2. Removers /\ LockOpened /\ KindsApart
  BY DEF Init, Removers, LockOpened, KindsApart, LockAlive, LockInode
<1> QED BY <1>1, <1>2 DEF TidyInv

\* A step that opens and removes nothing, and after which the saver still has to.
LEMMA MovesOn ==
  ASSUME TidyInv, NEW p \in Saver,
         UNCHANGED <<lockAt, tempAt, lockFd, tempFd>>, NEW there, Goto(p, there),
         pc[p] \in LockAlive => there \in LockAlive,
         pc[p] \in TempAlive => there \in TempAlive,
         there \in LockAlive => pc[p] \in LockAlive,
         there # "closeLock"
  PROVE  Removers' /\ LockOpened' /\ KindsApart'
<1>1. pc' = [pc EXCEPT ![p] = there] /\ pc = [q \in Saver |-> pc[q]]
  BY DEF Goto, TidyInv, TInv, TypeOK
<1>2. pc'[p] = there /\ \A q \in Saver : q # p => pc'[q] = pc[q]
  BY <1>1
<1>3. Removers'
  BY <1>2 DEF TidyInv, Removers
<1>4. LockOpened'
  BY <1>2 DEF TidyInv, LockOpened
<1>5. KindsApart'
  BY DEF TidyInv, KindsApart, LockInode, TempInode
<1> QED BY <1>3, <1>4, <1>5

LEMMA TidyStep == ASSUME MayCrash = FALSE, FlockMayFail = FALSE, TidyInv, [Next]_vars PROVE TidyInv'
<1>0. TInv'
  BY TypeStep DEF TidyInv
<1> USE StoreAssumption, TempNameOf
<1> DEFINE Kept == Removers' /\ LockOpened' /\ KindsApart'
<1>1. ASSUME NEW p \in Saver, SaveCall(p) PROVE Kept
  <2>1. UNCHANGED <<lockAt, tempAt, lockFd, tempFd>> /\ Goto(p, "lock") /\ pc[p] = "idle"
    BY <1>1 DEF SaveCall, paths
  <2> QED BY <2>1, MovesOn DEF LockAlive, TempAlive
<1>2. ASSUME NEW p \in Saver, LockOpen(p) PROVE Kept
  <2>1. PICK i \in Inode : Opened(lockAt, i) /\ lockAt' = i /\ lockFd' = [lockFd EXCEPT ![p] = i]
    BY <1>2 DEF LockOpen
  <2>2. pc[p] = "lock" /\ pc' = [pc EXCEPT ![p] = "flock"] /\ UNCHANGED <<tempAt, tempFd>>
    BY <1>2 DEF LockOpen, Goto
  <2>3. pc = [q \in Saver |-> pc[q]] /\ lockFd = [q \in Saver |-> lockFd[q]] /\ i # None
    BY DEF TidyInv, TInv, TypeOK
  <2>4. /\ pc'[p] = "flock" /\ lockFd'[p] = i
        /\ \A q \in Saver : q # p => pc'[q] = pc[q] /\ lockFd'[q] = lockFd[q]
    BY <2>1, <2>2, <2>3
  <2>5. i = lockAt \/ (i \notin TempInode /\ i \notin LockInode)
    BY <2>1 DEF Opened, InUse, TempInode, LockInode
  <2>6. Removers'
    <3>1. lockFd'[p] = lockAt' /\ pc'[p] \in LockAlive
      BY <2>1, <2>4 DEF LockAlive
    <3>2. ASSUME NEW t \in TempName, tempAt[t] # None PROVE \E q \in Saver : Tid[q] = t /\ pc'[q] \in TempAlive
      BY <2>2, <2>4, <3>2 DEF TidyInv, Removers, TempAlive
    <3> QED BY <2>2, <3>1, <3>2 DEF Removers
  <2>7. LockOpened'
    <3> SUFFICES ASSUME NEW q \in Saver
                 PROVE  /\ pc'[q] \in LockAlive \cup {"closeLock"} => lockFd'[q] # None
                        /\ pc'[q] = "closeLock" => lockFd'[q] # lockAt'
      BY DEF LockOpened
    <3>1. CASE q = p
      BY <2>3, <2>4, <3>1
    <3>2. CASE q # p
      BY <2>1, <2>4, <2>5, <3>2 DEF TidyInv, LockOpened, LockInode
    <3> QED BY <3>1, <3>2
  <2>8. KindsApart'
    <3>1. LockInode' \subseteq LockInode \cup {i} /\ TempInode' = TempInode
      BY <2>1, <2>2, <2>4 DEF LockInode, TempInode
    <3> QED BY <2>5, <3>1 DEF TidyInv, KindsApart, LockInode
  <2> QED BY <2>6, <2>7, <2>8
<1>3. ASSUME NEW p \in Saver, LockFails(p) PROVE Kept
  <2>1. /\ pc[p] = "lock" /\ pc' = [pc EXCEPT ![p] = "idle"]
        /\ lockFd' = [lockFd EXCEPT ![p] = None] /\ UNCHANGED <<lockAt, tempAt, tempFd>>
    BY <1>3 DEF LockFails, Goto, paths
  <2>2. pc = [q \in Saver |-> pc[q]] /\ lockFd = [q \in Saver |-> lockFd[q]]
    BY DEF TidyInv, TInv, TypeOK
  <2>3. /\ pc'[p] = "idle" /\ lockFd'[p] = None
        /\ \A q \in Saver : q # p => pc'[q] = pc[q] /\ lockFd'[q] = lockFd[q]
    BY <2>1, <2>2
  <2>4. Removers'
    BY <2>1, <2>3 DEF TidyInv, Removers, LockAlive, TempAlive
  <2>5. LockOpened'
    BY <2>1, <2>3 DEF TidyInv, LockOpened, LockAlive
  <2>6. KindsApart'
    <3>1. LockInode' \subseteq LockInode \cup {None} /\ TempInode' = TempInode
      BY <2>1, <2>3 DEF LockInode, TempInode
    <3> QED BY <3>1 DEF TidyInv, KindsApart
  <2> QED BY <2>4, <2>5, <2>6
<1>4. ASSUME NEW p \in Saver, Flock(p) PROVE Kept
  <2>1. UNCHANGED <<lockAt, tempAt, lockFd, tempFd>> /\ Goto(p, "temp") /\ pc[p] = "flock"
    BY <1>4 DEF Flock, paths
  <2> QED BY <2>1, MovesOn DEF LockAlive, TempAlive
<1>5. ASSUME NEW p \in Saver, LockBusy(p) PROVE Kept
  <2>1. PICK there \in {"lock", "idle"} : pc' = [pc EXCEPT ![p] = there]
    BY <1>5 DEF LockBusy, Goto
  <2>2. /\ pc[p] = "flock" /\ lockFd' = [lockFd EXCEPT ![p] = None] /\ UNCHANGED <<lockAt, tempAt, tempFd>>
    BY <1>5 DEF LockBusy, paths
  <2>3. pc = [q \in Saver |-> pc[q]] /\ lockFd = [q \in Saver |-> lockFd[q]]
    BY DEF TidyInv, TInv, TypeOK
  <2>4. /\ pc'[p] = there /\ lockFd'[p] = None
        /\ \A q \in Saver : q # p => pc'[q] = pc[q] /\ lockFd'[q] = lockFd[q]
    BY <2>1, <2>2, <2>3
  \* whoever holds the lock has it open, and is to unlink it if the path leads there
  <2>5. PICK h \in Saver : LockedBy(h, lockFd[p])
    BY <1>5 DEF LockBusy, Locked
  <2>6. lockFd[p] # None /\ lockFd[p] \in LockInode
    BY <2>2 DEF TidyInv, LockOpened, LockAlive, LockInode
  <2>7. LockHeld(h) /\ lockFd[h] = lockFd[p]
    <3>1. tempFd[h] \in TempInode
      BY DEF TempInode
    <3>2. tempFd[h] # lockFd[p]
      BY <2>6, <3>1 DEF TidyInv, KindsApart
    <3> QED BY <2>5, <3>2 DEF LockedBy
  <2>8. h # p /\ (lockFd[p] = lockAt => pc[h] \in LockAlive)
    <3>1. pc[h] \in LockAlive \cup {"closeLock"}
      BY <2>7 DEF LockHeld, LockAlive, TidyInv, TInv, TypeOK
    <3>2. lockFd[p] = lockAt => pc[h] # "closeLock"
      BY <2>7 DEF TidyInv, LockOpened
    <3> QED BY <2>2, <2>7, <3>1, <3>2 DEF LockHeld
  <2>9. Removers'
    <3>1. ASSUME lockAt # None PROVE \E q \in Saver : lockFd'[q] = lockAt /\ pc'[q] \in LockAlive
      <4>1. PICK q \in Saver : lockFd[q] = lockAt /\ pc[q] \in LockAlive
        BY <3>1 DEF TidyInv, Removers
      <4>2. CASE q = p
        BY <2>4, <2>7, <2>8, <4>1, <4>2
      <4>3. CASE q # p
        BY <2>4, <4>1, <4>3
      <4> QED BY <4>2, <4>3
    <3>2. ASSUME NEW t \in TempName, tempAt[t] # None PROVE \E q \in Saver : Tid[q] = t /\ pc'[q] \in TempAlive
      BY <2>2, <2>4, <3>2 DEF TidyInv, Removers, TempAlive
    <3> QED BY <2>2, <3>1, <3>2 DEF Removers
  <2>10. LockOpened'
    BY <2>1, <2>2, <2>4 DEF TidyInv, LockOpened, LockAlive
  <2>11. KindsApart'
    <3>1. LockInode' \subseteq LockInode \cup {None} /\ TempInode' = TempInode
      BY <2>2, <2>4 DEF LockInode, TempInode
    <3> QED BY <3>1 DEF TidyInv, KindsApart
  <2> QED BY <2>9, <2>10, <2>11
<1>6. ASSUME NEW p \in Saver, TempOpen(p) PROVE Kept
  <2>1. PICK i \in Inode : /\ Opened(tempAt[Tid[p]], i) /\ tempAt' = [tempAt EXCEPT ![Tid[p]] = i]
                           /\ tempFd' = [tempFd EXCEPT ![p] = i]
    BY <1>6 DEF TempOpen
  <2>2. pc[p] = "temp" /\ pc' = [pc EXCEPT ![p] = "tempFlock"] /\ UNCHANGED <<lockAt, lockFd>>
    BY <1>6 DEF TempOpen, Goto
  <2>3. /\ pc = [q \in Saver |-> pc[q]] /\ tempFd = [q \in Saver |-> tempFd[q]]
        /\ tempAt = [t \in TempName |-> tempAt[t]] /\ i # None
    BY DEF TidyInv, TInv, TypeOK
  <2>4. /\ pc'[p] = "tempFlock" /\ tempFd'[p] = i /\ tempAt'[Tid[p]] = i
        /\ \A q \in Saver : q # p => pc'[q] = pc[q] /\ tempFd'[q] = tempFd[q]
        /\ \A t \in TempName : t # Tid[p] => tempAt'[t] = tempAt[t]
    BY <2>1, <2>2, <2>3
  <2>5. i \in TempInode \/ (i \notin TempInode /\ i \notin LockInode)
    BY <2>1 DEF Opened, InUse, TempInode, LockInode
  <2>6. Removers'
    <3>1. lockAt # None => \E q \in Saver : lockFd[q] = lockAt /\ pc'[q] \in LockAlive
      BY <2>4 DEF TidyInv, Removers, LockAlive
    <3>2. ASSUME NEW t \in TempName, tempAt'[t] # None PROVE \E q \in Saver : Tid[q] = t /\ pc'[q] \in TempAlive
      <4>1. CASE t = Tid[p]
        BY <2>4, <4>1 DEF TempAlive
      <4>2. CASE t # Tid[p]
        BY <2>2, <2>4, <3>2, <4>2 DEF TidyInv, Removers, TempAlive
      <4> QED BY <4>1, <4>2
    <3> QED BY <2>2, <3>1, <3>2 DEF Removers
  <2>7. LockOpened'
    BY <2>2, <2>4 DEF TidyInv, LockOpened, LockAlive
  <2>8. KindsApart'
    <3>1. TempInode' \subseteq TempInode \cup {i} /\ LockInode' = LockInode
      BY <2>2, <2>4 DEF LockInode, TempInode
    <3> QED BY <2>5, <3>1 DEF TidyInv, KindsApart
  <2> QED BY <2>6, <2>7, <2>8
<1>7. ASSUME NEW p \in Saver, pc[p] \in LockAlive, Abandon(p) PROVE Kept
  <2>1. /\ pc' = [pc EXCEPT ![p] = "discard"] /\ tempFd' = [tempFd EXCEPT ![p] = None]
        /\ UNCHANGED <<lockAt, tempAt, lockFd>>
    BY <1>7 DEF Abandon, Goto, paths
  <2>2. pc = [q \in Saver |-> pc[q]] /\ tempFd = [q \in Saver |-> tempFd[q]]
    BY DEF TidyInv, TInv, TypeOK
  <2>3. /\ pc'[p] = "discard" /\ tempFd'[p] = None
        /\ \A q \in Saver : q # p => pc'[q] = pc[q] /\ tempFd'[q] = tempFd[q]
    BY <2>1, <2>2
  <2>4. Removers'
    BY <2>1, <2>3 DEF TidyInv, Removers, LockAlive, TempAlive
  <2>5. LockOpened'
    BY <1>7, <2>1, <2>3 DEF TidyInv, LockOpened
  <2>6. KindsApart'
    <3>1. TempInode' \subseteq TempInode \cup {None} /\ LockInode' = LockInode
      BY <2>1, <2>3 DEF LockInode, TempInode
    <3> QED BY <3>1 DEF TidyInv, KindsApart
  <2> QED BY <2>4, <2>5, <2>6
<1>8. ASSUME NEW p \in Saver, Discard(p) \/ Rename(p) PROVE Kept
  <2>1. /\ pc[p] \in {"discard", "rename"} /\ pc' = [pc EXCEPT ![p] = "unlock"]
        /\ tempAt' = [tempAt EXCEPT ![Tid[p]] = None] /\ UNCHANGED <<lockAt, lockFd, tempFd>>
    BY <1>8 DEF Discard, Rename, Goto, WithoutTemp
  <2>2. pc = [q \in Saver |-> pc[q]] /\ tempAt = [t \in TempName |-> tempAt[t]]
    BY DEF TidyInv, TInv, TypeOK
  <2>3. /\ pc'[p] = "unlock" /\ tempAt'[Tid[p]] = None
        /\ \A q \in Saver : q # p => pc'[q] = pc[q]
        /\ \A t \in TempName : t # Tid[p] => tempAt'[t] = tempAt[t]
    BY <2>1, <2>2
  <2>4. Removers'
    <3>1. lockAt # None => \E q \in Saver : lockFd[q] = lockAt /\ pc'[q] \in LockAlive
      BY <2>3 DEF TidyInv, Removers, LockAlive
    <3>2. ASSUME NEW t \in TempName, tempAt'[t] # None PROVE \E q \in Saver : Tid[q] = t /\ pc'[q] \in TempAlive
      <4>1. t # Tid[p] /\ tempAt[t] # None
        BY <2>3, <3>2
      <4>2. PICK q \in Saver : Tid[q] = t /\ pc[q] \in TempAlive
        BY <4>1 DEF TidyInv, Removers
      <4>3. q # p
        BY <4>1, <4>2
      <4> QED BY <2>3, <4>2, <4>3
    <3> QED BY <2>1, <3>1, <3>2 DEF Removers
  <2>5. LockOpened'
    BY <2>1, <2>3 DEF TidyInv, LockOpened, LockAlive
  <2>6. KindsApart'
    <3>1. TempInode' \subseteq TempInode \cup {None} /\ LockInode' = LockInode
      BY <2>1, <2>3 DEF LockInode, TempInode
    <3> QED BY <3>1 DEF TidyInv, KindsApart
  <2> QED BY <2>4, <2>5, <2>6
<1>9. ASSUME NEW p \in Saver, TempFlock(p) PROVE Kept
  <2>1. UNCHANGED <<lockAt, tempAt, lockFd, tempFd>> /\ Goto(p, "write") /\ pc[p] = "tempFlock"
    BY <1>9 DEF TempFlock, paths
  <2> QED BY <2>1, MovesOn DEF LockAlive, TempAlive
<1>10. ASSUME NEW p \in Saver, Write(p) PROVE Kept
  <2>1. PICK there \in {"flush", "write"} : Goto(p, there)
    BY <1>10 DEF Write
  <2>2. UNCHANGED <<lockAt, tempAt, lockFd, tempFd>> /\ pc[p] = "write"
    BY <1>10 DEF Write, paths
  <2> QED BY <2>1, <2>2, MovesOn DEF LockAlive, TempAlive
<1>11. ASSUME NEW p \in Saver, Flush(p) PROVE Kept
  <2>1. UNCHANGED <<lockAt, tempAt, lockFd, tempFd>> /\ Goto(p, "close") /\ pc[p] = "flush"
    BY <1>11 DEF Flush, paths
  <2> QED BY <2>1, MovesOn DEF LockAlive, TempAlive
<1>12. ASSUME NEW p \in Saver, CloseTemp(p) PROVE Kept
  <2>1. /\ pc[p] = "close" /\ pc' = [pc EXCEPT ![p] = "rename"]
        /\ tempFd' = [tempFd EXCEPT ![p] = None] /\ UNCHANGED <<lockAt, tempAt, lockFd>>
    BY <1>12 DEF CloseTemp, Goto, paths
  <2>2. pc = [q \in Saver |-> pc[q]] /\ tempFd = [q \in Saver |-> tempFd[q]]
    BY DEF TidyInv, TInv, TypeOK
  <2>3. /\ pc'[p] = "rename" /\ tempFd'[p] = None
        /\ \A q \in Saver : q # p => pc'[q] = pc[q] /\ tempFd'[q] = tempFd[q]
    BY <2>1, <2>2
  <2>4. Removers'
    BY <2>1, <2>3 DEF TidyInv, Removers, LockAlive, TempAlive
  <2>5. LockOpened'
    BY <2>1, <2>3 DEF TidyInv, LockOpened, LockAlive
  <2>6. KindsApart'
    <3>1. TempInode' \subseteq TempInode \cup {None} /\ LockInode' = LockInode
      BY <2>1, <2>3 DEF LockInode, TempInode
    <3> QED BY <3>1 DEF TidyInv, KindsApart
  <2> QED BY <2>4, <2>5, <2>6
<1>13. ASSUME NEW p \in Saver, Unlock(p) PROVE Kept
  <2>1. /\ pc[p] = "unlock" /\ pc' = [pc EXCEPT ![p] = "closeLock"] /\ lockAt' = None
        /\ UNCHANGED <<tempAt, lockFd, tempFd>>
    BY <1>13 DEF Unlock, Goto
  <2>2. pc = [q \in Saver |-> pc[q]]
    BY DEF TidyInv, TInv, TypeOK
  <2>3. pc'[p] = "closeLock" /\ \A q \in Saver : q # p => pc'[q] = pc[q]
    BY <2>1, <2>2
  <2>4. Removers'
    BY <2>1, <2>3 DEF TidyInv, Removers, TempAlive
  <2>5. LockOpened'
    BY <2>1, <2>3 DEF TidyInv, LockOpened, LockAlive
  <2>6. KindsApart'
    <3>1. LockInode' \subseteq LockInode \cup {None} /\ TempInode' = TempInode
      BY <2>1 DEF LockInode, TempInode
    <3> QED BY <3>1 DEF TidyInv, KindsApart
  <2> QED BY <2>4, <2>5, <2>6
<1>14. ASSUME NEW p \in Saver, CloseLock(p) PROVE Kept
  <2>1. /\ pc[p] = "closeLock" /\ pc' = [pc EXCEPT ![p] = "idle"]
        /\ lockFd' = [lockFd EXCEPT ![p] = None] /\ UNCHANGED <<lockAt, tempAt, tempFd>>
    BY <1>14 DEF CloseLock, Goto, paths
  <2>2. pc = [q \in Saver |-> pc[q]] /\ lockFd = [q \in Saver |-> lockFd[q]]
    BY DEF TidyInv, TInv, TypeOK
  <2>3. /\ pc'[p] = "idle" /\ lockFd'[p] = None
        /\ \A q \in Saver : q # p => pc'[q] = pc[q] /\ lockFd'[q] = lockFd[q]
    BY <2>1, <2>2
  <2>4. Removers'
    BY <2>1, <2>3 DEF TidyInv, Removers, LockAlive, TempAlive
  <2>5. LockOpened'
    BY <2>1, <2>3 DEF TidyInv, LockOpened, LockAlive
  <2>6. KindsApart'
    <3>1. LockInode' \subseteq LockInode \cup {None} /\ TempInode' = TempInode
      BY <2>1, <2>3 DEF LockInode, TempInode
    <3> QED BY <3>1 DEF TidyInv, KindsApart
  <2> QED BY <2>4, <2>5, <2>6
<1>15. ASSUME \/ \E l \in Loader : LoadOpen(l) \/ LoadClose(l)
              \/ DirSync \/ UNCHANGED vars PROVE Kept
  <2>1. UNCHANGED <<lockAt, tempAt, lockFd, tempFd, pc>>
    BY <1>15 DEF LoadOpen, LoadClose, DirSync, vars, paths, calls
  <2> QED BY <2>1 DEF TidyInv, Removers, LockOpened, KindsApart, LockInode, TempInode
<1>16. ~ PowerLoss /\ \A h \in Process : ~ Crash(h)
  BY DEF PowerLoss, Crash
<1>17. ASSUME NEW p \in Saver, TempFails(p) \/ TempBusy(p) \/ WriteFails(p) \/ RenameFails(p) PROVE Kept
  <2>1. pc[p] \in LockAlive /\ Abandon(p)
    BY <1>17 DEF TempFails, TempBusy, WriteFails, RenameFails, LockAlive
  <2> QED BY <1>7, <2>1
<1>18. Kept
  BY <1>1, <1>2, <1>3, <1>4, <1>5, <1>6, <1>8, <1>9, <1>10, <1>11, <1>12, <1>13, <1>14,
     <1>15, <1>16, <1>17 DEF Next, Step
<1> QED BY <1>0, <1>18 DEF TidyInv

\* "The lock is released and its file removed": when no Save is running, neither a lock file nor
\* a temporary file is left (P2PmsgMgr::Save), for any number of savers in any processes,
\* however often one retries and wherever a Save fails, as long as no process dies in one and
\* flock answers.
THEOREM NothingLeft == ASSUME MayCrash = FALSE, FlockMayFail = FALSE PROVE Spec => []Tidy
<1>1. TidyInv => Tidy
  BY DEF TidyInv, Removers, Tidy, LockAlive, TempAlive
<1>2. TidyInv /\ [Next]_vars => TidyInv'
  BY TidyStep
<1> QED BY <1>1, <1>2, TidyStarts, PTL DEF Spec
=============================================================================
