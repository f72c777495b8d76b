----------------------------- MODULE StoreSave -----------------------------
(***************************************************************************)
(* P2PmsgMgr::Save and Load on one store file, over the POSIX arm of       *)
(* Platform/p2pfile.h: the lock file beside the store, the temporary file, *)
(* the rename, and what a crash or a loss of power leaves of them.         *)
(*                                                                         *)
(* A path is a variable that holds an inode or None; an open descriptor is *)
(* an inode too, and outlives the path it was opened by.  An inode's       *)
(* content is its parts, each Nil until a write(2) puts an image's part    *)
(* there.  flock(2) belongs to the descriptor: who holds it follows from   *)
(* how far each Save has come.                                             *)
(***************************************************************************)
EXTENDS Integers

CONSTANTS Saver,         \* threads that call Save on the store
          Process,       \* the processes they run in,
          Home,          \* Home[p]: p's process
          Tid,           \* Tid[p]: what GetCurrentThreadId says in p
          Loader,        \* threads that call Load
          Image,         \* heap images
          Inode,         \* a bound on the files that exist at once
          Parts,         \* write(2) calls that carry an image
          MaxTries,      \* Save's bound on retries of a lock that is held
          FlockMayFail,  \* TRUE: flock(2) may fail for want of locks
          FlushMayFail,  \* TRUE: fsync(2) may report an error
          MayCrash,      \* TRUE: processes crash and power is lost
          None, Nil      \* no inode; nothing written

ASSUME StoreAssumption ==
  /\ Home \in [Saver -> Process]
  /\ \A p, q \in Saver : Home[p] = Home[q] /\ Tid[p] = Tid[q] => p = q
  /\ Inode \subseteq Nat /\ Nil \notin Image
  /\ Parts \in Nat \ {0} /\ MaxTries \in Nat
  /\ None \notin Inode /\ None \notin [1 .. Parts -> Image \cup {Nil}]
  /\ FlockMayFail \in BOOLEAN /\ FlushMayFail \in BOOLEAN /\ MayCrash \in BOOLEAN

VARIABLES storeAt,  \* the inode the store's path leads to, or None
          dirAt,    \* the same on the disk: what a rename must still reach
          lockAt,   \* the path of the lock file
          tempAt,   \* tempAt[t]: the path of the temporary file of thread id t
          data,     \* the content of each inode,
          synced,   \* and the content it has on the disk
          pc,       \* where each saver is in Save
          image,    \* the heap image it saves
          tries,    \* its retries of the lock
          lockFd, tempFd,   \* its descriptors
          wrote,    \* the parts it has written
          outcome,  \* what its last Save returned
          loadFd    \* the descriptor of each loader, or None

paths == <<storeAt, dirAt, lockAt, tempAt>>
files == <<data, synced>>
calls == <<pc, image, tries, lockFd, tempFd, wrote, outcome>>
vars == <<paths, files, calls, loadFd>>
-----------------------------------------------------------------------------
TempName == {Tid[p] : p \in Saver}
Content == [1 .. Parts -> Image \cup {Nil}]
Empty == [k \in 1 .. Parts |-> Nil]
Whole(v) == [k \in 1 .. Parts |-> v]
IsWhole(c) == \E v \in Image : c = Whole(v)

Init ==
  /\ storeAt = None /\ dirAt = None /\ lockAt = None
  /\ tempAt = [t \in TempName |-> None]
  /\ data = [i \in Inode |-> Empty] /\ synced = data
  /\ pc = [p \in Saver |-> "idle"]
  /\ image \in [Saver -> Image]
  /\ tries = [p \in Saver |-> 0]
  /\ lockFd = [p \in Saver |-> None] /\ tempFd = [p \in Saver |-> None]
  /\ wrote = [p \in Saver |-> 0]
  /\ outcome = [p \in Saver |-> "none"]
  /\ loadFd = [l \in Loader |-> None]

\* An inode lives while a path or a descriptor leads to it.
InUse == {storeAt, dirAt, lockAt}
           \cup {tempAt[t] : t \in TempName} \cup {loadFd[l] : l \in Loader}
           \cup {lockFd[p] : p \in Saver} \cup {tempFd[p] : p \in Saver}

\* open(2) with O_CREAT: the inode at the path, or a new one.
Opened(at, i) ==
  \/ at # None /\ i = at
  \/ at = None /\ i \in Inode \ InUse /\ \A j \in Inode \ InUse : i <= j

\* Who holds the lock on inode i: savers past their flock that have not yet
\* closed the descriptor.
LockHeld(p) == pc[p] \notin {"idle", "lock", "flock"}
TempHeld(p) == pc[p] \in {"write", "flush", "close"}
LockedBy(p, i) == (LockHeld(p) /\ lockFd[p] = i) \/ (TempHeld(p) /\ tempFd[p] = i)
Locked(i) == \E p \in Saver : LockedBy(p, i)

Goto(p, there) == pc' = [pc EXCEPT ![p] = there]
-----------------------------------------------------------------------------
\* A caller enters Save with the heap image v.
SaveCall(p) ==
  /\ pc[p] = "idle"
  /\ \E v \in Image : image' = [image EXCEPT ![p] = v]
  /\ tries' = [tries EXCEPT ![p] = 0]
  /\ wrote' = [wrote EXCEPT ![p] = 0]
  /\ outcome' = [outcome EXCEPT ![p] = "none"]
  /\ Goto(p, "lock")
  /\ UNCHANGED <<paths, files, lockFd, tempFd, loadFd>>

\* CreateFileW(.lock), first half: open(2) creates the file or finds it.
LockOpen(p) ==
  /\ pc[p] = "lock"
  /\ \E i \in Inode : /\ Opened(lockAt, i)
                      /\ lockAt' = i
                      /\ lockFd' = [lockFd EXCEPT ![p] = i]
  /\ Goto(p, "flock")
  /\ UNCHANGED <<storeAt, dirAt, tempAt, files, image, tries, tempFd, wrote, outcome, loadFd>>

\* open(2) fails, or flock(2) does for another reason than a lock that is held:
\* only a sharing violation is retried.
LockFails(p) ==
  /\ pc[p] = "lock" \/ (pc[p] = "flock" /\ FlockMayFail)
  /\ lockFd' = [lockFd EXCEPT ![p] = None]
  /\ outcome' = [outcome EXCEPT ![p] = "failed"]
  /\ Goto(p, "idle")
  /\ UNCHANGED <<paths, files, image, tries, tempFd, wrote, loadFd>>

\* CreateFileW(.lock), second half: flock(2), on the inode that was opened.
\* Nothing looks whether the path still leads there.
Flock(p) ==
  /\ pc[p] = "flock" /\ ~Locked(lockFd[p])
  /\ Goto(p, "temp")
  /\ UNCHANGED <<paths, files, image, tries, lockFd, tempFd, wrote, outcome, loadFd>>

\* The lock is held: Save closes its descriptor, sleeps and tries again, up to
\* MaxTries times.
MayRetryForever(p) == TRUE
MayRetry(p) == tries[p] < MaxTries
LockBusy(p) ==
  /\ pc[p] = "flock" /\ Locked(lockFd[p])
  /\ lockFd' = [lockFd EXCEPT ![p] = None]
  /\ \/ /\ MayRetry(p)
        /\ tries' = [tries EXCEPT ![p] = IF @ < MaxTries THEN @ + 1 ELSE @]
        /\ Goto(p, "lock")
        /\ UNCHANGED outcome
     \/ /\ ~MayRetry(p)
        /\ outcome' = [outcome EXCEPT ![p] = "failed"]
        /\ Goto(p, "idle")
        /\ UNCHANGED tries
  /\ UNCHANGED <<paths, files, image, tempFd, wrote, loadFd>>
-----------------------------------------------------------------------------
\* CreateFileW(temp): open(2) truncates whatever the name leads to, before
\* flock(2) is tried.
TempOpen(p) ==
  /\ pc[p] = "temp"
  /\ \E i \in Inode : /\ Opened(tempAt[Tid[p]], i)
                      /\ tempAt' = [tempAt EXCEPT ![Tid[p]] = i]
                      /\ tempFd' = [tempFd EXCEPT ![p] = i]
                      /\ data' = [data EXCEPT ![i] = Empty]
                      /\ synced' = IF tempAt[Tid[p]] = None
                                     THEN [synced EXCEPT ![i] = Empty] ELSE synced
  /\ Goto(p, "tempFlock")
  /\ UNCHANGED <<storeAt, dirAt, lockAt, image, tries, lockFd, wrote, outcome, loadFd>>

\* Every failure past the lock closes the temporary file if it is open,
\* deletes its name, and throws; the throw releases the lock.
Abandon(p) ==
  /\ tempFd' = [tempFd EXCEPT ![p] = None]
  /\ outcome' = [outcome EXCEPT ![p] = "failed"]
  /\ Goto(p, "discard")
  /\ UNCHANGED <<paths, files, image, tries, lockFd, wrote, loadFd>>

TempFails(p) == pc[p] = "temp" /\ Abandon(p)
TempBusy(p) ==
  pc[p] = "tempFlock" /\ (Locked(tempFd[p]) \/ FlockMayFail) /\ Abandon(p)
WriteFails(p) == pc[p] = "write" /\ Abandon(p)
RenameFails(p) == pc[p] = "rename" /\ Abandon(p)

WithoutTempKept(p) == tempAt
WithoutTemp(p) == [tempAt EXCEPT ![Tid[p]] = None]
Discard(p) ==
  /\ pc[p] = "discard"
  /\ tempAt' = WithoutTemp(p)
  /\ Goto(p, "unlock")
  /\ UNCHANGED <<storeAt, dirAt, lockAt, files, image, tries, lockFd, tempFd, wrote,
                 outcome, loadFd>>

TempFlock(p) ==
  /\ pc[p] = "tempFlock" /\ ~Locked(tempFd[p])
  /\ Goto(p, "write")
  /\ UNCHANGED <<paths, files, image, tries, lockFd, tempFd, wrote, outcome, loadFd>>

\* WriteFile: one write(2), at the descriptor's own offset.
LastPartEarly == Parts - 1
LastPartLate == Parts + 1
LastPart == Parts
Write(p) ==
  /\ pc[p] = "write"
  /\ wrote' = [wrote EXCEPT ![p] = @ + 1]
  /\ data' = [data EXCEPT ![tempFd[p]][wrote[p] + 1] = image[p]]
  /\ Goto(p, IF wrote[p] + 1 = LastPart THEN "flush" ELSE "write")
  /\ UNCHANGED <<paths, synced, image, tries, lockFd, tempFd, outcome, loadFd>>

\* FlushFileBuffers: its result is not looked at.
FlushedNot(p) == synced
Flushed(p) == [synced EXCEPT ![tempFd[p]] = data[tempFd[p]]]
Flush(p) ==
  /\ pc[p] = "flush"
  /\ \/ synced' = Flushed(p)
     \/ FlushMayFail /\ UNCHANGED synced
  /\ Goto(p, "close")
  /\ UNCHANGED <<paths, data, image, tries, lockFd, tempFd, wrote, outcome, loadFd>>

CloseTemp(p) ==
  /\ pc[p] = "close"
  /\ tempFd' = [tempFd EXCEPT ![p] = None]
  /\ Goto(p, "rename")
  /\ UNCHANGED <<paths, files, image, tries, lockFd, wrote, outcome, loadFd>>

\* MoveFileExW: rename(2), atomic for every reader of the path; the directory
\* is not flushed.
Rename(p) ==
  /\ pc[p] = "rename" /\ tempAt[Tid[p]] # None
  /\ storeAt' = tempAt[Tid[p]]
  /\ tempAt' = WithoutTemp(p)
  /\ outcome' = [outcome EXCEPT ![p] = "saved"]
  /\ Goto(p, "unlock")
  /\ UNCHANGED <<dirAt, lockAt, files, image, tries, lockFd, tempFd, wrote, loadFd>>

\* ~P2PsafeHANDLE, CloseHandle: the path of the lock file is removed, whatever
\* it leads to by now, and then the descriptor is closed.
Unlock(p) ==
  /\ pc[p] = "unlock"
  /\ lockAt' = None
  /\ Goto(p, "closeLock")
  /\ UNCHANGED <<storeAt, dirAt, tempAt, files, image, tries, lockFd, tempFd, wrote,
                 outcome, loadFd>>

CloseLock(p) ==
  /\ pc[p] = "closeLock"
  /\ lockFd' = [lockFd EXCEPT ![p] = None]
  /\ Goto(p, "idle")
  /\ UNCHANGED <<paths, files, image, tries, tempFd, wrote, outcome, loadFd>>
-----------------------------------------------------------------------------
\* Load opens the store, shared, reads all of it and closes it.
LoadOpen(l) ==
  /\ loadFd[l] = None /\ storeAt # None
  /\ loadFd' = [loadFd EXCEPT ![l] = storeAt]
  /\ UNCHANGED <<paths, files, calls>>

LoadClose(l) ==
  /\ loadFd[l] # None
  /\ loadFd' = [loadFd EXCEPT ![l] = None]
  /\ UNCHANGED <<paths, files, calls>>

\* A process ends in the middle of its calls: its descriptors are closed and
\* the paths stay as they are.
Crash(h) ==
  LET dead(f, v) == [p \in Saver |-> IF Home[p] = h THEN v ELSE f[p]] IN
    /\ MayCrash
    /\ pc' = dead(pc, "idle")
    /\ lockFd' = dead(lockFd, None) /\ tempFd' = dead(tempFd, None)
    /\ outcome' = dead(outcome, "none")
    /\ UNCHANGED <<paths, files, image, tries, wrote, loadFd>>

\* The directory reaches the disk in its own time.
DirSync ==
  /\ dirAt # storeAt
  /\ dirAt' = storeAt
  /\ UNCHANGED <<storeAt, lockAt, tempAt, files, calls, loadFd>>

\* Power is lost.  The store's path leads where it did or where the disk says,
\* and an inode keeps what was flushed, or more.  Left-over temporary and lock
\* files are as good as none: the next open truncates them and finds no lock.
PowerLoss ==
  /\ MayCrash
  /\ storeAt' \in {storeAt, dirAt} /\ dirAt' = storeAt'
  /\ \E kept \in SUBSET ({storeAt, dirAt} \ {None}) :
       data' = [i \in Inode |-> IF i \in kept THEN data[i] ELSE synced[i]]
  /\ synced' = data'
  /\ lockAt' = None /\ tempAt' = [t \in TempName |-> None]
  /\ pc' = [p \in Saver |-> "idle"]
  /\ lockFd' = [p \in Saver |-> None] /\ tempFd' = [p \in Saver |-> None]
  /\ outcome' = [p \in Saver |-> "none"]
  /\ loadFd' = [l \in Loader |-> None]
  /\ UNCHANGED <<image, tries, wrote>>
-----------------------------------------------------------------------------
\* The steps a Save takes by itself once it is called.
Step(p) ==
  \/ LockOpen(p) \/ LockFails(p) \/ Flock(p) \/ LockBusy(p)
  \/ TempOpen(p) \/ TempFails(p) \/ TempFlock(p) \/ TempBusy(p)
  \/ Write(p) \/ WriteFails(p) \/ Flush(p) \/ CloseTemp(p)
  \/ Rename(p) \/ RenameFails(p) \/ Discard(p) \/ Unlock(p) \/ CloseLock(p)

Next ==
  \/ \E p \in Saver : SaveCall(p) \/ Step(p)
  \/ \E l \in Loader : LoadOpen(l) \/ LoadClose(l)
  \/ \E h \in Process : Crash(h)
  \/ DirSync \/ PowerLoss

Spec == Init /\ [][Next]_vars
FairSpec == Spec /\ \A p \in Saver : WF_vars(Step(p))
-----------------------------------------------------------------------------
TypeOK ==
  /\ storeAt \in Inode \cup {None} /\ dirAt \in Inode \cup {None}
  /\ lockAt \in Inode \cup {None} /\ tempAt \in [TempName -> Inode \cup {None}]
  /\ data \in [Inode -> Content] /\ synced \in [Inode -> Content]
  /\ pc \in [Saver -> {"idle", "lock", "flock", "temp", "tempFlock", "write", "flush",
                       "close", "rename", "discard", "unlock", "closeLock"}]
  /\ image \in [Saver -> Image] /\ tries \in [Saver -> 0 .. MaxTries]
  /\ lockFd \in [Saver -> Inode \cup {None}] /\ tempFd \in [Saver -> Inode \cup {None}]
  /\ wrote \in [Saver -> 0 .. Parts]
  /\ outcome \in [Saver -> {"none", "saved", "failed"}]
  /\ loadFd \in [Loader -> Inode \cup {None}]

\* "There is no window in which the target is half-written" (P2PmsgMgr::Save):
\* the store's path never leads to anything but one caller's whole image, nor
\* does it after a crash or a loss of power.
StoreWhole == storeAt # None => IsWhole(data[storeAt])

\* A Load that overlaps any number of Saves reads one whole image: the inode it
\* opened is not written while it reads, or ever again.
ReaderWhole == \A l \in Loader : loadFd[l] # None => IsWhole(data[loadFd[l]])

\* "The lock is released and its file removed ... including on any throw": when
\* no Save is running, no process died in one and flock(2) answers, no lock file and
\* no temporary file is left.
Tidy ==
  (\A p \in Saver : pc[p] = "idle") =>
    lockAt = None /\ \A t \in TempName : tempAt[t] = None

\* "... back off briefly and retry, then fail cleanly": every Save returns,
\* however often the others save.
SaveReturns == \A p \in Saver : (pc[p] # "idle") ~> (pc[p] = "idle")

\* Every Save ends, and a saver that is done has cleaned up after itself.
SavesEnd == []Tidy /\ SaveReturns

\* The store's path changes from one caller's whole image to another's in one
\* instant, when that caller's Save succeeds, and a Load sees one instant of it.
ContentAt(c, at) == IF at = None THEN None ELSE c[at]
StoreValue == ContentAt(data, storeAt)
DiskValue == ContentAt(synced, dirAt)
Asked == [p \in Saver |-> IF pc[p] = "idle" THEN None ELSE Whole(image[p])]
Reading == [l \in Loader |-> ContentAt(data, loadFd[l])]
Promise == INSTANCE AtomicStore WITH
             Value <- {Whole(v) : v \in Image}, store <- StoreValue, disk <- DiskValue,
             asked <- Asked, reading <- Reading
Implements == Promise!ASpec
=============================================================================
