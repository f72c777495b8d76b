--------------------------- MODULE CompletionPort ---------------------------
(***************************************************************************)
(* One I/O completion port of Platform/p2piocp.cpp over io_uring.  The     *)
(* pump, the thread that calls GetQueuedCompletionStatus, is the only one  *)
(* that submits to the ring.  Other threads push packets and requests on a *)
(* queue and wake the pump through an eventfd, which the ring polls.  A    *)
(* socket may be closed by any thread while operations on it are queued,   *)
(* prepared, in the kernel or completed and not yet handed back.           *)
(*                                                                         *)
(* Reads stand for connects and serial polls as well: one entry, one       *)
(* completion.  Accepts, the plain cancel call and the end of the port are *)
(* not modelled.                                                           *)
(***************************************************************************)
EXTENDS Integers, Sequences, FiniteSets, SequencesExt

CONSTANTS Caller,     \* the threads other than the pump
          Op,         \* the OVERLAPPEDs
          Writes,     \* those that write; the others read
          Packet,     \* what is posted, each once
          Fd,         \* descriptor numbers
          Files,      \* how many sockets are opened, one after the other
          Parts,      \* the length of a write
          Slots,      \* the entries of the submission queue
          MayRefuse,  \* TRUE: io_uring_submit answers -EBUSY while CQEs wait
          None

ASSUME PortAssumption ==
  /\ Writes \subseteq Op /\ Op \cap Packet = {} /\ Fd \subseteq Nat
  /\ None \notin Op \cup Packet \cup Fd \cup 1 .. Files
  /\ IsFiniteSet(Caller) /\ IsFiniteSet(Op)
  /\ Files \in Nat /\ Parts \in Nat \ {0} /\ Slots \in Nat \ {0}
  /\ MayRefuse \in BOOLEAN

VARIABLES file,    \* file[fd]: the socket a descriptor number stands for, or None
          opened,  \* how many sockets were opened; socket f has the key f
          assoc,   \* assoc[fd]: its completion key, or None
          ov,      \* the OVERLAPPED of each operation
          post,    \* how far each packet has come
          queue,   \* the queue that the pump drains
          call,    \* what each caller is in the middle of
          ring,    \* the submission side, and what the kernel holds
          pump,    \* where the pump is
          packet   \* what GetQueuedCompletionStatus handed back last

table == <<file, opened, assoc>>
vars == <<table, ov, post, queue, call, ring, pump, packet>>
-----------------------------------------------------------------------------
File == 1 .. Files

\* An OVERLAPPED not in use, and nothing handed back.  on is not in the code:
\* the socket an operation was asked for.
FreeOv == [pending |-> FALSE, fd |-> None, key |-> None, done |-> 0, on |-> None]
NoPacket == [op |-> None, how |-> "none", key |-> None, on |-> None]

\* What is queued or prepared; file is the socket a cancel holds a dup of.
Item(kind, op, fd, f) == [kind |-> kind, op |-> op, fd |-> fd, file |-> f]
Poll == Item("poll", None, None, None)
NoItem == Item("none", None, None, None)
Cqe(how, op, n) == [how |-> how, op |-> op, n |-> n]

Idle == [pc |-> "idle", item |-> NoItem, closing |-> None]

\* Of the code: entries prepared and not yet submitted, submit_pending,
\* evfd_armed, cancel_dups as the sockets they keep open.  Of the kernel:
\* operations in flight and their sockets, completions, whether the eventfd is
\* polled, and whether it is readable.
FreshRing ==
  [sq |-> <<>>, flush |-> FALSE, armed |-> FALSE, dups |-> {},
   inflight |-> [o \in Op |-> None], cq |-> <<>>, polled |-> FALSE, signalled |-> FALSE]

Init ==
  /\ file = [d \in Fd |-> None] /\ opened = 0
  /\ assoc = [d \in Fd |-> None]
  /\ ov = [o \in Op |-> FreeOv]
  /\ post = [p \in Packet |-> "unposted"]
  /\ queue = <<>> /\ call = [c \in Caller |-> Idle]
  /\ ring = FreshRing
  /\ pump = [pc |-> "out", owner |-> FALSE]
  /\ packet = NoPacket

\* A thread is closing the descriptor.
Closing(d) == \E c \in Caller : call[c].closing = d
IsOpen(f) == \E d \in Fd : file[d] = f /\ ~Closing(d)

\* A socket is opened, on the lowest free number, and associated with the port.
Open ==
  /\ opened < Files
  /\ \E d \in Fd : /\ file[d] = None /\ \A e \in Fd : file[e] = None => d <= e
                   /\ file' = [file EXCEPT ![d] = opened + 1]
                   /\ assoc' = [assoc EXCEPT ![d] = opened + 1]
  /\ opened' = opened + 1
  /\ UNCHANGED <<ov, post, queue, call, ring, pump, packet>>
-----------------------------------------------------------------------------
(* The kernel *)

Woken(r) == \E n \in DOMAIN r.cq : r.cq[n].how \in {"wake", "wakeLast"}

\* The poll of the eventfd completes; wakes not yet seen are one completion.
Signal(r, how) ==
  IF r.polled /\ r.signalled /\ ~Woken(r)
    THEN [r EXCEPT !.cq = Append(@, Cqe(how, None, 0)), !.polled = how = "wake"]
    ELSE r

\* The operations a cancel matches are those on the file its own descriptor
\* stands for: the dup, which no other socket can take over.
MatchedByNumber(e) == file[e.fd]
Matched(e) == e.file

\* One entry reaches the kernel, which looks up its descriptor then.
Accept(r, e) ==
  CASE e.kind = "poll" -> Signal([r EXCEPT !.polled = TRUE], "wake")
    [] e.kind = "io" /\ file[e.fd] = None ->
         [r EXCEPT !.cq = Append(@, Cqe("failed", e.op, 0))]
    [] e.kind = "io" /\ file[e.fd] # None ->
         [r EXCEPT !.inflight[e.op] = file[e.fd]]
    [] e.kind = "cancel" ->
         LET hit == {o \in Op : r.inflight[o] # None /\ r.inflight[o] = Matched(e)}
             aborts == SetToSeq({Cqe("aborted", o, 0) : o \in hit}) IN
           [r EXCEPT !.inflight = [o \in Op |-> IF o \in hit THEN None ELSE @[o]],
                     !.cq = @ \o aborts \o <<Cqe("cancelled", None, 0)>>]

\* io_uring_submit: everything prepared goes in, or nothing does.
MayBeRefused(r) == MayRefuse /\ r.cq # <<>>
Submitted(r) == FoldLeft(Accept, [r EXCEPT !.sq = <<>>], r.sq)

\* An operation moves bytes of the socket it is on, or fails.
Complete(o) ==
  /\ ring.inflight[o] # None
  /\ \/ \E n \in 1 .. IF o \in Writes THEN Parts - ov[o].done ELSE 1 :
          ring' = [ring EXCEPT !.inflight[o] = None, !.cq = Append(@, Cqe("moved", o, n))]
     \/ ring' = [ring EXCEPT !.inflight[o] = None, !.cq = Append(@, Cqe("failed", o, 0))]
  /\ UNCHANGED <<table, ov, post, queue, call, pump, packet>>
-----------------------------------------------------------------------------
(* The submission plumbing, on the pump's thread.  Each operator gives the   *)
(* rings that may come out, as every submission may be refused.              *)

RefusedEarly(r) == [r EXCEPT !.flush = TRUE, !.dups = {}]
RefusedUnseen(r) == r
Refused(r) == [r EXCEPT !.flush = TRUE]
RefusedOf(r) == IF MayBeRefused(r) THEN {Refused(r)} ELSE {}

RingSubmit(r) ==
  RefusedOf(r) \cup {[Submitted(r) EXCEPT !.flush = FALSE, !.dups = {}]}

\* get_sqe: a full submission queue is flushed once, and may stay full.
HasRoomForOneMore(r) == Len(r.sq) <= Slots
HasRoom(r) == Len(r.sq) < Slots
GetSqe(r) == IF HasRoom(r) THEN {r} ELSE RefusedOf(r) \cup {Submitted(r)}

\* submit_qitem, once there is room.
Prepared(r, e) == [r EXCEPT !.sq = Append(@, e), !.dups = @ \cup ({e.file} \ {None})]

\* submit_now: ok is FALSE when no entry was to be had.
SubmitNow(r, e) ==
  UNION {IF HasRoom(g) THEN {[ring |-> s, ok |-> TRUE] : s \in RingSubmit(Prepared(g, e))}
                       ELSE {[ring |-> g, ok |-> FALSE]} : g \in GetSqe(r)}

ArmEventfd(r) == {[s.ring EXCEPT !.armed = s.ok] : s \in SubmitNow(r, Poll)}
-----------------------------------------------------------------------------
(* Calls from other threads *)

\* The key is bound when the operation is asked for.
Asked(o, d) ==
  [pending |-> TRUE, fd |-> d, key |-> assoc[d], done |-> 0, on |-> file[d]]
MayAsk(o, d) == ~ov[o].pending /\ file[d] # None /\ ~Closing(d)

\* A read or write from a thread that is not the pump: the OVERLAPPED is filled
\* in, the request is pushed, the pump is woken.
Ask(c, o, d) ==
  /\ call[c] = Idle /\ MayAsk(o, d)
  /\ ov' = [ov EXCEPT ![o] = Asked(o, d)]
  /\ call' = [call EXCEPT ![c] = [@ EXCEPT !.pc = "push", !.item = Item("io", o, d, None)]]
  /\ UNCHANGED <<table, post, queue, ring, pump, packet>>

\* PostQueuedCompletionStatus
Post(c, p) ==
  /\ call[c] = Idle /\ post[p] = "unposted"
  /\ post' = [post EXCEPT ![p] = "pending"]
  /\ call' = [call EXCEPT ![c] = [@ EXCEPT !.pc = "push", !.item = Item("post", p, None, None)]]
  /\ UNCHANGED <<table, ov, queue, ring, pump, packet>>

\* p2p_iocp_on_close_fd: the association goes first; the cancel carries a dup.
\* No thread is in the middle of a request on the descriptor that is closed.
Close(c, d) ==
  /\ call[c] = Idle /\ file[d] # None /\ ~Closing(d)
  /\ \A e \in Caller : call[e].item.fd # d
  /\ assoc' = [assoc EXCEPT ![d] = None]
  /\ call' = [call EXCEPT ![c] = [pc |-> "push", item |-> Item("cancel", None, d, file[d]),
                                  closing |-> d]]
  /\ UNCHANGED <<file, opened, ov, post, queue, ring, pump, packet>>

Push(c) ==
  /\ call[c].pc = "push"
  /\ queue' = Append(queue, call[c].item)
  /\ call' = [call EXCEPT ![c] = [@ EXCEPT !.pc = "wake", !.item = NoItem]]
  /\ UNCHANGED <<table, ov, post, ring, pump, packet>>

\* The write to the eventfd.  Its poll may end there, and must be armed again.
Wake(c) ==
  /\ call[c].pc = "wake"
  /\ \E how \in {"wake", "wakeLast"} :
       ring' = Signal([ring EXCEPT !.signalled = TRUE], how)
  /\ call' = [call EXCEPT ![c] =
                IF call[c].closing = None THEN Idle ELSE [@ EXCEPT !.pc = "close"]]
  /\ UNCHANGED <<table, ov, post, queue, pump, packet>>

\* close(2), on return from the hook.
CloseFd(c) ==
  /\ call[c].pc = "close"
  /\ file' = [file EXCEPT ![call[c].closing] = None]
  /\ call' = [call EXCEPT ![c] = Idle]
  /\ UNCHANGED <<opened, assoc, ov, post, queue, ring, pump, packet>>
-----------------------------------------------------------------------------
(* The pump, between two calls of GetQueuedCompletionStatus *)

\* A read or write from the pump is submitted at once; without an entry the call
\* fails and no packet is promised.
PumpAsk(o, d) ==
  /\ pump.pc = "out" /\ pump.owner /\ MayAsk(o, d)
  /\ \E s \in SubmitNow(ring, Item("io", o, d, None)) :
       /\ ring' = s.ring
       /\ ov' = IF s.ok THEN [ov EXCEPT ![o] = Asked(o, d)] ELSE ov
  /\ UNCHANGED <<table, post, queue, call, pump, packet>>

\* The pump closes a descriptor: the cancel is submitted before close(2).  When
\* it finds no entry it is lost.
PumpClose(d) ==
  /\ pump.pc = "out" /\ pump.owner /\ file[d] # None /\ ~Closing(d)
  /\ \A c \in Caller : call[c].item.fd # d
  /\ \E s \in SubmitNow(ring, Item("cancel", None, d, file[d])) : ring' = s.ring
  /\ assoc' = [assoc EXCEPT ![d] = None]
  /\ file' = [file EXCEPT ![d] = None]
  /\ UNCHANGED <<opened, ov, post, queue, call, pump, packet>>
-----------------------------------------------------------------------------
(* GetQueuedCompletionStatus *)

Goto(there) == pump' = [pump EXCEPT !.pc = there]

\* The first caller becomes the owner and arms the eventfd.
GetCall ==
  /\ pump.pc = "out"
  /\ packet' = NoPacket
  /\ pump' = [pc |-> "top", owner |-> TRUE]
  /\ IF pump.owner THEN UNCHANGED ring ELSE ring' \in ArmEventfd(ring)
  /\ UNCHANGED <<table, ov, post, queue, call>>

\* A flush that was refused is tried again.
Flush ==
  /\ pump.pc = "top"
  /\ IF ring.flush THEN ring' \in RingSubmit(ring) ELSE UNCHANGED ring
  /\ Goto("arm")
  /\ UNCHANGED <<table, ov, post, queue, call, packet>>

Arm ==
  /\ pump.pc = "arm"
  /\ IF ring.armed THEN UNCHANGED ring ELSE ring' \in ArmEventfd(ring)
  /\ Goto("drain")
  /\ UNCHANGED <<table, ov, post, queue, call, packet>>

\* What the call hands back.  The key is the one bound at submission.
KeyByNumber(o) == assoc[ov[o].fd]
Key(o) == ov[o].key
Answer(o, how) ==
  /\ packet' = [op |-> o, how |-> how, key |-> Key(o), on |-> ov[o].on]
  /\ ov' = [ov EXCEPT ![o] = FreeOv]
  /\ Goto("out")
  /\ UNCHANGED post
HandBack(item) ==
  IF item.op \in Op
    THEN Answer(item.op, "failed")
    ELSE /\ packet' = [NoPacket EXCEPT !.op = item.op, !.how = "posted"]
         /\ post' = [post EXCEPT ![item.op] = "taken"]
         /\ Goto("out")
         /\ UNCHANGED ov

\* A packet waits for a caller.  A request that finds no entry comes back as a
\* packet of its own; a cancel that finds none is lost.
FailureDropped(e) == <<>>
Failure(e) == IF e.op = None THEN <<>> ELSE <<[e EXCEPT !.kind = "post"]>>
SubmitQitem(s, e) ==
  IF e.kind = "post" THEN {[s EXCEPT !.posts = Append(@, e)]}
  ELSE {IF HasRoom(g) THEN [s EXCEPT !.ring = Prepared(g, e), !.some = TRUE]
                      ELSE [s EXCEPT !.ring = g, !.failed = @ \o Failure(e)] : g \in GetSqe(s.ring)}
SubmitAll ==
  FoldLeft(LAMBDA all, e : UNION {SubmitQitem(s, e) : s \in all},
           {[ring |-> ring, posts |-> <<>>, failed |-> <<>>, some |-> FALSE]}, queue)

\* drain_queue, under the queue's lock: every request is prepared, all are
\* submitted, and the first packet is handed back.
Drain ==
  /\ pump.pc = "drain"
  /\ \E s \in SubmitAll :
       LET back == s.posts \o s.failed IN
         /\ ring' \in IF s.some THEN RingSubmit(s.ring) ELSE {s.ring}
         /\ IF back = <<>>
              THEN queue' = <<>> /\ Goto("wait") /\ UNCHANGED <<ov, post, packet>>
              ELSE queue' = Tail(back) /\ HandBack(Head(back))
  /\ UNCHANGED <<table, call>>

\* The wait ends with nothing.
Timeout ==
  /\ pump.pc = "wait" /\ ring.cq = <<>>
  /\ Goto("out")
  /\ UNCHANGED <<table, ov, post, queue, call, ring, packet>>

\* The next completion is taken off the ring.
Took(how) ==
  /\ pump.pc = "wait" /\ ring.cq # <<>>
  /\ Head(ring.cq).how \in how
Rest == [ring EXCEPT !.cq = Tail(@)]
Again == Goto("top") /\ UNCHANGED <<table, post, queue, call, packet>>

\* A wake: the eventfd is read, its poll armed again if it ended, the queue
\* drained once more.
Rested == [Rest EXCEPT !.signalled = FALSE]
Unarmed(r) == {r}
Rearmed(r) == ArmEventfd(r)
TakeWake == Took({"wake"}) /\ ring' = Rested /\ Again /\ UNCHANGED ov
TakeLastWake == Took({"wakeLast"}) /\ ring' \in Rearmed(Rested) /\ Again /\ UNCHANGED ov

\* A cancel's own completion.
TakeCancel == Took({"cancelled"}) /\ ring' = Rest /\ Again /\ UNCHANGED ov

\* An operation that failed, ended or was cancelled.
TakeFailed ==
  /\ Took({"failed", "aborted"})
  /\ Answer(Head(ring.cq).op, Head(ring.cq).how)
  /\ ring' = Rest
  /\ UNCHANGED <<table, queue, call>>

\* A write is over when all of it is out.
IsAll(c) == c.op \in Writes => ov[c.op].done + c.n >= Parts
TakeDone ==
  /\ Took({"moved"}) /\ IsAll(Head(ring.cq))
  /\ Answer(Head(ring.cq).op, "ok")
  /\ ring' = Rest
  /\ UNCHANGED <<table, queue, call>>

\* A short write: the remainder is submitted on the descriptor's number, or the
\* write fails.
TakeShort ==
  /\ Took({"moved"}) /\ ~IsAll(Head(ring.cq))
  /\ LET c == Head(ring.cq) IN
       \E s \in SubmitNow(Rest, Item("io", c.op, ov[c.op].fd, None)) :
         /\ ring' = s.ring
         /\ IF s.ok THEN Goto("top") /\ ov' = [ov EXCEPT ![c.op].done = @ + c.n]
                                     /\ UNCHANGED <<post, packet>>
                    ELSE Answer(c.op, "failed")
  /\ UNCHANGED <<table, queue, call>>
-----------------------------------------------------------------------------
\* What GetQueuedCompletionStatus does next, and what another thread's call does.
PumpStep ==
  \/ GetCall \/ Flush \/ Arm \/ Drain
  \/ TakeWake \/ TakeLastWake \/ TakeCancel \/ TakeFailed \/ TakeDone \/ TakeShort
CallStep(c) == Push(c) \/ Wake(c) \/ CloseFd(c)

Next ==
  \/ PumpStep \/ Timeout \/ Open
  \/ \E o \in Op : Complete(o)
  \/ \E d \in Fd : PumpClose(d) \/ \E o \in Op : PumpAsk(o, d)
  \/ \E c \in Caller : \/ CallStep(c)
                       \/ \E p \in Packet : Post(c, p)
                       \/ \E d \in Fd : Close(c, d) \/ \E o \in Op : Ask(c, o, d)

Spec == Init /\ [][Next]_vars

\* The pump calls GetQueuedCompletionStatus again and again, and threads run.
FairSpec == Spec /\ WF_vars(PumpStep) /\ \A c \in Caller : WF_vars(CallStep(c))
-----------------------------------------------------------------------------
\* What a queue or the submission queue holds, and what the kernel completes.
Entries == UNION {[kind : {"io"}, op : Op, fd : Fd, file : {None}],
                  [kind : {"cancel"}, op : {None}, fd : Fd, file : File],
                  [kind : {"post"}, op : Op \cup Packet, fd : Fd \cup {None}, file : {None}],
                  {Poll, NoItem}}
Cqes == UNION {[how : {"failed", "aborted"}, op : Op, n : {0}],
               [how : {"moved"}, op : Op, n : 1 .. Parts],
               [how : {"wake", "wakeLast", "cancelled"}, op : {None}, n : {0}]}

\* Type invariant; get_sqe never prepares more entries than the submission queue
\* has, full or not, refused or not.
TypeOK ==
  /\ file \in [Fd -> File \cup {None}] /\ opened \in 0 .. Files
  /\ assoc \in [Fd -> File \cup {None}]
  /\ ov \in [Op -> [pending : BOOLEAN, fd : Fd \cup {None}, key : File \cup {None},
                    done : 0 .. Parts, on : File \cup {None}]]
  /\ post \in [Packet -> {"unposted", "pending", "taken"}]
  /\ queue \in Seq(Entries)
  /\ call \in [Caller -> [pc : {"idle", "push", "wake", "close"}, item : Entries,
                          closing : Fd \cup {None}]]
  /\ ring \in [sq : Seq(Entries), flush : BOOLEAN, armed : BOOLEAN, dups : SUBSET File,
               inflight : [Op -> File \cup {None}], cq : Seq(Cqes),
               polled : BOOLEAN, signalled : BOOLEAN]
  /\ Len(ring.sq) <= Slots
  /\ pump \in [pc : {"out", "top", "arm", "drain", "wait"}, owner : BOOLEAN]
  /\ packet \in [op : Op \cup Packet \cup {None}, key : File \cup {None},
                 how : {"none", "ok", "failed", "aborted", "posted"},
                 on : File \cup {None}]

\* A completion carries the key of the socket the operation was asked for, also
\* when that socket was closed since and its number given to another (note on
\* OVERLAPPED::_p2p_key).
KeyBound == packet.op \in Op => packet.key = packet.on
=============================================================================
