-------------------------- MODULE MCCompletionPort --------------------------
(* CompletionPort with a few threads, operations and sockets, and the       *)
(* properties only TLC evaluates.                                           *)
EXTENDS CompletionPort

\* How many times an operation or a packet is on its way to its completion: in a
\* call, in the queue, prepared, in the kernel, and completed.
Times(seq, x) == Cardinality({n \in DOMAIN seq : seq[n].op = x})
Places(x) ==
  Cardinality({c \in Caller : call[c].item.op = x})
    + Times(queue, x) + Times(ring.sq, x) + Times(ring.cq, x)
    + (IF x \in Op /\ ring.inflight[x] # None THEN 1 ELSE 0)

\* "So the ops are delayed, never lost, and never completed twice" (note on
\* submit_pending), and no posted packet is either: what was promised is in
\* exactly one place, through refused submissions, lost entries and short writes.
OnePlace ==
  /\ \A o \in Op : Places(o) = IF ov[o].pending THEN 1 ELSE 0
  /\ \A p \in Packet : Places(p) = IF post[p] = "pending" THEN 1 ELSE 0

\* Until a cancel has reached the kernel the file its dup stands for is kept
\* open, so that its number cannot come to mean another socket (note in
\* p2p_iocp_on_close_fd).
CancelKeepsFile ==
  \A n \in DOMAIN ring.sq : ring.sq[n].kind = "cancel" => ring.sq[n].file \in ring.dups

\* A cancel aborts the operations of the socket that is closed, and none of "a
\* healthy new connection" on the same number (same note).
OwnAborts ==
  \A n \in DOMAIN ring.cq :
    ring.cq[n].how = "aborted" => ~IsOpen(ov[ring.cq[n].op].on)

\* States that differ only in what was handed back last are one: no step reads it,
\* and KeyBound asks only whether its key is its socket's.
PortView == <<table, ov, post, queue, call, ring, pump, packet.key = packet.on>>

\* Operations, packets and cancels are kept apart: each is somewhere, and what
\* is done to one is done to no other.
PortWhole == TypeOK /\ OnePlace /\ CancelKeepsFile /\ OwnAborts

\* An operation that was promised a packet gets it, or the kernel waits for it
\* on an open socket; posts are handed back before completions, which is why
\* they must not go on for ever (a packet is posted once here).
Answered ==
  \A o \in Op :
    ov[o].pending ~> ~ov[o].pending \/ (\E f \in File : ring.inflight[o] = f /\ IsOpen(f))

\* A post is heard: the pump is woken from a wait without a timeout.
PostHeard == \A p \in Packet : post[p] = "pending" ~> post[p] = "taken"

\* What was promised is delivered.
Delivered == Answered /\ PostHeard
=============================================================================
