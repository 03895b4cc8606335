-------------------------- MODULE PointerDatagrams --------------------------
(***************************************************************************)
(* One end of the UDP fast path of pointer_datagram.rs: cumulative pointer *)
(* totals, and the ordered, acknowledged shadow of stateful input.         *)
(*                                                                         *)
(* A path is a record; an operation returns the next path, the packets it  *)
(* hands to the socket and its Result.  Sequences count from one, so zero  *)
(* is the code's None.  A packet sent twice is in `tx' once: the receiver  *)
(* drops a sequence it has seen, so redundancy and pacing intervals change *)
(* nothing here but the time of a flush.                                   *)
(***************************************************************************)
EXTENDS OutboundLanes

CONSTANTS PointerDevices,
          MaxTracked,     \* MAX_TRACKED_DEVICES
          MaxPacket,      \* the last datagram sequence (u64::MAX)
          MaxReliable,    \* MAX_RELIABLE_PENDING
          MaxAttempts,    \* MAX_RELIABLE_ATTEMPTS
          RecoverySplit,  \* RECOVERY_SPLIT_THRESHOLD
          RecoveryQueue   \* the 28 queued steps beyond which nothing is split

ASSUME DatagramAssumption ==
    /\ IsFiniteSet(PointerDevices) /\ PointerDevices \subseteq Nat \ {0}
    /\ {MaxTracked, MaxPacket, MaxReliable, MaxAttempts, RecoverySplit, RecoveryQueue}
            \subseteq Nat \ {0}

NoMessage == WireMessage("None", 0, 0, 0)

NoTotals == [d \in PointerDevices |-> 0]

NoPath == [up |-> FALSE, ready |-> FALSE, sendSeq |-> 1, recvSeq |-> 0,
           sent |-> NoTotals, pending |-> NoTotals, paced |-> FALSE, got |-> NoTotals,
           relSend |-> 1, relRecv |-> 1, relPending |-> {}, relReceived |-> {}]

\* PointerDatagramPath::bind
NewPath == [NoPath EXCEPT !.up = TRUE]

Packet(seq, kind, n, m) == [seq |-> seq, kind |-> kind, n |-> n, m |-> m]

Done(p) == [path |-> p, tx |-> {}, ok |-> TRUE]
Failed(p) == [path |-> p, tx |-> {}, ok |-> FALSE]

\* encode_payload numbers a packet, or fails at the end of the sequence; what
\* the socket then does with it is `io': it takes it, would block, or fails.
Send(r, kind, n, m, io) ==
    IF r.path.sendSeq >= MaxPacket THEN [r EXCEPT !.ok = FALSE]
    ELSE [path |-> [r.path EXCEPT !.sendSeq = @ + 1],
          tx   |-> IF io = "Sent" THEN r.tx \union {Packet(r.path.sendSeq, kind, n, m)} ELSE r.tx,
          ok   |-> io # "Failed"]

send_probe(p, io) == Send(Done(p), "Probe", 0, NoMessage, io)

-----------------------------------------------------------------------------
\* Pointer totals.

\* One turn of flush_pending's loop: a device whose packet would block keeps
\* its totals for the next flush; an error forgets the devices still to come.
FlushDevice(r, d, io) ==
    IF ~r.ok THEN [r EXCEPT !.path.pending[d] = 0]
    ELSE LET sent == Send(r, "Pointer", r.path.pending[d], WireMessage("Move", 0, d, 0), io)
         IN  IF sent.ok /\ io = "Blocked" THEN sent
             ELSE [sent EXCEPT !.path.pending[d] = 0,
                               !.path.paced = sent.path.paced \/ sent.ok]

\* `io' gives the socket's answer for each device.
flush_pending(p, io) ==
    IF ~p.ready THEN Done(p)
    ELSE FoldLeft(LAMBDA r, d : FlushDevice(r, d, io[d]), Done(p),
                  SetToSeq({d \in PointerDevices : p.pending[d] # 0}))

TooManyDevices(totals, d) ==
    /\ totals[d] = 0
    /\ Cardinality({x \in PointerDevices : totals[x] # 0}) >= MaxTracked

Totalled(p, m) ==
    [p EXCEPT !.sent[m.device] = @ + m.amount,
              !.pending[m.device] = p.sent[m.device] + m.amount]

TakesPointer(p, m) == p.ready /\ is_pointer_move(m)

\* `early': the last pointer packet is younger than the pacing interval.
try_send_pointer(p, m, io, early) ==
    IF TooManyDevices(p.sent, m.device) THEN Failed(p)
    ELSE IF p.paced /\ early THEN Done(Totalled(p, m))
    ELSE flush_pending(Totalled(p, m), io)

-----------------------------------------------------------------------------
\* The reliable shadow.

Shadows(p, m) == p.ready /\ is_stateful_input(m) /\ Cardinality(p.relPending) < MaxReliable

\* The number is used up even if the packet cannot be sent; it is remembered
\* for retransmission unless the socket failed.
shadow_reliable(p, m, io) ==
    LET r == Send(Done([p EXCEPT !.relSend = @ + 1]), "Reliable", p.relSend, m, io)
    IN  IF r.ok
        THEN [r EXCEPT !.path.relPending = @ \union {[rel |-> p.relSend, m |-> m, attempts |-> 1]}]
        ELSE r

RetryReliable(r, x, io) ==
    IF ~r.ok THEN r
    ELSE LET gone == [r EXCEPT !.path.relPending = @ \ {x}]
             sent == Send(gone, "Reliable", x.rel, x.m, io)
         IN  IF x.attempts >= MaxAttempts THEN gone
             ELSE IF ~sent.ok THEN sent
             ELSE [sent EXCEPT !.path.relPending = @ \union
                     {[x EXCEPT !.attempts = IF io = "Sent" THEN @ + 1 ELSE @]}]

\* `due': the records whose retry interval has passed.
maintain_reliable(p, due, io) ==
    FoldLeft(LAMBDA r, x : RetryReliable(r, x, io), Done(p),
             SetToSortSeq(due, LAMBDA x, y : x.rel < y.rel))

-----------------------------------------------------------------------------
\* PointerDatagramPath::receive.

Gap(p, k) == p.recvSeq # 0 /\ k.seq > p.recvSeq + 1

\* What is delivered: a displacement, and the shadowed messages now in order.
Received(r, amount, messages) ==
    [path |-> r.path, tx |-> r.tx, ok |-> r.ok, amount |-> amount, messages |-> messages]

Stored(p, k) ==
    IF k.n >= p.relRecv /\ Cardinality(p.relReceived) < MaxReliable
    THEN p.relReceived \union {[rel |-> k.n, m |-> k.m]} ELSE p.relReceived

\* The longest run of stored messages from the expected one on.
InOrder(p, stored) ==
    LET numbers == {x.rel : x \in stored}
        run     == CHOOSE n \in 0..Cardinality(stored) :
                      /\ p.relRecv..(p.relRecv + n - 1) \subseteq numbers
                      /\ p.relRecv + n \notin numbers
    IN  [i \in 1..run |-> (CHOOSE x \in stored : x.rel = p.relRecv + i - 1).m]

ReceiveReliable(r, k) ==
    LET stored == Stored(r.path, k)
        ready  == InOrder(r.path, stored)
        next   == r.path.relRecv + Len(ready)
        p      == [r.path EXCEPT !.relRecv = next,
                                 !.relReceived = {x \in stored : x.rel >= next}]
    IN  Received(IF next = 1 THEN [r EXCEPT !.path = p]
                 ELSE Send([r EXCEPT !.path = p], "Ack", next - 1, NoMessage, "Sent"), 0, ready)

ReceivePointer(r, k) ==
    LET d == k.m.device IN
    IF TooManyDevices(r.path.got, d) THEN Received([r EXCEPT !.ok = FALSE], 0, <<>>)
    ELSE Received([r EXCEPT !.path.got[d] = k.n], k.n - r.path.got[d], <<>>)

receive(p, k) ==
    LET fresh == Done([p EXCEPT !.recvSeq = k.seq])
        r     == IF Gap(p, k) THEN Send(fresh, "Feedback", 0, NoMessage, "Sent") ELSE fresh
    IN  IF k.seq <= p.recvSeq THEN Received(Done(p), 0, <<>>)
        ELSE IF ~r.ok THEN Received(r, 0, <<>>)
        ELSE CASE k.kind = "Probe"    -> Received([r EXCEPT !.path.ready = TRUE], 0, <<>>)
               [] k.kind = "Pointer"  -> ReceivePointer(r, k)
               [] k.kind = "Feedback" -> Received(r, 0, <<>>)
               [] k.kind = "Reliable" -> ReceiveReliable(r, k)
               [] k.kind = "Ack"      ->
                    Received([r EXCEPT !.path.relPending = {x \in @ : x.rel > k.n}], 0, <<>>)

\* Mutant: the remainder of the division is lost.
smooth_pointer_recoveryEven(amount, gap, queued) ==
    IF ~gap \/ amount < RecoverySplit \/ queued > RecoveryQueue THEN <<amount>>
    ELSE [i \in 1..4 |-> amount \div 4]

\* A large displacement recovered after a gap is injected in four steps.
smooth_pointer_recovery(amount, gap, queued) ==
    IF ~gap \/ amount < RecoverySplit \/ queued > RecoveryQueue THEN <<amount>>
    ELSE [i \in 1..4 |-> IF i = 4 THEN amount - 3 * (amount \div 4) ELSE amount \div 4]
=============================================================================
