--------------------------- MODULE OutboundLanes ---------------------------
(***************************************************************************)
(* The outbound side of one network session: the three priority lanes of   *)
(* queue.rs, the write batch that peer.rs encodes from them, and the       *)
(* heartbeat of heartbeat.rs.  Everything is a function from a value to    *)
(* the next value; NetworkSession turns them into actions.                 *)
(*                                                                         *)
(* A message is its type, its sequence (the nonce of a ping or a pong),    *)
(* its pointer device and its displacement; a frame is measured in UNITS   *)
(* instead of bytes, at least two so that a write may stop inside it.      *)
(***************************************************************************)
EXTENDS Integers, Sequences, FiniteSets, SequencesExt

CONSTANTS LaneCap,       \* QueueConfig: capacity of each lane
          MaxBurst,      \* maximum_input_burst
          CoalesceMoves, \* coalesce_pointer_moves
          BatchFrames,   \* OUTBOUND_BATCH_MAX_FRAMES
          BatchUnits,    \* OUTBOUND_BATCH_MAX_BYTES
          MaxOutstanding, DegradedAfter, DisconnectAfter, MaxNonce

ASSUME LanesAssumption ==
    /\ LaneCap \in [{"input", "control", "background"} -> Nat \ {0}]
    /\ {MaxBurst, BatchFrames, BatchUnits} \subseteq Nat \ {0}
    /\ CoalesceMoves \in BOOLEAN

\* HeartbeatConfig::validate, in heartbeat intervals, and nonces that wrap
\* no sooner than the outstanding pings are used up.
ASSUME HeartbeatAssumption ==
    /\ {MaxOutstanding, DegradedAfter, DisconnectAfter, MaxNonce} \subseteq Nat \ {0}
    /\ DegradedAfter < DisconnectAfter
    /\ MaxOutstanding < MaxNonce

-----------------------------------------------------------------------------
\* Messages and frames.

WireMessage(type, seq, device, amount) ==
    [type |-> type, seq |-> seq, device |-> device, amount |-> amount]

TrafficClass(m) ==
    CASE m.type \in {"Hello", "Authenticate", "Ping", "Pong"} -> "control"
      [] m.type \in {"Clipboard", "DisplaySnapshot"}          -> "background"
      [] OTHER                                                -> "input"

is_pointer_move(m) == m.type = "Move"

is_stateful_input(m) == m.type = "Key"

\* The first protocol version that can carry the message, and what
\* WireMessage::validate asks of it.
minimum_protocol_version(m) == IF m.type = "ReleaseProof" THEN 2 ELSE 1

Encodable(m, version) ==
    /\ version \in 1..3
    /\ version >= minimum_protocol_version(m)
    /\ m.type # "Invalid"

FrameUnits(m) == IF m.type = "DeviceSnapshot" THEN 5 ELSE 2

-----------------------------------------------------------------------------
\* OutboundQueue.

NewQueue == [input |-> <<>>, control |-> <<>>, background |-> <<>>, burst |-> 0]

QueueIsEmpty(q) == q.input = <<>> /\ q.control = <<>> /\ q.background = <<>>

Coalesces(q, m) ==
    /\ CoalesceMoves /\ is_pointer_move(m)
    /\ q.input # <<>>
    /\ is_pointer_move(Last(q.input))
    /\ Last(q.input).device = m.device

try_coalesce_pointer_move(q, m) ==
    [q EXCEPT !.input[Len(q.input)].amount = @ + m.amount,
              !.input[Len(q.input)].seq = m.seq]

LaneFull(q, m) == Len(q[TrafficClass(m)]) >= LaneCap[TrafficClass(m)]

CanPush(q, m) == Coalesces(q, m) \/ ~LaneFull(q, m)

try_push(q, m) ==
    IF Coalesces(q, m) THEN try_coalesce_pointer_move(q, m)
    ELSE [q EXCEPT ![TrafficClass(m)] = Append(@, m)]

unpop(q, m) == [q EXCEPT ![TrafficClass(m)] = <<m>> \o @]

\* The lane pop_next takes from.
NextLane(q) ==
    CASE q.control # <<>> /\ q.burst >= MaxBurst -> "control"
      [] q.input # <<>>                          -> "input"
      [] q.control # <<>>                        -> "control"
      [] OTHER                                   -> "background"

pop_next(q) ==
    LET lane == NextLane(q) IN
    [q EXCEPT ![lane] = Tail(@),
              !.burst = IF lane = "input" THEN @ + 1 ELSE 0]

\* The messages left in the order pop_next would take them is not needed by
\* anyone: collect_session_failure only records which they are.
QueuedMessages(q) == Range(q.input) \union Range(q.control) \union Range(q.background)

-----------------------------------------------------------------------------
\* PendingFrame: one batch, and how far it has been written.

NoBatch == [frames |-> <<>>, committed |-> 0]

EndOfFrame(frames, i) ==
    FoldLeft(LAMBDA n, m : n + FrameUnits(m), 0, SubSeq(frames, 1, i))

BatchLength(frames) == EndOfFrame(frames, Len(frames))

is_complete(b) == b.committed = BatchLength(b.frames)

\* Mutant: the limit applies to the first frame of a batch as well.
EncodeNextBounded(t, version) ==
    LET m    == t.queue[NextLane(t.queue)][1]
        rest == pop_next(t.queue)
    IN  CASE ~Encodable(m, version) ->
               [queue |-> FoldRight(LAMBDA x, q : unpop(q, x), Append(t.frames, m), rest),
                frames |-> <<>>, more |-> FALSE, ok |-> FALSE]
          [] BatchLength(Append(t.frames, m)) > BatchUnits ->
               [t EXCEPT !.queue = unpop(rest, m), !.more = FALSE]
          [] OTHER ->
               [t EXCEPT !.queue = rest, !.frames = Append(@, m)]

\* One turn of encode_batch's loop: take the next message, and give it back
\* if it does not fit; give everything back if it cannot be encoded.
EncodeNext(t, version) ==
    LET m    == t.queue[NextLane(t.queue)][1]
        rest == pop_next(t.queue)
    IN  CASE ~Encodable(m, version) ->
               [queue |-> FoldRight(LAMBDA x, q : unpop(q, x), Append(t.frames, m), rest),
                frames |-> <<>>, more |-> FALSE, ok |-> FALSE]
          [] t.frames # <<>> /\ BatchLength(Append(t.frames, m)) > BatchUnits ->
               [t EXCEPT !.queue = unpop(rest, m), !.more = FALSE]
          [] OTHER ->
               [t EXCEPT !.queue = rest, !.frames = Append(@, m)]

encode_batch(q, version) ==
    LET turn[n \in 0..BatchFrames] ==
          IF n = 0 THEN [queue |-> q, frames |-> <<>>, more |-> TRUE, ok |-> TRUE]
          ELSE IF ~turn[n-1].more \/ QueueIsEmpty(turn[n-1].queue) THEN turn[n-1]
          ELSE EncodeNext(turn[n-1], version)
    IN  turn[BatchFrames]

\* How many frames lie completely before an offset, and the frames that a
\* write from the committed offset to a later one completes.
FramesBefore(frames, offset) ==
    Cardinality({i \in 1..Len(frames) : EndOfFrame(frames, i) <= offset})

FramesCompleted(b, upto) ==
    SubSeq(b.frames, FramesBefore(b.frames, b.committed) + 1, FramesBefore(b.frames, upto))

-----------------------------------------------------------------------------
\* HeartbeatController.  Silence is counted in heartbeat intervals, and a
\* ping is due at every tick.

connected == [silence |-> 0, state |-> "Healthy", outstanding |-> {}, nonce |-> 1]

Silent(hb) == [hb EXCEPT !.silence = IF @ < DisconnectAfter THEN @ + 1 ELSE @]

PollDisconnects(hb) == hb.silence >= DisconnectAfter

PollDegrades(hb) == hb.silence >= DegradedAfter /\ hb.state # "Degraded"

PollPings(hb) == Cardinality(hb.outstanding) < MaxOutstanding

poll(hb) ==
    IF PollDisconnects(hb) THEN [hb EXCEPT !.state = "Disconnected", !.outstanding = {}]
    ELSE [hb EXCEPT !.state = IF PollDegrades(hb) THEN "Degraded" ELSE @,
                    !.outstanding = IF PollPings(hb) THEN @ \union {hb.nonce} ELSE @,
                    !.nonce = IF PollPings(hb) THEN (@ % MaxNonce) + 1 ELSE @]

UnknownPong(hb, m) == m.type = "Pong" /\ m.seq \notin hb.outstanding

on_message(hb, m) ==
    [hb EXCEPT !.silence = 0,
               !.state = IF @ = "Degraded" THEN "Healthy" ELSE @,
               !.outstanding = IF m.type = "Pong" THEN @ \ {m.seq} ELSE @]
=============================================================================
