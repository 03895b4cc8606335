--------------------------- MODULE NetworkSession ---------------------------
(***************************************************************************)
(* One connection between two hosts, from admission to the last event its  *)
(* owner gets: GenerationBoundPeerSession and run_session of peer.rs at    *)
(* both ends, the TLS stream and the datagrams between them, and, behind   *)
(* each end's event channel, the part of session.rs that accepts what      *)
(* arrives.                                                                *)
(*                                                                         *)
(* s[e] is the session task of end e.  An action is one branch of its      *)
(* select! together with the top of the loop that follows; everything in   *)
(* it is synchronous.  A handler works on a record w that holds the        *)
(* session, the datagrams it hands to the socket and its error.            *)
(***************************************************************************)
EXTENDS PointerDatagrams, FiniteSetsExt

CONSTANTS Ends,        \* the two hosts
          Ranges,      \* [Ends -> protocol version ranges the host may offer]
          Submits,     \* [Ends -> bursts of messages, without their sequences]
          ChannelCap,  \* outbound_channel_capacity
          EventCap,    \* event_channel_capacity
          Window,      \* recent_inputs of session.rs
          MaxEvents    \* submissions, disturbances and ticks of a run

ASSUME NetworkAssumption ==
    /\ Cardinality(Ends) = 2
    /\ {ChannelCap, EventCap, Window} \subseteq Nat \ {0}
    /\ MaxEvents \in Nat

VARIABLES s,        \* the session task of each end
          owner,    \* the coordinator that consumes its events
          wire,     \* frames on the stream towards each end
          net,      \* datagrams towards each end
          link,     \* the stream: "Up", "Stalled" or "Broken"
          written,  \* the numbers each end has completely written to the stream, in order
          log,      \* the types of the messages each end has submitted; a place is a number
          spent     \* how many of MaxEvents have happened

vars == <<s, owner, wire, net, link, written, log, spent>>

Peer(e) == CHOOSE o \in Ends : o # e

PeerEvent(k, m) == [k |-> k, m |-> m]

\* GenerationBoundPeerSession::new, and perform_admission up to the Hello.
NewSession(range) ==
    [phase |-> "Hello", range |-> range, version |-> 0,
     chan |-> <<>>, open |-> TRUE, stop |-> FALSE,
     queue |-> NewQueue, batch |-> NoBatch, hb |-> connected,
     path |-> NoPath, recovery |-> <<>>,
     bound |-> <<>>,
     pending |-> TRUE, admitted |-> FALSE,
     returned |-> "None", why |-> "None", reported |-> {}]

NewOwner == [state |-> "Waiting", prompt |-> TRUE, accepts |-> FALSE, last |-> 0, recent |-> <<>>,
             applied |-> {}, moved |-> 0, failed |-> "None"]

Init ==
    /\ s \in [Ends -> {NewSession(r) : r \in UNION {Ranges[e] : e \in Ends}}]
    /\ \A e \in Ends : s[e].range \in Ranges[e]
    /\ owner = [e \in Ends |-> NewOwner]
    /\ wire = [e \in Ends |-> <<WireMessage("Hello", 0, 0, 0)>>]
    /\ net = [e \in Ends |-> {}]
    /\ link = "Up"
    /\ written = [e \in Ends |-> <<>>]
    /\ log = [e \in Ends |-> <<>>]
    /\ spent = 0

-----------------------------------------------------------------------------
\* The end of a session.

\* What the owner must still learn: the pending capability was never used,
\* or the active generation is over.
Terminal(x) == IF x.pending THEN "Cancelled" ELSE "Terminated"

\* run() returns, and everything it owned is dropped.
Returns(x, why, returned) ==
    [x EXCEPT !.phase = "Done", !.why = why, !.returned = returned,
              !.chan = <<>>, !.queue = NewQueue, !.batch = NoBatch, !.hb = connected,
              !.path = NoPath, !.recovery = <<>>]

bound_session_delivery_error(x) == Returns(x, "EventChannelFull", Terminal(x))

\* bind_generation_event and try_send_bound_event: the first Admitted event
\* carries the capability, everything before it is suppressed, and if the
\* owner's channel is full the event, with its capability, comes back.
relay(x, ev) ==
    IF x.phase = "Done" \/ (~x.admitted /\ ev.k # "Admitted") THEN x
    ELSE IF Len(x.bound) >= EventCap THEN bound_session_delivery_error(x)
    ELSE [x EXCEPT !.bound = Append(@, [bind |-> IF x.admitted THEN "Active" ELSE "Admission",
                                        k |-> ev.k, m |-> ev.m]),
                   !.admitted = TRUE, !.pending = FALSE]

\* Terminal events go to the owner's channel, or back to the caller of run().
Offer(x, bind, k) ==
    IF Len(x.bound) >= EventCap THEN bound_session_delivery_error(x)
    ELSE [x EXCEPT !.bound = Append(@, [bind |-> bind, k |-> k, m |-> NoMessage]),
                   !.pending = IF bind = "Cancelled" THEN FALSE ELSE @]

\* SessionEnd: nothing is reported, the generation is only terminated.
EndsNormally(x, why) ==
    LET y == IF x.pending THEN Offer(x, "Cancelled", "None")
             ELSE Offer(x, "Active", "Disconnected")
    IN  IF y.phase = "Done" THEN y ELSE Returns(y, why, "None")

\* Mutant: the batch being written is forgotten.
UndeliveredQueued(x, rejected) ==
    {m.seq : m \in {n \in QueuedMessages(x.queue) \union Range(x.chan) \union rejected :
                      TrafficClass(n) # "control"}}

\* collect_session_failure and drain_outbound: every message that is not
\* known to be on the stream.
Undelivered(x, rejected) ==
    {m.seq : m \in {n \in QueuedMessages(x.queue) \union Range(x.batch.frames)
                          \union Range(x.chan) \union rejected :
                      TrafficClass(n) # "control"}}

EndsInFailure(x, why) ==
    LET y == IF x.admitted THEN Offer(x, "Active", "StateDisconnected") ELSE x
        z == IF y.phase = "Done" THEN y
             ELSE IF x.admitted THEN Offer(y, "Active", "Disconnected")
             ELSE Offer(y, "Cancelled", "Disconnected")
    IN  IF z.phase = "Done" THEN z ELSE Returns(z, why, "None")

\* The tail of GenerationBoundPeerSession::run.
Ended(x, why, events, rejected) ==
    LET y == FoldLeft(relay, [x EXCEPT !.reported = Undelivered(x, rejected)], events) IN
    IF y.phase = "Done" THEN y
    ELSE CASE why \in {"Shutdown", "OutboundClosed"} -> EndsNormally(y, why)
           [] why = "EventChannelFull"               -> bound_session_delivery_error(y)
           [] OTHER                                  -> EndsInFailure(y, why)

-----------------------------------------------------------------------------
\* Handlers: w.s is the session, w.ev its events, w.tx the datagrams sent and
\* w.why the error.  The events go through an inner channel to the relay,
\* which is polled by the same task and empties it at the end of the step.

Work(e) == [s |-> s[e], ev |-> <<>>, tx |-> {}, why |-> "None", rejected |-> {}]

Then(w, Op(_)) == IF w.why = "None" THEN Op(w) ELSE w
Raise(w, why) == [w EXCEPT !.why = why]

send_event(w, k, m) ==
    IF Len(w.ev) >= (IF EventCap > 4 THEN EventCap ELSE 4)
    THEN Raise(w, "EventChannelFull")
    ELSE [w EXCEPT !.ev = Append(@, PeerEvent(k, m))]

enqueue(w, m) ==
    IF CanPush(w.s.queue, m) THEN [w EXCEPT !.s.queue = try_push(@, m)]
    ELSE [w EXCEPT !.rejected = {m},
                   !.why = IF TrafficClass(m) = "control" THEN "ControlQueueFull" ELSE "QueueFull"]

\* The top of run_session's loop.
LoopTop(w) ==
    LET r == encode_batch(w.s.queue, w.s.version)
        v == IF w.s.batch # NoBatch THEN w
             ELSE IF ~r.ok THEN [w EXCEPT !.s.queue = r.queue, !.why = "InvalidFrame"]
             ELSE [w EXCEPT !.s.queue = r.queue, !.s.batch.frames = r.frames]
    IN  IF v.why = "None" /\ ~v.s.open /\ v.s.chan = <<>> /\ v.s.batch = NoBatch
             /\ QueueIsEmpty(v.s.queue)
        THEN Raise(v, "OutboundClosed") ELSE v

Settle(w) ==
    IF w.why = "None" THEN FoldLeft(relay, w.s, w.ev) ELSE Ended(w.s, w.why, w.ev, w.rejected)

\* The action of a handler: its session goes on or ends, and its datagrams
\* are under way, unless no socket is there to receive them.
RunsWithout(e, w, taken) ==
    /\ s' = [s EXCEPT ![e] = Settle(Then(w, LoopTop))]
    /\ net' = [x \in Ends |-> IF ~s'[x].path.up THEN {}
                              ELSE IF x = e THEN net[x] \ taken ELSE net[x] \union w.tx]

Runs(e, w) == RunsWithout(e, w, {})

\* What comes from outside is counted.
Costs(n) == spent + n <= MaxEvents /\ spent' = spent + n

Running(e) == s[e].phase = "Run"

-----------------------------------------------------------------------------
\* Admission.

negotiate_protocol_version(mine, theirs) ==
    LET minimum == CHOOSE n \in {mine[1], theirs[1], 1} : \A k \in {mine[1], theirs[1], 1} : k <= n
        maximum == CHOOSE n \in {mine[2], theirs[2], 3} : \A k \in {mine[2], theirs[2], 3} : k >= n
    IN  IF minimum <= maximum THEN maximum ELSE 0

Arrives(e) == wire[e] # <<>> /\ link = "Up"

\* perform_admission from the peer's Hello to the own Authenticate.
ReadHello(e) ==
    /\ s[e].phase = "Hello" /\ Arrives(e)
    /\ \E honest \in BOOLEAN :
         LET version == negotiate_protocol_version(s[e].range, s[Peer(e)].range)
             why     == CASE ~honest     -> "IdentityMismatch"
                          [] version = 0 -> "NoCompatibleProtocolVersion"
                          [] OTHER       -> "None"
         IN  /\ Costs(IF honest THEN 0 ELSE 1)
             /\ s' = [s EXCEPT ![e] = IF why # "None" THEN Ended(s[e], why, <<>>, {})
                                      ELSE [s[e] EXCEPT !.phase = "Authenticate", !.version = version]]
             /\ wire' = [wire EXCEPT ![e] = Tail(@),
                                     ![Peer(e)] = IF why # "None" THEN @
                                                  ELSE Append(@, WireMessage("Authenticate", 0, 0, 0))]
    /\ UNCHANGED <<owner, net, link, written, log>>

\* The peer's Authenticate, the admission's verdict, and the start of
\* run_session's loop, with or without a datagram socket.
ReadAuthenticate(e) ==
    /\ s[e].phase = "Authenticate" /\ Arrives(e)
    /\ \E admits, binds \in BOOLEAN :
         LET started  == [Work(e) EXCEPT !.s.phase = "Run",
                             !.s.path = IF s[e].version >= 3 /\ binds THEN NewPath ELSE NoPath]
             admitted == Then(send_event(started, "Admitted", NoMessage),
                              LAMBDA w : send_event(w, "Connected", NoMessage))
         IN  /\ Costs(IF admits /\ binds THEN 0 ELSE 1)
             /\ IF admits THEN Runs(e, admitted)
                ELSE s' = [s EXCEPT ![e] = Ended(s[e], "AdmissionRejected", <<>>, {})] /\ net' = net
    /\ wire' = [wire EXCEPT ![e] = Tail(@)]
    /\ UNCHANGED <<owner, link, written, log>>

AdmissionTimeout(e) ==
    /\ s[e].phase \in {"Hello", "Authenticate"}
    /\ Costs(IF link = "Up" THEN 1 ELSE 0)
    /\ s' = [s EXCEPT ![e] = Ended(s[e], "AdmissionTimeout", <<>>, {})]
    /\ UNCHANGED <<owner, wire, net, link, written, log>>

-----------------------------------------------------------------------------
\* The branches of select!, in its order of preference.

\* wait_for_shutdown, before and after admission.
SessionShutdown(e) ==
    /\ s[e].phase # "Done" /\ s[e].stop
    /\ s' = [s EXCEPT ![e] = Ended(s[e], "Shutdown", <<>>, {})]
    /\ UNCHANGED <<owner, wire, net, link, written, log, spent>>

\* The numbers of the submitted messages among some frames.
Numbers(frames) ==
    LET submitted == SelectSeq(frames, LAMBDA m : TrafficClass(m) # "control")
    IN  [i \in 1..Len(submitted) |-> submitted[i].seq]

\* write_some takes the batch up to an offset; a host that is gone gets nothing.
WriteSome(e, upto, batch) ==
    LET b == s[e].batch IN
    /\ Running(e) /\ link = "Up" /\ b # NoBatch /\ ~is_complete(b)
    /\ wire' = [wire EXCEPT ![Peer(e)] = IF s[Peer(e)].phase = "Done" THEN @
                                         ELSE @ \o FramesCompleted(b, upto)]
    /\ written' = [written EXCEPT ![e] = @ \o Numbers(FramesCompleted(b, upto))]
    /\ Runs(e, [Work(e) EXCEPT !.s.batch = batch])
    /\ UNCHANGED <<owner, link, log>>

\* Without backpressure the batch is written and, in the next turn, flushed.
Write(e) ==
    LET b == s[e].batch IN
    \/ WriteSome(e, BatchLength(b.frames), NoBatch) /\ spent' = spent
    \/ \E upto \in {b.committed + 1, BatchLength(b.frames)} :
         Costs(1) /\ WriteSome(e, upto, [b EXCEPT !.committed = upto])

Flush(e) ==
    /\ Running(e) /\ link = "Up" /\ s[e].batch # NoBatch /\ is_complete(s[e].batch)
    /\ Runs(e, [Work(e) EXCEPT !.s.batch = NoBatch])
    /\ UNCHANGED <<owner, wire, link, written, log, spent>>

handle_inbound(w, m) ==
    LET heals == w.s.hb.state = "Degraded" IN
    IF UnknownPong(w.s.hb, m) THEN Raise(w, "HeartbeatInvalid")
    ELSE Then([w EXCEPT !.s.hb = on_message(@, m)],
         LAMBDA v : Then(IF heals THEN send_event(v, "Connected", NoMessage) ELSE v,
         LAMBDA u : CASE m.type = "Ping" -> enqueue(u, WireMessage("Pong", m.seq, 0, 0))
                      [] m.type = "Pong" -> u
                      [] m.type \in {"Hello", "Authenticate"} -> Raise(u, "RepeatedHandshake")
                      [] OTHER           -> send_event(u, "Message", m)))

\* read_and_drain decodes what has arrived, all of it or the first frames,
\* and each frame is dispatched.
Read(e) ==
    /\ Running(e) /\ Arrives(e)
    /\ \E n \in {1, Len(wire[e])} :
         /\ Costs(IF n < Len(wire[e]) THEN 1 ELSE 0)
         /\ wire' = [wire EXCEPT ![e] = SubSeq(@, n + 1, Len(@))]
         /\ Runs(e, FoldLeft(LAMBDA w, m : Then(w, LAMBDA v : handle_inbound(v, m)),
                            Work(e), SubSeq(wire[e], 1, n)))
    /\ UNCHANGED <<owner, link, written, log>>

\* The stream fails, or ends because the peer has dropped it.
StreamEnds(e) ==
    /\ s[e].phase # "Done"
    /\ link = "Broken" \/ (link = "Up" /\ wire[e] = <<>> /\ s[Peer(e)].phase = "Done")
    /\ s' = [s EXCEPT ![e] = Ended(s[e], "RemoteClosed", <<>>, {})]
    /\ UNCHANGED <<owner, wire, net, link, written, log, spent>>

\* A datagram: pointer motion becomes an event, in four parts after a gap;
\* shadowed input is treated like a frame of the stream.
DeliverPointer(w, r, gap) ==
    LET parts == smooth_pointer_recovery(r.amount, gap, Len(w.s.recovery))
    IN  IF r.amount = 0 THEN w
        ELSE Then(send_event(w, "Pointer", WireMessage("Move", 0, 0, parts[1])),
                  LAMBDA v : [v EXCEPT !.s.recovery = @ \o Tail(parts)])

HandleDatagram(w, r, gap) ==
    IF ~r.ok THEN [w EXCEPT !.s.path = NoPath, !.tx = r.tx]
    ELSE FoldLeft(LAMBDA v, m : Then(v, LAMBDA u : handle_inbound(u, m)),
                  DeliverPointer([w EXCEPT !.s.path = r.path, !.tx = r.tx], r, gap),
                  r.messages)

\* Datagrams arrive in any order, or never.  One with an older sequence than
\* the last accepted is ignored when it arrives and is not kept in net.
ReceiveDatagram(e, k) ==
    /\ Running(e) /\ s[e].path.up
    /\ RunsWithout(e, HandleDatagram(Work(e), receive(s[e].path, k), Gap(s[e].path, k)),
                   {x \in net[e] : x.seq <= k.seq})
    /\ UNCHANGED <<owner, wire, link, written, log, spent>>

\* A move the fast path takes does not go to the stream; everything else
\* does, shadowed or not.
route_outbound(w, m, io, early) ==
    LET shadow  == IF Shadows(w.s.path, m) THEN shadow_reliable(w.s.path, m, io.one)
                   ELSE Done(w.s.path)
        pointer == try_send_pointer(shadow.path, m, io.each, early)
        v       == [w EXCEPT !.s.path = shadow.path, !.tx = @ \union shadow.tx]
    IN  IF ~TakesPointer(shadow.path, m) THEN enqueue(v, m)
        ELSE IF pointer.ok THEN [v EXCEPT !.s.path = pointer.path, !.tx = @ \union pointer.tx]
        ELSE enqueue([v EXCEPT !.s.path = NoPath, !.tx = @ \union pointer.tx], m)

\* What the socket answers: at most one packet is not taken.
AllSent == [one |-> "Sent", each |-> [d \in PointerDevices |-> "Sent"]]
Answers == {AllSent} \union UNION {{[AllSent EXCEPT !.one = a]} \union
               {[AllSent EXCEPT !.each[d] = a] : d \in PointerDevices} : a \in {"Blocked", "Failed"}}

\* outbound.recv, and try_recv at the top of the loop, until the channel is
\* empty or a message fails.
OutboundRecv(e) ==
    /\ Running(e) /\ s[e].chan # <<>>
    /\ \E io \in IF s[e].path.ready /\ spent < MaxEvents THEN Answers ELSE {AllSent},
          early \in IF s[e].path.ready THEN BOOLEAN ELSE {FALSE} :
         /\ Costs(IF io = AllSent THEN 0 ELSE 1)
         /\ Runs(e, FoldLeft(LAMBDA w, m : Then(w, LAMBDA v :
                                route_outbound([v EXCEPT !.s.chan = Tail(@)], m, io, early)),
                            Work(e), s[e].chan))
    /\ UNCHANGED <<owner, wire, link, written, log>>

\* The last sender is gone and the channel is empty.
OutboundClosed(e) ==
    /\ Running(e) /\ ~s[e].open /\ s[e].chan = <<>>
    /\ Runs(e, Work(e)) /\ s' # s
    /\ UNCHANGED <<owner, wire, link, written, log, spent>>

HeartbeatTick(e) ==
    /\ Running(e)
    /\ Costs(IF link = "Up" THEN 1 ELSE 0)
    /\ LET hb == Silent(s[e].hb)
           w  == [Work(e) EXCEPT !.s.hb = poll(hb)]
       IN  Runs(e, IF PollDisconnects(hb) THEN Raise(w, "HeartbeatTimeout")
                   ELSE Then(IF PollDegrades(hb) THEN send_event(w, "Degraded", NoMessage) ELSE w,
                        LAMBDA v : IF PollPings(hb) THEN enqueue(v, WireMessage("Ping", hb.nonce, 0, 0))
                                   ELSE v))
    /\ UNCHANGED <<owner, wire, link, written, log>>

\* One probe is under way at a time, as long as the peer needs one.
ProbeTick(e) ==
    /\ Running(e) /\ s[e].path.up
    /\ s[Peer(e)].path.up /\ ~s[Peer(e)].path.ready /\ \A k \in net[Peer(e)] : k.kind # "Probe"
    /\ \E failed \in BOOLEAN :
         LET r == send_probe(s[e].path, IF failed THEN "Failed" ELSE "Sent") IN
         /\ Costs(IF failed THEN 1 ELSE 0)
         /\ Runs(e, [Work(e) EXCEPT !.s.path = IF r.ok THEN r.path ELSE NoPath, !.tx = r.tx])
    /\ UNCHANGED <<owner, wire, link, written, log>>

\* pointer_flush_tick: flush what is paced, then retry what is due because
\* its acknowledgement is late.
FlushTick(e) ==
    /\ Running(e) /\ s[e].path.up
    /\ \E io \in IF spent < MaxEvents THEN Answers ELSE {AllSent},
          due \in IF spent < MaxEvents THEN SUBSET s[e].path.relPending ELSE {{}} :
         LET flushed == flush_pending(s[e].path, io.each)
             retried == maintain_reliable(flushed.path, due, io.one)
         IN  /\ s[e].path.pending # NoTotals \/ due # {}
             /\ Costs((IF io = AllSent THEN 0 ELSE 1) + Cardinality(due))
             /\ Runs(e, IF ~flushed.ok THEN [Work(e) EXCEPT !.s.path = NoPath, !.tx = flushed.tx]
                        ELSE [Work(e) EXCEPT !.s.path = retried.path,
                                             !.tx = flushed.tx \union retried.tx])
    /\ UNCHANGED <<owner, wire, link, written, log>>

RecoveryTick(e) ==
    /\ Running(e) /\ s[e].recovery # <<>>
    /\ Runs(e, send_event([Work(e) EXCEPT !.s.recovery = Tail(@)], "Pointer",
                          WireMessage("Move", 0, 0, Head(s[e].recovery))))
    /\ UNCHANGED <<owner, wire, link, written, log, spent>>

-----------------------------------------------------------------------------
\* The owner of an end: the supervisor applies each event to the generation
\* gate and the coordinator accepts or fails the session.

Fails(o, why) == [o EXCEPT !.failed = why]

\* Mutant: stale input is ignored like a duplicate.
AcceptMessageLeniently(o, m) ==
    IF ~o.accepts THEN Fails(o, "NotAdmitted")
    ELSE IF m.type \notin {"Key", "Move", "Release"} \/ m.seq <= o.last THEN o
    ELSE [o EXCEPT !.last = m.seq, !.applied = @ \union {m.seq}, !.recent = <<m>>]

\* handle_authorized_message: an exact copy of a recent input is ignored, an
\* older sequence ends the session, as it does for a release.
AcceptMessage(o, m) ==
    LET accepted == [o EXCEPT !.last = m.seq, !.applied = @ \union {m.seq}] IN
    CASE ~o.accepts -> Fails(o, "NotAdmitted")
      [] m.type \in {"Key", "Move"} ->
           IF m \in Range(o.recent) THEN o
           ELSE IF m.seq <= o.last THEN Fails(o, "StaleSequence")
           ELSE [accepted EXCEPT !.recent =
                   IF Len(@) = Window THEN Append(Tail(@), m) ELSE Append(@, m)]
      [] m.type = "Release" ->
           IF m.seq <= o.last THEN Fails(o, "StaleSequence") ELSE accepted
      [] OTHER -> o

\* handle_endpoint_pointer_datagram: injected without touching the sequence.
AcceptPointer(o, m) ==
    IF o.accepts THEN [o EXCEPT !.moved = @ + m.amount] ELSE Fails(o, "IdentityMismatch")

AcceptEvent(o, ev) ==
    CASE ev.bind = "Cancelled"    -> [o EXCEPT !.state = "Ended"]
      [] ev.k = "Disconnected"    -> [o EXCEPT !.state = "Ended", !.accepts = FALSE]
      [] o.failed # "None"        -> o
      [] ev.bind = "Admission"    -> [o EXCEPT !.state = "Active", !.accepts = TRUE]
      [] ev.k = "Connected"       -> [o EXCEPT !.accepts = TRUE]
      [] ev.k = "Degraded"        -> [o EXCEPT !.accepts = FALSE]
      [] ev.k = "Message"         -> AcceptMessage(o, ev.m)
      [] ev.k = "Pointer"         -> AcceptPointer(o, ev.m)
      [] OTHER                    -> o

\* drive_session takes the waiting events one after the other; a failed
\* coordinator retires the generation, which stops the task.
ConsumeEvents(e) ==
    LET o == FoldLeft(AcceptEvent, owner[e], s[e].bound) IN
    /\ s[e].bound # <<>>
    /\ owner' = [owner EXCEPT ![e] = o]
    /\ s' = [s EXCEPT ![e].bound = <<>>, ![e].stop = @ \/ (o.failed # "None" /\ o.state = "Active")]
    /\ UNCHANGED <<wire, net, link, written, log, spent>>

\* The task's result is looked at once its channel is drained.
JoinTask(e) ==
    /\ s[e].phase = "Done" /\ s[e].bound = <<>> /\ s[e].returned # "None"
    /\ owner' = [owner EXCEPT ![e].state = "Ended", ![e].accepts = FALSE]
    /\ s' = [s EXCEPT ![e].returned = "None"]
    /\ UNCHANGED <<wire, net, link, written, log, spent>>

\* PeerSender::try_send of a burst, when there is room.
Submit(e, burst) ==
    /\ owner[e].state = "Active" /\ owner[e].failed = "None" /\ s[e].open
    /\ s[e].phase # "Done" /\ Len(s[e].chan) + Len(burst) <= ChannelCap
    /\ Costs(1)
    /\ s' = [s EXCEPT ![e].chan = @ \o [i \in 1..Len(burst) |->
                WireMessage(burst[i].type, Len(log[e]) + i, burst[i].device, burst[i].amount)]]
    /\ log' = [log EXCEPT ![e] = @ \o [i \in 1..Len(burst) |-> burst[i].type]]
    /\ UNCHANGED <<owner, wire, net, link, written>>

\* An owner takes its events at once until the manager's lock or the
\* scheduler delays it.
OwnerFallsBehind(e) ==
    /\ owner[e].prompt /\ owner[e].state # "Ended" /\ Costs(1)
    /\ owner' = [owner EXCEPT ![e].prompt = FALSE]
    /\ UNCHANGED <<s, wire, net, link, written, log>>

DropSender(e) ==
    /\ Running(e) /\ s[e].open /\ owner[e].state = "Active"
    /\ Costs(1)
    /\ s' = [s EXCEPT ![e].open = FALSE]
    /\ UNCHANGED <<owner, wire, net, link, written, log>>

RequestShutdown(e) ==
    /\ s[e].phase # "Done" /\ ~s[e].stop
    /\ Costs(1)
    /\ s' = [s EXCEPT ![e].stop = TRUE]
    /\ UNCHANGED <<owner, wire, net, link, written, log>>

\* The stream stops delivering, or breaks; the datagram socket fails or
\* delivers something that does not authenticate.
LinkFails(how) ==
    /\ link = "Up" /\ Costs(1)
    /\ link' = how
    /\ UNCHANGED <<s, owner, wire, net, written, log>>

DatagramSocketFails(e) ==
    /\ Running(e) /\ s[e].path.up /\ Costs(1)
    /\ Runs(e, [Work(e) EXCEPT !.s.path = NoPath])
    /\ UNCHANGED <<owner, wire, link, written, log>>

SessionTask(e) ==
    \/ ReadHello(e) \/ ReadAuthenticate(e) \/ AdmissionTimeout(e) \/ SessionShutdown(e)
    \/ Write(e) \/ Flush(e) \/ Read(e) \/ StreamEnds(e)
    \/ \E k \in net[e] : ReceiveDatagram(e, k)
    \/ OutboundRecv(e) \/ OutboundClosed(e) \/ HeartbeatTick(e)
    \/ ProbeTick(e) \/ FlushTick(e) \/ RecoveryTick(e)

Owner(e) ==
    ConsumeEvents(e) \/ JoinTask(e) \/ OwnerFallsBehind(e) \/ DropSender(e) \/ RequestShutdown(e)
    \/ \E burst \in Submits[e] : Submit(e, burst)

Environment ==
    \/ \E how \in {"Stalled", "Broken"} : LinkFails(how)
    \/ \E e \in Ends : DatagramSocketFails(e)

Next ==
    \/ \E e \in Ends : owner[e].prompt /\ (ConsumeEvents(e) \/ JoinTask(e))
    \/ /\ \A e \in Ends : owner[e].prompt => s[e].bound = <<>> /\ s[e].returned = "None"
       /\ (\E e \in Ends : SessionTask(e) \/ Owner(e)) \/ Environment

Spec == Init /\ [][Next]_vars

-----------------------------------------------------------------------------
\* Properties.

Messages == [type : STRING, seq : Nat, device : Nat, amount : Int]

\* The sessions, their channels and lanes stay within their types and, but
\* for the lanes that a batch gave a message back to, their capacities.
TypeOK ==
    \A e \in Ends :
      /\ s[e].phase \in {"Hello", "Authenticate", "Run", "Done"}
      /\ s[e].version \in 0..3
      /\ Len(s[e].chan) <= ChannelCap /\ Len(s[e].bound) <= EventCap
      /\ \A lane \in DOMAIN LaneCap : Len(s[e].queue[lane]) <= LaneCap[lane] + BatchFrames
      /\ s[e].returned \in {"None", "Cancelled", "Terminated"}
      /\ owner[e].state \in {"Waiting", "Active", "Ended"}
      /\ Range(wire[e]) \subseteq Messages

\* The terminal notices of an end: in the owner's channel, returned by the
\* task, or already applied by the owner.
Notices(e) ==
    Cardinality({i \in 1..Len(s[e].bound) :
                   s[e].bound[i].bind = "Cancelled" \/ s[e].bound[i].k = "Disconnected"})
    + (IF s[e].returned # "None" THEN 1 ELSE 0)
    + (IF owner[e].state = "Ended" THEN 1 ELSE 0)

\* The generation's capability is never lost and never used twice: while the
\* task runs its owner has no terminal notice, and once it has returned there
\* is exactly one, whatever channel was full at which step
\* (GenerationBoundPeerSession::run, "splitting the admission token relay
\* from session termination makes capability loss easier").
TerminalNoticeOnce ==
    \A e \in Ends : Notices(e) = IF s[e].phase = "Done" THEN 1 ELSE 0

\* A failed session reports every message it had accepted and not completely
\* written, wherever it was: the channel, a lane, the batch, or just refused
\* by a full lane (collect_session_failure, drain_outbound, encode_batch).
\* Moves may have been folded or sent as datagrams and are left out.
NothingLostSilently ==
    \A e \in Ends :
      (s[e].phase = "Done" /\ s[e].why \notin {"Shutdown", "OutboundClosed", "EventChannelFull"})
      => \A n \in 1..Len(log[e]) :
           log[e][n] = "Move" \/ n \in Range(written[e]) \/ n \in s[e].reported

\* Within a lane frames reach the stream in the order they were submitted,
\* whatever was folded, given back to its lane or sent around it (queue.rs:
\* "Ordering is FIFO within each lane"), and a session that ends because its
\* sender is gone has written everything.
LanesKeepOrder ==
    \A e \in Ends :
      /\ \A i, j \in 1..Len(written[e]) :
           (i < j /\ TrafficClass([type |-> log[e][written[e][i]]])
                     = TrafficClass([type |-> log[e][written[e][j]]]))
           => written[e][i] < written[e][j]
      /\ s[e].why = "OutboundClosed" =>
           \A n \in 1..Len(log[e]) : log[e][n] = "Move" \/ n \in Range(written[e])

\* The messages of an end that still are on their way over the stream.
OnStream(e) ==
    LET o == Peer(e) IN
    {m.seq : m \in {f \in Range(s[e].chan) \union QueuedMessages(s[e].queue)
                            \union Range(s[e].batch.frames) \union Range(wire[o])
                            \union {ev.m : ev \in Range(s[o].bound)} :
                      TrafficClass(f) = "input"}}

\* Input that a datagram copy has overtaken is not forgotten: its frame still
\* comes over the stream, where its sequence ends the session
\* (transport-v4-latency-hardening.md: "still fails closed on an unknown
\* stale sequence").
OvertakenIsNotForgotten ==
    \A e \in Ends :
      LET o == Peer(e) IN
      (owner[o].state = "Active" /\ owner[o].failed = "None" /\ s[e].phase # "Done"
       /\ s[o].phase # "Done") =>
        \A n \in 1..owner[o].last :
          log[e][n] \in {"Key", "Release"} => n \in owner[o].applied \union OnStream(e)

Motion(events) ==
    FoldLeft(LAMBDA n, ev : IF ev.k = "Pointer" THEN n + ev.m.amount ELSE n, 0, events)

\* The motion a host has taken from datagrams is exactly what it has injected
\* plus what still waits in its recovery queue and its event channels:
\* losses, reordering and the splitting of a recovered displacement neither
\* add nor lose any (receive, smooth_pointer_recovery).
MotionConserved ==
    \A e \in Ends :
      (s[e].path.up /\ owner[e].failed = "None") =>
        MapThenSumSet(LAMBDA d : s[e].path.got[d], PointerDevices)
          = owner[e].moved + FoldLeft(+, 0, s[e].recovery)
            + Motion(s[e].bound)

\* Heartbeats of two correct hosts never end a session: every pong answers
\* an outstanding ping, and pings and pongs fit in the control lane as long
\* as it has room for the outstanding pings of both hosts.
HeartbeatsHarmless ==
    \A e \in Ends : s[e].why \notin {"HeartbeatInvalid", "ControlQueueFull"}

\* A session ends once, never over its own heartbeats, and reports all it could
\* not deliver.
EndsAccounted == TypeOK /\ TerminalNoticeOnce /\ NothingLostSilently /\ HeartbeatsHarmless

\* Input is applied in the order of its lane or the session ends: neither the
\* lanes nor the datagram copies lose what they overtake.
OrderKept == LanesKeepOrder /\ OvertakenIsNotForgotten

-----------------------------------------------------------------------------
\* Liveness.  Both tasks are scheduled and their timers fire, and their
\* owners keep consuming events.  Weak fairness of each branch, written as
\* "its condition does not hold for ever unless its step happens again and
\* again".

TickMatters(hb) == PollDisconnects(Silent(hb)) \/ poll(Silent(hb)) # hb

FairTask(e) ==
    /\ []<>~(s[e].phase # "Done" /\ Arrives(e))
         \/ []<><<s'[e].phase = "Done" \/ Len(wire'[e]) < Len(wire[e])>>_vars
    /\ []<>~(Running(e) /\ link = "Up" /\ s[e].batch # NoBatch)
         \/ []<><<s'[e].phase = "Done" \/ s'[e].batch # s[e].batch>>_vars
    /\ []<>~(Running(e) /\ s[e].chan # <<>>)
         \/ []<><<s'[e].phase = "Done" \/ Len(s'[e].chan) < Len(s[e].chan)>>_vars
    /\ []<>~(Running(e) /\ link # "Up" /\ TickMatters(s[e].hb))
         \/ []<><<s'[e].phase = "Done" \/ s'[e].hb # s[e].hb>>_vars
    /\ []<>~(s[e].phase \in {"Hello", "Authenticate"} /\ link # "Up")
    /\ []<>~(s[e].phase # "Done" /\ s[e].stop)

FairOwner(e) ==
    /\ []<>(s[e].bound = <<>>) \/ []<><<Len(s'[e].bound) < Len(s[e].bound)>>_vars
    /\ []<>~(s[e].phase = "Done" /\ s[e].bound = <<>> /\ s[e].returned # "None")

LiveSpec == Spec /\ \A e \in Ends : FairTask(e) /\ FairOwner(e)

Over(e) == s[e].phase = "Done" \/ owner[e].failed # "None"

KeysUnderWay(e) ==
    {n \in 1..Len(log[e]) : log[e][n] \in {"Key", "Release"}} \ owner[Peer(e)].applied

\* Every key press and release that was submitted is applied by the peer,
\* unless one of the two sessions ends: no lane, batch, datagram gap or large
\* frame keeps it back for ever (pop_next, encode_batch, shadow_reliable).
KeysArrive ==
    \A e \in Ends : KeysUnderWay(e) # {}
        ~> (KeysUnderWay(e) = {} \/ Over(e) \/ Over(Peer(e)) \/ link # "Up")

\* When the stream breaks or falls silent both owners learn it, even if one
\* is still being admitted (HeartbeatController::poll, admission_timeout).
SilenceNoticed == link # "Up" ~> \A e \in Ends : owner[e].state = "Ended"

\* A live session delivers its keys and a dead one is noticed by both owners.
StaysLive == KeysArrive /\ SilenceNoticed
=============================================================================
