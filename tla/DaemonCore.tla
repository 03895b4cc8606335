------------------------------ MODULE DaemonCore ------------------------------
(***************************************************************************)
(* The source half of input routing: the operations of DaemonCore          *)
(* (crates/kvm-daemon/src/core.rs) and of the PeerSessionCoordinator that  *)
(* owns it (crates/kvm-daemon/src/session.rs), as functions from the state *)
(* of one host to its next state.  Every handler of the program runs under *)
(* the peer manager's lock, so a handler is a composition of these         *)
(* functions and InputRouting makes each handler one action.               *)
(*                                                                         *)
(* The Result of a fallible function is the field "ok" of the state it     *)
(* returns, and AndThen is the ? operator; a handler clears ok at its end. *)
(***************************************************************************)
EXTENDS Integers, Sequences, FiniteSets

CONSTANTS
    Devices,      \* local input devices
    Controls,     \* key codes and button numbers
    Keys,         \* the keys and buttons there are: pairs of device and control
    Chord,        \* the controls of the failsafe shortcut
    MaxGen,       \* bound on the connection generations (session endpoints)
    MaxPhysical,  \* MAX_PHYSICAL_HELD_TOTAL
    MaxHeld,      \* MAX_REMOTE_HELD_TOTAL
    MaxCleanup,   \* MAX_PENDING_REMOTE_CLEANUP
    FifoCap,      \* capacity of the session FIFO
    MaxSeq        \* the largest outbound sequence (u64::MAX)

ASSUME CoreAssumption ==
    /\ IsFiniteSet(Devices) /\ IsFiniteSet(Controls) /\ Keys \subseteq Devices \X Controls
    /\ Chord \subseteq Controls /\ Chord # {}
    /\ MaxGen \in Nat \ {0} /\ MaxPhysical \in Nat /\ MaxHeld \in Nat
    /\ MaxCleanup \in Nat /\ MaxHeld <= MaxCleanup /\ FifoCap \in Nat /\ MaxSeq \in Nat \ {0}

Gens == 1..MaxGen
Slots == Gens \X Keys
RouteKinds == {"Local", "Follow", "Peer"}
Hosts == {"local", "peer"}
Phases == {"None", "TransportLost", "GracefulSettled"}
Coordinators == {"Absent", "Unbound", "Bound"}
Transitions == {"None", "Outbound", "Inbound"}
Updates == {"None", "Staged", "Committed", "Synced"}
MaybeGen == 0..MaxGen     \* 0 is no generation
SeqNumbers == 1..MaxSeq

(***************************************************************************)
(* The destination a control is latched to while it is physically down.    *)
(***************************************************************************)
Latches == [to : {"None", "Local", "Quarantined", "Remote"},
            ep : MaybeGen, route : RouteKinds]
Unlatched == [to |-> "None", ep |-> 0, route |-> "Local"]
LocalLatch == [to |-> "Local", ep |-> 0, route |-> "Local"]
QuarantinedLatch == [to |-> "Quarantined", ep |-> 0, route |-> "Local"]
RemoteLatch(g, r) == [to |-> "Remote", ep |-> g, route |-> r]

(***************************************************************************)
(* remote_held: the controls the peer has been told are down, with the     *)
(* sequence of the last Input frame about them.  Sequence 0 is not held.   *)
(***************************************************************************)
HeldStates == [seq : 0..MaxSeq, route : RouteKinds]
NotHeld == [seq |-> 0, route |-> "Local"]
CleanupEntries == [slot : Slots, covered : 0..MaxSeq]
Frames == [kind : {"Press", "Repeat", "Release", "Cleanup"}, key : Keys, seq : SeqNumbers]
          \cup [kind : {"Move"}, seq : SeqNumbers]

Policies == [Devices -> RouteKinds]

(***************************************************************************)
(* The state of the source host.                                           *)
(***************************************************************************)
HostStates ==
    [ latch : [Keys -> Latches], held : [Slots -> HeldStates], cleanup : Seq(CleanupEntries),
      active : Hosts, ready : BOOLEAN, handoff : BOOLEAN, drain : BOOLEAN,
      suspended : BOOLEAN, running : BOOLEAN, stopping : BOOLEAN, gated : SUBSET Devices,
      routes : Policies,                            \* the committed device routes
      staged : BOOLEAN, candidate : Policies,       \* pending_route_policy
      ep : MaybeGen, up : BOOLEAN,                  \* endpoint_availability
      auth : MaybeGen, accepts : BOOLEAN,           \* the authorized session
      seq : SeqNumbers,                             \* outbound_sequence
      gen : MaybeGen, phase : Phases,               \* the gate's active generation
      pointer : Coordinators,                       \* the pointer coordinator
      authority : Hosts, pending : Transitions,
      inventory : BOOLEAN,                          \* selected_inventory_ready
      present : SUBSET Devices,                     \* the committed local device inventory
      txn : Updates,                                \* pending_local_devices
      wanted : SUBSET Devices, affected : SUBSET Devices,
      dialing : BOOLEAN,                            \* the gate's pending generation
      capture : BOOLEAN,                            \* selected_capture_available
      ending : BOOLEAN,                             \* the runtime's transport loop has failed
      fifo : Seq(Frames), open : BOOLEAN, ok : BOOLEAN ]

InitialHost(routes) ==
    [ latch |-> [k \in Keys |-> Unlatched], held |-> [x \in Slots |-> NotHeld],
      cleanup |-> <<>>, active |-> "local", ready |-> FALSE, handoff |-> FALSE,
      drain |-> FALSE, suspended |-> FALSE, running |-> TRUE, stopping |-> FALSE, gated |-> {},
      routes |-> routes, staged |-> FALSE, candidate |-> routes, ep |-> 0, up |-> FALSE,
      auth |-> 0, accepts |-> FALSE, seq |-> 1, gen |-> 0, phase |-> "None",
      pointer |-> "Absent", authority |-> "local", pending |-> "None",
      inventory |-> FALSE, present |-> Devices, txn |-> "None",
      wanted |-> {}, affected |-> {}, dialing |-> FALSE, capture |-> TRUE, ending |-> FALSE,
      fifo |-> <<>>, open |-> FALSE, ok |-> TRUE ]

Fail(s) == [s EXCEPT !.ok = FALSE]
Succeed(s) == [s EXCEPT !.ok = TRUE]
AndThen(s, Op(_)) == IF s.ok THEN Op(s) ELSE s
OrElse(s, Op(_)) == IF s.ok THEN s ELSE Op(s)

-----------------------------------------------------------------------------
(* Queries *)

HeldSlots(s) == {x \in Slots : s.held[x].seq # 0}
QueuedSlots(s) == {s.cleanup[i].slot : i \in DOMAIN s.cleanup}
Down(s) == {k \in Keys : s.latch[k].to # "None"}

cleanup_pending(s) == s.cleanup # <<>>

shortcut_key_pressed(s, c) == \E k \in Down(s) : k[2] = c
failsafe_matches(s) == \A c \in Chord : shortcut_key_pressed(s, c)
any_failsafe_key_pressed(s) == \E c \in Chord : shortcut_key_pressed(s, c)


affected_route_devices(s) == {d \in Devices : s.candidate[d] # s.routes[d]}
device_route_is_gated(s, d) == d \in s.gated \cup affected_route_devices(s)

\* The host an unlatched event of device d goes to (kvm-router).
destination(s, d) ==
    IF s.routes[d] = "Peer" \/ (s.routes[d] = "Follow" /\ s.active = "peer")
    THEN "peer" ELSE "local"

routing_should_be_active(s) ==
    /\ s.running /\ ~s.suspended /\ ~s.drain /\ s.ready
    /\ ~cleanup_pending(s) \/ s.staged

\* remote_target_endpoint(..) = Some(s.ep)
remote_target_available(s, route) ==
    /\ s.ep # 0 /\ s.up
    /\ routing_should_be_active(s)
    /\ ~s.handoff \/ route # "Follow"
remote_endpoint_available(s, g, route) == remote_target_available(s, route) /\ s.ep = g

route_resolves_to_endpoint(s, route, g) ==
    /\ route = "Peer" \/ (route = "Follow" /\ s.active = "peer")
    /\ s.ep = g
pending_route_has_unresolved_remote(s) ==
    \E x \in HeldSlots(s) :
        /\ x[2][1] \in affected_route_devices(s)
        /\ ~route_resolves_to_endpoint(s, s.candidate[x[2][1]], x[1])
route_policy_ready(s) == ~cleanup_pending(s) /\ ~pending_route_has_unresolved_remote(s)

endpoint_has_obligations(s, g) ==
    \E x \in HeldSlots(s) \cup QueuedSlots(s) : x[1] = g

-----------------------------------------------------------------------------
(* DaemonCore: gates and the cleanup ledger *)

\* The gate every failure path closes: nothing is routed to the peer.
Gated(s) == [s EXCEPT !.ready = FALSE, !.active = "local", !.handoff = FALSE]

\* The order in which the map of held controls is walked.
MapOrder(S) ==
    CHOOSE f \in [1..Cardinality(S) -> S] : \A i, j \in DOMAIN f : f[i] = f[j] => i = j

\* Faulty variant: the released control keeps its latch.
queue_without_quarantine(s, affected) ==
    LET slots == MapOrder((HeldSlots(s) \cap affected) \ QueuedSlots(s))
    IN [s EXCEPT !.cleanup = @ \o [i \in DOMAIN slots |->
                               [slot |-> slots[i], covered |-> s.held[slots[i]].seq]]]

\* Faulty variant: the released control goes on locally.
queue_then_local(s, affected) ==
    [queue_without_quarantine(s, affected) EXCEPT
       !.latch = [k \in Keys |-> IF @[k].to = "Remote" /\ <<@[k].ep, k>> \in affected
                                 THEN LocalLatch ELSE @[k]]]

(***************************************************************************)
(* Own one release for every affected held control that has none yet, and  *)
(* quarantine the control until its physical release.                      *)
(***************************************************************************)
queue_remote_cleanup(s, affected) ==
    LET new == (HeldSlots(s) \cap affected) \ QueuedSlots(s)
        slots == MapOrder(new)
        entries == [i \in DOMAIN slots |->
                      [slot |-> slots[i], covered |-> s.held[slots[i]].seq]]
    IN IF Len(s.cleanup) + Cardinality(new) > MaxCleanup
       THEN Fail(s)
       ELSE [s EXCEPT
               !.cleanup = @ \o entries,
               !.latch = [k \in Keys |->
                            IF @[k].to = "Remote" /\ <<@[k].ep, k>> \in new
                            THEN QuarantinedLatch ELSE @[k]]]

\* Faulty variant: the pinned controls instead of the following ones.
PinnedSlots(s) == {x \in Slots : s.held[x].route = "Peer"}

FollowSlots(s) == {x \in Slots : s.held[x].route = "Follow"}
DeviceSlots(ds) == {x \in Slots : x[2][1] \in ds}
EndpointSlots(g) == {x \in Slots : x[1] = g}

\* Also the core's clear_workspace_routing_ready.
fail_closed(s) == queue_remote_cleanup(Gated(s), Slots)

ReadyIfOk(q) == [q EXCEPT !.ready = @ /\ q.ok]
activate_failsafe(s) ==
    ReadyIfOk(queue_remote_cleanup(
        [s EXCEPT !.suspended = TRUE, !.active = "local", !.handoff = FALSE], Slots))

set_endpoint_state(s, up) ==
    IF up THEN [s EXCEPT !.up = TRUE]
    ELSE queue_remote_cleanup([Gated(s) EXCEPT !.up = FALSE], EndpointSlots(s.ep))

retire_session_endpoint(s, g) ==
    IF s.ep # g \/ s.up \/ endpoint_has_obligations(s, g)
    THEN Fail(s)
    ELSE [Gated(s) EXCEPT !.ep = 0]

\* The queue without the releases of generation g, in order.
Without(q, g) ==
    LET kept == {i \in DOMAIN q : q[i].slot[1] # g}
    IN [n \in 1..Cardinality(kept) |->
          q[CHOOSE i \in kept : Cardinality({j \in kept : j <= i}) = n]]

\* The only operation that discards a release that was never sent.
confirm_transport_invalidated(s, g) ==
    LET t == IF s.ep = g THEN [Gated(s) EXCEPT !.ep = 0, !.up = FALSE] ELSE s
    IN [t EXCEPT
          !.cleanup = Without(@, g),
          !.held = [x \in Slots |-> IF x[1] = g THEN NotHeld ELSE @[x]],
          !.latch = [k \in Keys |-> IF @[k].to = "Remote" /\ @[k].ep = g
                                    THEN QuarantinedLatch ELSE @[k]]]

mark_workspace_routing_ready(s) ==
    IF cleanup_pending(s) \/ HeldSlots(s) # {} \/ ~s.up \/ ~s.running
    THEN Fail(s)
    ELSE [s EXCEPT !.ready = TRUE]

\* restore_local_device for each of ds: refused while a lifecycle of the
\* device is open at the peer.  The code's loop could stop between two
\* devices; the gate before it has released all of them, so it never does.
restore_local_devices(s, ds) ==
    IF \E x \in HeldSlots(s) \cup QueuedSlots(s) : x[2][1] \in ds
    THEN Fail(s)
    ELSE [s EXCEPT !.latch = [k \in Keys |-> IF k[1] \in ds THEN Unlatched ELSE @[k]],
                   !.gated = @ \ ds]

-----------------------------------------------------------------------------
(* PeerSessionCoordinator: the session FIFO *)

CanSend(s) == s.open /\ Len(s.fifo) < FifoCap

\* The i-th queued release can be sent once the ones before it were.
Sendable(s, i) ==
    /\ s.cleanup[i].slot[1] = s.auth
    /\ s.seq + i <= MaxSeq
    /\ s.cleanup[i].covered # 0 /\ s.cleanup[i].covered < s.seq + i - 1
    /\ s.open /\ Len(s.fifo) + i <= FifoCap

SendableCount(s) ==
    CHOOSE m \in 0..Len(s.cleanup) :
        /\ \A i \in 1..m : Sendable(s, i)
        /\ m < Len(s.cleanup) => ~Sendable(s, m + 1)

\* The first n releases are in the FIFO.
Sent(s, n) ==
    [s EXCEPT
       !.cleanup = SubSeq(@, n + 1, Len(@)),
       !.held = [x \in Slots |->
                   IF \E i \in 1..n : s.cleanup[i].slot = x THEN NotHeld ELSE @[x]],
       !.fifo = @ \o [i \in 1..n |-> [kind |-> "Cleanup", seq |-> s.seq + i - 1,
                                      key |-> s.cleanup[i].slot[2]]],
       !.seq = @ + n]

\* Faulty variant: routing stays published over a release that was not sent.
send_failed_ungated(d) == Fail(d)

\* The next release failed; its sequence was consumed before the FIFO was tried.
SendFailed(d) ==
    Fail([Gated(d) EXCEPT !.seq = IF d.cleanup[1].slot[1] = d.auth /\ @ < MaxSeq
                                  THEN @ + 1 ELSE @])

\* Faulty variant: a release that the FIFO refuses is forgotten.
drain_and_forget(s) ==
    LET sent == {i \in DOMAIN s.cleanup : Sendable(s, i)}
        n == Cardinality(sent)
    IN [s EXCEPT !.cleanup = <<>>, !.seq = @ + n,
                 !.held = [x \in Slots |-> IF x \in QueuedSlots(s) THEN NotHeld ELSE @[x]],
                 !.fifo = @ \o [i \in 1..n |-> [kind |-> "Cleanup", seq |-> s.seq + i - 1,
                                                key |-> s.cleanup[i].slot[2]]]]

(***************************************************************************)
(* Send the queued releases in order until one cannot be sent: the rest    *)
(* stays queued, in order, and routing is gated.                           *)
(***************************************************************************)
Drained(d) == IF cleanup_pending(d) THEN SendFailed(d) ELSE d
drain_remote_cleanup(s) == Drained(Sent(s, SendableCount(s)))

\* try_send_control: a control frame is offered to the same FIFO.
ControlAccepted(s) == s.auth # 0 /\ s.accepts /\ CanSend(s)

clear_workspace_routing_ready(s) == AndThen(fail_closed(s), drain_remote_cleanup)

-----------------------------------------------------------------------------
(* Pointer handoff: the gate around a change of the active host *)

core_begin_pointer_handoff(s) ==
    IF s.staged THEN Fail(s)
    ELSE queue_remote_cleanup([s EXCEPT !.handoff = TRUE], FollowSlots(s))

cancel_pointer_handoff(s) == [s EXCEPT !.handoff = FALSE, !.active = "local"]

\* The coordinator's begin_pointer_handoff: releases enter the FIFO first.
begin_pointer_handoff(s) ==
    AndThen(core_begin_pointer_handoff(s),
            LAMBDA q : OrElse(drain_remote_cleanup(q), cancel_pointer_handoff))

\* The destination's barrier keeps the authority it had when it fails.
begin_destination_handoff_barrier(s) ==
    AndThen(core_begin_pointer_handoff(s),
            LAMBDA q : OrElse(drain_remote_cleanup(q), LAMBDA d : [d EXCEPT !.handoff = FALSE]))

\* finish_pointer_handoff and the update_workspace it calls.
update_workspace(s, host) ==
    IF host = s.active THEN s ELSE queue_remote_cleanup(s, FollowSlots(s))
PublishHost(q, host) ==
    IF q.ok /\ ~cleanup_pending(q) THEN [q EXCEPT !.active = host, !.handoff = FALSE] ELSE Fail(q)
core_finish_pointer_handoff(s, host) ==
    IF s.staged \/ cleanup_pending(s) THEN Fail(s) ELSE PublishHost(update_workspace(s, host), host)

\* Any failure of the core is CleanupPending here: drain and try once more.
finish_pointer_handoff(s, host) ==
    OrElse(core_finish_pointer_handoff(s, host),
           LAMBDA f : AndThen(drain_remote_cleanup(Succeed(f)),
                              LAMBDA d : core_finish_pointer_handoff(d, host)))

\* publish_pointer_workspace: the core adopts the coordinator's authority.
publish_pointer_workspace(s) == finish_pointer_handoff(s, s.authority)

\* degrade_session, disconnect_session, replace_workspace: back to local.
PointerLocal(s) == [s EXCEPT !.authority = "local", !.pending = "None"]

-----------------------------------------------------------------------------
(* Route policy and device gates *)

Unresolved(s) ==
    {x \in Slots : /\ x[2][1] \in affected_route_devices(s)
                   /\ ~route_resolves_to_endpoint(s, s.candidate[x[2][1]], x[1])}

\* The retained candidate's cleanup, sent; a failure leaves it retained.
core_retry_route_policy(s) == queue_remote_cleanup(s, Unresolved(s))
retry_route_policy_update(s) == AndThen(drain_remote_cleanup(s), core_retry_route_policy)

\* A candidate whose cleanup cannot be owned is not retained.
Prepared(s, q) ==
    IF ~q.ok THEN Fail(s)
    ELSE IF route_policy_ready(q) THEN q ELSE retry_route_policy_update(q)
prepare_route_policy_update(s, candidate) ==
    IF s.handoff \/ s.staged \/ cleanup_pending(s) THEN Fail(s)
    ELSE Prepared(s, core_retry_route_policy([s EXCEPT !.staged = TRUE, !.candidate = candidate]))

commit_route_policy_update(s) ==
    [s EXCEPT
       !.held = [x \in Slots |-> IF @[x].seq = 0 THEN @[x]
                                 ELSE [@[x] EXCEPT !.route = s.candidate[x[2][1]]]],
       !.latch = [k \in Keys |-> IF @[k].to = "Remote"
                                 THEN [@[k] EXCEPT !.route = s.candidate[k[1]]] ELSE @[k]],
       !.routes = s.candidate, !.staged = FALSE]

abort_route_policy_update(s) == [s EXCEPT !.staged = FALSE, !.candidate = s.routes]

\* Faulty variant: the devices are gated and their held controls kept.
gate_without_release(s, ds) == [s EXCEPT !.gated = @ \cup ds]

gate_local_devices(s, ds) ==
    AndThen(queue_remote_cleanup([s EXCEPT !.gated = @ \cup ds], DeviceSlots(ds)),
            drain_remote_cleanup)

-----------------------------------------------------------------------------
(* Captured input *)

ensure_physical_capacity(s) == Cardinality(Down(s)) < MaxPhysical

\* The latch after the physical transition itself, before any routing.
LatchStep(s, kind, k) ==
    [s EXCEPT !.latch[k] = CASE kind = "Release" -> Unlatched
                             [] kind = "Press" /\ @.to = "None" -> LocalLatch
                             [] OTHER -> @]

\* Faulty variant: the sequence is not consumed.
dispatch_same_sequence(s, frame) ==
    IF s.auth = 0 \/ ~s.accepts \/ s.ep # s.auth \/ ~CanSend(s) THEN Fail(s)
    ELSE [s EXCEPT !.fifo = Append(@, frame)]

\* One Input frame; its sequence is consumed even when the FIFO refuses it.
dispatch_remote_effect(s, frame) ==
    LET n == [s EXCEPT !.seq = @ + 1]
    IN IF s.auth = 0 \/ ~s.accepts \/ s.ep # s.auth \/ s.seq = MaxSeq THEN Fail(s)
       ELSE IF CanSend(s) THEN [n EXCEPT !.fifo = Append(@, frame)] ELSE Fail(n)

\* The frame with sequence n is in the FIFO: commit the lifecycle.
confirm_remote_input(s, kind, k, previous, n) ==
    LET x == <<s.ep, k>>
        route == IF previous.to = "Remote" THEN previous.route ELSE s.routes[k[1]]
    IN CASE kind = "Press" ->
              [s EXCEPT !.held[x] = [seq |-> n, route |-> route],
                        !.latch[k] = RemoteLatch(s.ep, route)]
         [] kind = "Release" -> [s EXCEPT !.held[x] = NotHeld]
         [] kind = "Repeat" ->
              IF s.held[x].seq = 0 THEN Fail(fail_closed(s)) ELSE [s EXCEPT !.held[x].seq = n]

\* The frame is not in the FIFO; a first press has kept its local latch.
fail_remote_input(s) == Fail(fail_closed(Succeed(s)))

ConfirmOrFail(d, kind, k, previous, n) ==
    IF d.ok THEN confirm_remote_input(d, kind, k, previous, n) ELSE fail_remote_input(d)
RouteRemote(s, kind, k, previous) ==
    ConfirmOrFail(dispatch_remote_effect(s, [kind |-> kind, key |-> k, seq |-> s.seq]),
                  kind, k, previous, s.seq)

\* trigger_emergency and the chord share activate_failsafe.
trigger_emergency(s) == activate_failsafe([s EXCEPT !.drain = TRUE])

tick(s) == [s EXCEPT !.drain = @ /\ any_failsafe_key_pressed(s)]

-----------------------------------------------------------------------------
(* The cleanup ledger *)

\* A control latched to the peer is held there and has no release queued.
RemoteLatchIsHeld(s) ==
    \A k \in Keys : s.latch[k].to = "Remote" =>
        /\ s.latch[k].ep = s.ep
        /\ <<s.ep, k>> \in HeldSlots(s) \ QueuedSlots(s)

\* A control held at the peer is still latched to it or has its release queued.
HeldIsOwned(s) ==
    \A x \in HeldSlots(s) :
        x \in QueuedSlots(s) \/ (s.latch[x[2]].to = "Remote" /\ s.latch[x[2]].ep = x[1])

\* Nothing is queued twice, or for a control that is not held.
QueuedIsHeld(s) ==
    /\ \A i \in DOMAIN s.cleanup :
         /\ s.cleanup[i].slot \in HeldSlots(s)
         /\ s.cleanup[i].covered = s.held[s.cleanup[i].slot].seq
    /\ \A i, j \in DOMAIN s.cleanup : s.cleanup[i].slot = s.cleanup[j].slot => i = j

\* Everything held belongs to the one installed endpoint.
OneEndpoint(s) == \A x \in HeldSlots(s) : x[1] = s.ep

Ledger(s) == RemoteLatchIsHeld(s) /\ HeldIsOwned(s) /\ QueuedIsHeld(s) /\ OneEndpoint(s)

\* What keeps the ledger: every release fits the queue, ...
HeldBound(s) == Cardinality(HeldSlots(s)) <= MaxHeld

\* ... nothing is routed while a release waits that no staged route gates, ...
ReleasesGateRouting(s) ==
    s.ready /\ s.running =>
        \A x \in QueuedSlots(s) : s.staged /\ x[2][1] \in affected_route_devices(s)

\* ... and the failsafe leaves nothing latched to the peer.
FailsafeReleasesAll(s) == s.drain => \A k \in Keys : s.latch[k].to # "Remote"

=============================================================================
