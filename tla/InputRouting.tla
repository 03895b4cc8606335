----------------------------- MODULE InputRouting -----------------------------
(***************************************************************************)
(* Keyboard and button input captured on one host and routed to its peer:  *)
(* the capture handler of the peer manager, every session, workspace,      *)
(* policy and device handler that changes where input goes, the session    *)
(* FIFO, and the peer's inbound half that injects what arrives.            *)
(*                                                                         *)
(* One action is one handler: the peer manager runs each under its lock.   *)
(* h is the source host, dst the inbound half of the peer, conn the        *)
(* generation of the newest transport.  phys is what the user holds down   *)
(* and os what the source's own operating system has been shown as down.   *)
(***************************************************************************)
EXTENDS SessionSupervisor

CONSTANT Features   \* which environment events may happen

VARIABLES h, phys, os, dst, conn

vars == <<h, phys, os, dst, conn>>

Kinds == {"Press", "Repeat", "Release"}
DstStates == [gen : 0..MaxGen, admitted : 0..MaxGen, accepts : BOOLEAN,
              last : 0..MaxSeq, inbound : SUBSET Keys, lost : BOOLEAN]
NoSession(d) == [d EXCEPT !.gen = 0, !.accepts = FALSE, !.inbound = {}, !.last = 0, !.lost = FALSE]

\* Injection may fail only where a run asks for it.
Injections == IF "InjectionFails" \in Features THEN BOOLEAN ELSE {TRUE}

Init ==
    /\ h \in {InitialHost(r) : r \in Policies}
    /\ phys = {} /\ os = {}
    /\ dst = [gen |-> 0, admitted |-> 0, accepts |-> FALSE, last |-> 0,
              inbound |-> {}, lost |-> FALSE]
    /\ conn = 0

-----------------------------------------------------------------------------
(* Captured input: route_selected_capture down to route_captured *)

Physical(kind, k) == IF kind = "Press" THEN k \notin phys ELSE k \in phys
After(set, kind, k) == IF kind = "Release" THEN set \ {k} ELSE set \cup {k}

\* An error of the capture path ends the generation, or closes the gate.
CaptureEnd(t, injected) ==
    IF ~t.ok /\ t.gen = 0 THEN Succeed(clear_workspace_routing_ready(Succeed(t)))
    ELSE Settle(t, injected)

\* The handler returned; shown says whether the event stays local.
Captured(kind, k, shown, t) ==
    /\ \E injected \in Injections : h' = CaptureEnd(t, injected)
    /\ phys' = After(phys, kind, k)
    /\ os' = IF shown THEN After(os, kind, k) ELSE os
    /\ UNCHANGED <<dst, conn>>

\* The event never reaches the core: the manager rejects it, or the callback
\* finds the manager locked by another handler and lets the event pass.
CaptureBypassed(kind, k) ==
    /\ Physical(kind, k)
    /\ ~h.capture \/ h.dialing \/ "Contention" \in Features
    /\ phys' = After(phys, kind, k) /\ os' = After(os, kind, k)
    /\ UNCHANGED <<h, dst, conn>>

OverCapacity(kind, k) ==
    kind = "Press" /\ h.latch[k].to = "None" /\ ~ensure_physical_capacity(h)
Observed(kind, k) == Physical(kind, k) /\ h.capture /\ ~h.dialing

CaptureOverCapacity(kind, k) ==
    /\ Observed(kind, k) /\ OverCapacity(kind, k)
    /\ Captured(kind, k, TRUE, Fail(fail_closed(h)))

CaptureFailsafe(kind, k) ==
    LET b == LatchStep(h, kind, k)
    IN /\ Observed(kind, k) /\ ~OverCapacity(kind, k)
       /\ failsafe_matches(b) /\ ~b.drain
       /\ \E released \in Injections :
            Captured(kind, k, TRUE,
                     AndThen(Emergency(b, released),
                             LAMBDA d : IF d.gen = 0 THEN d ELSE cancel_handoff_for_failsafe(d)))

CaptureWhileDraining(kind, k) ==
    LET b == LatchStep(h, kind, k)
    IN /\ Observed(kind, k) /\ ~OverCapacity(kind, k)
       /\ b.drain
       /\ Captured(kind, k, TRUE, drain_remote_cleanup(tick(b)))

Normal(kind, k) ==
    /\ Observed(kind, k) /\ ~OverCapacity(kind, k)
    /\ ~h.drain /\ ~failsafe_matches(LatchStep(h, kind, k))

\* A repeat or release the core never saw pressed, or latched locally.
CaptureLatchedLocal(kind, k) ==
    /\ Normal(kind, k)
    /\ h.latch[k].to = "Local" \/ (h.latch[k].to = "None" /\ kind # "Press")
    /\ Captured(kind, k, TRUE, drain_remote_cleanup(LatchStep(h, kind, k)))


CaptureQuarantined(kind, k) ==
    /\ Normal(kind, k)
    /\ h.latch[k].to = "Quarantined"
    /\ Captured(kind, k, FALSE, drain_remote_cleanup(LatchStep(h, kind, k)))

Routed(b, kind, k, previous) ==
    IF remote_endpoint_available(b, previous.ep, previous.route)
    THEN RouteRemote(b, kind, k, previous) ELSE clear_workspace_routing_ready(b)

CaptureLatchedRemote(kind, k) ==
    /\ Normal(kind, k)
    /\ h.latch[k].to = "Remote"
    /\ Captured(kind, k, FALSE, Routed(LatchStep(h, kind, k), kind, k, h.latch[k]))

FirstPress(k) == Normal("Press", k) /\ h.latch[k].to = "None"

\* The route of the device decides a first press, then its whole lifecycle.
StaysLocal(s, d) ==
    \/ device_route_is_gated(s, d)
    \/ /\ ~(s.handoff /\ s.routes[d] = "Follow")
       /\ destination(s, d) = "local" \/ ~remote_target_available(s, s.routes[d])

CapturePressLocal(k) ==
    /\ FirstPress(k)
    /\ StaysLocal(h, k[1])
    /\ Captured("Press", k, TRUE, drain_remote_cleanup(LatchStep(h, "Press", k)))

CapturePressDuringHandoff(k) ==
    /\ FirstPress(k)
    /\ ~device_route_is_gated(h, k[1])
    /\ h.handoff /\ h.routes[k[1]] = "Follow"
    /\ Captured("Press", k, FALSE,
                drain_remote_cleanup([h EXCEPT !.latch[k] = QuarantinedLatch]))

\* Faulty variant: the limit of held controls is not looked at.
press_beyond_limit(b, k, previous) == RouteRemote(b, "Press", k, previous)

\* A first press that cannot enter the FIFO stays local.
PressRemote(b, k, previous) ==
    IF Cardinality(HeldSlots(b)) >= MaxHeld THEN Fail(fail_closed(b))
    ELSE RouteRemote(b, "Press", k, previous)

LocalUnlessSent(k, r) == Captured("Press", k, ~r.ok, r)
CapturePressRemote(k) ==
    /\ FirstPress(k)
    /\ ~StaysLocal(h, k[1])
    /\ ~(h.handoff /\ h.routes[k[1]] = "Follow")
    /\ LocalUnlessSent(k, PressRemote(LatchStep(h, "Press", k), k, h.latch[k]))

\* A pointer move has no lifecycle; it retries unsent cleanup when local.
CaptureMove(d) ==
    LET inert == h.handoff /\ h.routes[d] = "Follow"
        move == [kind |-> "Move", seq |-> h.seq]
    IN /\ "Move" \in Features
       /\ h.capture /\ ~h.dialing
       /\ \E injected \in Injections :
            h' = CaptureEnd(
                   IF h.drain \/ inert \/ StaysLocal(h, d)
                   THEN drain_remote_cleanup(tick(h))
                   ELSE OrElse(dispatch_remote_effect(h, move), fail_remote_input), injected)
       /\ UNCHANGED <<phys, os, dst, conn>>

-----------------------------------------------------------------------------
(* The session of the source host *)

\* A handler of the source host that is not a captured event.
Handled(t) ==
    /\ \E injected \in Injections : h' = Settle(t, injected)
    /\ UNCHANGED <<phys, os, dst, conn>>

\* The runner delivers events of this generation.
Live == h.gen # 0 /\ h.open /\ h.phase = "None"

\* The old transport is gone on both sides and a new one is dialled.
BeginSession ==
    /\ h.gen = 0 /\ ~h.open /\ ~h.dialing /\ ~h.stopping /\ ~h.ending
    /\ dst.gen = 0
    /\ conn < MaxGen
    /\ conn' = conn + 1
    /\ h' = [h EXCEPT !.dialing = TRUE]
    /\ UNCHANGED <<phys, os, dst>>

SessionRefused ==
    /\ h.dialing
    /\ h' = [h EXCEPT !.dialing = FALSE]
    /\ UNCHANGED <<phys, os, dst, conn>>

\* Admitted: activate_binding refuses while an endpoint is installed.
Admitted ==
    /\ h.dialing
    /\ h.ep = 0 /\ h.auth = 0
    /\ Handled(activate([h EXCEPT !.dialing = FALSE], conn))

\* DisplaySnapshot or DisplayUpdated of the peer.
RemoteDisplays(compiles) ==
    /\ Live /\ dst.admitted = conn
    /\ Handled(IF h.accepts THEN apply_remote_displays(h, compiles) ELSE Fail(h))

\* The heartbeat lost the peer.
EndpointDegraded ==
    /\ "Degrade" \in Features
    /\ Live /\ h.accepts
    /\ \E released \in Injections :
         Handled(AndThen(suspend_selected(h),
                         LAMBDA w : OrElse(Injected(EndpointDown(w), released),
                                           LAMBDA d : Fail(session_fatal_cleanup(Succeed(d), released)))))

\* The heartbeat has the peer back; the device snapshot is sent again.
EndpointConnected ==
    LET c == [h EXCEPT !.accepts = TRUE, !.up = TRUE]
    IN /\ Live /\ ~h.accepts /\ h.auth = h.gen
       /\ Handled(IF ControlAccepted(c) THEN c ELSE Fail(c))

\* A message of the peer that the coordinator or the workspace rejects.
SessionFault ==
    /\ "Fault" \in Features
    /\ Live
    /\ \/ \E released \in Injections : Handled(Fail(session_fatal_cleanup(h, released)))
       \/ Handled(Fail(h))

\* Everything unsent is lost with the transport.
TransportBreaks ==
    /\ h.open
    /\ h' = [h EXCEPT !.open = FALSE, !.fifo = <<>>]
    /\ UNCHANGED <<phys, os, dst, conn>>

\* The terminal event and then the loss of the task, each tried once.
ConnectionLost ==
    /\ h.gen # 0 /\ ~h.open /\ h.phase # "TransportLost"
    /\ \E first, second \in Injections :
         h' = Succeed(OrElse(reconcile_transport_lost(h, first),
                             LAMBDA t : reconcile_transport_lost(Succeed(t), second)))
    /\ UNCHANGED <<phys, os, dst, conn>>

\* PeerManager::shutdown, repeated by settle_shutdown until it succeeds: on
\* request, or because the transport loop has failed.
Stopped(s, injected) ==
    Succeed(IF s.gen = 0 THEN shutdown(s, injected) ELSE reconcile_shutdown(s, injected))
Shutdown ==
    /\ "Shutdown" \in Features \/ h.ending
    /\ ~h.stopping \/ h.gen # 0 \/ h.running
    /\ \E injected \in Injections :
         h' = ForgetUpdate(retire_settled_metadata(Stopped(
                [h EXCEPT !.stopping = TRUE, !.capture = FALSE, !.dialing = FALSE], injected)))
    /\ UNCHANGED <<phys, os, dst, conn>>

-----------------------------------------------------------------------------
(* Failsafe, capture lifecycle and the tick *)

\* Both the cleanup and the pointer are tried; either failure is fatal.
ThenCancelHandoff(c) == [cancel_handoff_for_failsafe(Succeed(c)) EXCEPT !.ok = @ /\ c.ok]

\* Faulty variant: capture ends without the failsafe.
discontinued_quietly(s, released) == IF s.gen = 0 \/ released THEN s ELSE Fail(s)

Discontinued(s, released) ==
    IF s.gen = 0 THEN s
    ELSE IF s.auth # s.gen THEN Fail(s)
    ELSE ThenCancelHandoff(Emergency(s, released))
NativeCaptureDiscontinued ==
    /\ "Discontinue" \in Features
    /\ h.capture
    /\ \E released \in Injections : Handled(Discontinued([h EXCEPT !.capture = FALSE], released))

RearmNativeCapture ==
    /\ ~h.capture /\ ~h.stopping
    /\ h' = [h EXCEPT !.capture = TRUE]
    /\ UNCHANGED <<phys, os, dst, conn>>

\* selected_lifecycle_tick; the suspension may have run out by now.  An error
\* of the tick is an error of service_manager and ends the transport loop.
LifecycleTick ==
    /\ ~h.ending /\ ~h.stopping
    /\ \E suspended \in {h.suspended, FALSE} :
         h' = tick([h EXCEPT !.suspended = suspended, !.ending = h.gen # 0 /\ h.auth # h.gen])
    /\ h' # h
    /\ UNCHANGED <<phys, os, dst, conn>>

\* poll_timeout in the tick: an expired transition ends the generation.
Expired(s) == IF s.pending = "Outbound" THEN PointerLocal(s) ELSE [s EXCEPT !.pending = "None"]
HandoffExpires ==
    /\ ~h.ending /\ ~h.stopping
    /\ h.gen # 0 /\ h.auth = h.gen /\ h.inventory
    /\ h.pending # "None"
    /\ Handled(Fail(publish_pointer_workspace(tick(Expired([h EXCEPT !.ending = TRUE])))))

-----------------------------------------------------------------------------
(* Pointer handoff: the messages of the peer's coordinator are inputs here *)

\* A control message leaves, or the transition and the generation fail.
Dispatched(s) == IF ControlAccepted(s) THEN s ELSE Fail(cancel_pointer_handoff(PointerLocal(s)))

ProposePointerHandoff ==
    /\ "Handoff" \in Features
    /\ Live /\ ~h.staged /\ h.txn = "None"
    /\ h.inventory /\ h.accepts /\ h.authority = "local" /\ h.pending = "None"
    /\ Handled(AndThen(begin_pointer_handoff([h EXCEPT !.pending = "Outbound"]), Dispatched))

\* A pointer message during an administrative transaction is fatal.
PointerMessage(t) ==
    /\ Live
    /\ Handled(IF h.staged \/ h.txn # "None" \/ ~h.accepts \/ ~h.inventory THEN Fail(h) ELSE t)

\* The Commit is sent behind the releases, then the peer is the active host.
CommitSent(b) ==
    publish_pointer_workspace([b EXCEPT !.authority = "peer", !.pending = "None"])
PointerTransitionAccepted ==
    /\ h.pending = "Outbound"
    /\ PointerMessage(AndThen(AndThen(begin_pointer_handoff(h), Dispatched), CommitSent))

PointerTransitionRejected ==
    /\ h.pending = "Outbound"
    /\ PointerMessage(PointerLocal(h))

AckSent(b) ==
    IF ControlAccepted(b) THEN b ELSE Fail([b EXCEPT !.handoff = FALSE, !.pending = "None"])
PointerEntered ==
    /\ "Handoff" \in Features
    /\ h.authority = "peer" /\ h.pending = "None"
    /\ PointerMessage(AndThen(begin_destination_handoff_barrier([h EXCEPT !.pending = "Inbound"]),
                              AckSent))

PointerTransitionCommitted ==
    /\ h.pending = "Inbound"
    /\ PointerMessage(publish_pointer_workspace(PointerLocal(h)))

-----------------------------------------------------------------------------
(* Route policy and the local device inventory *)

\* The handlers of an administrative transaction never end the session.
Administered(t) == h' = Succeed(t) /\ UNCHANGED <<phys, os, dst, conn>>

\* settle_route_policy_update: persist, then commit, when ready.
settle_route_policy_update(t, saved) ==
    IF t.ok /\ t.staged /\ route_policy_ready(t) /\ saved
    THEN commit_route_policy_update(t) ELSE t

ReplaceDeviceRoutes(candidate) ==
    /\ "Policy" \in Features
    /\ ~h.stopping /\ ~h.dialing /\ h.txn = "None" /\ h.pending = "None"
    /\ candidate # h.routes /\ ~h.staged
    /\ {d \in Devices : candidate[d] # h.routes[d]} \subseteq h.present
    /\ \E saved \in BOOLEAN :
         Administered(settle_route_policy_update(prepare_route_policy_update(h, candidate), saved))

RetryDeviceRoutes ==
    /\ h.staged /\ ~h.dialing /\ h.txn = "None"
    /\ \E saved \in BOOLEAN :
         Administered(settle_route_policy_update(retry_route_policy_update(h), saved))

Abandoned(r, saved) ==
    IF r.ok /\ route_policy_ready(r) /\ saved THEN abort_route_policy_update(r) ELSE r
AbortDeviceRoutes ==
    /\ h.staged /\ ~h.dialing /\ h.txn = "None"
    /\ \E saved \in BOOLEAN : Administered(Abandoned(retry_route_policy_update(h), saved))

\* Local display revisions and runtime topology changes.
LocalDisplays(compiles) ==
    /\ "Displays" \in Features
    /\ ~h.staged /\ h.txn = "None"
    /\ h.gen # 0 /\ h.auth = h.gen
    /\ Handled(apply_local_display(h, compiles))

ReplaceWorkspaceTopology ==
    /\ "Displays" \in Features
    /\ ~h.staged /\ h.txn = "None"
    /\ h.gen # 0 /\ h.auth = h.gen
    /\ Handled(replace_topology(h))

\* The exact generation must still be authorized while one is active.
Reachable == h.gen = 0 \/ h.auth = h.gen

ReplaceLocalDeviceInventory(wanted, changed) ==
    /\ "Inventory" \in Features
    /\ ~h.stopping /\ ~h.staged /\ h.pending = "None" /\ h.txn = "None" /\ Reachable
    /\ changed \subseteq wanted /\ (wanted # h.present \/ changed # {})
    /\ \E injected \in Injections :
         Administered(settle_local_device_inventory_update(
                        stage_local_device_snapshot(h, wanted, changed), injected))

RetryLocalDeviceInventory ==
    /\ h.txn # "None" /\ Reachable
    /\ \E injected \in Injections :
         Administered(settle_local_device_inventory_update(h, injected))

AbortLocalDeviceInventory ==
    /\ h.txn = "Staged" /\ Reachable
    /\ Administered(abort_local_device_inventory_update(h))

-----------------------------------------------------------------------------
(* The inbound half of the peer *)

Peer(d) == dst' = d /\ UNCHANGED <<phys, os, conn>>

\* The peer's runner shuts the transport down after a fatal error; the keys
\* it holds down are released first, or stay for the loss of the transport.
PeerFails(d) ==
    /\ \E injected \in Injections : Peer(IF injected THEN NoSession(d) ELSE d)
    /\ h' = [h EXCEPT !.open = FALSE, !.fifo = <<>>]

PeerAdmitted ==
    /\ h.open /\ dst.gen = 0 /\ dst.admitted # conn
    /\ Peer([dst EXCEPT !.gen = conn, !.admitted = conn, !.accepts = TRUE, !.last = 0])
    /\ UNCHANGED h

\* handle_authorized_message and inject_received.
Acceptable(d, frame) ==
    /\ d.accepts
    /\ frame.seq > d.last
    /\ frame.kind = "Repeat" => frame.key \in d.inbound

Applied(d, frame) ==
    [d EXCEPT !.last = frame.seq,
              !.inbound = CASE frame.kind = "Press" -> @ \cup {frame.key}
                            [] frame.kind \in {"Release", "Cleanup"} -> @ \ {frame.key}
                            [] OTHER -> @]

PeerReceives ==
    LET frame == Head(h.fifo)
        pressed == IF frame.kind = "Press"
                   THEN [dst EXCEPT !.inbound = @ \cup {frame.key}] ELSE dst
    IN /\ h.fifo # <<>> /\ dst.gen = conn
       /\ \E injected \in Injections :
            IF Acceptable(dst, frame) /\ injected
            THEN Peer(Applied(dst, frame)) /\ h' = [h EXCEPT !.fifo = Tail(@)]
            ELSE PeerFails(IF Acceptable(dst, frame) THEN pressed ELSE dst)

\* The peer's own failsafe, degradation or a device it no longer knows.
PeerReleases ==
    /\ "PeerReleases" \in Features
    /\ dst.gen # 0 /\ dst.inbound # {}
    /\ \E gone \in (SUBSET dst.inbound) \ {{}} :
         Peer([dst EXCEPT !.inbound = @ \ gone])
    /\ UNCHANGED h

PeerConnectionLost ==
    /\ dst.gen # 0 /\ (~h.open \/ dst.gen # conn) /\ ~dst.lost
    /\ \E injected \in Injections :
         Peer(IF injected THEN NoSession(dst) ELSE [dst EXCEPT !.lost = TRUE, !.accepts = FALSE])
    /\ UNCHANGED h

-----------------------------------------------------------------------------
Capture ==
    \/ \E kind \in Kinds, k \in Keys :
         \/ CaptureBypassed(kind, k) \/ CaptureOverCapacity(kind, k)
         \/ CaptureFailsafe(kind, k) \/ CaptureWhileDraining(kind, k)
         \/ CaptureLatchedLocal(kind, k) \/ CaptureQuarantined(kind, k)
         \/ CaptureLatchedRemote(kind, k)
    \/ \E k \in Keys :
         CapturePressLocal(k) \/ CapturePressDuringHandoff(k) \/ CapturePressRemote(k)
    \/ \E d \in Devices : CaptureMove(d)

Session ==
    \/ BeginSession \/ SessionRefused \/ Admitted
    \/ \E compiles \in BOOLEAN : RemoteDisplays(compiles)
    \/ EndpointDegraded \/ EndpointConnected \/ SessionFault
    \/ TransportBreaks \/ ConnectionLost \/ Shutdown

Lifecycle ==
    NativeCaptureDiscontinued \/ RearmNativeCapture \/ LifecycleTick \/ HandoffExpires

Handoff ==
    \/ ProposePointerHandoff \/ PointerTransitionAccepted \/ PointerTransitionRejected
    \/ PointerEntered \/ PointerTransitionCommitted

Administration ==
    \/ \E c \in Policies : ReplaceDeviceRoutes(c)
    \/ RetryDeviceRoutes \/ AbortDeviceRoutes
    \/ \E compiles \in BOOLEAN : LocalDisplays(compiles)
    \/ ReplaceWorkspaceTopology
    \/ \E w, c \in SUBSET Devices : ReplaceLocalDeviceInventory(w, c)
    \/ RetryLocalDeviceInventory \/ AbortLocalDeviceInventory

PeerHost == PeerAdmitted \/ PeerReceives \/ PeerReleases \/ PeerConnectionLost

Next == Capture \/ Session \/ Lifecycle \/ Handoff \/ Administration \/ PeerHost

Spec == Init /\ [][Next]_vars

(***************************************************************************)
(* What is assumed to go on: the session tasks deliver what has arrived    *)
(* and report the loss of the transport, the lifecycle tick expires a      *)
(* pending transition, a runtime whose transport loop failed shuts down,   *)
(* and the user moves a pointing device now and then while a release       *)
(* waits.  The last four actions make the condition they are enabled by    *)
(* false, so that their weak fairness is: it does not hold for ever.       *)
(***************************************************************************)
LossUnreported == h.gen # 0 /\ ~h.open /\ h.phase # "TransportLost"
ExpiryDue == ~h.ending /\ ~h.stopping /\ h.auth = h.gen /\ h.inventory /\ h.pending # "None"
ShutdownDue == h.ending /\ (~h.stopping \/ (h.gen # 0 /\ (cleanup_pending(h) => Sendable(h, 1))))
ReleaseWaits == h.capture /\ ~h.dialing /\ cleanup_pending(h) /\ Sendable(h, 1)

Fairness ==
    /\ WF_vars(PeerReceives) /\ WF_vars(PeerConnectionLost)
    /\ []<>(~LossUnreported) /\ []<>(~ExpiryDue) /\ []<>(~ShutdownDue) /\ []<>(~ReleaseWaits)

LiveSpec == Spec /\ Fairness

-----------------------------------------------------------------------------
(* Properties *)

\* Every variable has its type; between handlers no error is outstanding and
\* without a staged policy the candidate is the committed policy.
TypeOK ==
    /\ h \in HostStates
    /\ h.ok /\ (~h.staged => h.candidate = h.routes)
    /\ phys \subseteq Keys /\ os \subseteq Keys
    /\ dst \in DstStates
    /\ conn \in 0..MaxGen

\* No lifecycle is orphaned or split across generations, whatever the order
\* of captures, failures, retries and reconnects (core.rs queue_remote_cleanup,
\* confirm_remote_input, confirm_transport_invalidated).
CleanupLedger == Ledger(h)

\* Nothing is routed past an unsent release: while routing is published, the
\* only releases that wait are of devices whose staged route gates them, and
\* while the failsafe drains no control is latched to the peer (core.rs
\* routing_should_be_active, activate_failsafe; session.rs drain_remote_cleanup).
CleanupGatesRouting == ReleasesGateRouting(h) /\ FailsafeReleasesAll(h)

\* The peer is never told to hold more than MAX_REMOTE_HELD_TOTAL controls, so
\* that a release can always be queued (core.rs confirm_remote_input,
\* queue_remote_cleanup).
CleanupAlwaysOwnable == HeldBound(h)

\* What the peer will hold down once it has received the whole FIFO.
LeftDown(down, q) ==
    LET Released(i, k) == q[i].kind \in {"Release", "Cleanup"} /\ q[i].key = k
    IN {k \in Keys :
          \/ k \in down /\ \A j \in DOMAIN q : ~Released(j, k)
          \/ \E i \in DOMAIN q : /\ q[i].kind = "Press" /\ q[i].key = k
                                 /\ \A j \in DOMAIN q : j > i => ~Released(j, k)}
SettledDown ==
    IF h.open THEN LeftDown(IF dst.gen = conn THEN dst.inbound ELSE {}, h.fifo) ELSE {}

\* No stuck key: whatever the peer will hold down after what is in flight, the
\* source still owns an obligation to release (session.rs drain_remote_cleanup,
\* session_fatal_cleanup): a generation is never retired over a key left down.
LedgerCoversPeer ==
    \A k \in SettledDown : <<conn, k>> \in HeldSlots(h)

\* On the FIFO path the peer accepts every frame: sequences only grow and no
\* repeat arrives for a key the peer does not hold (session.rs accept_sequence,
\* inject_received); StaleSequence and UnmatchedRepeat are never the source's.
FramesAcceptable ==
    (h.fifo # <<>> /\ dst.gen = conn /\ dst.accepts) => Acceptable(dst, Head(h.fifo))

\* A new session always finds the core free of the old one: no installed
\* endpoint, no authorized session, no obligation (session.rs activate_binding
\* and core.rs install_session_endpoint would refuse it).
ReplacementInstallable ==
    h.dialing => h.ep = 0 /\ h.auth = 0 /\ HeldSlots(h) = {} /\ h.cleanup = <<>>

\* A control is held at the peer only while the user holds it down or its
\* release is queued: every way of losing sight of the keyboard (a dial, a
\* discontinued capture, a failed frame) has released it before (peer_manager.rs
\* native_capture_discontinued, core.rs fail_remote_input).
HeldIsPressed == \A x \in HeldSlots(h) : x[2] \in phys \/ x \in QueuedSlots(h)

\* The active host never changes over an unreleased key: while routing stays
\* published, a change of the active host leaves nothing that followed the old
\* one held or queued at the peer (core.rs begin_pointer_handoff,
\* finish_pointer_handoff, activate_failsafe).
AuthorityAfterReleases ==
    [][h'.active # h.active /\ h'.ready =>
         h'.cleanup = <<>> /\ \A x \in HeldSlots(h') : h'.held[x].route # "Follow"]_vars

\* One key lifecycle never changes its destination: while a control stays
\* down, a local latch stays local, a quarantine stays, and a remote latch
\* stays at its endpoint or becomes a quarantine.
LifecycleNeverSplits ==
    [][\A k \in Keys :
         LET a == h.latch[k] b == h'.latch[k]
         IN a.to # "None" /\ b.to # "None" =>
              \/ b.to = a.to /\ b.ep = a.ep
              \/ a.to = "Remote" /\ b.to = "Quarantined"]_vars


\* An inventory of local devices is published only when no control of a device
\* it adds or removes is held or queued for release at the peer
\* (peer_manager.rs settle_local_device_inventory_update).
InventoryAfterReleases ==
    [][\A x \in HeldSlots(h') :
         x[2][1] \notin (h.present \ h'.present) \cup (h'.present \ h.present)]_vars


\* No key stays down at the peer: once the user has let go of it, its release
\* arrives there or the session ends there, whatever failed on the way, unless
\* the sequence space is exhausted (session.rs drain_remote_cleanup is retried
\* by every later event; supervisor.rs reconciles a lost transport).  It needs
\* the callback never to find the manager locked: a release that passes the
\* core by leaves its key down at the peer.
PeerKeysReleased ==
    \A k \in Keys :
        (k \notin phys) ~> (k \in phys \/ k \notin dst.inbound \/ h.seq = MaxSeq)

\* Every pointer transition ends: it is committed, rejected or expired, or its
\* session is over (workspace_control.rs poll_timeout, supervisor.rs reconcile_fatal).
TransitionsResolve == (h.pending # "None") ~> (h.pending = "None")

=============================================================================
