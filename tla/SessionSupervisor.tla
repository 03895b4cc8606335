-------------------------- MODULE SessionSupervisor --------------------------
(***************************************************************************)
(* What the session supervisor (crates/kvm-daemon/src/supervisor.rs) and   *)
(* the workspace control plane (workspace_control.rs) do to the source     *)
(* host when a generation is admitted, its workspace is suspended or       *)
(* published, and when it must end: the three reconciliations that decide  *)
(* whether a generation may be replaced.                                   *)
(*                                                                         *)
(* "injected" says whether this host can inject the releases of the keys   *)
(* its own peer holds down here; that backend is the operating system's.   *)
(***************************************************************************)
EXTENDS DaemonCore

\* Faulty variant: the pending transition survives its session.
disconnect_keeping_transition(s) ==
    IF s.pointer = "Bound" THEN [s EXCEPT !.pointer = "Unbound"] ELSE s

\* The coordinator forgets the session it was bound to.
disconnect_session(s) ==
    IF s.pointer = "Bound" THEN [PointerLocal(s) EXCEPT !.pointer = "Unbound"] ELSE s

\* The generation slot is free again.
finish_active(s) == [s EXCEPT !.gen = 0, !.phase = "None"]

-----------------------------------------------------------------------------
(* Workspace *)

\* Suspend routing before a display inventory changes, or on degradation.
suspend_selected(s) ==
    AndThen(clear_workspace_routing_ready(s),
            LAMBDA c : IF c.pointer = "Bound"
                       THEN publish_pointer_workspace(PointerLocal([c EXCEPT !.inventory = FALSE]))
                       ELSE cancel_pointer_handoff([c EXCEPT !.inventory = FALSE]))

\* A compiled candidate replaces the workspace and routing is published.
publish_ready_pointer_workspace(s) ==
    AndThen(publish_pointer_workspace(
                [PointerLocal(s) EXCEPT !.pointer = "Bound", !.inventory = TRUE]),
            mark_workspace_routing_ready)

\* DisplaySnapshot or DisplayUpdated from the peer; "compiles" says whether
\* the inventory and the configured topology accept it.
PublishIf(s, compiles) == IF compiles THEN publish_ready_pointer_workspace(s) ELSE Fail(s)
apply_remote_displays(s, compiles) ==
    AndThen(suspend_selected(s), LAMBDA p : PublishIf(p, compiles))

\* The local displays changed: the workspace is compiled again and the peer
\* is sent the new snapshot.  A rejected change refreshes the old one.
SendSnapshot(s) == IF ControlAccepted(s) THEN s ELSE Fail(s)
refresh_selected(s, compiles) == AndThen(PublishIf(s, compiles), SendSnapshot)
apply_local_display(s, compiles) ==
    AndThen(suspend_selected(s), LAMBDA p : refresh_selected(p, compiles))

\* An invalid candidate restores the previous layout, which publishes too.
replace_topology(s) ==
    IF s.inventory THEN AndThen(suspend_selected(s), publish_ready_pointer_workspace) ELSE Fail(s)

retire(s) ==
    AndThen(clear_workspace_routing_ready(s),
            LAMBDA c : IF c.pointer = "Bound"
                       THEN publish_pointer_workspace(disconnect_session([c EXCEPT !.inventory = FALSE]))
                       ELSE cancel_pointer_handoff([c EXCEPT !.inventory = FALSE]))

retire_settled_metadata(s) == [disconnect_session(s) EXCEPT !.inventory = FALSE]

\* An unbound coordinator has no session to reset.
cancel_handoff_for_failsafe(s) ==
    CASE s.pointer = "Bound"   -> publish_pointer_workspace(PointerLocal(s))
      [] s.pointer = "Unbound" -> Fail(s)
      [] s.pointer = "Absent"  -> cancel_pointer_handoff(s)

-----------------------------------------------------------------------------
(* The coordinator's ways to end a session *)

\* Faulty variant: what was not sent is discarded on an open transport.
session_fatal_discarding(s, injected) ==
    [confirm_transport_invalidated([s EXCEPT !.accepts = FALSE, !.auth = 0], s.auth)
       EXCEPT !.ok = injected]

\* The releases of the peer's own keys here can fail as well.
Injected(s, injected) == [s EXCEPT !.ok = @ /\ injected]
Unauthorize(s) == [s EXCEPT !.auth = 0]

\* The failsafe of the coordinator: by the chord, or because capture is lost.
Emergency(s, released) == Injected(AndThen(trigger_emergency(s), drain_remote_cleanup), released)

\* The endpoint goes down and what it holds is released; also the
\* coordinator's reaction to a Degraded session.
EndpointDown(s) ==
    AndThen(set_endpoint_state([s EXCEPT !.accepts = FALSE], FALSE), drain_remote_cleanup)

\* Keeps the cleanup capability until every release is in the FIFO.
session_fatal_cleanup(s, injected) ==
    IF s.auth = 0 THEN [s EXCEPT !.accepts = FALSE, !.ok = injected]
    ELSE AndThen(AndThen(Injected(EndpointDown(s), injected),
                         LAMBDA d : retire_session_endpoint(d, d.auth)),
                 Unauthorize)

\* Faulty variant: the endpoint of the lost transport stays installed.
disconnect_keeping_endpoint(s, injected) ==
    [s EXCEPT !.accepts = FALSE, !.auth = 0, !.up = FALSE, !.ok = injected]

\* The transport is certainly gone: what could not be sent is discarded.
disconnect(s, injected) ==
    IF s.auth = 0 THEN [s EXCEPT !.ok = injected]
    ELSE [confirm_transport_invalidated(Unauthorize(EndpointDown(s)), s.auth) EXCEPT !.ok = injected]

shutdown(s, injected) ==
    AndThen(Injected(AndThen(queue_remote_cleanup(
                                 [s EXCEPT !.accepts = FALSE, !.running = FALSE,
                                           !.active = "local", !.handoff = FALSE], Slots),
                             LAMBDA c : IF c.auth # 0 THEN drain_remote_cleanup(c) ELSE c),
                     injected),
            Unauthorize)

-----------------------------------------------------------------------------
(* Reconciliation: the generation is freed only when all of it succeeded *)

ShutdownIfStopping(m, injected) == IF m.stopping THEN shutdown(m, injected) ELSE m
reconcile_gracefully_settled(s, injected) ==
    AndThen(ShutdownIfStopping(retire_settled_metadata([s EXCEPT !.phase = "GracefulSettled"]),
                               injected),
            finish_active)

reconcile_transport_lost(s, injected) ==
    AndThen(disconnect([s EXCEPT !.phase = "TransportLost"], injected),
            LAMBDA d : finish_active(retire_settled_metadata(d)))

reconcile_fatal(s, injected) ==
    IF s.phase = "TransportLost" THEN reconcile_transport_lost(s, injected)
    ELSE IF s.phase = "GracefulSettled" \/ s.auth # s.gen
         THEN reconcile_gracefully_settled(s, injected)
    ELSE AndThen(AndThen(Injected(s, injected), retire),
                 LAMBDA r : AndThen(session_fatal_cleanup(r, injected), finish_active))

reconcile_shutdown(s, injected) ==
    IF s.auth # s.gen THEN reconcile_gracefully_settled(s, injected)
    ELSE AndThen(AndThen(Injected(s, injected), retire),
                 LAMBDA r : AndThen(shutdown(r, injected), finish_active))

\* A handler whose error is fatal to the session ends with this.
Settle(s, injected) ==
    Succeed(IF s.ok \/ s.gen = 0 THEN s ELSE reconcile_fatal(Succeed(s), injected))

-----------------------------------------------------------------------------
(* Admission *)

rollback_activation(s) ==
    LET p == [disconnect_session(s) EXCEPT !.inventory = FALSE]
    IN Fail(cancel_pointer_handoff(clear_workspace_routing_ready(Succeed(p))))

\* activate_binding and the workspace's activate.
Announce(r) ==
    IF r.ok /\ ControlAccepted(r)
    THEN [r EXCEPT !.txn = IF @ = "Committed" THEN "Synced" ELSE @]
    ELSE rollback_activation(r)
activate(s, g) ==
    AndThen(clear_workspace_routing_ready(
                [s EXCEPT !.ep = g, !.up = TRUE, !.auth = g, !.accepts = TRUE,
                          !.gen = g, !.open = TRUE, !.fifo = <<>>]),
            LAMBDA c : Announce(restore_local_devices([c EXCEPT !.inventory = FALSE], c.present)))

-----------------------------------------------------------------------------
(* The local device inventory *)

\* pending_local_devices is dropped.
ForgetUpdate(s) == [s EXCEPT !.txn = "None", !.wanted = {}, !.affected = {}]

stage_local_device_snapshot(s, wanted, changed) ==
    [s EXCEPT !.txn = "Staged", !.wanted = wanted,
              !.affected = (s.present \ wanted) \cup (wanted \ s.present) \cup changed]

\* Gate what changes, publish, tell the peer, then restore what remains.
\* A step that fails keeps the update; only an unsendable snapshot is fatal.
PublishInventory(g) ==
    IF g.txn = "Staged" THEN [g EXCEPT !.present = g.wanted, !.txn = "Committed"] ELSE g
RestoreDevices(s, ds) == Succeed(AndThen(restore_local_devices(s, ds), ForgetUpdate))
SynchroniseInventory(c, injected) ==
    IF c.gen = 0 \/ c.txn # "Committed" THEN RestoreDevices(c, c.affected \cap c.wanted)
    ELSE IF ControlAccepted(c)
         THEN RestoreDevices([c EXCEPT !.txn = "Synced"], c.affected \cap c.wanted)
    ELSE Settle(Fail(c), injected)
SettleGated(g, injected) ==
    IF g.ok THEN SynchroniseInventory(PublishInventory(g), injected) ELSE Succeed(g)
settle_local_device_inventory_update(s, injected) ==
    SettleGated(IF s.txn = "Staged" THEN gate_local_devices(s, s.affected) ELSE s, injected)

\* Every affected device is restored, also one that was never present.
abort_local_device_inventory_update(s) ==
    Succeed(AndThen(gate_local_devices(s, s.affected), LAMBDA g : RestoreDevices(g, g.affected)))

=============================================================================
