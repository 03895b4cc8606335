----------------------------- MODULE SessionProofs -----------------------------
(***************************************************************************)
(* Every operation of the supervisor and of the workspace control plane    *)
(* keeps the cleanup ledger: one lemma per operation of SessionSupervisor. *)
(***************************************************************************)
EXTENDS DaemonCoreProofs

-----------------------------------------------------------------------------
(* Operations outside the ledger *)

\* Zero is no generation.
LEMMA NoGen == 0 \in MaybeGen
BY CoreAssumption DEF MaybeGen

\* The bookkeeping of generations, coordinator and results.
LEMMA BookkeepingKeeps ==
    ASSUME NEW s \in HostStates
    PROVE  /\ Keeps(s, PointerLocal(s)) /\ Keeps(s, disconnect_session(s))
           /\ Keeps(s, finish_active(s)) /\ Keeps(s, retire_settled_metadata(s))
           /\ Keeps(s, Unauthorize(s)) /\ Keeps(s, ForgetUpdate(s))
           /\ \A v \in BOOLEAN : Keeps(s, Injected(s, v))
<1>1. Keeps(s, PointerLocal(s))
  BY FieldKeeps, KeepsTrans, Zenon DEF PointerLocal, Keeps, Hosts, Transitions
<1>2. Keeps(s, disconnect_session(s))
  <2>1. PointerLocal(s) \in HostStates
    BY <1>1 DEF Keeps
  <2>2. Keeps(PointerLocal(s), [PointerLocal(s) EXCEPT !.pointer = "Unbound"])
    BY <2>1, FieldKeeps, Zenon DEF Coordinators
  <2> QED
    BY <1>1, <2>2, KeepsTrans, ResultKeeps DEF disconnect_session
<1>3. Keeps(s, finish_active(s))
  BY NoGen, FieldKeeps, KeepsTrans, Zenon DEF finish_active, Keeps, Phases
<1>4. Keeps(s, retire_settled_metadata(s))
  <2>1. disconnect_session(s) \in HostStates
    BY <1>2 DEF Keeps
  <2>2. Keeps(disconnect_session(s), retire_settled_metadata(s))
    BY <2>1, FieldKeeps, Zenon DEF retire_settled_metadata
  <2> QED
    BY <1>2, <2>2, KeepsTrans
<1>5. Keeps(s, Unauthorize(s))
  BY NoGen, FieldKeeps, Zenon DEF Unauthorize
<1>6. Keeps(s, ForgetUpdate(s))
  <2>1. {} \in SUBSET Devices
    OBVIOUS
  <2> QED
    BY <2>1, FieldKeeps, KeepsTrans, Zenon DEF ForgetUpdate, Keeps, Updates
<1>7. ASSUME NEW v \in BOOLEAN PROVE Keeps(s, Injected(s, v))
  <2>1. (s.ok /\ v) \in BOOLEAN
    OBVIOUS
  <2> QED
    BY <2>1, FieldKeeps, Zenon DEF Injected
<1> QED
  BY <1>1, <1>2, <1>3, <1>4, <1>5, <1>6, <1>7

-----------------------------------------------------------------------------
(* Workspace *)

\* The core adopts the coordinator's authority.
LEMMA PublishPointerKeeps ==
    ASSUME NEW s, Weak(s), s.ok
    PROVE  Keeps(s, publish_pointer_workspace(s))
<1>1. s.authority \in Hosts
  BY DEF Weak, HostStates
<1> QED
  BY <1>1, FinishHandoffKeeps DEF publish_pointer_workspace

\* suspend_selected gates routing first, so that what follows cannot route.
LEMMA SuspendSound ==
    ASSUME NEW s, Weak(s)
    PROVE  Sound(suspend_selected(s))
<1> DEFINE c == clear_workspace_routing_ready(s)
           e == [c EXCEPT !.inventory = FALSE]
           p == PointerLocal(e)
<1>1. Sound(c) /\ Weak(c) /\ c \in HostStates
  BY ClearSound DEF Sound, Safe, Weak
<1> HIDE DEF c
<1>2. Keeps(c, e) /\ e.ok = c.ok
  <2>1. Keeps(c, e)
    BY <1>1, FieldKeeps, Zenon
  <2>2. e.ok = c.ok
    BY <1>1 DEF HostStates
  <2> QED
    BY <2>1, <2>2
<1>3. Sound(e) /\ Weak(e) /\ e \in HostStates
  BY SMTT(30), <1>1, <1>2, KeepsSound DEF Weak
<1> HIDE DEF e
<1>4. Keeps(e, p) /\ p.ok = e.ok
  BY <1>3, BookkeepingKeeps, ZenonT(30) DEF PointerLocal, HostStates
<1>5. Sound(p) /\ Weak(p)
  BY <1>3, <1>4, KeepsSound
<1> HIDE DEF p
<1>6. c.ok => Sound(publish_pointer_workspace(p))
  BY <1>2, <1>4, <1>5, PublishPointerKeeps, KeepsSound, ZenonT(30)
<1>7. Sound(cancel_pointer_handoff(e))
  BY <1>3, GateKeeps, KeepsSound
<1> QED
  BY <1>1, <1>6, <1>7 DEF suspend_selected, AndThen, c, e, p

\* publish_ready_pointer_workspace publishes routing with nothing queued.
LEMMA PublishReadyKeeps ==
    ASSUME NEW s, Weak(s), s.ok
    PROVE  Keeps(s, publish_ready_pointer_workspace(s))
<1> DEFINE l == PointerLocal(s)
           p == [[l EXCEPT !.pointer = "Bound"] EXCEPT !.inventory = TRUE]
           w == publish_pointer_workspace(p)
<1>1. s \in HostStates
  BY DEF Weak
<1>2. Keeps(s, l) /\ l.ok /\ l \in HostStates
  <2>1. Keeps(s, l) /\ l \in HostStates
    BY <1>1, BookkeepingKeeps DEF Keeps
  <2>2. l.ok
    BY <1>1 DEF PointerLocal, HostStates
  <2> QED
    BY <2>1, <2>2
<1> HIDE DEF l
<1>3. Keeps(l, p)
  BY <1>2, FieldKeeps, KeepsTrans, Zenon DEF Keeps, Coordinators
<1>4. Keeps(s, p) /\ Weak(p) /\ p.ok
  BY <1>2, <1>3, KeepsTrans, KeepsSound
<1>5. publish_ready_pointer_workspace(s) = AndThen(w, mark_workspace_routing_ready)
  BY <1>1 DEF publish_ready_pointer_workspace, l
<1> HIDE DEF p
<1>6. Keeps(s, w) /\ Weak(w)
  BY <1>4, PublishPointerKeeps, KeepsTrans, KeepsSound
<1> HIDE DEF w
<1>7. Keeps(s, mark_workspace_routing_ready(w))
  BY <1>6, MarkReadyKeeps, KeepsTrans
<1> QED
  BY <1>5, <1>6, <1>7 DEF AndThen

\* A candidate that compiles is published, any other is an error.
LEMMA PublishIfKeeps ==
    ASSUME NEW s, Weak(s), s.ok, NEW compiles \in BOOLEAN
    PROVE  Keeps(s, PublishIf(s, compiles)) /\ Keeps(s, refresh_selected(s, compiles))
<1> DEFINE p == PublishIf(s, compiles)
<1>1. s \in HostStates
  BY DEF Weak
<1>2. Keeps(s, p)
  BY <1>1, PublishReadyKeeps, ResultKeeps DEF PublishIf
<1> HIDE DEF p
<1>3. p \in HostStates
  BY <1>2 DEF Keeps
<1>4. Keeps(p, SendSnapshot(p))
  BY <1>3, ResultKeeps DEF SendSnapshot
<1>5. Keeps(s, SendSnapshot(p))
  BY <1>2, <1>4, KeepsTrans
<1> QED
  BY <1>2, <1>5 DEF refresh_selected, AndThen, p

\* The display handlers: whatever compiles, the ledger is kept.
LEMMA DisplaysSound ==
    ASSUME NEW s, Weak(s), NEW compiles \in BOOLEAN
    PROVE  /\ Sound(apply_remote_displays(s, compiles)) /\ Sound(apply_local_display(s, compiles))
           /\ Keeps(s, replace_topology(s))
<1> DEFINE p == suspend_selected(s)
<1>1. Sound(p) /\ Weak(p) /\ s \in HostStates
  BY SuspendSound DEF Sound, Safe, Weak
<1> HIDE DEF p
<1>2. p.ok => /\ Sound(PublishIf(p, compiles)) /\ Sound(refresh_selected(p, compiles))
              /\ Sound(publish_ready_pointer_workspace(p))
  BY <1>1, PublishIfKeeps, PublishReadyKeeps, KeepsSound
<1>3. Sound(apply_remote_displays(s, compiles)) /\ Sound(apply_local_display(s, compiles))
  BY <1>1, <1>2 DEF apply_remote_displays, apply_local_display, AndThen, p
<1>4. Sound(AndThen(p, publish_ready_pointer_workspace))
  BY <1>1, <1>2 DEF AndThen
<1>5. Keeps(s, replace_topology(s))
  BY <1>1, <1>4, SoundKeeps, ResultKeeps DEF replace_topology, p
<1> QED
  BY <1>3, <1>5

\* The workspace's retire.
LEMMA RetireWorkspaceSound ==
    ASSUME NEW s, Weak(s)
    PROVE  Sound(retire(s))
<1> DEFINE c == clear_workspace_routing_ready(s)
           e == [c EXCEPT !.inventory = FALSE]
           p == disconnect_session(e)
<1>1. Sound(c) /\ Weak(c) /\ c \in HostStates
  BY ClearSound DEF Sound, Safe, Weak
<1> HIDE DEF c
<1>2. Keeps(c, e) /\ e.ok = c.ok
  <2>1. Keeps(c, e)
    BY <1>1, FieldKeeps, Zenon
  <2>2. e.ok = c.ok
    BY <1>1 DEF HostStates
  <2> QED
    BY <2>1, <2>2
<1>3. Sound(e) /\ Weak(e) /\ e \in HostStates
  BY <1>1, <1>2, KeepsSound DEF Weak
<1> HIDE DEF e
<1>4. Keeps(e, p) /\ p.ok = e.ok
  BY <1>3, BookkeepingKeeps, ZenonT(30) DEF disconnect_session, PointerLocal, HostStates
<1>5. Sound(p) /\ Weak(p)
  BY <1>3, <1>4, KeepsSound
<1> HIDE DEF p
<1>6. c.ok => Sound(publish_pointer_workspace(p))
  BY <1>2, <1>4, <1>5, PublishPointerKeeps, KeepsSound
<1>7. Sound(cancel_pointer_handoff(e))
  BY <1>3, GateKeeps, KeepsSound
<1> QED
  BY <1>1, <1>6, <1>7 DEF retire, AndThen, c, e, p

\* cancel_handoff_for_failsafe.
LEMMA CancelForFailsafeKeeps ==
    ASSUME NEW s, Weak(s), s.ok
    PROVE  Keeps(s, cancel_handoff_for_failsafe(s))
<1> DEFINE p == PointerLocal(s)
<1>1. s \in HostStates /\ s.pointer \in Coordinators
  BY SMTT(30) DEF Weak, HostStates
<1>2. Keeps(s, p) /\ p.ok = s.ok
  BY <1>1, BookkeepingKeeps, ZenonT(30) DEF PointerLocal, HostStates
<1>3. Weak(p)
  BY <1>2, KeepsSound
<1> HIDE DEF p
<1>4. Keeps(s, publish_pointer_workspace(p))
  BY <1>2, <1>3, PublishPointerKeeps, KeepsTrans, ZenonT(30)
<1> QED
  BY <1>1, <1>4, GateKeeps, ResultKeeps DEF cancel_handoff_for_failsafe, Coordinators, p

-----------------------------------------------------------------------------
(* The ends of a session *)

\* Draining keeps the ledger.
LEMMA DrainOnlyKeeps ==
    ASSUME NEW s, Weak(s)
    PROVE  Keeps(s, drain_remote_cleanup(s))
BY DrainKeeps

\* The failsafe, whether or not the peer's own keys could be released.
LEMMA EmergencyReleases ==
    ASSUME NEW s, Weak(s), s.ok, NEW v \in BOOLEAN
    PROVE  Sound(Emergency(s, v))
<1> DEFINE e == AndThen(trigger_emergency(s), drain_remote_cleanup)
<1>1. Sound(e)
  BY EmergencySound
<1> HIDE DEF e
<1>2. e \in HostStates
  BY <1>1 DEF Sound, Safe, Weak
<1>3. Keeps(e, Injected(e, v))
  BY <1>2, BookkeepingKeeps
<1> QED
  BY <1>1, <1>3, KeepsSound DEF Emergency, e

\* The endpoint goes down.
LEMMA EndpointDownKeeps ==
    ASSUME NEW s, Weak(s)
    PROVE  Keeps(s, EndpointDown(s))
<1> DEFINE e == [s EXCEPT !.accepts = FALSE]
           p == set_endpoint_state(e, FALSE)
<1>1. s \in HostStates
  BY DEF Weak
<1>2. Keeps(s, e)
  BY <1>1, FieldKeeps, Zenon
<1> HIDE DEF e
<1>3. Weak(e)
  BY <1>2, KeepsSound
<1>4. Keeps(e, p)
  BY <1>3, SetEndpointKeeps, ZenonT(30)
<1> HIDE DEF p
<1>5. Weak(p) /\ Keeps(s, p)
  BY <1>2, <1>3, <1>4, KeepsSound, KeepsTrans
<1>6. Keeps(s, drain_remote_cleanup(p))
  BY <1>5, DrainOnlyKeeps, KeepsTrans
<1> QED
  BY <1>5, <1>6, ZenonT(30) DEF EndpointDown, AndThen, e, p

\* session_fatal_cleanup keeps what it could not send.
LEMMA FatalCleanupKeeps ==
    ASSUME NEW s, Weak(s), NEW v \in BOOLEAN
    PROVE  Keeps(s, session_fatal_cleanup(s, v))
<1> DEFINE a == [s EXCEPT !.accepts = FALSE]
           e == EndpointDown(s)
           i == Injected(e, v)
           r == retire_session_endpoint(i, i.auth)
<1>1. s \in HostStates
  BY DEF Weak
<1>2. Keeps(s, [a EXCEPT !.ok = v])
  <2>1. Keeps(s, a) /\ a \in HostStates
    BY <1>1, FieldKeeps, Zenon DEF Keeps
  <2> HIDE DEF a
  <2>2. Keeps(a, [a EXCEPT !.ok = v])
    BY <2>1, FieldKeeps, Zenon
  <2> QED
    BY <2>1, <2>2, KeepsTrans
<1>3. Keeps(s, e)
  BY EndpointDownKeeps
<1> HIDE DEF e
<1>4. e \in HostStates
  BY <1>3 DEF Keeps
<1>5. Keeps(e, i)
  BY <1>4, BookkeepingKeeps
<1> HIDE DEF i
<1>6. Keeps(s, i) /\ Weak(i)
  BY <1>3, <1>5, KeepsTrans, KeepsSound
<1>7. Keeps(i, r)
  BY <1>6, RetireKeeps
<1> HIDE DEF r
<1>8. Keeps(s, r) /\ r \in HostStates
  BY <1>6, <1>7, KeepsTrans DEF Keeps
<1>9. Keeps(s, Unauthorize(r))
  BY <1>8, BookkeepingKeeps, KeepsTrans
<1> QED
  BY <1>1, <1>2, <1>6, <1>8, <1>9
     DEF session_fatal_cleanup, AndThen, HostStates, a, e, i, r

\* disconnect discards what the lost transport owned, latches included.
LEMMA DisconnectKeeps ==
    ASSUME NEW s, Weak(s), NEW v \in BOOLEAN
    PROVE  Keeps(s, disconnect(s, v))
<1> DEFINE e == EndpointDown(s)
           u == Unauthorize(e)
           c == confirm_transport_invalidated(u, s.auth)
<1>1. s \in HostStates
  BY DEF Weak
<1>2. Keeps(s, [s EXCEPT !.ok = v])
  BY <1>1, FieldKeeps, Zenon
<1>3. Keeps(s, e)
  BY EndpointDownKeeps
<1> HIDE DEF e
<1>4. e \in HostStates
  BY <1>3 DEF Keeps
<1>5. Keeps(e, u)
  BY <1>4, BookkeepingKeeps
<1> HIDE DEF u
<1>6. Keeps(s, u) /\ Weak(u)
  BY <1>3, <1>5, KeepsTrans, KeepsSound
<1>7. Keeps(u, c)
  BY <1>6, InvalidatedKeeps
<1> HIDE DEF c
<1>8. Keeps(s, c) /\ c \in HostStates
  BY <1>6, <1>7, KeepsTrans DEF Keeps
<1>9. Keeps(c, [c EXCEPT !.ok = v])
  BY <1>8, FieldKeeps, Zenon
<1>10. Keeps(s, [c EXCEPT !.ok = v])
  BY <1>8, <1>9, KeepsTrans
<1> QED
  BY <1>2, <1>10 DEF disconnect, c, e, u

\* The coordinator's shutdown queues every release once nothing runs.
LEMMA ShutdownKeeps ==
    ASSUME NEW s, Weak(s), NEW v \in BOOLEAN
    PROVE  Keeps(s, shutdown(s, v)) /\ Keeps(s, ShutdownIfStopping(s, v))
<1> DEFINE r == [[[[s EXCEPT !.accepts = FALSE] EXCEPT !.running = FALSE]
                    EXCEPT !.active = "local"] EXCEPT !.handoff = FALSE]
           q == queue_remote_cleanup(r, Slots)
           a == AndThen(q, LAMBDA c : IF c.auth # 0 THEN drain_remote_cleanup(c) ELSE c)
           i == Injected(a, v)
<1>1. s \in HostStates
  BY DEF Weak
<1>2. Keeps(s, r)
  BY <1>1, FieldKeeps, KeepsTrans, Zenon DEF Keeps, Hosts
<1>3. Weak(r)
  BY <1>2, KeepsSound
<1>4. ~r.running
  BY <1>1 DEF HostStates
<1>5. shutdown(s, v) = AndThen(i, Unauthorize)
  BY <1>1 DEF shutdown
<1> HIDE DEF r
<1>6. Keeps(r, q)
  BY <1>3, <1>4, QueueGatedKeeps
<1> HIDE DEF q
<1>7. Keeps(s, q) /\ Weak(q)
  BY <1>2, <1>3, <1>6, KeepsTrans, KeepsSound
<1>8. Keeps(s, drain_remote_cleanup(q))
  BY <1>7, DrainOnlyKeeps, KeepsTrans
<1>9. Keeps(s, a)
  BY <1>7, <1>8 DEF AndThen
<1> HIDE DEF a
<1>10. a \in HostStates
  BY <1>9 DEF Keeps
<1>11. Keeps(a, i)
  BY <1>10, BookkeepingKeeps
<1> HIDE DEF i
<1>12. Keeps(s, i) /\ i \in HostStates
  BY <1>9, <1>11, KeepsTrans DEF Keeps
<1>13. Keeps(s, Unauthorize(i))
  BY <1>12, BookkeepingKeeps, KeepsTrans
<1>14. Keeps(s, shutdown(s, v))
  BY <1>5, <1>12, <1>13 DEF AndThen
<1> QED
  BY <1>1, <1>14, ResultKeeps DEF ShutdownIfStopping

-----------------------------------------------------------------------------
(* Reconciliation *)

\* A generation whose releases all went out.
LEMMA GracefulKeeps ==
    ASSUME NEW s, Weak(s), NEW v \in BOOLEAN
    PROVE  Keeps(s, reconcile_gracefully_settled(s, v))
<1> DEFINE p == [s EXCEPT !.phase = "GracefulSettled"]
           m == retire_settled_metadata(p)
           z == ShutdownIfStopping(m, v)
<1>1. s \in HostStates
  BY DEF Weak
<1>2. Keeps(s, p)
  BY <1>1, FieldKeeps, Zenon DEF Phases
<1> HIDE DEF p
<1>3. p \in HostStates
  BY <1>2 DEF Keeps
<1>4. Keeps(p, m)
  BY <1>3, BookkeepingKeeps
<1> HIDE DEF m
<1>5. Keeps(s, m) /\ Weak(m)
  BY <1>2, <1>4, KeepsTrans, KeepsSound
<1>6. Keeps(m, z)
  BY <1>5, ShutdownKeeps
<1> HIDE DEF z
<1>7. Keeps(s, z) /\ z \in HostStates
  BY <1>5, <1>6, KeepsTrans DEF Keeps
<1>8. Keeps(s, finish_active(z))
  BY <1>7, BookkeepingKeeps, KeepsTrans
<1> QED
  BY <1>7, <1>8 DEF reconcile_gracefully_settled, AndThen, p, m, z

\* A generation whose transport is gone.
LEMMA TransportLostKeeps ==
    ASSUME NEW s, Weak(s), NEW v \in BOOLEAN
    PROVE  Keeps(s, reconcile_transport_lost(s, v))
<1> DEFINE p == [s EXCEPT !.phase = "TransportLost"]
           d == disconnect(p, v)
           m == retire_settled_metadata(d)
<1>1. s \in HostStates
  BY DEF Weak
<1>2. Keeps(s, p)
  BY <1>1, FieldKeeps, Zenon DEF Phases
<1> HIDE DEF p
<1>3. Weak(p)
  BY <1>2, KeepsSound
<1>4. Keeps(p, d)
  BY <1>3, DisconnectKeeps
<1> HIDE DEF d
<1>5. Keeps(s, d) /\ d \in HostStates
  BY <1>2, <1>4, KeepsTrans DEF Keeps
<1>6. Keeps(d, m)
  BY <1>5, BookkeepingKeeps
<1> HIDE DEF m
<1>7. Keeps(s, m) /\ m \in HostStates
  BY <1>5, <1>6, KeepsTrans DEF Keeps
<1>8. Keeps(s, finish_active(m))
  BY <1>7, BookkeepingKeeps, KeepsTrans
<1> QED
  BY <1>5, <1>8 DEF reconcile_transport_lost, AndThen, p, d, m

\* What reconcile_fatal and reconcile_shutdown do first.
LEMMA RetireFirstKeeps ==
    ASSUME NEW s, Weak(s), NEW v \in BOOLEAN
    PROVE  Keeps(s, AndThen(Injected(s, v), retire))
<1> DEFINE i == Injected(s, v)
<1>1. s \in HostStates
  BY DEF Weak
<1>2. Keeps(s, i)
  BY <1>1, BookkeepingKeeps
<1> HIDE DEF i
<1>3. Weak(i)
  BY <1>2, KeepsSound
<1>4. Keeps(s, retire(i))
  BY <1>3, RetireWorkspaceSound, SoundKeeps
<1> QED
  BY <1>2, <1>4 DEF AndThen, i

\* A fatal error and a shutdown end in one of the reconciliations.
LEMMA ReconcileKeeps ==
    ASSUME NEW s, Weak(s), NEW v \in BOOLEAN
    PROVE  Keeps(s, reconcile_fatal(s, v)) /\ Keeps(s, reconcile_shutdown(s, v))
<1> DEFINE r == AndThen(Injected(s, v), retire)
           f == session_fatal_cleanup(r, v)
           z == shutdown(r, v)
<1>1. Keeps(s, r)
  BY RetireFirstKeeps
<1> HIDE DEF r
<1>2. Weak(r)
  BY <1>1, KeepsSound
<1>3. Keeps(r, f) /\ Keeps(r, z)
  BY <1>2, FatalCleanupKeeps, ShutdownKeeps
<1> HIDE DEF f, z
<1>4. Keeps(s, f) /\ Keeps(s, z) /\ f \in HostStates /\ z \in HostStates
  BY <1>1, <1>3, KeepsTrans DEF Keeps
<1>5. Keeps(s, finish_active(f)) /\ Keeps(s, finish_active(z))
  BY <1>4, BookkeepingKeeps, KeepsTrans
<1>6. Keeps(s, AndThen(r, LAMBDA x : AndThen(session_fatal_cleanup(x, v), finish_active)))
  BY <1>1, <1>4, <1>5 DEF AndThen, f
<1>7. Keeps(s, AndThen(r, LAMBDA x : AndThen(shutdown(x, v), finish_active)))
  BY <1>1, <1>4, <1>5 DEF AndThen, z
<1>8. Keeps(s, reconcile_transport_lost(s, v)) /\ Keeps(s, reconcile_gracefully_settled(s, v))
  BY TransportLostKeeps, GracefulKeeps
<1> QED
  BY <1>6, <1>7, <1>8 DEF reconcile_fatal, reconcile_shutdown, r

\* Every handler ends with success.
LEMMA SettleKeeps ==
    ASSUME NEW s, Weak(s), NEW v \in BOOLEAN
    PROVE  Keeps(s, Settle(s, v)) /\ Settle(s, v).ok
<1> DEFINE c == Succeed(s)
           f == reconcile_fatal(c, v)
           x == IF s.ok \/ s.gen = 0 THEN s ELSE f
<1>1. s \in HostStates
  BY DEF Weak
<1>2. Keeps(s, c)
  BY <1>1, ResultKeeps
<1> HIDE DEF c
<1>3. Weak(c)
  BY <1>2, KeepsSound
<1>4. Keeps(c, f)
  BY <1>3, ReconcileKeeps
<1> HIDE DEF f
<1>5. Keeps(s, f)
  BY <1>2, <1>4, KeepsTrans
<1>6. Keeps(s, x)
  BY <1>1, <1>5, ResultKeeps
<1> HIDE DEF x
<1>7. x \in HostStates
  BY <1>6 DEF Keeps
<1>8. Keeps(s, Succeed(x)) /\ Succeed(x).ok
  BY <1>6, <1>7, ResultKeeps, KeepsTrans
<1> QED
  BY <1>8 DEF Settle, c, f, x

-----------------------------------------------------------------------------
(* Admission *)

\* A failed activation leaves routing gated.
LEMMA RollbackSound ==
    ASSUME NEW s, Weak(s)
    PROVE  Sound(rollback_activation(s))
<1> DEFINE p == retire_settled_metadata(s)
           c == clear_workspace_routing_ready(Succeed(p))
           e == cancel_pointer_handoff(c)
<1>1. s \in HostStates
  BY DEF Weak
<1>2. Keeps(s, p)
  BY <1>1, BookkeepingKeeps
<1>3. rollback_activation(s) = Fail(e)
  BY DEF rollback_activation, retire_settled_metadata
<1> HIDE DEF p
<1>4. p \in HostStates /\ Weak(p)
  BY <1>2, KeepsSound DEF Keeps
<1>5. Weak(Succeed(p))
  BY <1>4, ResultKeeps, KeepsSound
<1>6. Sound(c)
  BY <1>5, ClearSound
<1> HIDE DEF c
<1>7. c \in HostStates
  BY <1>6 DEF Sound, Safe, Weak
<1>8. Keeps(c, e)
  BY <1>7, GateKeeps
<1> HIDE DEF e
<1>9. Sound(e) /\ e \in HostStates
  BY <1>6, <1>8, KeepsSound DEF Keeps
<1>10. Sound(Fail(e))
  BY <1>9, ResultKeeps, KeepsSound
<1> QED
  BY <1>3, <1>10

\* The snapshots of the new generation.
LEMMA AnnounceKeeps ==
    ASSUME NEW s, Weak(s)
    PROVE  Keeps(s, Announce(s))
<1> DEFINE u == IF s.txn = "Committed" THEN "Synced" ELSE s.txn
<1>1. s \in HostStates
  BY DEF Weak
<1>2. u \in Updates
  BY <1>1 DEF HostStates, Updates
<1>3. Announce(s) = IF s.ok /\ ControlAccepted(s) THEN [s EXCEPT !.txn = u]
                    ELSE rollback_activation(s)
  BY <1>1 DEF Announce, HostStates
<1> HIDE DEF u
<1>4. Keeps(s, [s EXCEPT !.txn = u])
  BY <1>1, <1>2, FieldKeeps, Zenon
<1>5. Keeps(s, rollback_activation(s))
  BY RollbackSound, SoundKeeps
<1> QED
  BY <1>3, <1>4, <1>5

\* The endpoint of a new generation is installed where nothing is held.
LEMMA InstallWeak ==
    ASSUME NEW s, Weak(s), s.ep = 0, NEW g \in MaybeGen
    PROVE  Weak([s EXCEPT !.ep = g])
<1> DEFINE t == [s EXCEPT !.ep = g]
<1>1. s \in HostStates
  BY DEF Weak
<1>2. t \in HostStates
  BY <1>1, FieldTypes, Zenon
<1>3. HeldSlots(s) = {}
  <2>1. \A x \in Slots : x[1] # 0
    BY CoreAssumption DEF Slots, Gens
  <2> QED
    BY <2>1 DEF Weak, OneEndpoint, HeldSlots
<1>4. /\ t.latch = s.latch /\ t.held = s.held /\ t.cleanup = s.cleanup /\ t.staged = s.staged
      /\ t.candidate = s.candidate /\ t.routes = s.routes
  BY <1>1 DEF HostStates
<1> HIDE DEF t
<1>5. HeldSlots(t) = {} /\ QueuedSlots(t) = QueuedSlots(s)
  BY <1>3, <1>4 DEF HeldSlots, QueuedSlots
<1>6. RemoteLatchIsHeld(t)
  BY SMTT(30), <1>3, <1>4 DEF Weak, RemoteLatchIsHeld
<1>7. QueuedIsHeld(t)
  BY <1>3, <1>4, <1>5 DEF Weak, QueuedIsHeld
<1>8. OneEndpoint(t) /\ HeldBound(t)
  BY <1>3, <1>5 DEF Weak, OneEndpoint, HeldBound
<1> QED
  BY <1>2, <1>4, <1>6, <1>7, <1>8 DEF Weak, t

\* activate_binding and the workspace's activate.
LEMMA ActivateSound ==
    ASSUME NEW s, Weak(s), s.ep = 0, NEW g \in MaybeGen
    PROVE  Sound(activate(s, g))
<1> DEFINE i == [s EXCEPT !.ep = g]
           t == [[[[[[i EXCEPT !.up = TRUE] EXCEPT !.auth = g] EXCEPT !.accepts = TRUE]
                    EXCEPT !.gen = g] EXCEPT !.open = TRUE] EXCEPT !.fifo = <<>>]
           c == clear_workspace_routing_ready(t)
           e == [c EXCEPT !.inventory = FALSE]
           r == restore_local_devices(e, c.present)
<1>0. s \in HostStates
  BY DEF Weak
<1>1. Weak(i) /\ i \in HostStates
  BY InstallWeak DEF Weak
<1>2. activate(s, g) =
        AndThen(c, LAMBDA x : Announce(restore_local_devices([x EXCEPT !.inventory = FALSE], x.present)))
  BY <1>0 DEF activate
<1> HIDE DEF i
<1>3. Keeps(i, t)
  <2>1. <<>> \in Seq(Frames)
    BY Zenon, EmptySeq
  <2> QED
    BY <1>1, <2>1, FieldKeeps, KeepsTrans, ZenonT(30) DEF Keeps
<1>4. Weak(t)
  BY <1>1, <1>3, KeepsSound
<1> HIDE DEF t
<1>5. Sound(c) /\ c \in HostStates
  BY <1>4, ClearSound DEF Sound, Safe, Weak
<1> HIDE DEF c
<1>6. Keeps(c, e)
  BY <1>5, FieldKeeps, Zenon
<1> HIDE DEF e
<1>7. Sound(e) /\ Weak(e)
  BY <1>5, <1>6, KeepsSound DEF Sound, Safe
<1>8. Keeps(e, r)
  BY <1>7, RestoreKeeps
<1> HIDE DEF r
<1>9. Sound(r) /\ Weak(r)
  BY <1>7, <1>8, KeepsSound
<1>10. Sound(Announce(r))
  BY <1>9, AnnounceKeeps, KeepsSound
<1> QED
  BY <1>2, <1>5, <1>10 DEF AndThen, e, r

-----------------------------------------------------------------------------
(* The local device inventory *)

\* A candidate inventory is staged.
LEMMA StageKeeps ==
    ASSUME NEW s \in HostStates, NEW wanted \in SUBSET Devices, NEW changed \in SUBSET Devices
    PROVE  Keeps(s, stage_local_device_snapshot(s, wanted, changed))
<1> DEFINE a == (s.present \ wanted) \cup (wanted \ s.present) \cup changed
           t == [s EXCEPT !.txn = "Staged"]
           w == [t EXCEPT !.wanted = wanted]
<1>1. a \in SUBSET Devices
  BY DEF HostStates
<1> HIDE DEF a
<1>2. Keeps(s, t)
  BY FieldKeeps, Zenon DEF Updates
<1>3. t \in HostStates
  BY <1>2 DEF Keeps
<1>4. stage_local_device_snapshot(s, wanted, changed) = [w EXCEPT !.affected = a]
  BY DEF stage_local_device_snapshot, a
<1> HIDE DEF t
<1>5. Keeps(t, w)
  BY <1>3, FieldKeeps, Zenon
<1>6. w \in HostStates
  BY <1>5 DEF Keeps
<1> HIDE DEF w
<1>7. Keeps(w, [w EXCEPT !.affected = a])
  BY <1>1, <1>6, FieldKeeps, Zenon
<1> QED
  BY <1>2, <1>4, <1>5, <1>7, KeepsTrans

\* The remaining devices are restored.
LEMMA RestoreDevicesKeeps ==
    ASSUME NEW s, Weak(s), NEW ds
    PROVE  Keeps(s, RestoreDevices(s, ds)) /\ RestoreDevices(s, ds).ok
<1> DEFINE r == restore_local_devices(s, ds)
           a == AndThen(r, ForgetUpdate)
<1>1. Keeps(s, r)
  BY RestoreKeeps
<1> HIDE DEF r
<1>2. r \in HostStates
  BY <1>1 DEF Keeps
<1>3. Keeps(s, ForgetUpdate(r))
  BY <1>1, <1>2, BookkeepingKeeps, KeepsTrans
<1>4. Keeps(s, a)
  BY <1>1, <1>3 DEF AndThen
<1> HIDE DEF a
<1>5. a \in HostStates
  BY <1>4 DEF Keeps
<1>6. Keeps(s, Succeed(a)) /\ Succeed(a).ok
  BY SMTT(30), <1>4, <1>5, ResultKeeps, KeepsTrans
<1> QED
  BY <1>6 DEF RestoreDevices, a, r

\* The peer learns of the published inventory.
LEMMA SynchroniseKeeps ==
    ASSUME NEW s, Weak(s), NEW v \in BOOLEAN
    PROVE  Keeps(s, SynchroniseInventory(s, v)) /\ SynchroniseInventory(s, v).ok
<1> DEFINE t == [s EXCEPT !.txn = "Synced"]
           ds == s.affected \cap s.wanted
<1>1. s \in HostStates
  BY DEF Weak
<1>2. Keeps(s, t)
  BY <1>1, FieldKeeps, Zenon DEF Updates
<1> HIDE DEF t, ds
<1>3. Weak(t)
  BY <1>2, KeepsSound
<1>4. Keeps(s, RestoreDevices(t, ds)) /\ RestoreDevices(t, ds).ok
  BY <1>2, <1>3, RestoreDevicesKeeps, KeepsTrans
<1>5. Keeps(s, RestoreDevices(s, ds)) /\ RestoreDevices(s, ds).ok
  BY RestoreDevicesKeeps
<1>6. Keeps(s, Fail(s)) /\ Weak(Fail(s))
  BY <1>1, ResultKeeps, KeepsSound
<1>7. Keeps(s, Settle(Fail(s), v)) /\ Settle(Fail(s), v).ok
  BY <1>6, SettleKeeps, KeepsTrans
<1> QED
  BY <1>4, <1>5, <1>7 DEF SynchroniseInventory, t, ds

\* The update is published once the affected devices are gated.
LEMMA SettleInventoryKeeps ==
    ASSUME NEW s, Weak(s), s.ok, NEW v \in BOOLEAN
    PROVE  /\ Keeps(s, settle_local_device_inventory_update(s, v))
           /\ settle_local_device_inventory_update(s, v).ok
<1> DEFINE g == IF s.txn = "Staged" THEN gate_local_devices(s, s.affected) ELSE s
           p == PublishInventory(g)
<1>1. s \in HostStates /\ s.affected \in SUBSET Devices
  BY DEF Weak, HostStates
<1>2. Keeps(s, g)
  BY SMTT(30), <1>1, GateDevicesKeeps, ResultKeeps
<1> HIDE DEF g
<1>3. g \in HostStates /\ g.wanted \in SUBSET Devices /\ Weak(g)
  BY <1>2, KeepsSound DEF Keeps, HostStates
<1>4. Keeps(g, p)
  <2> DEFINE w == [g EXCEPT !.present = g.wanted]
  <2>1. Keeps(g, w)
    BY <1>3, FieldKeeps, Zenon
  <2>2. w \in HostStates
    BY <2>1 DEF Keeps
  <2>3. p = IF g.txn = "Staged" THEN [w EXCEPT !.txn = "Committed"] ELSE g
    BY <1>3 DEF PublishInventory
  <2> HIDE DEF w
  <2>4. Keeps(w, [w EXCEPT !.txn = "Committed"])
    BY <2>2, FieldKeeps, Zenon DEF Updates
  <2>5. Keeps(g, [w EXCEPT !.txn = "Committed"])
    BY <2>1, <2>4, KeepsTrans
  <2> HIDE DEF p
  <2> QED
    BY <1>3, <2>3, <2>5, ResultKeeps
<1> HIDE DEF p
<1>5. Keeps(s, p) /\ Weak(p)
  BY SMTT(30), <1>2, <1>3, <1>4, KeepsTrans, KeepsSound
<1>6. Keeps(s, SynchroniseInventory(p, v)) /\ SynchroniseInventory(p, v).ok
  BY <1>5, SynchroniseKeeps, KeepsTrans
<1>7. Keeps(s, Succeed(g)) /\ Succeed(g).ok
  BY <1>2, <1>3, ResultKeeps, KeepsTrans
<1> QED
  BY SMTT(30), <1>6, <1>7 DEF settle_local_device_inventory_update, SettleGated, g, p

\* The update is given up.
LEMMA AbortInventoryKeeps ==
    ASSUME NEW s, Weak(s), s.ok
    PROVE  /\ Keeps(s, abort_local_device_inventory_update(s))
           /\ abort_local_device_inventory_update(s).ok
<1> DEFINE g == gate_local_devices(s, s.affected)
           a == AndThen(g, LAMBDA x : RestoreDevices(x, x.affected))
<1>1. s \in HostStates /\ s.affected \in SUBSET Devices
  BY DEF Weak, HostStates
<1>2. Keeps(s, g)
  BY <1>1, GateDevicesKeeps
<1> HIDE DEF g
<1>3. Weak(g)
  BY <1>2, KeepsSound
<1>4. Keeps(s, RestoreDevices(g, g.affected))
  BY <1>2, <1>3, RestoreDevicesKeeps, KeepsTrans
<1>5. Keeps(s, a)
  BY <1>2, <1>4 DEF AndThen
<1> HIDE DEF a
<1>6. a \in HostStates
  BY <1>5 DEF Keeps
<1>7. Keeps(s, Succeed(a)) /\ Succeed(a).ok
  BY <1>5, <1>6, ResultKeeps, KeepsTrans
<1> QED
  BY <1>7 DEF abort_local_device_inventory_update, a, g

=============================================================================
