--------------------------- MODULE DaemonCoreProofs ---------------------------
(***************************************************************************)
(* Every operation of the core and of the session coordinator keeps the    *)
(* cleanup ledger: one lemma per operation of DaemonCore.                  *)
(***************************************************************************)
EXTENDS CleanupProofs

\* What holds of the source host between handlers.
Sound(s) == Safe(s) /\ ReleasesGateRouting(s)

\* A sound state keeps everything, whatever it came from.
LEMMA SoundKeeps == \A s, t : Sound(t) => Keeps(s, t)
BY DEF Sound, Keeps, Safe, Weak

\* What an operation keeps holds after it.
LEMMA KeepsSound ==
    ASSUME NEW s, NEW t, Keeps(s, t)
    PROVE  (Weak(s) => Weak(t)) /\ (Sound(s) => Sound(t))
BY DEF Sound, Keeps

-----------------------------------------------------------------------------
(* Results and gates *)

\* Marking a result changes nothing else.
LEMMA ResultKeeps ==
    ASSUME NEW s \in HostStates
    PROVE  /\ Keeps(s, Fail(s)) /\ Keeps(s, Succeed(s)) /\ Keeps(s, s)
           /\ ~Fail(s).ok /\ Succeed(s).ok
<1>1. Keeps(s, Fail(s)) /\ Keeps(s, Succeed(s))
  BY FieldKeeps, Zenon DEF Fail, Succeed
<1>2. ~Fail(s).ok /\ Succeed(s).ok
  BY DEF Fail, Succeed, HostStates
<1>3. Keeps(s, s)
  BY DEF Keeps
<1> QED
  BY <1>1, <1>2, <1>3

\* The closed gate and a cancelled handoff keep the ledger.
LEMMA GateKeeps ==
    ASSUME NEW s \in HostStates
    PROVE  /\ Keeps(s, Gated(s)) /\ Keeps(s, cancel_pointer_handoff(s))
           /\ ~Gated(s).ready /\ Gated(s).ok = s.ok
<1>1. Keeps(s, Gated(s))
  BY FieldKeeps, KeepsTrans, Zenon DEF Gated, Keeps, Hosts
<1>2. Keeps(s, cancel_pointer_handoff(s))
  BY FieldKeeps, KeepsTrans, Zenon DEF cancel_pointer_handoff, Keeps, Hosts
<1>3. ~Gated(s).ready /\ Gated(s).ok = s.ok
  BY DEF Gated, HostStates
<1> QED
  BY <1>1, <1>2, <1>3

\* While routing is not published a release may be queued; never is one lost.
LEMMA QueueGatedKeeps ==
    ASSUME NEW s, Weak(s), NEW A
    PROVE  LET q == queue_remote_cleanup(s, A)
           IN /\ Weak(q) /\ (Safe(s) => Safe(q)) /\ q.ok = s.ok
              /\ ~(s.ready /\ s.running) => Keeps(s, q)
<1> DEFINE q == queue_remote_cleanup(s, A)
<1>1. /\ Weak(q) /\ (HeldIsOwned(s) => HeldIsOwned(q))
      /\ FailsafeReleasesAll(s) => FailsafeReleasesAll(q)
      /\ q.ok = s.ok /\ q.ready = s.ready /\ q.running = s.running
  BY QueueKeeps
<1> HIDE DEF q
<1>2. Safe(s) => Safe(q)
  BY <1>1 DEF Safe
<1>3. ~(s.ready /\ s.running) => Keeps(s, q)
  BY <1>1, <1>2 DEF Keeps, Weak, ReleasesGateRouting
<1> QED
  BY <1>1, <1>2, <1>3 DEF q

\* fail_closed makes any state between handlers sound, even one in which a
\* physical release has just ended a lifecycle.
LEMMA FailClosedSound ==
    ASSUME NEW s, Weak(s)
    PROVE  Sound(fail_closed(s)) /\ fail_closed(s).ok = s.ok
<1> DEFINE g == Gated(s)  q == queue_remote_cleanup(g, Slots)
<1>1. s \in HostStates
  BY DEF Weak
<1>2. Weak(g) /\ ~g.ready /\ g.ok = s.ok
  BY <1>1, GateKeeps DEF Keeps
<1> HIDE DEF g
<1>3. /\ Weak(q) /\ HeldIsOwned(q) /\ (\A k \in Keys : q.latch[k].to # "Remote")
      /\ q.ok = g.ok /\ q.ready = g.ready
  BY <1>2, QueueKeeps
<1> HIDE DEF q
<1>4. Sound(q)
  BY <1>2, <1>3 DEF Sound, Safe, FailsafeReleasesAll, ReleasesGateRouting
<1> QED
  BY <1>2, <1>3, <1>4 DEF fail_closed, q, g

\* So does the coordinator's clear_workspace_routing_ready.
LEMMA ClearSound ==
    ASSUME NEW s, Weak(s)
    PROVE  Sound(clear_workspace_routing_ready(s))
<1> DEFINE f == fail_closed(s)
<1>1. Sound(f)
  BY FailClosedSound
<1> HIDE DEF f
<1>2. Keeps(f, drain_remote_cleanup(f))
  BY <1>1, DrainKeeps DEF Sound, Safe
<1>3. Sound(drain_remote_cleanup(f))
  BY <1>1, <1>2, KeepsSound
<1> QED
  BY <1>1, <1>3 DEF clear_workspace_routing_ready, AndThen, f

\* The failsafe, by the chord or because capture is lost.
LEMMA EmergencySound ==
    ASSUME NEW s, Weak(s), s.ok
    PROVE  Sound(AndThen(trigger_emergency(s), drain_remote_cleanup))
<1> DEFINE g == [[[[s EXCEPT !.drain = TRUE] EXCEPT !.suspended = TRUE] EXCEPT !.active = "local"]
                   EXCEPT !.handoff = FALSE]
           a == [g EXCEPT !.drain = s.drain]
           q == queue_remote_cleanup(g, Slots)
           d == drain_remote_cleanup(q)
<1>1. s \in HostStates
  BY DEF Weak
<1>2. g \in HostStates
  BY <1>1, FieldTypes, Zenon DEF Hosts
<1>3. /\ g.latch = s.latch /\ g.held = s.held /\ g.cleanup = s.cleanup /\ g.ep = s.ep /\ g.ok
      /\ g.staged = s.staged /\ g.candidate = s.candidate /\ g.routes = s.routes
  BY <1>1
<1> HIDE DEF g
<1>4. Weak(g)
  BY <1>2, <1>3 DEF Weak, RemoteLatchIsHeld, QueuedIsHeld, OneEndpoint, HeldBound, HeldSlots, QueuedSlots
<1>5. /\ Weak(q) /\ HeldIsOwned(q) /\ (\A k \in Keys : q.latch[k].to # "Remote") /\ q.ok
  BY <1>3, <1>4, QueueKeeps
<1>6. activate_failsafe([s EXCEPT !.drain = TRUE]) = [q EXCEPT !.ready = @ /\ q.ok]
  BY <1>1 DEF activate_failsafe, ReadyIfOk, g
<1> HIDE DEF q
<1>7. [q EXCEPT !.ready = @ /\ q.ok] = q
  <2>1. q \in HostStates /\ q.ready \in BOOLEAN
    BY <1>5, Types DEF Weak
  <2>2. (q.ready /\ q.ok) = q.ready
    BY <1>5, <2>1
  <2>3. [q EXCEPT !.ready = q.ready] = q
    BY <2>1 DEF HostStates
  <2> QED
    BY <2>2, <2>3
<1>8. /\ Weak(d) /\ HeldIsOwned(d) /\ ReleasesGateRouting(d) /\ d.latch = q.latch
  BY <1>5, DrainKeeps
<1> HIDE DEF d
<1>9. Sound(d)
  BY <1>5, <1>8 DEF Sound, Safe, FailsafeReleasesAll
<1>10. AndThen(trigger_emergency(s), drain_remote_cleanup) = d
  BY <1>5, <1>6, <1>7 DEF AndThen, trigger_emergency, d
<1> QED
  BY <1>9, <1>10

-----------------------------------------------------------------------------
(* Releases queued and sent in one handler *)

\* After a drain that succeeds, nothing of what was queued is held.
LEMMA QueueDrainKeeps ==
    ASSUME NEW s, Weak(s), s.ok, NEW A
    PROVE  LET q == queue_remote_cleanup(s, A)
               d == drain_remote_cleanup(q)
           IN /\ q.ok /\ Keeps(s, d) /\ ReleasesGateRouting(d) /\ d.staged = s.staged
              /\ d.ok => QueuedSlots(d) = {} /\ HeldSlots(d) \cap A = {}
              /\ \A x \in HeldSlots(d) : d.held[x] = s.held[x]
<1> DEFINE q == queue_remote_cleanup(s, A)  d == drain_remote_cleanup(q)
<1>1. /\ Weak(q) /\ q.ok /\ q.held = s.held /\ q.staged = s.staged
      /\ QueuedSlots(q) = QueuedSlots(s) \cup (HeldSlots(s) \cap A)
  BY QueueKeeps
<1>2. Safe(s) => Safe(q)
  BY QueueGatedKeeps
<1>3. HeldSlots(q) = HeldSlots(s)
  BY <1>1 DEF HeldSlots
<1> HIDE DEF q
<1>4. /\ Keeps(q, d) /\ ReleasesGateRouting(d) /\ d.staged = q.staged
      /\ d.ok => QueuedSlots(d) = {} /\ HeldSlots(d) \cap QueuedSlots(q) = {}
      /\ \A x \in HeldSlots(d) : x \in HeldSlots(q) /\ d.held[x] = q.held[x]
  BY <1>1, DrainKeeps
<1> HIDE DEF d
<1>5. Keeps(s, d)
  BY <1>1, <1>2, <1>4 DEF Keeps
<1>6. d.ok => HeldSlots(d) \cap A = {}
  BY <1>1, <1>3, <1>4
<1> QED
  BY <1>1, <1>4, <1>5, <1>6 DEF q, d

\* gate_local_devices: the releases are sent before anything else happens.
LEMMA GateDevicesKeeps ==
    ASSUME NEW s, Weak(s), s.ok, NEW ds \in SUBSET Devices
    PROVE  Keeps(s, gate_local_devices(s, ds))
<1> DEFINE g == [s EXCEPT !.gated = @ \cup ds]
<1>1. s \in HostStates /\ s.gated \cup ds \in SUBSET Devices
  BY DEF Weak, HostStates
<1>2. Keeps(s, g)
  BY <1>1, FieldKeeps, Zenon
<1>3. Weak(g) /\ g.ok
  BY <1>1, <1>2 DEF Keeps
<1> HIDE DEF g
<1>4. /\ queue_remote_cleanup(g, DeviceSlots(ds)).ok
      /\ Keeps(g, drain_remote_cleanup(queue_remote_cleanup(g, DeviceSlots(ds))))
  BY <1>3, QueueDrainKeeps
<1>5. Keeps(g, gate_local_devices(s, ds))
  BY <1>4 DEF gate_local_devices, AndThen, g
<1> QED
  BY <1>2, <1>5, KeepsTrans

\* The handoff gates of the source and of the destination.
LEMMA BeginHandoffKeeps ==
    ASSUME NEW s, Weak(s), s.ok
    PROVE  Keeps(s, begin_pointer_handoff(s)) /\ Keeps(s, begin_destination_handoff_barrier(s))
<1>1. s \in HostStates
  BY DEF Weak
<1>2. CASE s.staged
  <2>1. core_begin_pointer_handoff(s) = Fail(s) /\ ~Fail(s).ok
    BY <1>1, <1>2, ResultKeeps DEF core_begin_pointer_handoff
  <2>2. begin_pointer_handoff(s) = Fail(s) /\ begin_destination_handoff_barrier(s) = Fail(s)
    BY <2>1 DEF begin_pointer_handoff, begin_destination_handoff_barrier, AndThen
  <2> QED
    BY <1>1, <2>2, ResultKeeps
<1>3. CASE ~s.staged
  <2> DEFINE g == [s EXCEPT !.handoff = TRUE]
             q == queue_remote_cleanup(g, FollowSlots(s))
             d == drain_remote_cleanup(q)
             e == [d EXCEPT !.handoff = FALSE]
  <2>1. Keeps(s, g)
    BY <1>1, FieldKeeps, Zenon
  <2>2. Weak(g) /\ g.ok
    BY <1>1, <2>1 DEF Keeps
  <2>3. core_begin_pointer_handoff(s) = q
    BY <1>3 DEF core_begin_pointer_handoff
  <2> HIDE DEF g
  <2>4. q.ok /\ Keeps(g, d)
    BY <2>2, QueueDrainKeeps
  <2> HIDE DEF q, d
  <2>5. Keeps(s, d) /\ d \in HostStates
    BY <2>1, <2>4, KeepsTrans DEF Keeps
  <2>6. Keeps(s, cancel_pointer_handoff(d))
    BY <2>5, GateKeeps, KeepsTrans
  <2>7. Keeps(s, e)
    BY <2>5, FieldKeeps, KeepsTrans, Zenon
  <2>8. /\ begin_pointer_handoff(s) = (IF d.ok THEN d ELSE cancel_pointer_handoff(d))
        /\ begin_destination_handoff_barrier(s) = (IF d.ok THEN d ELSE e)
    BY <2>3, <2>4 DEF begin_pointer_handoff, begin_destination_handoff_barrier, AndThen, OrElse, d
  <2> HIDE DEF e
  <2> QED
    BY <2>5, <2>6, <2>7, <2>8
<1> QED
  BY <1>2, <1>3

\* The active host is published with nothing queued, or not at all.
LEMMA PublishHostKeeps ==
    ASSUME NEW s, Weak(s), NEW host \in Hosts
    PROVE  LET p == PublishHost(s, host)
           IN /\ Weak(p) /\ (Safe(s) => Safe(p))
              /\ ReleasesGateRouting(s) => ReleasesGateRouting(p)
              /\ p.ok => ReleasesGateRouting(p)
<1>1. s \in HostStates
  BY DEF Weak
<1>2. CASE s.ok /\ ~cleanup_pending(s)
  <2> DEFINE p == [[s EXCEPT !.active = host] EXCEPT !.handoff = FALSE]
  <2>1. PublishHost(s, host) = p
    BY <1>1, <1>2 DEF PublishHost
  <2>2. Keeps(s, p)
    BY <1>1, FieldKeeps, KeepsTrans, Zenon DEF Keeps
  <2>3. ReleasesGateRouting(s)
    BY <1>2 DEF ReleasesGateRouting, cleanup_pending, QueuedSlots
  <2> HIDE DEF p
  <2> QED
    BY <2>1, <2>2, <2>3 DEF Keeps
<1>3. CASE ~(s.ok /\ ~cleanup_pending(s))
  BY <1>1, <1>3, ResultKeeps DEF PublishHost, Keeps
<1> QED
  BY <1>2, <1>3

\* finish_pointer_handoff keeps the ledger: a release queued by the change of
\* the active host is sent, or routing is gated, before the host is published.
LEMMA FinishHandoffKeeps ==
    ASSUME NEW s, Weak(s), s.ok, NEW host \in Hosts
    PROVE  Keeps(s, finish_pointer_handoff(s, host))
<1> DEFINE f == core_finish_pointer_handoff(s, host)
           u == Succeed(f)
           d == drain_remote_cleanup(u)
           r == finish_pointer_handoff(s, host)
<1>0. s \in HostStates
  BY DEF Weak
<1>1. ASSUME NEW t, Weak(t)
      PROVE  LET c == core_finish_pointer_handoff(t, host)
             IN /\ Weak(c) /\ (Safe(t) => Safe(c)) /\ (c.ok => ReleasesGateRouting(c))
                /\ t.staged => Keeps(t, c)
                /\ ~(t.ready /\ t.running) => ReleasesGateRouting(c)
                /\ HeldSlots(t) \cap FollowSlots(t) = {} => Keeps(t, c)
                /\ t.ok => \/ c.ok
                           \/ c = Fail(t) /\ (t.staged \/ cleanup_pending(t))
                           \/ c = Fail(queue_remote_cleanup(t, FollowSlots(t)))
  <2> DEFINE c == core_finish_pointer_handoff(t, host)
             q == queue_remote_cleanup(t, FollowSlots(t))
             v == update_workspace(t, host)
  <2>0. t \in HostStates
    BY <1>1 DEF Weak
  <2>1. CASE t.staged \/ cleanup_pending(t)
    <3>1. c = Fail(t)
      BY <2>1 DEF core_finish_pointer_handoff
    <3>2. Keeps(t, Fail(t)) /\ ~Fail(t).ok /\ Fail(t).ready = t.ready /\ Fail(t).running = t.running
      BY <2>0, ResultKeeps DEF Fail, HostStates
    <3> HIDE DEF c
    <3> QED
      BY <1>1, <2>1, <3>1, <3>2 DEF Keeps, ReleasesGateRouting, c
  <2>2. CASE ~(t.staged \/ cleanup_pending(t))
    <3>1. c = PublishHost(v, host)
      BY <2>2 DEF core_finish_pointer_handoff
    <3>2. v = t \/ v = q
      BY DEF update_workspace
    <3>3. /\ Weak(q) /\ (Safe(t) => Safe(q)) /\ q.ready = t.ready /\ q.running = t.running
          /\ QueuedSlots(q) = QueuedSlots(t) \cup (HeldSlots(t) \cap FollowSlots(t))
      BY <1>1, QueueKeeps, QueueGatedKeeps
    <3>4. QueuedSlots(t) = {}
      BY <2>2 DEF cleanup_pending, QueuedSlots
    <3> HIDE DEF q, v
    <3>5. Weak(v) /\ (Safe(t) => Safe(v)) /\ v.ready = t.ready /\ v.running = t.running
      BY <1>1, <3>2, <3>3
    <3>6. HeldSlots(t) \cap FollowSlots(t) = {} \/ ~(t.ready /\ t.running) => ReleasesGateRouting(v)
      BY <3>2, <3>3, <3>4, <3>5 DEF ReleasesGateRouting
    <3>7. /\ Weak(c) /\ (Safe(v) => Safe(c)) /\ (c.ok => ReleasesGateRouting(c))
          /\ ReleasesGateRouting(v) => ReleasesGateRouting(c)
      BY <3>1, <3>5, PublishHostKeeps
    <3>8. c.ok \/ (c = Fail(v) /\ (v.ok => cleanup_pending(v)))
      <4>1. v \in HostStates
        BY <3>5 DEF Weak
      <4> QED
        BY <3>1, <4>1 DEF PublishHost, HostStates
    <3> HIDE DEF c
    <3>9. HeldSlots(t) \cap FollowSlots(t) = {} => Keeps(t, c)
      BY <3>5, <3>6, <3>7 DEF Keeps, Weak
    <3> QED
      BY <2>2, <3>2, <3>5, <3>6, <3>7, <3>8, <3>9 DEF c, q
  <2> QED
    BY <2>1, <2>2
<1>2. r = IF f.ok THEN f ELSE IF d.ok THEN core_finish_pointer_handoff(d, host) ELSE d
  BY DEF finish_pointer_handoff, OrElse, AndThen
<1>3. /\ Weak(f) /\ (Safe(s) => Safe(f)) /\ (f.ok => ReleasesGateRouting(f))
      /\ ~(s.ready /\ s.running) => ReleasesGateRouting(f)
      /\ \/ f.ok
         \/ f = Fail(s) /\ (s.staged \/ cleanup_pending(s))
         \/ f = Fail(queue_remote_cleanup(s, FollowSlots(s)))
  BY <1>1
<1> HIDE DEF f, r
<1>4. f.ok => Keeps(s, r)
  BY <1>2, <1>3 DEF Keeps, Weak
<1>5. ASSUME ~f.ok PROVE Keeps(s, r)
  <2>1. f \in HostStates /\ Keeps(f, u)
    BY <1>3, ResultKeeps DEF Weak
  <2>2. Weak(u) /\ (Safe(s) => Safe(u))
    BY <1>3, <2>1 DEF Keeps
  <2>3. /\ Keeps(u, d) /\ ReleasesGateRouting(d) /\ d.staged = u.staged /\ (d.ready => u.ready)
        /\ d.running = u.running
        /\ d.ok => QueuedSlots(d) = {} /\ HeldSlots(d) \cap QueuedSlots(u) = {}
        /\ \A x \in HeldSlots(d) : x \in HeldSlots(u) /\ d.held[x] = u.held[x]
    BY <2>2, DrainKeeps
  <2>4. /\ u.staged = f.staged /\ u.ready = f.ready /\ u.running = f.running
        /\ u.held = f.held /\ u.cleanup = f.cleanup
    BY <2>1 DEF Succeed
  <2>5. Weak(d) /\ (Safe(s) => Safe(d)) /\ Keeps(s, d)
    BY <2>2, <2>3 DEF Keeps
  <2> HIDE DEF u, d
  <2>6. CASE ~d.ok
    BY SMTT(30), <1>2, <1>5, <2>5, <2>6
  <2>7. CASE d.ok
    <3> DEFINE c == core_finish_pointer_handoff(d, host)
    <3>1. /\ Weak(c) /\ (Safe(d) => Safe(c))
          /\ d.staged => Keeps(d, c)
          /\ ~(d.ready /\ d.running) => ReleasesGateRouting(c)
          /\ HeldSlots(d) \cap FollowSlots(d) = {} => Keeps(d, c)
      BY <1>1, <2>5
    <3>2. r = c
      BY <1>2, <1>5, <2>7
    <3> HIDE DEF c
    <3>3. ReleasesGateRouting(s) => ReleasesGateRouting(c)
      <4>1. CASE d.staged
        BY <2>3, <3>1, <4>1 DEF Keeps
      <4>2. CASE ~d.staged /\ f = Fail(s) /\ (s.staged \/ cleanup_pending(s))
        <5>1. f.staged = s.staged /\ f.ready = s.ready /\ f.running = s.running
          BY <1>0, <4>2 DEF Fail
        <5>2. ~s.staged /\ cleanup_pending(s)
          BY <2>3, <2>4, <4>2, <5>1
        <5>3. QueuedSlots(s) # {}
          <6>1. s.cleanup \in Seq(CleanupEntries) /\ s.cleanup # <<>>
            BY <1>0, <5>2, Types DEF cleanup_pending
          <6>2. 1 \in DOMAIN s.cleanup
            BY <6>1
          <6> QED
            BY <6>2, ZenonT(30) DEF QueuedSlots
        <5>4. ReleasesGateRouting(s) => ~(s.ready /\ s.running)
          BY <5>2, <5>3 DEF ReleasesGateRouting
        <5> QED
          BY <2>3, <2>4, <3>1, <5>1, <5>4
      <4>3. CASE ~d.staged /\ f = Fail(queue_remote_cleanup(s, FollowSlots(s)))
        <5> DEFINE q == queue_remote_cleanup(s, FollowSlots(s))
        <5>1. /\ q.held = s.held /\ q \in HostStates
              /\ QueuedSlots(q) = QueuedSlots(s) \cup (HeldSlots(s) \cap FollowSlots(s))
          BY QueueKeeps DEF Weak
        <5> HIDE DEF q
        <5>2. u.held = s.held /\ u.cleanup = q.cleanup
          BY <2>4, <4>3, <5>1 DEF Fail, q
        <5>3. HeldSlots(d) \cap FollowSlots(d) = {}
          BY <2>3, <2>7, <5>1, <5>2 DEF HeldSlots, FollowSlots, QueuedSlots
        <5> QED
          BY <2>3, <3>1, <5>3 DEF Keeps
      <4> QED
        BY <1>3, <1>5, <4>1, <4>2, <4>3
    <3> QED
      BY <2>5, <3>1, <3>2, <3>3 DEF Keeps, Weak
  <2> QED
    BY <2>6, <2>7
<1> QED
  BY <1>4, <1>5 DEF r

-----------------------------------------------------------------------------
(* Endpoints *)

\* The queue is empty exactly when no slot is queued.
LEMMA EmptyQueue ==
    ASSUME NEW s \in HostStates
    PROVE  QueuedSlots(s) = {} <=> s.cleanup = <<>>
<1>1. ASSUME s.cleanup # <<>> PROVE QueuedSlots(s) # {}
  <2>1. s.cleanup \in Seq(CleanupEntries)
    BY Types
  <2>2. 1 \in DOMAIN s.cleanup
    BY <1>1, <2>1
  <2> QED
    BY <2>2, ZenonT(30) DEF QueuedSlots
<1>2. ASSUME s.cleanup = <<>> PROVE QueuedSlots(s) = {}
  BY <1>2 DEF QueuedSlots
<1> QED
  BY <1>1, <1>2

\* Routing is published only when no release waits and nothing is held.
LEMMA MarkReadyKeeps ==
    ASSUME NEW s, Weak(s)
    PROVE  Keeps(s, mark_workspace_routing_ready(s))
<1> DEFINE m == [s EXCEPT !.ready = TRUE]
<1>1. s \in HostStates
  BY DEF Weak
<1>2. CASE cleanup_pending(s) \/ HeldSlots(s) # {} \/ ~s.up \/ ~s.running
  BY <1>1, <1>2, ResultKeeps DEF mark_workspace_routing_ready
<1>3. CASE ~(cleanup_pending(s) \/ HeldSlots(s) # {} \/ ~s.up \/ ~s.running)
  <2>1. m \in HostStates
    BY <1>1, FieldTypes, Zenon
  <2>2. /\ m.latch = s.latch /\ m.held = s.held /\ m.cleanup = s.cleanup /\ m.ep = s.ep
        /\ m.drain = s.drain /\ m.staged = s.staged /\ m.candidate = s.candidate /\ m.routes = s.routes
    BY <1>1
  <2>3. mark_workspace_routing_ready(s) = m
    BY <1>3 DEF mark_workspace_routing_ready
  <2> HIDE DEF m
  <2>4. HeldSlots(m) = HeldSlots(s) /\ QueuedSlots(m) = QueuedSlots(s)
    BY <2>2 DEF HeldSlots, QueuedSlots
  <2>5. Weak(m)
    BY <2>1, <2>2, <2>4 DEF Weak, RemoteLatchIsHeld, QueuedIsHeld, OneEndpoint, HeldBound
  <2>6. Safe(s) => Safe(m)
    BY <2>2, <2>4, <2>5 DEF Safe, HeldIsOwned, FailsafeReleasesAll
  <2>7. ReleasesGateRouting(m)
    BY <1>1, <1>3, <2>4, EmptyQueue DEF cleanup_pending, ReleasesGateRouting
  <2> QED
    BY <2>1, <2>3, <2>5, <2>6, <2>7 DEF Keeps
<1> QED
  BY <1>2, <1>3

\* The endpoint goes up or down.
LEMMA SetEndpointKeeps ==
    ASSUME NEW s, Weak(s), NEW up \in BOOLEAN
    PROVE  Keeps(s, set_endpoint_state(s, up))
<1>1. s \in HostStates
  BY DEF Weak
<1>2. CASE up
  <2>1. set_endpoint_state(s, up) = [s EXCEPT !.up = TRUE]
    BY <1>2 DEF set_endpoint_state
  <2> QED
    BY <1>1, <2>1, FieldKeeps, Zenon
<1>3. CASE ~up
  <2> DEFINE g == [Gated(s) EXCEPT !.up = FALSE]
  <2>1. Keeps(s, Gated(s)) /\ ~Gated(s).ready /\ Gated(s) \in HostStates
    BY <1>1, GateKeeps DEF Keeps
  <2>2. Keeps(Gated(s), g)
    BY <2>1, FieldKeeps, Zenon
  <2>3. Keeps(s, g) /\ Weak(g) /\ ~g.ready
    BY <2>1, <2>2, KeepsTrans DEF Keeps
  <2> HIDE DEF g
  <2>4. Keeps(g, queue_remote_cleanup(g, EndpointSlots(s.ep)))
    BY <2>3, QueueGatedKeeps
  <2>5. set_endpoint_state(s, up) = queue_remote_cleanup(g, EndpointSlots(s.ep))
    BY <1>3 DEF set_endpoint_state, g
  <2> QED
    BY <2>3, <2>4, <2>5, KeepsTrans
<1> QED
  BY <1>2, <1>3

\* An endpoint without obligations is retired: nothing is held at all.
LEMMA RetireKeeps ==
    ASSUME NEW s, Weak(s), NEW g
    PROVE  Keeps(s, retire_session_endpoint(s, g))
<1>1. s \in HostStates
  BY DEF Weak
<1>2. CASE s.ep # g \/ s.up \/ endpoint_has_obligations(s, g)
  BY <1>1, <1>2, ResultKeeps DEF retire_session_endpoint
<1>3. CASE ~(s.ep # g \/ s.up \/ endpoint_has_obligations(s, g))
  <2> DEFINE t == Gated(s)  r == [t EXCEPT !.ep = 0]
  <2>1. retire_session_endpoint(s, g) = r
    BY <1>3 DEF retire_session_endpoint
  <2>2. Keeps(s, t) /\ Weak(t) /\ t \in HostStates /\ ~t.ready
    BY <1>1, GateKeeps DEF Keeps
  <2>3. t.held = s.held /\ t.ep = s.ep
    BY <1>1 DEF Gated
  <2> HIDE DEF t
  <2>4. r \in HostStates
    <3>1. 0 \in MaybeGen
      BY CoreAssumption DEF MaybeGen
    <3> QED
      BY <2>2, <3>1, FieldTypes, Zenon
  <2>5. /\ r.latch = t.latch /\ r.held = t.held /\ r.cleanup = t.cleanup /\ ~r.ready
        /\ r.drain = t.drain /\ r.staged = t.staged /\ r.candidate = t.candidate /\ r.routes = t.routes
    BY <2>2
  <2>6. HeldSlots(t) = {}
    <3>1. HeldSlots(t) = HeldSlots(s)
      BY <2>3 DEF HeldSlots
    <3> QED
      BY <1>3, <3>1 DEF Weak, OneEndpoint, endpoint_has_obligations
  <2> HIDE DEF r
  <2>7. HeldSlots(r) = {} /\ QueuedSlots(r) = QueuedSlots(t)
    BY <2>5, <2>6 DEF HeldSlots, QueuedSlots
  <2>8. Weak(r)
    <3>1. \A k \in Keys : r.latch[k].to # "Remote"
      BY <2>2, <2>5, <2>6 DEF Weak, RemoteLatchIsHeld
    <3> QED
      BY SMTT(30), <2>2, <2>4, <2>5, <2>6, <2>7, <3>1
         DEF Weak, RemoteLatchIsHeld, QueuedIsHeld, OneEndpoint, HeldBound
  <2>9. Safe(t) => Safe(r)
    BY <2>5, <2>7, <2>8 DEF Safe, HeldIsOwned, FailsafeReleasesAll
  <2>10. Keeps(t, r)
    BY <2>4, <2>5, <2>8, <2>9 DEF Keeps, ReleasesGateRouting
  <2> QED
    BY <2>1, <2>2, <2>10, KeepsTrans
<1> QED
  BY <1>2, <1>3

\* Only releases of the given generation leave the queue.
LEMMA WithoutCases ==
    ASSUME NEW s, Weak(s), NEW g
    PROVE  /\ s.ep = g => Without(s.cleanup, g) = <<>>
           /\ s.ep # g => Without(s.cleanup, g) = s.cleanup
<1> DEFINE q == s.cleanup
           kept == {i \in DOMAIN q : q[i].slot[1] # g}
           n == Len(q)
           pick(j) == CHOOSE i \in kept : Cardinality({l \in kept : l <= i}) = j
<1>1. q \in Seq(CleanupEntries) /\ n \in Nat /\ DOMAIN q = 1..n /\ s \in HostStates
  BY Types DEF Weak
<1>2. Without(q, g) = [j \in 1..Cardinality(kept) |-> q[pick(j)]]
  BY DEF Without
<1>3. \A i \in 1..n : q[i].slot[1] = s.ep
  BY <1>1 DEF Weak, QueuedIsHeld, OneEndpoint
<1>4. ASSUME s.ep = g PROVE Without(q, g) = <<>>
  <2>1. kept = {}
    BY <1>1, <1>3, <1>4
  <2>2. Cardinality(kept) = 0
    BY <2>1, FS_EmptySet
  <2> HIDE DEF kept
  <2>3. Without(q, g) = [j \in {} |-> q[pick(j)]]
    BY <1>2, <2>2
  <2> QED
    BY <2>3
<1>5. ASSUME s.ep # g PROVE Without(q, g) = q
  <2>1. kept = 1..n
    BY <1>1, <1>3, <1>5
  <2>2. \A i \in 1..n : Cardinality({l \in 1..n : l <= i}) = i
    <3> TAKE i \in 1..n
    <3>1. {l \in 1..n : l <= i} = 1..i
      BY <1>1
    <3>2. Cardinality(1..i) = i
      BY <1>1, FS_Interval
    <3> QED
      BY <3>1, <3>2, ZenonT(30)
  <2>3. Cardinality(kept) = n
    <3>1. Cardinality(1..n) = n
      BY <1>1, FS_Interval
    <3> QED
      BY <2>1, <3>1, Zenon
  <2>4. \A j \in 1..n : pick(j) = j
    <3> TAKE j \in 1..n
    <3>1. \A i \in kept : Cardinality({l \in kept : l <= i}) = i
      BY <2>1, <2>2
    <3>2. j \in kept
      BY <2>1
    <3> HIDE DEF kept
    <3> QED
      BY <3>1, <3>2
  <2>5. Without(q, g) = [j \in 1..n |-> q[j]]
    BY <1>2, <2>3, <2>4, ZenonT(30)
  <2> QED
    BY <1>1, <2>5
<1> QED
  BY <1>4, <1>5

\* The loss of a transport discards what its endpoint holds, and only that.
LEMMA InvalidatedKeeps ==
    ASSUME NEW s, Weak(s), NEW g
    PROVE  Keeps(s, confirm_transport_invalidated(s, g))
<1> DEFINE t == IF s.ep = g THEN [Gated(s) EXCEPT !.ep = 0, !.up = FALSE] ELSE s
           cleanup == Without(s.cleanup, g)
           held == [x \in Slots |-> IF x[1] = g THEN NotHeld ELSE s.held[x]]
           latch == [k \in Keys |-> IF s.latch[k].to = "Remote" /\ s.latch[k].ep = g
                                    THEN QuarantinedLatch ELSE s.latch[k]]
           r == confirm_transport_invalidated(s, g)
<1>1. s \in HostStates /\ s.latch \in [Keys -> Latches] /\ s.held \in [Slots -> HeldStates]
      /\ s.cleanup \in Seq(CleanupEntries)
  BY Types DEF Weak
<1>2. /\ t \in HostStates /\ t.latch = s.latch /\ t.held = s.held /\ t.cleanup = s.cleanup
      /\ t.drain = s.drain /\ t.staged = s.staged /\ t.candidate = s.candidate /\ t.routes = s.routes
      /\ t.running = s.running /\ (t.ready => s.ready)
      /\ s.ep # g => t.ep = s.ep
      /\ s.ep = g => ~t.ready
  <2>1. Gated(s) \in HostStates /\ ~Gated(s).ready
    BY <1>1, GateKeeps DEF Keeps
  <2>2. 0 \in MaybeGen
    BY CoreAssumption DEF MaybeGen
  <2>3. t \in HostStates
    BY <1>1, <2>1, <2>2, FieldTypes, Zenon
  <2> QED
    BY <1>1, <2>1, <2>3 DEF Gated
<1>3. r = [[[t EXCEPT !.cleanup = cleanup] EXCEPT !.held = held] EXCEPT !.latch = latch]
  BY <1>1, <1>2, ZenonT(30) DEF confirm_transport_invalidated
<1>4. /\ s.ep = g => cleanup = <<>>
      /\ s.ep # g => cleanup = s.cleanup
  BY WithoutCases
<1>5. cleanup \in Seq(CleanupEntries)
  <2>1. <<>> \in Seq(CleanupEntries)
    OBVIOUS
  <2> HIDE DEF cleanup
  <2> QED
    BY <1>1, <1>4, <2>1, Zenon
<1>6. held \in [Slots -> HeldStates]
  BY <1>1, CoreAssumption DEF HeldStates, NotHeld, RouteKinds
<1>7. latch \in [Keys -> Latches]
  BY <1>1, CoreAssumption DEF Latches, QuarantinedLatch, RouteKinds, MaybeGen
<1> HIDE DEF cleanup, held, latch, r, t
<1>8. r \in HostStates
  BY <1>2, <1>3, <1>5, <1>6, <1>7, FieldTypes, ZenonT(30)
<1>9. /\ r.cleanup = cleanup /\ r.held = held /\ r.latch = latch /\ r.ep = t.ep
      /\ r.drain = s.drain /\ r.staged = s.staged /\ r.candidate = s.candidate /\ r.routes = s.routes
      /\ r.ready = t.ready /\ r.running = s.running
  BY <1>2, <1>3
<1>10. CASE s.ep = g
  <2>1. HeldSlots(r) = {}
    <3>1. ASSUME NEW x \in Slots PROVE held[x].seq = 0
      <4>1. x[1] # g => s.held[x].seq = 0
        BY <1>10 DEF Weak, OneEndpoint, HeldSlots
      <4> QED
        BY <4>1 DEF held, NotHeld
    <3> QED
      BY <1>9, <3>1 DEF HeldSlots
  <2>2. QueuedSlots(r) = {} /\ r.cleanup = <<>>
    BY <1>4, <1>9, <1>10 DEF QueuedSlots
  <2>3. \A k \in Keys : r.latch[k].to # "Remote"
    <3> TAKE k \in Keys
    <3>1. s.latch[k].to = "Remote" => s.latch[k].ep = g
      BY <1>10, ZenonT(30) DEF Weak, RemoteLatchIsHeld
    <3> QED
      BY <1>9, <3>1 DEF latch, QuarantinedLatch
  <2>4. HeldBound(r)
    BY <2>1, FS_EmptySet, CoreAssumption DEF HeldBound
  <2>5. Weak(r)
    BY <1>8, <1>9, <2>1, <2>2, <2>3, <2>4 DEF Weak, RemoteLatchIsHeld, QueuedIsHeld, OneEndpoint
  <2>6. Sound(r)
    BY <2>1, <2>2, <2>3, <2>5 DEF Sound, Safe, HeldIsOwned, FailsafeReleasesAll, ReleasesGateRouting
  <2> QED
    BY <2>6, SoundKeeps DEF r
<1>11. CASE s.ep # g
  <2>1. ASSUME NEW x \in HeldSlots(s) PROVE held[x] = s.held[x]
    BY <1>11 DEF Weak, OneEndpoint, HeldSlots, held
  <2>2. HeldSlots(r) = HeldSlots(s)
    BY <1>9, <2>1 DEF HeldSlots, held, NotHeld
  <2>3. QueuedSlots(r) = QueuedSlots(s) /\ r.cleanup = s.cleanup /\ r.ep = s.ep
    BY <1>2, <1>4, <1>9, <1>11 DEF QueuedSlots
  <2>4. r.latch = s.latch
    BY <1>1, <1>9, <1>11, ZenonT(30) DEF Weak, RemoteLatchIsHeld, latch
  <2>5. QueuedIsHeld(r)
    BY <1>9, <2>1, <2>2, <2>3 DEF Weak, QueuedIsHeld
  <2>6. Weak(r)
    BY SMTT(30), <1>8, <1>9, <2>2, <2>3, <2>4, <2>5 DEF Weak, RemoteLatchIsHeld, OneEndpoint, HeldBound
  <2>7. Safe(s) => Safe(r)
    BY SMTT(30), <1>9, <2>2, <2>3, <2>4, <2>6 DEF Safe, HeldIsOwned, FailsafeReleasesAll
  <2>8. ReleasesGateRouting(s) => ReleasesGateRouting(r)
    BY <1>2, <1>9, <2>3 DEF ReleasesGateRouting, affected_route_devices
  <2> QED
    BY <1>8, <2>6, <2>7, <2>8 DEF Keeps, r
<1> QED
  BY <1>10, <1>11

-----------------------------------------------------------------------------
(* Route policy and devices *)

\* A change of latches that never adds one to the peer and of no held control.
LEMMA LatchKeeps ==
    ASSUME NEW s, Weak(s), NEW f \in [Keys -> Latches],
           \A k \in Keys : f[k].to = "Remote" => f[k] = s.latch[k]
    PROVE  LET t == [s EXCEPT !.latch = f]
           IN /\ Weak(t) /\ (FailsafeReleasesAll(s) => FailsafeReleasesAll(t))
              /\ ReleasesGateRouting(s) => ReleasesGateRouting(t)
              /\ (\A k \in Keys : s.latch[k].to = "Remote" => f[k] = s.latch[k])
                   => Keeps(s, t)
              /\ t.ok = s.ok /\ t.drain = s.drain
<1> DEFINE t == [s EXCEPT !.latch = f]
<1>1. s \in HostStates /\ t \in HostStates
  BY FieldTypes, Zenon DEF Weak
<1>2. /\ t.latch = f /\ t.held = s.held /\ t.cleanup = s.cleanup /\ t.ep = s.ep
      /\ t.drain = s.drain /\ t.staged = s.staged /\ t.candidate = s.candidate /\ t.routes = s.routes
      /\ t.ready = s.ready /\ t.running = s.running /\ t.ok = s.ok
  BY <1>1
<1> HIDE DEF t
<1>3. HeldSlots(t) = HeldSlots(s) /\ QueuedSlots(t) = QueuedSlots(s)
  BY <1>2 DEF HeldSlots, QueuedSlots
<1>4. Weak(t)
  BY <1>1, <1>2, <1>3 DEF Weak, RemoteLatchIsHeld, QueuedIsHeld, OneEndpoint, HeldBound
<1>5. FailsafeReleasesAll(s) => FailsafeReleasesAll(t)
  BY <1>2 DEF FailsafeReleasesAll
<1>6. ReleasesGateRouting(s) => ReleasesGateRouting(t)
  BY <1>2, <1>3 DEF ReleasesGateRouting, affected_route_devices
<1>7. ASSUME \A k \in Keys : s.latch[k].to = "Remote" => f[k] = s.latch[k]
      PROVE  Keeps(s, t)
  <2>1. HeldIsOwned(s) => HeldIsOwned(t)
    <3>1. \A x \in HeldSlots(s) : x[2] \in Keys
      BY DEF HeldSlots, Slots
    <3> QED
      BY <1>2, <1>3, <1>7, <3>1 DEF HeldIsOwned
  <2> QED
    BY <1>1, <1>4, <1>5, <1>6, <2>1 DEF Keeps, Safe
<1> QED
  BY <1>2, <1>4, <1>5, <1>6, <1>7 DEF t

\* restore_local_device forgets only lifecycles that are not open at the peer.
LEMMA RestoreKeeps ==
    ASSUME NEW s, Weak(s), NEW ds
    PROVE  Keeps(s, restore_local_devices(s, ds))
<1> DEFINE f == [k \in Keys |-> IF k[1] \in ds THEN Unlatched ELSE s.latch[k]]
           t == [s EXCEPT !.latch = f]
<1>1. s \in HostStates /\ s.latch \in [Keys -> Latches] /\ s.gated \in SUBSET Devices
  BY Types DEF Weak, HostStates
<1>2. CASE \E x \in HeldSlots(s) \cup QueuedSlots(s) : x[2][1] \in ds
  BY <1>1, <1>2, ResultKeeps DEF restore_local_devices
<1>3. CASE ~\E x \in HeldSlots(s) \cup QueuedSlots(s) : x[2][1] \in ds
  <2>1. f \in [Keys -> Latches]
    BY <1>1, CoreAssumption DEF Latches, Unlatched, RouteKinds, MaybeGen
  <2>2. \A k \in Keys : f[k].to = "Remote" => f[k] = s.latch[k]
    BY DEF Unlatched
  <2>3. \A k \in Keys : s.latch[k].to = "Remote" => f[k] = s.latch[k]
    <3> TAKE k \in Keys
    <3> HAVE s.latch[k].to = "Remote"
    <3>1. <<s.ep, k>> \in HeldSlots(s)
      BY DEF Weak, RemoteLatchIsHeld
    <3>2. k[1] \notin ds
      BY <1>3, <3>1
    <3> QED
      BY <3>2
  <2>4. restore_local_devices(s, ds) = [t EXCEPT !.gated = s.gated \ ds]
    BY <1>1, <1>3 DEF restore_local_devices
  <2> HIDE DEF f
  <2>5. Keeps(s, t)
    BY <2>1, <2>2, <2>3, LatchKeeps
  <2> HIDE DEF t
  <2>6. t \in HostStates /\ s.gated \ ds \in SUBSET Devices
    BY <1>1, <2>5 DEF Keeps
  <2>7. Keeps(t, [t EXCEPT !.gated = s.gated \ ds])
    BY <2>6, FieldKeeps, ZenonT(30)
  <2> QED
    BY <2>4, <2>5, <2>7, KeepsTrans
<1> QED
  BY SMTT(30), <1>2, <1>3

\* A staged candidate's releases are of devices that it gates.
LEMMA RetryCoreKeeps ==
    ASSUME NEW s, Weak(s), s.staged
    PROVE  LET q == core_retry_route_policy(s) IN Keeps(s, q) /\ q.ok = s.ok /\ q.staged
<1> DEFINE q == queue_remote_cleanup(s, Unresolved(s))
<1>1. /\ Weak(q) /\ (Safe(s) => Safe(q))
  BY QueueGatedKeeps
<1>2. /\ QueuedSlots(q) = QueuedSlots(s) \cup (HeldSlots(s) \cap Unresolved(s))
      /\ q.staged = s.staged /\ q.candidate = s.candidate /\ q.routes = s.routes
      /\ q.ready = s.ready /\ q.running = s.running /\ q.ok = s.ok
  BY QueueKeeps, ZenonT(30)
<1> HIDE DEF q
<1>3. \A x \in Unresolved(s) : x[2][1] \in affected_route_devices(q)
  BY <1>2 DEF Unresolved, affected_route_devices
<1>4. ReleasesGateRouting(s) => ReleasesGateRouting(q)
  BY <1>2, <1>3 DEF ReleasesGateRouting, affected_route_devices
<1> QED
  BY <1>1, <1>2, <1>4 DEF Keeps, Weak, core_retry_route_policy, q

\* retry_route_policy_update.
LEMMA RetryPolicyKeeps ==
    ASSUME NEW s, Weak(s), s.staged
    PROVE  Keeps(s, retry_route_policy_update(s))
<1> DEFINE d == drain_remote_cleanup(s)
<1>1. Keeps(s, d) /\ Weak(d) /\ d.staged = s.staged
  BY DrainKeeps, ZenonT(30)
<1> HIDE DEF d
<1>2. Keeps(d, core_retry_route_policy(d))
  BY <1>1, RetryCoreKeeps, ZenonT(30)
<1>3. retry_route_policy_update(s) = IF d.ok THEN core_retry_route_policy(d) ELSE d
  BY DEF retry_route_policy_update, AndThen, d
<1> QED
  BY <1>1, <1>2, <1>3, KeepsTrans

\* With an empty queue the policy fields may change freely.
LEMMA PolicyFrame ==
    ASSUME NEW s, Weak(s), NEW t \in HostStates, s.cleanup = <<>>,
           t.latch = s.latch, t.held = s.held, t.cleanup = s.cleanup, t.ep = s.ep,
           t.drain = s.drain, ~t.staged => t.candidate = t.routes
    PROVE  Keeps(s, t)
<1>1. HeldSlots(t) = HeldSlots(s) /\ QueuedSlots(t) = QueuedSlots(s)
  BY DEF HeldSlots, QueuedSlots
<1>2. Weak(t)
  BY <1>1 DEF Weak, RemoteLatchIsHeld, QueuedIsHeld, OneEndpoint, HeldBound
<1>3. Safe(s) => Safe(t)
  BY <1>1, <1>2 DEF Safe, HeldIsOwned, FailsafeReleasesAll
<1>4. ReleasesGateRouting(t)
  BY EmptyQueue DEF ReleasesGateRouting
<1> QED
  BY <1>2, <1>3, <1>4 DEF Keeps

\* prepare_route_policy_update.
LEMMA PreparePolicyKeeps ==
    ASSUME NEW s, Weak(s), NEW candidate \in Policies
    PROVE  Keeps(s, prepare_route_policy_update(s, candidate))
<1> DEFINE c == [[s EXCEPT !.staged = TRUE] EXCEPT !.candidate = candidate]
           q == core_retry_route_policy(c)
<1>1. s \in HostStates
  BY DEF Weak
<1>2. CASE s.handoff \/ s.staged \/ cleanup_pending(s)
  BY <1>1, <1>2, ResultKeeps DEF prepare_route_policy_update
<1>3. CASE ~(s.handoff \/ s.staged \/ cleanup_pending(s))
  <2>1. prepare_route_policy_update(s, candidate) = Prepared(s, q)
    BY <1>1, <1>3 DEF prepare_route_policy_update
  <2>2. c \in HostStates
    BY <1>1, FieldTypes, Zenon
  <2>3. /\ c.latch = s.latch /\ c.held = s.held /\ c.cleanup = s.cleanup /\ c.ep = s.ep
        /\ c.drain = s.drain /\ c.staged
    BY <1>1
  <2> HIDE DEF c
  <2>4. Keeps(s, c) /\ Weak(c)
    BY <1>3, <2>2, <2>3, PolicyFrame DEF cleanup_pending, Keeps
  <2>5. Keeps(c, q) /\ q.staged
    BY <2>3, <2>4, RetryCoreKeeps
  <2> HIDE DEF q
  <2>6. Keeps(s, q) /\ Weak(q)
    BY <2>4, <2>5, KeepsTrans DEF Keeps
  <2>7. Keeps(s, retry_route_policy_update(q))
    BY <2>5, <2>6, RetryPolicyKeeps, KeepsTrans
  <2> QED
    BY <1>1, <2>1, <2>6, <2>7, ResultKeeps DEF Prepared
<1> QED
  BY <1>2, <1>3

\* commit_route_policy_update and abort_route_policy_update, with nothing queued.
LEMMA SettlePolicyKeeps ==
    ASSUME NEW s, Weak(s), ~cleanup_pending(s)
    PROVE  Keeps(s, commit_route_policy_update(s)) /\ Keeps(s, abort_route_policy_update(s))
<1> DEFINE a == [[s EXCEPT !.staged = FALSE] EXCEPT !.candidate = s.routes]
           held == [x \in Slots |-> IF s.held[x].seq = 0 THEN s.held[x]
                                    ELSE [s.held[x] EXCEPT !.route = s.candidate[x[2][1]]]]
           latch == [k \in Keys |-> IF s.latch[k].to = "Remote"
                                    THEN [s.latch[k] EXCEPT !.route = s.candidate[k[1]]] ELSE s.latch[k]]
           c == [[[[s EXCEPT !.held = held] EXCEPT !.latch = latch] EXCEPT !.routes = s.candidate]
                  EXCEPT !.staged = FALSE]
<1>1. /\ s \in HostStates /\ s.latch \in [Keys -> Latches] /\ s.held \in [Slots -> HeldStates]
      /\ s.routes \in Policies /\ s.candidate \in Policies
  BY Types DEF Weak
<1>2. abort_route_policy_update(s) = a /\ commit_route_policy_update(s) = c
  BY <1>1 DEF abort_route_policy_update, commit_route_policy_update
<1>3. Keeps(s, a)
  <2>1. a \in HostStates
    BY <1>1, FieldTypes, Zenon
  <2>2. /\ a.latch = s.latch /\ a.held = s.held /\ a.cleanup = s.cleanup /\ a.ep = s.ep
        /\ a.drain = s.drain /\ a.candidate = a.routes
    BY <1>1
  <2> HIDE DEF a
  <2> QED
    BY <2>1, <2>2, PolicyFrame DEF cleanup_pending
<1>4. Keeps(s, c)
  <2>0. \A k \in Keys : s.candidate[k[1]] \in RouteKinds
    BY <1>1, CoreAssumption DEF Policies
  <2>1. /\ held \in [Slots -> HeldStates]
        /\ \A x \in Slots : held[x].seq = s.held[x].seq
    BY <1>1, <2>0 DEF HeldStates, Slots
  <2>2. /\ latch \in [Keys -> Latches]
        /\ \A k \in Keys : latch[k].to = s.latch[k].to /\ latch[k].ep = s.latch[k].ep
    BY <1>1, <2>0 DEF Latches
  <2> HIDE DEF held, latch
  <2>3. c \in HostStates
    BY <1>1, <2>1, <2>2, FieldTypes, Zenon
  <2>4. /\ c.latch = latch /\ c.held = held /\ c.cleanup = s.cleanup /\ c.ep = s.ep
        /\ c.drain = s.drain /\ c.candidate = c.routes
    BY <1>1
  <2> HIDE DEF c
  <2>5. HeldSlots(c) = HeldSlots(s) /\ QueuedSlots(c) = QueuedSlots(s)
    BY <2>1, <2>4 DEF HeldSlots, QueuedSlots
  <2>6. c.cleanup = <<>> /\ QueuedSlots(c) = {}
    BY <2>4 DEF cleanup_pending, QueuedSlots
  <2>7. Weak(c)
    BY SMTT(30), <2>2, <2>3, <2>4, <2>5, <2>6 DEF Weak, RemoteLatchIsHeld, QueuedIsHeld, OneEndpoint, HeldBound
  <2>8. Safe(s) => Safe(c)
    <3>1. \A x \in HeldSlots(s) : x[2] \in Keys
      BY DEF HeldSlots, Slots
    <3> QED
      BY <2>2, <2>4, <2>5, <2>7, <3>1 DEF Safe, HeldIsOwned, FailsafeReleasesAll
  <2>9. ReleasesGateRouting(c)
    BY <2>6 DEF ReleasesGateRouting
  <2> QED
    BY <2>3, <2>7, <2>8, <2>9 DEF Keeps
<1> QED
  BY <1>2, <1>3, <1>4

-----------------------------------------------------------------------------
(* Captured input *)

CaptureKinds == {"Press", "Repeat", "Release"}

\* The tick may only end the failsafe.
LEMMA TickKeeps ==
    ASSUME NEW s, Weak(s)
    PROVE  LET t == tick(s) IN Keeps(s, t) /\ t.ok = s.ok
<1> DEFINE v == s.drain /\ any_failsafe_key_pressed(s)
           t == [s EXCEPT !.drain = v]
<1>1. s \in HostStates /\ s.drain \in BOOLEAN /\ v \in BOOLEAN
  BY Types DEF Weak
<1>2. tick(s) = t
  BY DEF tick
<1> HIDE DEF v
<1>3. t \in HostStates
  BY <1>1, FieldTypes, Zenon
<1>4. /\ t.latch = s.latch /\ t.held = s.held /\ t.cleanup = s.cleanup /\ t.ep = s.ep /\ t.ok = s.ok
      /\ t.drain = v /\ t.staged = s.staged /\ t.candidate = s.candidate /\ t.routes = s.routes
      /\ t.ready = s.ready /\ t.running = s.running
  BY <1>1
<1> HIDE DEF t
<1>5. HeldSlots(t) = HeldSlots(s) /\ QueuedSlots(t) = QueuedSlots(s)
  BY <1>4 DEF HeldSlots, QueuedSlots
<1>6. Weak(t)
  BY <1>3, <1>4, <1>5 DEF Weak, RemoteLatchIsHeld, QueuedIsHeld, OneEndpoint, HeldBound
<1>7. Safe(s) => Safe(t)
  BY <1>4, <1>5, <1>6, ZenonT(30) DEF Safe, HeldIsOwned, FailsafeReleasesAll, v
<1>8. ReleasesGateRouting(s) => ReleasesGateRouting(t)
  BY <1>4, <1>5 DEF ReleasesGateRouting, affected_route_devices
<1> QED
  BY SMTT(30), <1>2, <1>3, <1>4, <1>6, <1>7, <1>8 DEF Keeps

\* The physical transition alone: only the release of a control latched to the
\* peer leaves a held control without an owner.
LEMMA LatchStepKeeps ==
    ASSUME NEW s, Weak(s), NEW kind \in CaptureKinds, NEW k \in Keys
    PROVE  LET b == LatchStep(s, kind, k)
               l == IF kind = "Release" THEN Unlatched
                    ELSE IF kind = "Press" /\ s.latch[k].to = "None" THEN LocalLatch ELSE s.latch[k]
           IN /\ Weak(b) /\ (FailsafeReleasesAll(s) => FailsafeReleasesAll(b))
              /\ s.latch[k].to # "Remote" \/ kind # "Release" => Keeps(s, b)
              /\ b = [s EXCEPT !.latch = [s.latch EXCEPT ![k] = l]]
              /\ b.ok = s.ok /\ b.drain = s.drain
<1> DEFINE l == IF kind = "Release" THEN Unlatched
                ELSE IF kind = "Press" /\ s.latch[k].to = "None" THEN LocalLatch ELSE s.latch[k]
           f == [s.latch EXCEPT ![k] = l]
<1>1. s \in HostStates /\ s.latch \in [Keys -> Latches]
  BY Types DEF Weak
<1>2. LatchStep(s, kind, k) = [s EXCEPT !.latch = f]
  BY <1>1 DEF LatchStep, CaptureKinds
<1>3. l \in Latches /\ (l.to = "Remote" => l = s.latch[k])
  BY <1>1, CoreAssumption DEF Latches, Unlatched, LocalLatch, RouteKinds, MaybeGen
<1>4. s.latch[k].to # "Remote" \/ kind # "Release" => (s.latch[k].to = "Remote" => l = s.latch[k])
  OBVIOUS
<1> HIDE DEF l
<1>5. /\ f \in [Keys -> Latches]
      /\ \A j \in Keys : f[j] = IF j = k THEN l ELSE s.latch[j]
  BY <1>1, <1>3
<1> HIDE DEF f
<1>6. \A j \in Keys : f[j].to = "Remote" => f[j] = s.latch[j]
  BY <1>3, <1>5
<1>7. LET t == [s EXCEPT !.latch = f]
      IN /\ Weak(t) /\ (FailsafeReleasesAll(s) => FailsafeReleasesAll(t))
         /\ (\A j \in Keys : s.latch[j].to = "Remote" => f[j] = s.latch[j]) => Keeps(s, t)
         /\ t.ok = s.ok /\ t.drain = s.drain
  BY <1>5, <1>6, LatchKeeps
<1> QED
  BY <1>2, <1>4, <1>5, <1>7 DEF f, l

\* A frame that is offered to the FIFO changes only the FIFO and the sequence.
LEMMA DispatchKeeps ==
    ASSUME NEW s, Weak(s), NEW frame \in Frames
    PROVE  LET d == dispatch_remote_effect(s, frame)
           IN /\ Keeps(s, d) /\ SameLedger(s, d) /\ d.ready = s.ready /\ d.running = s.running
              /\ d.ok => s.ok /\ s.ep = s.auth /\ s.auth # 0
<1> DEFINE d == dispatch_remote_effect(s, frame)
           seq == s.seq + 1
           fifo == Append(s.fifo, frame)
           n == [s EXCEPT !.seq = seq]
<1>1. /\ s \in HostStates /\ s.seq \in 1..MaxSeq /\ s.fifo \in Seq(Frames)
  BY Types DEF Weak
<1>2. CASE s.auth = 0 \/ ~s.accepts \/ s.ep # s.auth \/ s.seq = MaxSeq
  <2>1. d = Fail(s)
    BY <1>2 DEF dispatch_remote_effect
  <2>2. SameLedger(s, Fail(s)) /\ Fail(s).ready = s.ready /\ Fail(s).running = s.running /\ ~Fail(s).ok
    BY <1>1 DEF SameLedger, Fail, HostStates
  <2> QED
    BY <1>1, <2>1, <2>2, ResultKeeps
<1>3. CASE ~(s.auth = 0 \/ ~s.accepts \/ s.ep # s.auth \/ s.seq = MaxSeq)
  <2>1. seq \in SeqNumbers /\ fifo \in Seq(Frames)
    BY <1>1, <1>3, CoreAssumption DEF SeqNumbers
  <2>2. d = IF CanSend(s) THEN [n EXCEPT !.fifo = fifo] ELSE [n EXCEPT !.ok = FALSE]
    BY <1>1, <1>3 DEF dispatch_remote_effect, Fail
  <2> HIDE DEF seq, fifo, d
  <2>3. n \in HostStates
    BY <1>1, <2>1, FieldTypes, Zenon
  <2>4. d \in HostStates
    BY <2>1, <2>2, <2>3, FieldTypes, Zenon
  <2>5. SameLedger(s, d) /\ d.ready = s.ready /\ d.running = s.running /\ (d.ok => s.ok)
    BY <1>1, <2>2 DEF SameLedger
  <2> QED
    BY <1>3, <2>4, <2>5, FrameKeeps DEF d
<1> QED
  BY <1>2, <1>3

\* The frame did not enter the FIFO: everything held is queued for release.
LEMMA FailRemoteSound ==
    ASSUME NEW s, Weak(s)
    PROVE  Sound(fail_remote_input(s)) /\ Sound(Fail(fail_closed(s)))
<1>1. Weak(Succeed(s))
  BY ResultKeeps DEF Weak, Keeps
<1>2. ASSUME NEW t, Weak(t) PROVE Sound(Fail(fail_closed(t)))
  <2>1. Sound(fail_closed(t)) /\ fail_closed(t) \in HostStates
    BY <1>2, FailClosedSound DEF Sound, Safe, Weak
  <2> QED
    BY <2>1, ResultKeeps, KeepsSound
<1> QED
  BY SMTT(30), <1>1, <1>2 DEF fail_remote_input

\* One step of one lifecycle at the peer: the control is held and latched
\* there, or neither.
LifecycleStep(s, t, k, v, l) ==
    /\ t \in HostStates /\ k \in Keys /\ v \in HeldStates /\ l \in Latches
    /\ ~s.drain /\ <<s.ep, k>> \in Slots \ QueuedSlots(s)
    /\ v.seq = 0 => l.to # "Remote"
    /\ v.seq # 0 => /\ l.to = "Remote" /\ l.ep = s.ep
                    /\ <<s.ep, k>> \in HeldSlots(s) \/ Cardinality(HeldSlots(s)) < MaxHeld
    /\ t.held = [s.held EXCEPT ![<<s.ep, k>>] = v] /\ t.latch = [s.latch EXCEPT ![k] = l]
    /\ t.cleanup = s.cleanup /\ t.ep = s.ep /\ t.drain = s.drain /\ t.staged = s.staged
    /\ t.candidate = s.candidate /\ t.routes = s.routes
    /\ t.ready = s.ready /\ t.running = s.running

\* Such a step keeps the ledger.
LEMMA LifecycleSound ==
    ASSUME NEW s, NEW t, NEW k, NEW v, NEW l, Sound(s), LifecycleStep(s, t, k, v, l)
    PROVE  Sound(t)
<1> DEFINE x == <<s.ep, k>>
<1> USE DEF LifecycleStep
<1>1. /\ s \in HostStates /\ s.held \in [Slots -> HeldStates] /\ s.latch \in [Keys -> Latches]
      /\ Weak(s) /\ HeldIsOwned(s) /\ ReleasesGateRouting(s)
  BY Types DEF Sound, Safe, Weak
<1>2. QueuedSlots(t) = QueuedSlots(s)
  BY DEF QueuedSlots
<1>3. /\ \A y \in Slots : y # x => t.held[y] = s.held[y]
      /\ t.held[x] = v
      /\ \A j \in Keys : j # k => t.latch[j] = s.latch[j]
      /\ t.latch[k] = l
  BY <1>1
<1>4. HeldSlots(t) = IF v.seq = 0 THEN HeldSlots(s) \ {x} ELSE HeldSlots(s) \cup {x}
  BY <1>3 DEF HeldSlots
<1>5. \A y \in HeldSlots(s) : /\ y \in Slots /\ y[1] = s.ep /\ y[2] \in Keys
                              /\ y # x => y[2] # k
  BY <1>1 DEF Weak, OneEndpoint, HeldSlots, Slots
<1>6. RemoteLatchIsHeld(t)
  <2>1. ASSUME NEW j \in Keys, t.latch[j].to = "Remote"
        PROVE  t.latch[j].ep = t.ep /\ <<t.ep, j>> \in HeldSlots(t) \ QueuedSlots(t)
    <3>1. CASE j = k
      BY SMTT(30), <1>2, <1>3, <1>4, <2>1, <3>1
    <3>2. CASE j # k
      <4>1. s.latch[j].ep = s.ep /\ <<s.ep, j>> \in HeldSlots(s) \ QueuedSlots(s)
        BY SMTT(30), <1>1, <1>3, <2>1, <3>2 DEF Weak, RemoteLatchIsHeld
      <4> QED
        BY SMTT(30), <1>2, <1>3, <1>4, <3>2, <4>1
    <3> QED
      BY <3>1, <3>2
  <2> QED
    BY <2>1 DEF RemoteLatchIsHeld
<1>7. QueuedIsHeld(t)
  <2>1. \A i \in DOMAIN s.cleanup : s.cleanup[i].slot # x /\ s.cleanup[i].slot \in Slots
    BY <1>1, ZenonT(30) DEF QueuedSlots, Weak, QueuedIsHeld, HeldSlots
  <2>2. \A i \in DOMAIN s.cleanup : /\ s.cleanup[i].slot \in HeldSlots(s)
                                   /\ s.cleanup[i].covered = s.held[s.cleanup[i].slot].seq
    BY <1>1, Zenon DEF Weak, QueuedIsHeld
  <2>3. ASSUME NEW i \in DOMAIN s.cleanup
        PROVE  /\ s.cleanup[i].slot \in HeldSlots(t)
               /\ s.cleanup[i].covered = t.held[s.cleanup[i].slot].seq
    BY <1>3, <1>4, <2>1, <2>2
  <2>4. \A i, j \in DOMAIN s.cleanup : s.cleanup[i].slot = s.cleanup[j].slot => i = j
    BY <1>1, Zenon DEF Weak, QueuedIsHeld
  <2> QED
    BY <2>3, <2>4, Zenon DEF QueuedIsHeld
<1>8. OneEndpoint(t)
  BY <1>4, <1>5 DEF OneEndpoint
<1>9. HeldBound(t)
  <2>1. /\ HeldSlots(s) \subseteq Slots /\ IsFiniteSet(HeldSlots(s)) /\ Cardinality(HeldSlots(s)) \in Nat
        /\ Cardinality(HeldSlots(s)) <= MaxHeld
    BY <1>1, SlotsFinite DEF HeldSlots, Weak, HeldBound
  <2>2. CASE v.seq = 0
    <3>1. HeldSlots(t) \subseteq HeldSlots(s)
      BY <1>4, <2>2
    <3>2. Cardinality(HeldSlots(t)) <= Cardinality(HeldSlots(s)) /\ Cardinality(HeldSlots(t)) \in Nat
      BY <2>1, <3>1, FS_Subset, FS_CardinalityType
    <3> QED
      BY <2>1, <3>2, CoreAssumption DEF HeldBound
  <2>3. CASE v.seq # 0 /\ x \in HeldSlots(s)
    <3>1. HeldSlots(t) = HeldSlots(s)
      BY <1>4, <2>3
    <3> QED
      BY <2>1, <3>1 DEF HeldBound
  <2>4. CASE v.seq # 0 /\ x \notin HeldSlots(s)
    <3>1. Cardinality(HeldSlots(s) \cup {x}) = Cardinality(HeldSlots(s)) + 1
      BY <2>1, <2>4, FS_AddElement, ZenonT(30)
    <3> QED
      BY SMTT(30), <1>4, <2>1, <2>4, <3>1, CoreAssumption DEF HeldBound
  <2> QED
    BY SMTT(30), <2>2, <2>3, <2>4
<1>10. Weak(t)
  BY <1>1, <1>6, <1>7, <1>8, <1>9 DEF Weak
<1>11. HeldIsOwned(t)
  <2>1. ASSUME NEW y \in HeldSlots(t)
        PROVE  y \in QueuedSlots(t) \/ (t.latch[y[2]].to = "Remote" /\ t.latch[y[2]].ep = y[1])
    <3>1. CASE y = x
      BY <1>3, <1>4, <3>1
    <3>2. CASE y # x
      <4>1. y \in HeldSlots(s)
        BY <1>4, <3>2
      <4>2. t.latch[y[2]] = s.latch[y[2]]
        BY SMTT(30), <1>3, <1>5, <3>2, <4>1
      <4> QED
        BY <1>1, <1>2, <4>1, <4>2 DEF HeldIsOwned
    <3> QED
      BY <3>1, <3>2
  <2> QED
    BY <2>1 DEF HeldIsOwned
<1>12. ReleasesGateRouting(t)
  BY <1>1, <1>2 DEF ReleasesGateRouting, affected_route_devices
<1> QED
  BY SMTT(30), <1>10, <1>11, <1>12 DEF Sound, Safe, FailsafeReleasesAll

\* An event that is routed to the peer commits its lifecycle when the frame is
\* in the FIFO, and otherwise queues everything: the event of a control that
\* is latched there, or a first press that routing, the gates and the capacity
\* allow.
LEMMA RouteRemoteSound ==
    ASSUME NEW s, Sound(s), s.ok, ~s.drain, NEW kind \in CaptureKinds, NEW k \in Keys,
           \/ s.latch[k].to = "Remote"
           \/ /\ kind = "Press" /\ s.latch[k].to = "None" /\ s.ready /\ s.running
              /\ k[1] \notin affected_route_devices(s)
              /\ Cardinality(HeldSlots(s)) < MaxHeld
    PROVE  Sound(RouteRemote(LatchStep(s, kind, k), kind, k, s.latch[k]))
<1> DEFINE l == IF kind = "Release" THEN Unlatched
                ELSE IF kind = "Press" /\ s.latch[k].to = "None" THEN LocalLatch ELSE s.latch[k]
           b == LatchStep(s, kind, k)
           frame == [kind |-> kind, key |-> k, seq |-> b.seq]
           d == dispatch_remote_effect(b, frame)
           x == <<d.ep, k>>
           n == b.seq
           r == RouteRemote(b, kind, k, s.latch[k])
<1>1. /\ s \in HostStates /\ s.held \in [Slots -> HeldStates] /\ s.latch \in [Keys -> Latches]
      /\ Weak(s) /\ HeldIsOwned(s) /\ ReleasesGateRouting(s)
  BY Types DEF Sound, Safe, Weak
<1>2. Weak(b) /\ b = [s EXCEPT !.latch = [s.latch EXCEPT ![k] = l]] /\ b.ok = s.ok
  BY <1>1, LatchStepKeeps, ZenonT(30)
<1> HIDE DEF l
<1>3. /\ b.latch = [s.latch EXCEPT ![k] = l] /\ b.held = s.held /\ b.cleanup = s.cleanup /\ b.ep = s.ep
      /\ b.drain = s.drain /\ b.staged = s.staged /\ b.candidate = s.candidate /\ b.routes = s.routes
      /\ b.ready = s.ready /\ b.running = s.running
  BY <1>1, <1>2
<1>4. n \in 1..MaxSeq /\ b.ep \in 0..MaxGen
  BY <1>2, Types, ZenonT(30) DEF Weak
<1> HIDE DEF b
<1>5. frame \in Frames
  BY <1>4 DEF Frames, SeqNumbers, CaptureKinds
<1>6. r = ConfirmOrFail(d, kind, k, s.latch[k], n)
  BY DEF RouteRemote
<1> HIDE DEF frame
<1>7. /\ Keeps(b, d) /\ SameLedger(b, d) /\ d.ready = b.ready /\ d.running = b.running
      /\ d.ok => b.ok /\ b.ep = b.auth /\ b.auth # 0
  BY <1>2, <1>5, DispatchKeeps, ZenonT(30)
<1>8. Weak(d)
  BY <1>2, <1>7 DEF Keeps
<1> HIDE DEF d, r
<1>9. CASE ~d.ok
  BY <1>6, <1>8, <1>9, FailRemoteSound DEF ConfirmOrFail, r, b
<1>10. CASE d.ok
  <2> DEFINE route == IF s.latch[k].to = "Remote" THEN s.latch[k].route ELSE d.routes[k[1]]
             c == confirm_remote_input(d, kind, k, s.latch[k], n)
  <2>1. r = c
    BY SMTT(30), <1>6, <1>10 DEF ConfirmOrFail
  <2>2. /\ d \in HostStates /\ d.held = s.held /\ d.latch = [s.latch EXCEPT ![k] = l]
        /\ d.cleanup = s.cleanup /\ d.ep = s.ep
        /\ d.drain = s.drain /\ d.staged = s.staged /\ d.candidate = s.candidate /\ d.routes = s.routes
        /\ d.ready = s.ready /\ d.running = s.running
    BY SMTT(30), <1>3, <1>7, <1>8 DEF SameLedger, Weak
  <2>3. s.ep \in Gens /\ x = <<s.ep, k>> /\ x \in Slots
    BY SMTT(30), <1>3, <1>4, <1>7, <1>10, <2>2 DEF Gens, Slots
  <2>4. x \notin QueuedSlots(s)
    BY <1>1, <2>3 DEF Weak, RemoteLatchIsHeld, ReleasesGateRouting
  <2>5. s.latch[k].to = "Remote" => x \in HeldSlots(s)
    BY <1>1, <2>3 DEF Weak, RemoteLatchIsHeld
  <2>6. route \in RouteKinds
    <3>1. s.latch[k] \in Latches /\ d.routes \in Policies /\ k[1] \in Devices
      BY SMTT(30), <1>1, <2>2, Types, CoreAssumption
    <3> QED
      BY SMTT(30), <3>1 DEF Latches, Policies
  <2> HIDE DEF x
  <2>7. CASE kind = "Press"
    <3> DEFINE v == [seq |-> n, route |-> route]
               p == RemoteLatch(d.ep, route)
               held == [d.held EXCEPT ![x] = v]
               latch == [d.latch EXCEPT ![k] = p]
               t == [[d EXCEPT !.held = held] EXCEPT !.latch = latch]
    <3>1. v \in HeldStates /\ v.seq # 0
      BY SMTT(30), <1>4, <2>6, CoreAssumption DEF HeldStates
    <3>2. p \in Latches /\ p.to = "Remote" /\ p.ep = s.ep
      BY <2>2, <2>3, <2>6, CoreAssumption DEF Latches, RemoteLatch, MaybeGen, Gens
    <3>3. c = t
      BY <2>2, <2>7, ZenonT(30) DEF confirm_remote_input, x
    <3> HIDE DEF v, p
    <3>4. /\ held = [s.held EXCEPT ![<<s.ep, k>>] = v] /\ latch = [s.latch EXCEPT ![k] = p]
          /\ held \in [Slots -> HeldStates] /\ latch \in [Keys -> Latches]
      BY <1>1, <2>2, <2>3, <3>1, <3>2
    <3> HIDE DEF held, latch
    <3>5. t \in HostStates
      BY <2>2, <3>4, FieldTypes, Zenon
    <3>6. /\ t.held = held /\ t.latch = latch /\ t.cleanup = s.cleanup /\ t.ep = s.ep
          /\ t.drain = s.drain /\ t.staged = s.staged /\ t.candidate = s.candidate /\ t.routes = s.routes
          /\ t.ready = s.ready /\ t.running = s.running
      BY SMTT(30), <2>2
    <3> HIDE DEF t, c
    <3>7. LifecycleStep(s, t, k, v, p)
      BY <2>3, <2>4, <2>5, <3>1, <3>2, <3>4, <3>5, <3>6 DEF LifecycleStep
    <3>8. Sound(t)
      BY <3>7, LifecycleSound, Zenon
    <3> QED
      BY SMTT(30), <2>1, <3>3, <3>8 DEF r, b
  <2>8. CASE kind = "Release"
    <3> DEFINE held == [d.held EXCEPT ![x] = NotHeld]
               t == [d EXCEPT !.held = held]
    <3>1. NotHeld \in HeldStates /\ NotHeld.seq = 0
      BY CoreAssumption DEF HeldStates, NotHeld, RouteKinds
    <3>2. l = Unlatched /\ l \in Latches /\ l.to # "Remote"
      BY <2>8, CoreAssumption DEF l, Unlatched, Latches, RouteKinds, MaybeGen
    <3>3. c = t
      BY SMTT(30), <2>2, <2>8 DEF confirm_remote_input, x
    <3>4. held = [s.held EXCEPT ![<<s.ep, k>>] = NotHeld] /\ held \in [Slots -> HeldStates]
      BY <1>1, <2>2, <2>3, <3>1
    <3> HIDE DEF held
    <3>5. t \in HostStates
      BY <2>2, <3>4, FieldTypes, Zenon
    <3>6. /\ t.held = held /\ t.latch = [s.latch EXCEPT ![k] = l] /\ t.cleanup = s.cleanup /\ t.ep = s.ep
          /\ t.drain = s.drain /\ t.staged = s.staged /\ t.candidate = s.candidate /\ t.routes = s.routes
          /\ t.ready = s.ready /\ t.running = s.running
      BY <2>2
    <3> HIDE DEF t, c
    <3>7. LifecycleStep(s, t, k, NotHeld, l)
      BY <2>3, <2>4, <3>1, <3>2, <3>4, <3>5, <3>6 DEF LifecycleStep
    <3>8. Sound(t)
      BY <3>7, LifecycleSound, ZenonT(30)
    <3> QED
      BY <2>1, <3>3, <3>8 DEF r, b
  <2>9. CASE kind = "Repeat"
    <3> DEFINE v == [d.held[x] EXCEPT !.seq = n]
               held == [d.held EXCEPT ![x] = v]
               t == [d EXCEPT !.held = held]
    <3>0. s.latch[k].to = "Remote" /\ x \in HeldSlots(s)
      BY <2>5, <2>9
    <3>1. v \in HeldStates /\ v.seq # 0
      BY SMTT(30), <1>1, <1>4, <2>2, <2>3 DEF HeldStates
    <3>2. l = s.latch[k] /\ l \in Latches /\ l.to = "Remote" /\ l.ep = s.ep
      BY <1>1, <2>9, <3>0, ZenonT(30) DEF l, Weak, RemoteLatchIsHeld
    <3>3. c = t
      BY <2>2, <2>9, <3>0 DEF confirm_remote_input, x, HeldSlots
    <3> HIDE DEF v
    <3>4. held = [s.held EXCEPT ![<<s.ep, k>>] = v] /\ held \in [Slots -> HeldStates]
      BY <1>1, <2>2, <2>3, <3>1
    <3> HIDE DEF held
    <3>5. t \in HostStates
      BY <2>2, <3>4, FieldTypes, ZenonT(30)
    <3>6. /\ t.held = held /\ t.latch = [s.latch EXCEPT ![k] = l] /\ t.cleanup = s.cleanup /\ t.ep = s.ep
          /\ t.drain = s.drain /\ t.staged = s.staged /\ t.candidate = s.candidate /\ t.routes = s.routes
          /\ t.ready = s.ready /\ t.running = s.running
      BY <2>2
    <3> HIDE DEF t, c
    <3>7. LifecycleStep(s, t, k, v, l)
      BY <2>3, <2>4, <3>0, <3>1, <3>2, <3>4, <3>5, <3>6 DEF LifecycleStep
    <3>8. Sound(t)
      BY <3>7, LifecycleSound, Zenon
    <3> QED
      BY <2>1, <3>3, <3>8 DEF r, b
  <2> QED
    BY <2>7, <2>8, <2>9 DEF CaptureKinds
<1> QED
  BY SMTT(30), <1>9, <1>10

=============================================================================
