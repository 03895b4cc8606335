-------------------------- MODULE InputRoutingProofs --------------------------
(***************************************************************************)
(* The cleanup ledger holds in every reachable state, for any number of    *)
(* devices, controls, generations and any limits: each action of           *)
(* InputRouting preserves the inductive invariant IInv.                    *)
(***************************************************************************)
EXTENDS InputRouting, SessionProofs

\* The inductive invariant: the types, and the ledger with what keeps it.
IInv == TypeOK /\ Sound(h)

-----------------------------------------------------------------------------
(* How a handler ends *)

\* Initially nothing is held.
LEMMA InitIInv == Init => IInv
<1> SUFFICES ASSUME Init PROVE IInv
  OBVIOUS
<1>1. PICK r \in Policies : h = InitialHost(r)
  BY DEF Init
<1>2. HeldSlots(h) = {} /\ QueuedSlots(h) = {} /\ h.cleanup = <<>>
  BY <1>1 DEF HeldSlots, QueuedSlots, InitialHost, NotHeld
<1>3. h \in HostStates
  <2>1. <<>> \in Seq(Frames) /\ <<>> \in Seq(CleanupEntries)
    BY EmptySeq, Zenon
  <2>2. [k \in Keys |-> Unlatched] \in [Keys -> Latches]
    BY CoreAssumption DEF Unlatched, Latches, MaybeGen, RouteKinds
  <2>3. [x \in Slots |-> NotHeld] \in [Slots -> HeldStates]
    BY CoreAssumption DEF NotHeld, HeldStates, RouteKinds
  <2>4. 0 \in MaybeGen /\ 1 \in SeqNumbers
    BY CoreAssumption DEF MaybeGen, SeqNumbers
  <2> QED
    BY <1>1, <2>1, <2>2, <2>3, <2>4
       DEF HostStates, InitialHost, Hosts, Phases, Coordinators, Transitions, Updates
<1>4. Sound(h)
  <2>1. RemoteLatchIsHeld(h) /\ FailsafeReleasesAll(h)
    BY <1>1 DEF RemoteLatchIsHeld, FailsafeReleasesAll, InitialHost, Unlatched
  <2>2. HeldIsOwned(h) /\ OneEndpoint(h)
    BY <1>2 DEF HeldIsOwned, OneEndpoint
  <2>3. QueuedIsHeld(h) /\ ReleasesGateRouting(h)
    BY <1>2 DEF QueuedIsHeld, ReleasesGateRouting
  <2>4. HeldBound(h)
    BY <1>2, FS_EmptySet, CoreAssumption DEF HeldBound
  <2>5. h.candidate = h.routes
    BY <1>1 DEF InitialHost
  <2> QED
    BY <1>3, <2>1, <2>2, <2>3, <2>4, <2>5 DEF Sound, Safe, Weak
<1>5. h.ok /\ h.candidate = h.routes
  BY <1>1 DEF InitialHost
<1>6. dst \in DstStates /\ conn \in 0..MaxGen /\ phys \subseteq Keys /\ os \subseteq Keys
  BY CoreAssumption DEF Init, DstStates
<1> QED
  BY <1>3, <1>4, <1>5, <1>6 DEF IInv, TypeOK

\* What the provers need of the invariant.
LEMMA IInvFacts ==
    ASSUME IInv
    PROVE  Sound(h) /\ Safe(h) /\ Weak(h) /\ h \in HostStates /\ h.ok
BY DEF IInv, TypeOK, Sound, Safe

\* Whether an injection succeeds is a Boolean.
LEMMA InjectionsBoolean == Injections \subseteq BOOLEAN
BY ZenonT(30) DEF Injections

\* Only the source host changes.
LEMMA HostStep ==
    ASSUME IInv, Sound(h'), h'.ok, UNCHANGED <<phys, os, dst, conn>>
    PROVE  IInv'
BY DEF IInv, TypeOK, Sound, Safe, Weak

\* A handler that settles its errors.
LEMMA HandledInv ==
    ASSUME IInv, NEW t, Sound(t), Handled(t)
    PROVE  IInv'
<1>1. PICK v \in Injections : h' = Settle(t, v)
  BY DEF Handled
<1>2. v \in BOOLEAN /\ Weak(t)
  BY <1>1, InjectionsBoolean DEF Sound, Safe
<1>3. Sound(h') /\ h'.ok
  BY <1>1, <1>2, SettleKeeps, KeepsSound
<1> QED
  BY <1>3, HostStep DEF Handled

\* A handler of an administrative transaction.
LEMMA AdministeredInv ==
    ASSUME IInv, NEW t, Sound(t), Administered(t)
    PROVE  IInv'
<1>1. t \in HostStates
  BY DEF Sound, Safe, Weak
<1>2. Sound(h') /\ h'.ok
  BY <1>1, ResultKeeps, KeepsSound DEF Administered
<1> QED
  BY <1>2, HostStep DEF Administered

\* The capture handler.
LEMMA CaptureEndSound ==
    ASSUME NEW t, Sound(t), NEW v \in BOOLEAN
    PROVE  Sound(CaptureEnd(t, v)) /\ CaptureEnd(t, v).ok
<1> DEFINE c == clear_workspace_routing_ready(Succeed(t))
<1>1. t \in HostStates /\ Weak(t)
  BY DEF Sound, Safe, Weak
<1>2. Weak(Succeed(t))
  BY <1>1, ResultKeeps, KeepsSound
<1>3. Sound(c)
  BY <1>2, ClearSound
<1> HIDE DEF c
<1>4. c \in HostStates
  BY <1>3 DEF Sound, Safe, Weak
<1>5. Sound(Succeed(c)) /\ Succeed(c).ok
  BY <1>3, <1>4, ResultKeeps, KeepsSound
<1>6. Sound(Settle(t, v)) /\ Settle(t, v).ok
  BY <1>1, SettleKeeps, KeepsSound
<1> QED
  BY <1>5, <1>6 DEF CaptureEnd, c

\* The sets of pressed keys stay sets of keys.
LEMMA CapturedInv ==
    ASSUME IInv, NEW kind, NEW k \in Keys, NEW shown, NEW t, Sound(t), Captured(kind, k, shown, t)
    PROVE  IInv'
<1>1. PICK v \in Injections : h' = CaptureEnd(t, v)
  BY DEF Captured
<1>2. Sound(h') /\ h'.ok
  BY <1>1, InjectionsBoolean, CaptureEndSound
<1>3. phys' \subseteq Keys /\ os' \subseteq Keys
  BY DEF Captured, After, IInv, TypeOK
<1>4. dst' = dst /\ conn' = conn
  BY DEF Captured
<1> QED
  BY <1>2, <1>3, <1>4 DEF IInv, TypeOK, Sound, Safe, Weak

-----------------------------------------------------------------------------
(* Captured input *)

\* An event that keeps the latch of the peer only retries the releases.
LEMMA LocalCaptureSound ==
    ASSUME IInv, NEW kind \in Kinds, NEW k \in Keys, h.latch[k].to # "Remote"
    PROVE  LET b == LatchStep(h, kind, k)
           IN Sound(drain_remote_cleanup(b)) /\ Sound(drain_remote_cleanup(tick(b)))
<1> DEFINE b == LatchStep(h, kind, k)
           t == tick(b)
<1>1. kind \in CaptureKinds
  BY DEF Kinds, CaptureKinds
<1>2. Sound(h) /\ Weak(h)
  BY IInvFacts
<1>3. Keeps(h, b)
  BY <1>1, <1>2, LatchStepKeeps
<1> HIDE DEF b
<1>4. Sound(b) /\ Weak(b)
  BY <1>2, <1>3, KeepsSound
<1>5. Keeps(b, t)
  BY <1>4, TickKeeps
<1> HIDE DEF t
<1>6. Sound(t) /\ Weak(t)
  BY <1>4, <1>5, KeepsSound
<1>7. Sound(drain_remote_cleanup(b)) /\ Sound(drain_remote_cleanup(t))
  BY <1>4, <1>6, DrainOnlyKeeps, KeepsSound
<1> QED
  BY <1>7 DEF b, t

\* The chord releases everything.
LEMMA CaptureFailsafeInv ==
    ASSUME IInv, NEW kind \in Kinds, NEW k \in Keys, CaptureFailsafe(kind, k)
    PROVE  IInv'
<1> DEFINE b == LatchStep(h, kind, k)
<1>1. kind \in CaptureKinds
  BY DEF Kinds, CaptureKinds
<1>2. Weak(h) /\ h.ok
  BY IInvFacts
<1>3. Weak(b) /\ b.ok
  BY <1>1, <1>2, LatchStepKeeps
<1>4. PICK v \in Injections :
        Captured(kind, k, TRUE, AndThen(Emergency(b, v),
                   LAMBDA x : IF x.gen = 0 THEN x ELSE cancel_handoff_for_failsafe(x)))
  BY ZenonT(30) DEF CaptureFailsafe
<1> HIDE DEF b
<1> DEFINE e == Emergency(b, v)
           t == AndThen(e, LAMBDA x : IF x.gen = 0 THEN x ELSE cancel_handoff_for_failsafe(x))
<1>5. Sound(e) /\ Weak(e)
  BY <1>3, <1>4, InjectionsBoolean, EmergencyReleases DEF Sound, Safe
<1> HIDE DEF e
<1>6. e.ok => Sound(cancel_handoff_for_failsafe(e))
  BY <1>5, CancelForFailsafeKeeps, KeepsSound
<1>7. Sound(t)
  BY <1>5, <1>6 DEF AndThen
<1>8. Captured(kind, k, TRUE, t)
  BY ZenonT(30), <1>4 DEF e
<1> HIDE DEF t
<1> QED
  BY ZenonT(30), <1>7, <1>8, CapturedInv

\* An event of a control latched to the peer.
LEMMA CaptureLatchedRemoteInv ==
    ASSUME IInv, NEW kind \in Kinds, NEW k \in Keys, CaptureLatchedRemote(kind, k)
    PROVE  IInv'
<1> DEFINE b == LatchStep(h, kind, k)
           t == Routed(b, kind, k, h.latch[k])
<1>1. kind \in CaptureKinds
  BY DEF Kinds, CaptureKinds
<1>2. Sound(h) /\ Weak(h) /\ h.ok
  BY IInvFacts
<1>3. h.latch[k].to = "Remote" /\ ~h.drain
  BY DEF CaptureLatchedRemote, Normal
<1>4. Sound(RouteRemote(b, kind, k, h.latch[k]))
  BY SMTT(30), <1>1, <1>2, <1>3, RouteRemoteSound
<1>5. Weak(b)
  BY <1>1, <1>2, LatchStepKeeps
<1>6. Captured(kind, k, FALSE, t)
  BY ZenonT(30) DEF CaptureLatchedRemote
<1> HIDE DEF b
<1>7. Sound(clear_workspace_routing_ready(b))
  BY <1>5, ClearSound
<1>8. Sound(t)
  BY <1>4, <1>7 DEF Routed
<1> HIDE DEF t
<1> QED
  BY ZenonT(30), <1>6, <1>8, CapturedInv

\* A first press while a handoff is pending is quarantined.
LEMMA CapturePressDuringHandoffInv ==
    ASSUME IInv, NEW k \in Keys, CapturePressDuringHandoff(k)
    PROVE  IInv'
<1> DEFINE f == [h.latch EXCEPT ![k] = QuarantinedLatch]
           b == [h EXCEPT !.latch = f]
           t == drain_remote_cleanup(b)
<1>1. Sound(h) /\ Weak(h) /\ h \in HostStates
  BY IInvFacts
<1>2. h.latch[k].to = "None" /\ h.latch \in [Keys -> Latches]
  BY <1>1 DEF CapturePressDuringHandoff, FirstPress, HostStates
<1>3. QuarantinedLatch \in Latches
  BY CoreAssumption DEF QuarantinedLatch, Latches, MaybeGen, RouteKinds
<1>4. f \in [Keys -> Latches]
  BY <1>2, <1>3
<1>5. \A j \in Keys : (f[j].to = "Remote" \/ h.latch[j].to = "Remote") => f[j] = h.latch[j]
  BY <1>2 DEF QuarantinedLatch
<1>6. Captured("Press", k, FALSE, t)
  BY ZenonT(30), <1>1 DEF CapturePressDuringHandoff, HostStates
<1> HIDE DEF f
<1>7. Keeps(h, b)
  BY <1>1, <1>4, <1>5, LatchKeeps
<1> HIDE DEF b
<1>8. Sound(b) /\ Weak(b)
  BY <1>1, <1>7, KeepsSound
<1>9. Sound(t)
  BY <1>8, DrainOnlyKeeps, KeepsSound
<1> HIDE DEF t
<1> QED
  BY ZenonT(30), <1>6, <1>9, CapturedInv

\* A first press that goes to the peer.
LEMMA CapturePressRemoteInv ==
    ASSUME IInv, NEW k \in Keys, CapturePressRemote(k)
    PROVE  IInv'
<1> DEFINE b == LatchStep(h, "Press", k)
           t == PressRemote(b, k, h.latch[k])
<1>1. Sound(h) /\ Weak(h) /\ h.ok /\ h \in HostStates
  BY IInvFacts
<1>2. h.latch[k].to = "None" /\ ~h.drain
  BY DEF CapturePressRemote, FirstPress, Normal
<1>3. h.ready /\ h.running /\ k[1] \notin affected_route_devices(h)
  BY DEF CapturePressRemote, StaysLocal, device_route_is_gated, remote_target_available,
         routing_should_be_active
<1>4. "Press" \in CaptureKinds
  BY DEF CaptureKinds
<1>5. Weak(b)
  BY <1>1, <1>4, LatchStepKeeps
<1>6. b.held = h.held
  BY <1>1 DEF LatchStep, HostStates
<1>7. Captured("Press", k, ~t.ok, t)
  BY DEF CapturePressRemote, LocalUnlessSent
<1>8. Cardinality(HeldSlots(h)) < MaxHeld => Sound(RouteRemote(b, "Press", k, h.latch[k]))
  BY <1>1, <1>2, <1>3, <1>4, RouteRemoteSound
<1> HIDE DEF b
<1>9. HeldSlots(b) = HeldSlots(h)
  BY <1>6 DEF HeldSlots
<1>10. Cardinality(HeldSlots(h)) \in Nat /\ MaxHeld \in Nat
  <2>1. HeldSlots(h) \in SUBSET Slots
    BY DEF HeldSlots
  <2> QED
    BY <2>1, SlotsFinite, CoreAssumption
<1>11. Sound(Fail(fail_closed(b)))
  BY <1>5, FailRemoteSound
<1>12. Sound(t)
  BY <1>8, <1>9, <1>10, <1>11 DEF PressRemote
<1> HIDE DEF t
<1> QED
  BY <1>7, <1>12, CapturedInv

\* A pointer move.
LEMMA CaptureMoveInv ==
    ASSUME IInv, NEW d \in Devices, CaptureMove(d)
    PROVE  IInv'
<1> DEFINE move == [kind |-> "Move", seq |-> h.seq]
           p == drain_remote_cleanup(tick(h))
           e == dispatch_remote_effect(h, move)
           q == OrElse(e, fail_remote_input)
           t == IF h.drain \/ (h.handoff /\ h.routes[d] = "Follow") \/ StaysLocal(h, d)
                THEN p ELSE q
<1>1. Sound(h) /\ Weak(h) /\ h \in HostStates
  BY IInvFacts
<1>2. Sound(p)
  <2> DEFINE c == tick(h)
  <2>1. Keeps(h, c)
    BY <1>1, TickKeeps
  <2> HIDE DEF c
  <2>2. Sound(c) /\ Weak(c)
    BY <1>1, <2>1, KeepsSound
  <2>3. Sound(drain_remote_cleanup(c))
    BY SMTT(30), <2>2, DrainOnlyKeeps, KeepsSound
  <2> QED
    BY <2>3 DEF c
<1>3. move \in Frames
  BY <1>1 DEF Frames, HostStates
<1>4. PICK v \in Injections : h' = CaptureEnd(t, v)
  BY DEF CaptureMove
<1>5. UNCHANGED <<phys, os, dst, conn>>
  BY DEF CaptureMove
<1> HIDE DEF p, move
<1>6. Keeps(h, e)
  BY <1>1, <1>3, DispatchKeeps
<1> HIDE DEF e
<1>7. Sound(e) /\ Weak(e)
  BY <1>1, <1>6, KeepsSound
<1>8. Sound(q)
  BY SMTT(30), <1>7, FailRemoteSound DEF OrElse
<1> HIDE DEF q
<1>9. Sound(t)
  BY <1>2, <1>8
<1> HIDE DEF t
<1>10. Sound(h') /\ h'.ok
  BY <1>4, <1>9, InjectionsBoolean, CaptureEndSound
<1> QED
  BY <1>5, <1>10, HostStep

\* Every captured event.
LEMMA CaptureInv == IInv /\ Capture => IInv'
<1> SUFFICES ASSUME IInv, Capture PROVE IInv'
  OBVIOUS
<1>1. ASSUME NEW kind \in Kinds, NEW k \in Keys, CaptureBypassed(kind, k) PROVE IInv'
  <2>1. UNCHANGED <<h, dst, conn>> /\ phys' \subseteq Keys /\ os' \subseteq Keys
    BY <1>1 DEF CaptureBypassed, After, IInv, TypeOK
  <2> QED
    BY <2>1 DEF IInv, TypeOK
<1>2. ASSUME NEW kind \in Kinds, NEW k \in Keys, CaptureOverCapacity(kind, k) PROVE IInv'
  <2>1. Sound(Fail(fail_closed(h)))
    BY IInvFacts, FailRemoteSound
  <2> QED
    BY ZenonT(30), <1>2, <2>1, CapturedInv DEF CaptureOverCapacity
<1>3. ASSUME NEW kind \in Kinds, NEW k \in Keys, CaptureWhileDraining(kind, k) PROVE IInv'
  <2>1. LatchStep(h, kind, k).drain = h.drain
    BY IInvFacts DEF LatchStep, HostStates
  <2>2. h.latch[k].to # "Remote"
    BY <1>3, <2>1, IInvFacts DEF CaptureWhileDraining, Safe, FailsafeReleasesAll
  <2>3. Sound(drain_remote_cleanup(tick(LatchStep(h, kind, k))))
    BY <2>2, LocalCaptureSound
  <2> QED
    BY ZenonT(30), <1>3, <2>3, CapturedInv DEF CaptureWhileDraining
<1>4. ASSUME NEW kind \in Kinds, NEW k \in Keys,
             CaptureLatchedLocal(kind, k) \/ CaptureQuarantined(kind, k)
      PROVE  IInv'
  <2>1. h.latch[k].to # "Remote"
    BY ZenonT(30), <1>4 DEF CaptureLatchedLocal, CaptureQuarantined
  <2>2. Sound(drain_remote_cleanup(LatchStep(h, kind, k)))
    BY <2>1, LocalCaptureSound
  <2> QED
    BY ZenonT(30), <1>4, <2>2, CapturedInv DEF CaptureLatchedLocal, CaptureQuarantined
<1>5. ASSUME NEW k \in Keys, CapturePressLocal(k) PROVE IInv'
  <2>1. h.latch[k].to # "Remote" /\ "Press" \in Kinds
    BY <1>5 DEF CapturePressLocal, FirstPress, Kinds
  <2>2. Sound(drain_remote_cleanup(LatchStep(h, "Press", k)))
    BY <2>1, LocalCaptureSound
  <2> QED
    BY ZenonT(30), <1>5, <2>2, CapturedInv DEF CapturePressLocal
<1>6. ASSUME NEW kind \in Kinds, NEW k \in Keys,
             CaptureFailsafe(kind, k) \/ CaptureLatchedRemote(kind, k)
      PROVE  IInv'
  BY <1>6, CaptureFailsafeInv, CaptureLatchedRemoteInv
<1>7. ASSUME NEW k \in Keys, CapturePressDuringHandoff(k) \/ CapturePressRemote(k) PROVE IInv'
  BY <1>7, CapturePressDuringHandoffInv, CapturePressRemoteInv
<1>8. ASSUME NEW d \in Devices, CaptureMove(d) PROVE IInv'
  BY <1>8, CaptureMoveInv
<1> QED
  BY <1>1, <1>2, <1>3, <1>4, <1>5, <1>6, <1>7, <1>8 DEF Capture

-----------------------------------------------------------------------------
(* The session of the source host *)

\* A closed transport and an empty FIFO say nothing of the ledger.
LEMMA BrokenSound ==
    ASSUME NEW s, Sound(s), s.ok
    PROVE  LET t == [s EXCEPT !.open = FALSE, !.fifo = <<>>] IN Sound(t) /\ t.ok
<1> DEFINE e == [s EXCEPT !.open = FALSE]
           t == [e EXCEPT !.fifo = <<>>]
<1>1. s \in HostStates /\ <<>> \in Seq(Frames)
  BY EmptySeq, Zenon DEF Sound, Safe, Weak
<1>2. Keeps(s, e)
  BY <1>1, FieldKeeps, ZenonT(30)
<1>3. t = [s EXCEPT !.open = FALSE, !.fifo = <<>>] /\ t.ok
  BY <1>1 DEF HostStates
<1> HIDE DEF e
<1>4. e \in HostStates
  BY <1>2 DEF Keeps
<1>5. Keeps(e, t)
  BY <1>1, <1>4, FieldKeeps, ZenonT(30)
<1> HIDE DEF t
<1>6. Sound(t)
  BY <1>2, <1>5, KeepsSound
<1> QED
  BY <1>3, <1>6

\* Flags outside the ledger.
LEMMA FlagSound ==
    ASSUME IInv
    PROVE  /\ \A v \in BOOLEAN : /\ Sound([h EXCEPT !.dialing = v]) /\ [h EXCEPT !.dialing = v].ok
                                 /\ Sound([h EXCEPT !.capture = v]) /\ [h EXCEPT !.capture = v].ok
           /\ \A v \in Transitions : Sound([h EXCEPT !.pending = v]) /\ [h EXCEPT !.pending = v].ok
<1>1. Sound(h) /\ h \in HostStates /\ h.ok
  BY IInvFacts
<1>2. ASSUME NEW v \in BOOLEAN
      PROVE  Keeps(h, [h EXCEPT !.dialing = v]) /\ Keeps(h, [h EXCEPT !.capture = v])
  BY <1>1, FieldKeeps, ZenonT(30)
<1>3. ASSUME NEW v \in BOOLEAN
      PROVE  [h EXCEPT !.dialing = v].ok /\ [h EXCEPT !.capture = v].ok
  BY <1>1 DEF HostStates
<1>4. ASSUME NEW v \in Transitions
      PROVE  Keeps(h, [h EXCEPT !.pending = v])
  BY <1>1, FieldKeeps, ZenonT(30)
<1>5. ASSUME NEW v \in Transitions
      PROVE  [h EXCEPT !.pending = v].ok
  BY <1>1 DEF HostStates
<1> QED
  BY <1>1, <1>2, <1>3, <1>4, <1>5, KeepsSound

\* A new generation is activated.
LEMMA AdmittedInv ==
    ASSUME IInv, Admitted
    PROVE  IInv'
<1> DEFINE d == [h EXCEPT !.dialing = FALSE]
           t == activate(d, conn)
<1>1. Sound(d)
  BY ZenonT(30), FlagSound
<1>2. d.ep = 0 /\ conn \in MaybeGen
  BY IInvFacts DEF Admitted, HostStates, IInv, TypeOK, MaybeGen
<1>3. Handled(t)
  BY DEF Admitted
<1> HIDE DEF d
<1>4. Weak(d)
  BY <1>1 DEF Sound, Safe
<1>5. Sound(t)
  BY <1>2, <1>4, ActivateSound
<1> HIDE DEF t
<1> QED
  BY <1>3, <1>5, HandledInv

\* The heartbeat lost the peer.
LEMMA EndpointDegradedInv ==
    ASSUME IInv, EndpointDegraded
    PROVE  IInv'
<1> DEFINE w == suspend_selected(h)
           e == EndpointDown(w)
<1>1. PICK v \in Injections :
        Handled(AndThen(w, LAMBDA x : OrElse(Injected(EndpointDown(x), v),
                             LAMBDA y : Fail(session_fatal_cleanup(Succeed(y), v)))))
  BY ZenonT(30) DEF EndpointDegraded
<1> DEFINE i == Injected(e, v)
           c == Succeed(i)
           f == session_fatal_cleanup(c, v)
           t == AndThen(w, LAMBDA x : OrElse(Injected(EndpointDown(x), v),
                             LAMBDA y : Fail(session_fatal_cleanup(Succeed(y), v))))
<1>2. v \in BOOLEAN
  BY <1>1, InjectionsBoolean
<1>3. Sound(w) /\ Weak(w)
  BY IInvFacts, SuspendSound DEF Sound, Safe
<1> HIDE DEF w
<1>4. Keeps(w, e)
  BY <1>3, EndpointDownKeeps
<1> HIDE DEF e
<1>5. Sound(e) /\ e \in HostStates
  BY <1>3, <1>4, KeepsSound DEF Keeps
<1>6. Keeps(e, i)
  BY SMTT(30), <1>2, <1>5, BookkeepingKeeps
<1> HIDE DEF i
<1>7. Sound(i) /\ i \in HostStates
  BY <1>5, <1>6, KeepsSound DEF Keeps
<1>8. Keeps(i, c)
  BY <1>7, ResultKeeps
<1> HIDE DEF c
<1>9. Sound(c) /\ Weak(c)
  BY <1>7, <1>8, KeepsSound DEF Sound, Safe
<1>10. Keeps(c, f)
  BY <1>2, <1>9, FatalCleanupKeeps
<1> HIDE DEF f
<1>11. Sound(f) /\ f \in HostStates
  BY <1>9, <1>10, KeepsSound DEF Keeps
<1>12. Sound(Fail(f))
  BY <1>11, ResultKeeps, KeepsSound
<1>13. Sound(t)
  BY <1>3, <1>7, <1>12 DEF AndThen, OrElse, e, i, c, f
<1> HIDE DEF t
<1>14. Handled(t)
  BY <1>1 DEF t
<1> QED
  BY <1>13, <1>14, HandledInv

\* The heartbeat has the peer back.
LEMMA EndpointConnectedInv ==
    ASSUME IInv, EndpointConnected
    PROVE  IInv'
<1> DEFINE a == [h EXCEPT !.accepts = TRUE]
           c == [a EXCEPT !.up = TRUE]
           t == IF ControlAccepted(c) THEN c ELSE Fail(c)
<1>1. Sound(h) /\ h \in HostStates
  BY IInvFacts
<1>2. Keeps(h, c)
  BY <1>1, FieldKeeps, KeepsTrans, ZenonT(30) DEF Keeps
<1>3. Handled(t)
  BY <1>1 DEF EndpointConnected
<1> HIDE DEF c
<1>4. Sound(c) /\ c \in HostStates
  BY <1>1, <1>2, KeepsSound DEF Keeps
<1>5. Sound(Fail(c))
  BY <1>4, ResultKeeps, KeepsSound
<1>6. Sound(t)
  BY <1>4, <1>5
<1> HIDE DEF t
<1> QED
  BY <1>3, <1>6, HandledInv

\* A rejected message.
LEMMA SessionFaultInv ==
    ASSUME IInv, SessionFault
    PROVE  IInv'
<1>1. Sound(h) /\ Weak(h) /\ h \in HostStates
  BY IInvFacts
<1>2. Sound(Fail(h))
  BY <1>1, ResultKeeps, KeepsSound
<1>3. ASSUME NEW v \in Injections PROVE Sound(Fail(session_fatal_cleanup(h, v)))
  <2> DEFINE f == session_fatal_cleanup(h, v)
  <2>1. Keeps(h, f)
    BY <1>1, InjectionsBoolean, FatalCleanupKeeps
  <2> HIDE DEF f
  <2>2. Sound(f) /\ f \in HostStates
    BY <1>1, <2>1, KeepsSound DEF Keeps
  <2>3. Sound(Fail(f))
    BY <2>2, ResultKeeps, KeepsSound
  <2> QED
    BY <2>3 DEF f
<1> QED
  BY <1>2, <1>3, HandledInv DEF SessionFault

\* The loss of the transport is reconciled.
LEMMA ConnectionLostInv ==
    ASSUME IInv, ConnectionLost
    PROVE  IInv'
<1>1. PICK v \in Injections, w \in Injections :
        h' = Succeed(OrElse(reconcile_transport_lost(h, v),
                            LAMBDA x : reconcile_transport_lost(Succeed(x), w)))
  BY ZenonT(30) DEF ConnectionLost
<1> DEFINE r == reconcile_transport_lost(h, v)
           c == Succeed(r)
           z == reconcile_transport_lost(c, w)
           o == OrElse(r, LAMBDA x : reconcile_transport_lost(Succeed(x), w))
<1>2. Sound(h) /\ Weak(h)
  BY IInvFacts
<1>3. v \in BOOLEAN /\ w \in BOOLEAN
  BY <1>1, InjectionsBoolean
<1>4. Keeps(h, r)
  BY <1>2, <1>3, TransportLostKeeps
<1>5. h' = Succeed(o)
  BY <1>1
<1> HIDE DEF r
<1>6. Sound(r) /\ r \in HostStates
  BY <1>2, <1>4, KeepsSound DEF Keeps
<1>7. Keeps(r, c)
  BY <1>6, ResultKeeps
<1> HIDE DEF c
<1>8. Sound(c) /\ Weak(c)
  BY <1>6, <1>7, KeepsSound DEF Sound, Safe
<1>9. Keeps(c, z)
  BY <1>3, <1>8, TransportLostKeeps
<1> HIDE DEF z
<1>10. Sound(z)
  BY <1>8, <1>9, KeepsSound
<1>11. Sound(o)
  BY <1>6, <1>10 DEF OrElse, c, z
<1> HIDE DEF o
<1>12. o \in HostStates
  BY <1>11 DEF Sound, Safe, Weak
<1>13. Sound(h') /\ h'.ok
  BY <1>5, <1>11, <1>12, ResultKeeps, KeepsSound
<1> QED
  BY <1>13, HostStep DEF ConnectionLost

\* The manager shuts down.
LEMMA ShutdownInv ==
    ASSUME IInv, Shutdown
    PROVE  IInv'
<1> DEFINE s == [[[h EXCEPT !.stopping = TRUE] EXCEPT !.capture = FALSE] EXCEPT !.dialing = FALSE]
<1>1. Sound(h) /\ h \in HostStates
  BY IInvFacts
<1>2. Keeps(h, s)
  BY <1>1, FieldKeeps, KeepsTrans, ZenonT(30) DEF Keeps
<1>3. PICK v \in Injections : h' = ForgetUpdate(retire_settled_metadata(Stopped(s, v)))
  BY <1>1 DEF Shutdown
<1> HIDE DEF s
<1> DEFINE r == IF s.gen = 0 THEN shutdown(s, v) ELSE reconcile_shutdown(s, v)
           c == Succeed(r)
           m == retire_settled_metadata(c)
<1>4. v \in BOOLEAN /\ Sound(s) /\ Weak(s)
  BY <1>1, <1>2, <1>3, InjectionsBoolean, KeepsSound DEF Sound, Safe
<1>5. Keeps(s, r)
  BY <1>4, ShutdownKeeps, ReconcileKeeps
<1>6. h' = ForgetUpdate(m)
  BY <1>3 DEF Stopped
<1> HIDE DEF r
<1>7. Sound(r) /\ r \in HostStates
  BY <1>4, <1>5, KeepsSound DEF Keeps
<1>8. Keeps(r, c) /\ c.ok
  BY <1>7, ResultKeeps
<1> HIDE DEF c
<1>9. Sound(c) /\ c \in HostStates
  BY <1>7, <1>8, KeepsSound DEF Keeps
<1>10. Keeps(c, m)
  BY <1>9, BookkeepingKeeps
<1>11. m.ok
  BY <1>8, <1>9 DEF retire_settled_metadata, disconnect_session, PointerLocal, HostStates
<1> HIDE DEF m
<1>12. Sound(m) /\ m \in HostStates
  BY <1>9, <1>10, KeepsSound DEF Keeps
<1>13. Sound(h')
  BY SMTT(30), <1>6, <1>12, BookkeepingKeeps, KeepsSound
<1>14. h'.ok
  BY <1>6, <1>11, <1>12 DEF ForgetUpdate, HostStates
<1> QED
  BY <1>13, <1>14, HostStep DEF Shutdown

\* Every event of the source's session.
LEMMA SessionInv == IInv /\ Session => IInv'
<1> SUFFICES ASSUME IInv, Session PROVE IInv'
  OBVIOUS
<1>1. CASE BeginSession
  <2>1. Sound(h') /\ h'.ok
    BY ZenonT(30), <1>1, FlagSound DEF BeginSession
  <2>2. conn' \in 0..MaxGen
    BY <1>1, CoreAssumption DEF BeginSession, IInv, TypeOK
  <2> QED
    BY <1>1, <2>1, <2>2 DEF BeginSession, IInv, TypeOK, Sound, Safe, Weak
<1>2. CASE SessionRefused
  BY ZenonT(30), <1>2, FlagSound, HostStep DEF SessionRefused
<1>3. ASSUME NEW compiles \in BOOLEAN, RemoteDisplays(compiles) PROVE IInv'
  <2>1. Sound(apply_remote_displays(h, compiles)) /\ Sound(Fail(h))
    BY IInvFacts, DisplaysSound, ResultKeeps, KeepsSound
  <2> QED
    BY <1>3, <2>1, HandledInv DEF RemoteDisplays
<1>4. CASE TransportBreaks
  <2>1. Sound(h') /\ h'.ok
    BY ZenonT(30), <1>4, IInvFacts, BrokenSound DEF TransportBreaks
  <2> QED
    BY SMTT(30), <1>4, <2>1, HostStep DEF TransportBreaks
<1> QED
  BY <1>1, <1>2, <1>3, <1>4, AdmittedInv, EndpointDegradedInv, EndpointConnectedInv,
     SessionFaultInv, ConnectionLostInv, ShutdownInv DEF Session

-----------------------------------------------------------------------------
(* Failsafe, capture lifecycle and the tick *)

\* Capture is lost.
LEMMA DiscontinuedInv ==
    ASSUME IInv, NativeCaptureDiscontinued
    PROVE  IInv'
<1> DEFINE s == [h EXCEPT !.capture = FALSE]
<1>1. PICK v \in Injections : Handled(Discontinued(s, v))
  BY DEF NativeCaptureDiscontinued
<1>2. Sound(s) /\ s.ok /\ v \in BOOLEAN
  BY ZenonT(30), <1>1, FlagSound, InjectionsBoolean
<1> HIDE DEF s
<1> DEFINE e == Emergency(s, v)
           c == Succeed(e)
           x == cancel_handoff_for_failsafe(c)
           y == x.ok /\ e.ok
           t == Discontinued(s, v)
<1>3. Weak(s) /\ s \in HostStates
  BY <1>2 DEF Sound, Safe, Weak
<1>4. Sound(e)
  BY <1>2, <1>3, EmergencyReleases
<1> HIDE DEF e
<1>5. e \in HostStates
  BY <1>4 DEF Sound, Safe, Weak
<1>6. Sound(c) /\ Weak(c) /\ c.ok
  BY <1>4, <1>5, ResultKeeps, KeepsSound DEF Sound, Safe
<1> HIDE DEF c
<1>7. Keeps(c, x)
  BY SMTT(30), <1>6, CancelForFailsafeKeeps
<1> HIDE DEF x
<1>8. Sound(x) /\ x \in HostStates /\ y \in BOOLEAN
  BY ZenonT(30), <1>5, <1>6, <1>7, KeepsSound DEF Keeps, HostStates
<1>9. ThenCancelHandoff(e) = [x EXCEPT !.ok = y]
  BY <1>8 DEF ThenCancelHandoff, HostStates, x, c
<1> HIDE DEF y
<1>10. Keeps(x, [x EXCEPT !.ok = y])
  BY <1>8, FieldKeeps, Zenon
<1>11. Sound([x EXCEPT !.ok = y])
  BY <1>8, <1>10, KeepsSound
<1>12. Sound(Fail(s))
  BY SMTT(30), <1>2, <1>3, ResultKeeps, KeepsSound
<1>13. Sound(t)
  BY <1>2, <1>9, <1>11, <1>12 DEF Discontinued, e
<1> HIDE DEF t
<1>14. Handled(t)
  BY <1>1 DEF t
<1> QED
  BY <1>13, <1>14, HandledInv

\* The lifecycle tick.
LEMMA LifecycleTickInv ==
    ASSUME IInv, LifecycleTick
    PROVE  IInv'
<1>1. Sound(h) /\ h \in HostStates /\ h.ok
  BY SMTT(30), IInvFacts
<1>2. PICK v \in BOOLEAN :
        h' = tick([h EXCEPT !.suspended = v, !.ending = h.gen # 0 /\ h.auth # h.gen])
  BY ZenonT(30), <1>1 DEF LifecycleTick, HostStates
<1> DEFINE w == h.gen # 0 /\ h.auth # h.gen
           a == [h EXCEPT !.suspended = v]
           s == [a EXCEPT !.ending = w]
<1>3. w \in BOOLEAN
  OBVIOUS
<1>4. h' = tick(s) /\ s.ok
  BY <1>1, <1>2 DEF HostStates
<1> HIDE DEF w
<1>5. Keeps(h, s)
  BY <1>1, <1>2, <1>3, FieldKeeps, KeepsTrans, ZenonT(30) DEF Keeps
<1> HIDE DEF s
<1>6. Sound(s) /\ Weak(s)
  BY <1>1, <1>5, KeepsSound DEF Sound, Safe
<1>7. Keeps(s, tick(s)) /\ tick(s).ok
  BY <1>4, <1>6, TickKeeps
<1>8. Sound(h') /\ h'.ok
  BY <1>4, <1>6, <1>7, KeepsSound
<1> QED
  BY <1>8, HostStep DEF LifecycleTick

\* A transition expires.
LEMMA HandoffExpiresInv ==
    ASSUME IInv, HandoffExpires
    PROVE  IInv'
<1> DEFINE e == [h EXCEPT !.ending = TRUE]
           x == Expired(e)
           k == tick(x)
           p == publish_pointer_workspace(k)
<1>1. Sound(h) /\ h \in HostStates /\ h.ok
  BY IInvFacts
<1>2. Keeps(h, e)
  BY <1>1, FieldKeeps, ZenonT(30)
<1>3. e.ok
  BY <1>1 DEF HostStates
<1>4. Handled(Fail(p))
  BY DEF HandoffExpires
<1> HIDE DEF e
<1>5. Sound(e) /\ e \in HostStates
  BY <1>1, <1>2, KeepsSound DEF Keeps
<1>6. Keeps(e, [e EXCEPT !.pending = "None"]) /\ Keeps(e, PointerLocal(e))
  BY <1>5, FieldKeeps, BookkeepingKeeps, ZenonT(30) DEF Transitions
<1>7. Keeps(e, x)
  BY <1>6 DEF Expired
<1>8. x.ok
  BY <1>3, <1>5 DEF Expired, PointerLocal, HostStates
<1> HIDE DEF x
<1>9. Sound(x) /\ Weak(x)
  BY <1>5, <1>7, KeepsSound DEF Sound, Safe
<1>10. Keeps(x, k) /\ k.ok
  BY <1>8, <1>9, TickKeeps
<1> HIDE DEF k
<1>11. Sound(k) /\ Weak(k)
  BY <1>9, <1>10, KeepsSound
<1>12. Keeps(k, p)
  BY <1>10, <1>11, PublishPointerKeeps
<1> HIDE DEF p
<1>13. Sound(p) /\ p \in HostStates
  BY <1>11, <1>12, KeepsSound DEF Keeps
<1>14. Sound(Fail(p))
  BY <1>13, ResultKeeps, KeepsSound
<1> QED
  BY <1>4, <1>14, HandledInv

\* Every lifecycle event.
LEMMA LifecycleInv == IInv /\ Lifecycle => IInv'
<1> SUFFICES ASSUME IInv, Lifecycle PROVE IInv'
  OBVIOUS
<1>1. CASE RearmNativeCapture
  BY ZenonT(30), <1>1, FlagSound, HostStep DEF RearmNativeCapture
<1> QED
  BY <1>1, DiscontinuedInv, LifecycleTickInv, HandoffExpiresInv DEF Lifecycle

-----------------------------------------------------------------------------
(* Pointer handoff *)

\* A control message leaves, or its transition fails.
LEMMA DispatchedKeeps ==
    ASSUME NEW s \in HostStates
    PROVE  Keeps(s, Dispatched(s)) /\ Keeps(s, AckSent(s))
<1> DEFINE p == PointerLocal(s)
           c == cancel_pointer_handoff(p)
           a == [[s EXCEPT !.handoff = FALSE] EXCEPT !.pending = "None"]
<1>1. Keeps(s, p)
  BY BookkeepingKeeps
<1>2. Keeps(s, a)
  BY FieldKeeps, KeepsTrans, ZenonT(30) DEF Keeps, Transitions
<1> HIDE DEF p
<1>3. p \in HostStates
  BY <1>1 DEF Keeps
<1>4. Keeps(s, c)
  BY <1>1, <1>3, GateKeeps, KeepsTrans
<1> HIDE DEF c
<1>5. c \in HostStates /\ a \in HostStates
  BY <1>2, <1>4 DEF Keeps
<1>6. AckSent(s) = IF ControlAccepted(s) THEN s ELSE Fail(a)
  BY DEF AckSent
<1> HIDE DEF a
<1>7. Keeps(s, Fail(c)) /\ Keeps(s, Fail(a)) /\ Keeps(s, s)
  BY <1>2, <1>4, <1>5, ResultKeeps, KeepsTrans
<1> QED
  BY <1>6, <1>7 DEF Dispatched, c, p

\* The source asks to hand the pointer over.
LEMMA ProposeInv ==
    ASSUME IInv, ProposePointerHandoff
    PROVE  IInv'
<1> DEFINE p == [h EXCEPT !.pending = "Outbound"]
           b == begin_pointer_handoff(p)
           t == AndThen(b, Dispatched)
<1>1. Sound(p) /\ p.ok
  BY FlagSound DEF Transitions
<1>2. Handled(t)
  BY DEF ProposePointerHandoff
<1> HIDE DEF p
<1>3. Weak(p)
  BY <1>1 DEF Sound, Safe
<1>4. Keeps(p, b)
  BY <1>1, <1>3, BeginHandoffKeeps
<1> HIDE DEF b
<1>5. Sound(b) /\ b \in HostStates
  BY <1>1, <1>4, KeepsSound DEF Keeps
<1>6. Sound(Dispatched(b))
  BY <1>5, DispatchedKeeps, KeepsSound
<1>7. Sound(t)
  BY <1>5, <1>6 DEF AndThen
<1> HIDE DEF t
<1> QED
  BY <1>2, <1>7, HandledInv

\* A pointer message of the peer.
LEMMA PointerMessageInv ==
    ASSUME IInv, NEW t, Sound(t), PointerMessage(t)
    PROVE  IInv'
<1>1. Sound(Fail(h))
  BY IInvFacts, ResultKeeps, KeepsSound
<1> QED
  BY <1>1, HandledInv DEF PointerMessage

\* The peer accepted: the Commit follows the releases.
LEMMA AcceptedInv ==
    ASSUME IInv, PointerTransitionAccepted
    PROVE  IInv'
<1> DEFINE b == begin_pointer_handoff(h)
           d == AndThen(b, Dispatched)
           a == [[d EXCEPT !.authority = "peer"] EXCEPT !.pending = "None"]
           t == AndThen(d, CommitSent)
<1>1. Sound(h) /\ Weak(h) /\ h.ok
  BY IInvFacts
<1>2. Keeps(h, b)
  BY <1>1, BeginHandoffKeeps
<1>3. PointerMessage(t)
  BY DEF PointerTransitionAccepted
<1> HIDE DEF b
<1>4. Sound(b) /\ b \in HostStates
  BY <1>1, <1>2, KeepsSound DEF Keeps
<1>5. Sound(d)
  BY <1>4, DispatchedKeeps, KeepsSound DEF AndThen
<1> HIDE DEF d
<1>6. d \in HostStates
  BY <1>5 DEF Sound, Safe, Weak
<1>7. Keeps(d, a)
  BY <1>6, FieldKeeps, KeepsTrans, ZenonT(30) DEF Keeps, Hosts, Transitions
<1>8. a.ok = d.ok /\ CommitSent(d) = publish_pointer_workspace(a)
  BY <1>6 DEF CommitSent, HostStates
<1> HIDE DEF a
<1>9. Sound(a) /\ Weak(a)
  BY <1>5, <1>7, KeepsSound DEF Sound, Safe
<1>10. d.ok => Sound(CommitSent(d))
  BY ZenonT(30), <1>8, <1>9, PublishPointerKeeps, KeepsSound
<1>11. Sound(t)
  BY <1>5, <1>10 DEF AndThen
<1> HIDE DEF t
<1> QED
  BY <1>3, <1>11, PointerMessageInv

\* The peer enters this host.
LEMMA EnteredInv ==
    ASSUME IInv, PointerEntered
    PROVE  IInv'
<1> DEFINE p == [h EXCEPT !.pending = "Inbound"]
           b == begin_destination_handoff_barrier(p)
           t == AndThen(b, AckSent)
<1>1. Sound(p) /\ p.ok
  BY FlagSound DEF Transitions
<1>2. PointerMessage(t)
  BY DEF PointerEntered
<1> HIDE DEF p
<1>3. Weak(p)
  BY <1>1 DEF Sound, Safe
<1>4. Keeps(p, b)
  BY <1>1, <1>3, BeginHandoffKeeps
<1> HIDE DEF b
<1>5. Sound(b) /\ b \in HostStates
  BY <1>1, <1>4, KeepsSound DEF Keeps
<1>6. Sound(AckSent(b))
  BY <1>5, DispatchedKeeps, KeepsSound
<1>7. Sound(t)
  BY <1>5, <1>6 DEF AndThen
<1> HIDE DEF t
<1> QED
  BY <1>2, <1>7, PointerMessageInv

\* Every step of a handoff.
LEMMA HandoffInv == IInv /\ Handoff => IInv'
<1> SUFFICES ASSUME IInv, Handoff PROVE IInv'
  OBVIOUS
<1> DEFINE p == PointerLocal(h)
<1>1. Sound(h) /\ h \in HostStates /\ h.ok
  BY IInvFacts
<1>2. Keeps(h, p)
  BY <1>1, BookkeepingKeeps
<1>3. p.ok
  BY <1>1 DEF PointerLocal, HostStates
<1>4. /\ PointerTransitionRejected => PointerMessage(p)
      /\ PointerTransitionCommitted => PointerMessage(publish_pointer_workspace(p))
  BY DEF PointerTransitionRejected, PointerTransitionCommitted
<1> HIDE DEF p
<1>5. Sound(p) /\ Weak(p)
  BY <1>1, <1>2, KeepsSound DEF Sound, Safe
<1>6. Sound(publish_pointer_workspace(p))
  BY <1>3, <1>5, PublishPointerKeeps, KeepsSound
<1>7. CASE PointerTransitionRejected
  BY <1>4, <1>5, <1>7, PointerMessageInv
<1>8. CASE PointerTransitionCommitted
  BY <1>4, <1>6, <1>8, PointerMessageInv
<1> QED
  BY <1>7, <1>8, ProposeInv, AcceptedInv, EnteredInv DEF Handoff

-----------------------------------------------------------------------------
(* Route policy and the local device inventory *)

\* A policy is committed or given up only with no release queued.
LEMMA SettleRoutesSound ==
    ASSUME NEW s, Sound(s), NEW saved
    PROVE  Sound(settle_route_policy_update(s, saved)) /\ Sound(Abandoned(s, saved))
<1>1. Weak(s)
  BY DEF Sound, Safe
<1>2. route_policy_ready(s) =>
        Sound(commit_route_policy_update(s)) /\ Sound(abort_route_policy_update(s))
  BY <1>1, SettlePolicyKeeps, KeepsSound DEF route_policy_ready
<1> QED
  BY <1>2 DEF settle_route_policy_update, Abandoned

\* A candidate policy is staged, retried or given up.
LEMMA RoutesInv ==
    ASSUME IInv, (\E c \in Policies : ReplaceDeviceRoutes(c)) \/ RetryDeviceRoutes \/ AbortDeviceRoutes
    PROVE  IInv'
<1>1. Sound(h) /\ Weak(h)
  BY IInvFacts
<1>2. ASSUME NEW c \in Policies, ReplaceDeviceRoutes(c) PROVE IInv'
  <2>1. Sound(prepare_route_policy_update(h, c))
    BY <1>1, PreparePolicyKeeps, KeepsSound
  <2>2. \A saved \in BOOLEAN :
          Sound(settle_route_policy_update(prepare_route_policy_update(h, c), saved))
    BY <2>1, SettleRoutesSound
  <2> QED
    BY <1>2, <2>2, AdministeredInv DEF ReplaceDeviceRoutes
<1>3. CASE RetryDeviceRoutes \/ AbortDeviceRoutes
  <2>1. Sound(retry_route_policy_update(h))
    BY SMTT(30), <1>1, <1>3, RetryPolicyKeeps, KeepsSound DEF RetryDeviceRoutes, AbortDeviceRoutes
  <2>2. \A saved \in BOOLEAN :
          /\ Sound(settle_route_policy_update(retry_route_policy_update(h), saved))
          /\ Sound(Abandoned(retry_route_policy_update(h), saved))
    BY <2>1, SettleRoutesSound
  <2> QED
    BY <1>3, <2>2, AdministeredInv DEF RetryDeviceRoutes, AbortDeviceRoutes
<1> QED
  BY <1>2, <1>3

\* A local device inventory is staged and settled.
LEMMA ReplaceInventoryInv ==
    ASSUME IInv, NEW wanted \in SUBSET Devices, NEW changed \in SUBSET Devices,
           ReplaceLocalDeviceInventory(wanted, changed)
    PROVE  IInv'
<1> DEFINE g == stage_local_device_snapshot(h, wanted, changed)
<1>1. Sound(h) /\ h \in HostStates /\ h.ok
  BY IInvFacts
<1>2. Keeps(h, g)
  BY <1>1, StageKeeps
<1>3. g.ok
  BY <1>1 DEF stage_local_device_snapshot, HostStates
<1>4. PICK v \in Injections : Administered(settle_local_device_inventory_update(g, v))
  BY DEF ReplaceLocalDeviceInventory
<1> HIDE DEF g
<1>5. Sound(g) /\ Weak(g)
  BY <1>1, <1>2, KeepsSound DEF Sound, Safe
<1>6. Sound(settle_local_device_inventory_update(g, v))
  BY <1>3, <1>4, <1>5, InjectionsBoolean, SettleInventoryKeeps, KeepsSound
<1> QED
  BY <1>4, <1>6, AdministeredInv

\* Every administrative handler.
LEMMA AdministrationInv == IInv /\ Administration => IInv'
<1> SUFFICES ASSUME IInv, Administration PROVE IInv'
  OBVIOUS
<1>1. Sound(h) /\ Weak(h) /\ h.ok
  BY IInvFacts
<1>2. ASSUME NEW compiles \in BOOLEAN, LocalDisplays(compiles) PROVE IInv'
  <2>1. Sound(apply_local_display(h, compiles))
    BY <1>1, DisplaysSound
  <2> QED
    BY <1>2, <2>1, HandledInv DEF LocalDisplays
<1>3. CASE ReplaceWorkspaceTopology
  <2>1. Sound(replace_topology(h))
    <3>1. TRUE \in BOOLEAN
      OBVIOUS
    <3> QED
      BY ZenonT(30), <1>1, <3>1, DisplaysSound, KeepsSound
  <2> QED
    BY <1>3, <2>1, HandledInv DEF ReplaceWorkspaceTopology
<1>4. CASE RetryLocalDeviceInventory
  <2>1. \A v \in Injections : Sound(settle_local_device_inventory_update(h, v))
    BY <1>1, InjectionsBoolean, SettleInventoryKeeps, KeepsSound
  <2> QED
    BY <1>4, <2>1, AdministeredInv DEF RetryLocalDeviceInventory
<1>5. CASE AbortLocalDeviceInventory
  <2>1. Sound(abort_local_device_inventory_update(h))
    BY SMTT(30), <1>1, AbortInventoryKeeps, KeepsSound
  <2> QED
    BY <1>5, <2>1, AdministeredInv DEF AbortLocalDeviceInventory
<1> QED
  BY <1>2, <1>3, <1>4, <1>5, RoutesInv, ReplaceInventoryInv DEF Administration

-----------------------------------------------------------------------------
(* The inbound half of the peer *)

\* Only the peer's record changes.
LEMMA PeerStep ==
    ASSUME IInv, NEW d \in DstStates, Peer(d), Sound(h'), h'.ok
    PROVE  IInv'
BY DEF Peer, IInv, TypeOK, Sound, Safe, Weak

\* The peer forgets its session.
LEMMA NoSessionType ==
    ASSUME NEW d \in DstStates
    PROVE  NoSession(d) \in DstStates
<1>1. 0 \in 0..MaxGen /\ 0 \in 0..MaxSeq
  BY CoreAssumption
<1> QED
  BY ZenonT(30), <1>1 DEF NoSession, DstStates

\* A fatal error at the peer closes the transport.
LEMMA PeerFailsInv ==
    ASSUME IInv, NEW d \in DstStates, PeerFails(d)
    PROVE  IInv'
<1>1. Sound(h') /\ h'.ok
  BY ZenonT(30), IInvFacts, BrokenSound DEF PeerFails
<1> QED
  BY <1>1, NoSessionType, PeerStep DEF PeerFails

\* The peer receives one frame.
LEMMA PeerReceivesInv ==
    ASSUME IInv, PeerReceives
    PROVE  IInv'
<1> DEFINE frame == Head(h.fifo)
           pressed == IF frame.kind = "Press"
                      THEN [dst EXCEPT !.inbound = @ \cup {frame.key}] ELSE dst
<1>1. Sound(h) /\ h \in HostStates /\ h.ok /\ dst \in DstStates
  BY IInvFacts DEF IInv, TypeOK
<1>2. h.fifo # <<>> /\ h.fifo \in Seq(Frames)
  BY <1>1 DEF PeerReceives, HostStates
<1>3. frame \in Frames /\ Tail(h.fifo) \in Seq(Frames)
  BY <1>2
<1>4. frame.kind \in {"Press", "Release", "Cleanup"} => frame.key \in Keys
  BY <1>3 DEF Frames
<1>5. frame.seq \in 0..MaxSeq
  BY <1>3, CoreAssumption DEF Frames, SeqNumbers
<1>6. \/ Peer(Applied(dst, frame)) /\ h' = [h EXCEPT !.fifo = Tail(h.fifo)]
      \/ PeerFails(pressed) \/ PeerFails(dst)
  BY <1>1 DEF PeerReceives, HostStates
<1> DEFINE rest == Tail(h.fifo)
<1>7. rest \in Seq(Frames)
  BY <1>3
<1> HIDE DEF frame, rest
<1>8. pressed \in DstStates
  BY <1>1, <1>4 DEF DstStates
<1>9. Applied(dst, frame) \in DstStates
  BY ZenonT(30), <1>1, <1>4, <1>5 DEF Applied, DstStates
<1>10. Keeps(h, [h EXCEPT !.fifo = rest])
  BY <1>1, <1>7, FieldKeeps, Zenon
<1>11. Sound([h EXCEPT !.fifo = rest])
  BY <1>1, <1>10, KeepsSound
<1>12. [h EXCEPT !.fifo = rest].ok
  BY <1>1 DEF HostStates
<1> HIDE DEF pressed
<1>13. CASE Peer(Applied(dst, frame)) /\ h' = [h EXCEPT !.fifo = rest]
  BY <1>9, <1>11, <1>12, <1>13, PeerStep
<1> QED
  BY <1>1, <1>6, <1>8, <1>13, PeerFailsInv DEF rest

\* Every step of the peer.
LEMMA PeerHostInv == IInv /\ PeerHost => IInv'
<1> SUFFICES ASSUME IInv, PeerHost PROVE IInv'
  OBVIOUS
<1>1. Sound(h) /\ h.ok /\ dst \in DstStates /\ conn \in 0..MaxGen
  BY IInvFacts DEF IInv, TypeOK
<1>2. CASE PeerAdmitted
  <2>1. [dst EXCEPT !.gen = conn, !.admitted = conn, !.accepts = TRUE, !.last = 0] \in DstStates
    <3>1. 0 \in 0..MaxSeq
      BY CoreAssumption
    <3> QED
      BY ZenonT(30), <1>1, <3>1 DEF DstStates
  <2> QED
    BY <1>1, <1>2, <2>1, PeerStep DEF PeerAdmitted
<1>3. CASE PeerReleases
  <2>1. ASSUME NEW gone PROVE [dst EXCEPT !.inbound = dst.inbound \ gone] \in DstStates
    <3> DEFINE left == dst.inbound \ gone
    <3>1. left \in SUBSET Keys
      BY <1>1 DEF DstStates
    <3> HIDE DEF left
    <3>2. [dst EXCEPT !.inbound = left] \in DstStates
      BY <1>1, <3>1 DEF DstStates
    <3> QED
      BY <3>2 DEF left
  <2>2. PICK gone \in SUBSET dst.inbound : Peer([dst EXCEPT !.inbound = dst.inbound \ gone])
    BY ZenonT(30), <1>3 DEF PeerReleases
  <2> QED
    BY <1>1, <1>3, <2>1, <2>2, PeerStep DEF PeerReleases
<1>4. CASE PeerConnectionLost
  <2>1. [dst EXCEPT !.lost = TRUE, !.accepts = FALSE] \in DstStates
    BY ZenonT(30), <1>1 DEF DstStates
  <2>2. \/ Peer(NoSession(dst)) \/ Peer([dst EXCEPT !.lost = TRUE, !.accepts = FALSE])
    BY <1>4 DEF PeerConnectionLost
  <2>3. UNCHANGED h
    BY <1>4 DEF PeerConnectionLost
  <2> QED
    BY <1>1, <2>1, <2>2, <2>3, NoSessionType, PeerStep
<1> QED
  BY SMTT(30), <1>2, <1>3, <1>4, PeerReceivesInv DEF PeerHost

-----------------------------------------------------------------------------
(* The theorems *)

\* IInv is inductive: every action preserves it.
LEMMA NextIInv == IInv /\ [Next]_vars => IInv'
<1>1. IInv /\ UNCHANGED vars => IInv'
  BY DEF vars, IInv, TypeOK
<1> QED
  BY <1>1, CaptureInv, SessionInv, LifecycleInv, HandoffInv, AdministrationInv, PeerHostInv
     DEF Next

\* The inductive invariant holds in every reachable state.
THEOREM Invariant == Spec => []IInv
BY InitIInv, NextIInv, PTL DEF Spec

\* The types of all five variables, and that no handler leaves an error behind
\* (every handler of the peer manager settles its error before it returns).
THEOREM TypeCorrect == Spec => []TypeOK
<1>1. IInv => TypeOK
  BY DEF IInv
<1> QED
  BY <1>1, Invariant, PTL

\* The cleanup ledger: whatever the order of captures, failures, retries and
\* reconnects, a control held at the peer is latched to it or has exactly one
\* release queued, and nothing survives its generation (core.rs
\* queue_remote_cleanup, confirm_remote_input, confirm_transport_invalidated).
THEOREM LedgerKept == Spec => []CleanupLedger
<1>1. IInv => CleanupLedger
  BY DEF IInv, Sound, Safe, Weak, CleanupLedger, Ledger
<1> QED
  BY <1>1, Invariant, PTL

\* Routing is published only past releases that a staged route gates, and the
\* failsafe leaves nothing latched to the peer (core.rs activate_failsafe,
\* session.rs drain_remote_cleanup).
THEOREM RoutingGated == Spec => []CleanupGatesRouting
<1>1. IInv => CleanupGatesRouting
  BY SMTT(30) DEF IInv, Sound, Safe, CleanupGatesRouting
<1> QED
  BY <1>1, Invariant, PTL

\* A release can always be queued: the peer never holds more controls than the
\* cleanup queue has room for (core.rs confirm_remote_input).
THEOREM ReleaseOwnable == Spec => []CleanupAlwaysOwnable
<1>1. IInv => CleanupAlwaysOwnable
  BY DEF IInv, Sound, Safe, Weak, CleanupAlwaysOwnable
<1> QED
  BY <1>1, Invariant, PTL

=============================================================================
