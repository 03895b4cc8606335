----------------------------- MODULE LedgerBasics -----------------------------
(***************************************************************************)
(* What the proofs about the source host are built from: the predicates    *)
(* its operations keep, finite sets of slots, and updates of one field.    *)
(*                                                                         *)
(* Weak is what holds even between the physical release of a control and   *)
(* the frame or the queued release that follows it in the same handler;    *)
(* Safe adds that every control held at the peer has an owner.             *)
(***************************************************************************)
EXTENDS SessionSupervisor, FiniteSetTheorems, FunctionTheorems, WellFoundedInduction, TLAPS

Weak(s) ==
    /\ s \in HostStates
    /\ RemoteLatchIsHeld(s) /\ QueuedIsHeld(s) /\ OneEndpoint(s) /\ HeldBound(s)
    /\ ~s.staged => s.candidate = s.routes
Safe(s) == Weak(s) /\ HeldIsOwned(s) /\ FailsafeReleasesAll(s)

\* What the predicates above and ReleasesGateRouting look at.
SameLedger(s, t) ==
    /\ t.latch = s.latch /\ t.held = s.held /\ t.cleanup = s.cleanup /\ t.ep = s.ep
    /\ t.drain = s.drain /\ t.staged = s.staged /\ t.candidate = s.candidate /\ t.routes = s.routes
    /\ t.ready /\ t.running => s.ready /\ s.running

\* From s to t nothing that holds of s is lost.
Keeps(s, t) ==
    /\ t \in HostStates
    /\ Weak(s) => Weak(t)
    /\ Safe(s) => Safe(t)
    /\ ReleasesGateRouting(s) => ReleasesGateRouting(t)

-----------------------------------------------------------------------------
(* Finite sets and sequences *)

\* There are finitely many slots, so the held ones can be counted.
LEMMA SlotsFinite ==
    IsFiniteSet(Slots) /\ \A S \in SUBSET Slots : IsFiniteSet(S) /\ Cardinality(S) \in Nat
<1>1. IsFiniteSet(Devices \X Controls)
  BY CoreAssumption, FS_Product
<1>2. IsFiniteSet(Keys)
  BY <1>1, CoreAssumption, FS_Subset
<1>3. IsFiniteSet(Gens)
  BY CoreAssumption, FS_Interval DEF Gens
<1>4. IsFiniteSet(Slots)
  BY <1>2, <1>3, FS_Product DEF Slots
<1> QED
  BY <1>4, FS_Subset, FS_CardinalityType

\* MapOrder enumerates a finite set without repetition.
LEMMA MapOrderEnumerates ==
    ASSUME NEW S, IsFiniteSet(S)
    PROVE  /\ Cardinality(S) \in Nat
           /\ MapOrder(S) \in [1..Cardinality(S) -> S]
           /\ \A i, j \in 1..Cardinality(S) : MapOrder(S)[i] = MapOrder(S)[j] => i = j
           /\ \A x \in S : \E i \in 1..Cardinality(S) : MapOrder(S)[i] = x
<1> DEFINE n == Cardinality(S)  f == MapOrder(S)
<1>1. n \in Nat /\ \E g : g \in Bijection(1..n, S)
  BY FS_CardinalityType DEF ExistsBijection
<1>2. PICK g : g \in Bijection(1..n, S)
  BY <1>1
<1>3. g \in [1..n -> S] /\ IsInjective(g)
  BY <1>2 DEF Bijection, Injection, IsInjective
<1>4. f \in [1..n -> S] /\ IsInjective(f)
  BY <1>3 DEF MapOrder, IsInjective
<1>5. ASSUME NEW x \in S, \A i \in 1..n : f[i] # x
      PROVE  FALSE
  <2>1. f \in [1..n -> S \ {x}]
    BY <1>4, <1>5
  <2>2. IsFiniteSet(S \ {x}) /\ Cardinality(S \ {x}) = n - 1
    BY FS_RemoveElement
  <2>3. IsFiniteSet(1..n) /\ Cardinality(1..n) = n
    BY <1>1, FS_Interval
  <2>4. Cardinality(S \ {x}) < Cardinality(1..n)
    BY <1>1, <2>2, <2>3
  <2>5. \E a, b \in 1..n : a # b /\ f[a] = f[b]
    <3> DEFINE D == 1..n  T == S \ {x}
    <3>1. IsFiniteSet(D) /\ IsFiniteSet(T) /\ Cardinality(T) < Cardinality(D) /\ f \in [D -> T]
      BY <2>1, <2>2, <2>3, <2>4
    <3> HIDE DEF D, T, f
    <3>2. \E a, b \in D : a # b /\ f[a] = f[b]
      BY <3>1, FS_PigeonHole
    <3> QED
      BY <3>2 DEF D
  <2> QED
    BY <1>4, <2>5 DEF IsInjective
<1> QED
  BY <1>1, <1>4, <1>5 DEF IsInjective

\* The types of the fields the ledger is made of.
LEMMA Types ==
    ASSUME NEW s \in HostStates
    PROVE  /\ s.latch \in [Keys -> Latches] /\ s.held \in [Slots -> HeldStates]
           /\ s.cleanup \in Seq(CleanupEntries) /\ s.fifo \in Seq(Frames)
           /\ s.seq \in 1..MaxSeq /\ s.ep \in 0..MaxGen /\ s.auth \in 0..MaxGen
           /\ s.routes \in Policies /\ s.candidate \in Policies
           /\ s.ok \in BOOLEAN /\ s.ready \in BOOLEAN /\ s.running \in BOOLEAN
           /\ s.drain \in BOOLEAN /\ s.staged \in BOOLEAN
BY DEF HostStates, MaybeGen, SeqNumbers

\* The releases that wait and the ones still to be queued fit the queue.
LEMMA CleanupFits ==
    ASSUME NEW s, Weak(s), NEW new, new \subseteq HeldSlots(s) \ QueuedSlots(s)
    PROVE  Len(s.cleanup) + Cardinality(new) <= MaxCleanup
<1> DEFINE Q == QueuedSlots(s)  n == Len(s.cleanup)
           f == [i \in 1..n |-> s.cleanup[i].slot]
<1>1. s.cleanup \in Seq(CleanupEntries) /\ n \in Nat /\ DOMAIN s.cleanup = 1..n
  BY DEF Weak, HostStates
<1>2. Q \subseteq HeldSlots(s) /\ HeldSlots(s) \subseteq Slots
  BY DEF Weak, QueuedIsHeld, QueuedSlots, HeldSlots
<1>3. f \in Bijection(1..n, Q)
  <2>1. f \in [1..n -> Q]
    BY <1>1 DEF QueuedSlots
  <2>2. \A a, b \in 1..n : f[a] = f[b] => a = b
    BY <1>1 DEF Weak, QueuedIsHeld
  <2>3. \A t \in Q : \E i \in 1..n : f[i] = t
    BY <1>1 DEF QueuedSlots
  <2> QED
    BY <2>1, <2>2, <2>3, Fun_IsBij, Zenon
<1>4. Cardinality(Q) = n
  BY <1>1, <1>3, FS_CountingElements DEF ExistsBijection
<1>5. /\ IsFiniteSet(Q) /\ IsFiniteSet(new) /\ IsFiniteSet(Q \cup new) /\ IsFiniteSet(HeldSlots(s))
      /\ Cardinality(new) \in Nat /\ Cardinality(Q \cup new) \in Nat
      /\ Cardinality(HeldSlots(s)) \in Nat
  BY <1>2, SlotsFinite
<1>6. Cardinality(Q \cap new) = 0
  BY FS_EmptySet
<1>7. Cardinality(Q \cup new) = n + Cardinality(new)
  <2>1. Cardinality(Q \cup new) = Cardinality(Q) + Cardinality(new) - Cardinality(Q \cap new)
    BY <1>5, FS_Union, Zenon
  <2> QED
    BY <1>1, <1>4, <1>5, <1>6, <2>1
<1>8. Cardinality(Q \cup new) <= Cardinality(HeldSlots(s))
  BY <1>2, <1>5, FS_Subset
<1> QED
  BY <1>1, <1>5, <1>7, <1>8, CoreAssumption DEF Weak, HeldBound

-----------------------------------------------------------------------------
(* Frames *)

\* A state with the same ledger is as good.
LEMMA FrameKeeps ==
    ASSUME NEW s, NEW t \in HostStates, SameLedger(s, t)
    PROVE  Keeps(s, t)
<1>1. /\ HeldSlots(t) = HeldSlots(s) /\ QueuedSlots(t) = QueuedSlots(s)
      /\ affected_route_devices(t) = affected_route_devices(s)
  BY DEF SameLedger, HeldSlots, QueuedSlots, affected_route_devices
<1>2. Weak(s) => Weak(t)
  BY <1>1 DEF SameLedger, Weak, RemoteLatchIsHeld, QueuedIsHeld, OneEndpoint, HeldBound
<1>3. Safe(s) => Safe(t)
  BY <1>1, <1>2 DEF SameLedger, Safe, HeldIsOwned, FailsafeReleasesAll
<1>4. ReleasesGateRouting(s) => ReleasesGateRouting(t)
  BY <1>1 DEF SameLedger, ReleasesGateRouting
<1> QED
  BY <1>2, <1>3, <1>4 DEF Keeps

\* One operation after another.
LEMMA KeepsTrans == \A s, t, u : Keeps(s, t) /\ Keeps(t, u) => Keeps(s, u)
BY Zenon DEF Keeps

-----------------------------------------------------------------------------
(* Updates of one field *)

\* An update of one field by a value of its type is a host state.
LEMMA FieldTypes ==
    ASSUME NEW s \in HostStates
    PROVE  /\ \A v \in BOOLEAN : /\ [s EXCEPT !.ready = v] \in HostStates
                                 /\ [s EXCEPT !.handoff = v] \in HostStates
                                 /\ [s EXCEPT !.drain = v] \in HostStates
                                 /\ [s EXCEPT !.suspended = v] \in HostStates
                                 /\ [s EXCEPT !.running = v] \in HostStates
                                 /\ [s EXCEPT !.stopping = v] \in HostStates
                                 /\ [s EXCEPT !.staged = v] \in HostStates
                                 /\ [s EXCEPT !.up = v] \in HostStates
                                 /\ [s EXCEPT !.accepts = v] \in HostStates
                                 /\ [s EXCEPT !.inventory = v] \in HostStates
                                 /\ [s EXCEPT !.dialing = v] \in HostStates
                                 /\ [s EXCEPT !.capture = v] \in HostStates
                                 /\ [s EXCEPT !.ending = v] \in HostStates
                                 /\ [s EXCEPT !.open = v] \in HostStates
                                 /\ [s EXCEPT !.ok = v] \in HostStates
           /\ \A v \in Hosts : /\ [s EXCEPT !.active = v] \in HostStates
                               /\ [s EXCEPT !.authority = v] \in HostStates
           /\ \A v \in MaybeGen : /\ [s EXCEPT !.ep = v] \in HostStates
                                  /\ [s EXCEPT !.auth = v] \in HostStates
                                  /\ [s EXCEPT !.gen = v] \in HostStates
           /\ \A v \in SUBSET Devices : /\ [s EXCEPT !.gated = v] \in HostStates
                                        /\ [s EXCEPT !.present = v] \in HostStates
                                        /\ [s EXCEPT !.wanted = v] \in HostStates
                                        /\ [s EXCEPT !.affected = v] \in HostStates
           /\ \A v \in Policies : /\ [s EXCEPT !.routes = v] \in HostStates
                                  /\ [s EXCEPT !.candidate = v] \in HostStates
           /\ \A v \in SeqNumbers : /\ [s EXCEPT !.seq = v] \in HostStates
           /\ \A v \in Phases : /\ [s EXCEPT !.phase = v] \in HostStates
           /\ \A v \in Coordinators : /\ [s EXCEPT !.pointer = v] \in HostStates
           /\ \A v \in Transitions : /\ [s EXCEPT !.pending = v] \in HostStates
           /\ \A v \in Updates : /\ [s EXCEPT !.txn = v] \in HostStates
           /\ \A v \in [Keys -> Latches] : /\ [s EXCEPT !.latch = v] \in HostStates
           /\ \A v \in [Slots -> HeldStates] : /\ [s EXCEPT !.held = v] \in HostStates
           /\ \A v \in Seq(CleanupEntries) : /\ [s EXCEPT !.cleanup = v] \in HostStates
           /\ \A v \in Seq(Frames) : /\ [s EXCEPT !.fifo = v] \in HostStates
<1>1. \A v \in BOOLEAN : [s EXCEPT !.ready = v] \in HostStates
  BY ZenonT(40) DEF HostStates
<1>2. \A v \in BOOLEAN : [s EXCEPT !.handoff = v] \in HostStates
  BY ZenonT(40) DEF HostStates
<1>3. \A v \in BOOLEAN : [s EXCEPT !.drain = v] \in HostStates
  BY ZenonT(40) DEF HostStates
<1>4. \A v \in BOOLEAN : [s EXCEPT !.suspended = v] \in HostStates
  BY ZenonT(40) DEF HostStates
<1>5. \A v \in BOOLEAN : [s EXCEPT !.running = v] \in HostStates
  BY ZenonT(40) DEF HostStates
<1>6. \A v \in BOOLEAN : [s EXCEPT !.stopping = v] \in HostStates
  BY ZenonT(40) DEF HostStates
<1>7. \A v \in BOOLEAN : [s EXCEPT !.staged = v] \in HostStates
  BY ZenonT(40) DEF HostStates
<1>8. \A v \in BOOLEAN : [s EXCEPT !.up = v] \in HostStates
  BY ZenonT(40) DEF HostStates
<1>9. \A v \in BOOLEAN : [s EXCEPT !.accepts = v] \in HostStates
  BY ZenonT(40) DEF HostStates
<1>10. \A v \in BOOLEAN : [s EXCEPT !.inventory = v] \in HostStates
  BY ZenonT(40) DEF HostStates
<1>11. \A v \in BOOLEAN : [s EXCEPT !.dialing = v] \in HostStates
  BY ZenonT(40) DEF HostStates
<1>12. \A v \in BOOLEAN : [s EXCEPT !.capture = v] \in HostStates
  BY ZenonT(40) DEF HostStates
<1>13. \A v \in BOOLEAN : [s EXCEPT !.ending = v] \in HostStates
  BY ZenonT(40) DEF HostStates
<1>14. \A v \in BOOLEAN : [s EXCEPT !.open = v] \in HostStates
  BY ZenonT(40) DEF HostStates
<1>15. \A v \in BOOLEAN : [s EXCEPT !.ok = v] \in HostStates
  BY ZenonT(40) DEF HostStates
<1>16. \A v \in Hosts : [s EXCEPT !.active = v] \in HostStates
  BY ZenonT(40) DEF HostStates
<1>17. \A v \in Hosts : [s EXCEPT !.authority = v] \in HostStates
  BY ZenonT(40) DEF HostStates
<1>18. \A v \in MaybeGen : [s EXCEPT !.ep = v] \in HostStates
  BY ZenonT(40) DEF HostStates
<1>19. \A v \in MaybeGen : [s EXCEPT !.auth = v] \in HostStates
  BY ZenonT(40) DEF HostStates
<1>20. \A v \in MaybeGen : [s EXCEPT !.gen = v] \in HostStates
  BY ZenonT(40) DEF HostStates
<1>21. \A v \in SUBSET Devices : [s EXCEPT !.gated = v] \in HostStates
  BY ZenonT(40) DEF HostStates
<1>22. \A v \in SUBSET Devices : [s EXCEPT !.present = v] \in HostStates
  BY ZenonT(40) DEF HostStates
<1>23. \A v \in SUBSET Devices : [s EXCEPT !.wanted = v] \in HostStates
  BY ZenonT(40) DEF HostStates
<1>24. \A v \in SUBSET Devices : [s EXCEPT !.affected = v] \in HostStates
  BY ZenonT(40) DEF HostStates
<1>25. \A v \in Policies : [s EXCEPT !.routes = v] \in HostStates
  BY ZenonT(40) DEF HostStates
<1>26. \A v \in Policies : [s EXCEPT !.candidate = v] \in HostStates
  BY ZenonT(40) DEF HostStates
<1>27. \A v \in SeqNumbers : [s EXCEPT !.seq = v] \in HostStates
  BY ZenonT(40) DEF HostStates
<1>28. \A v \in Phases : [s EXCEPT !.phase = v] \in HostStates
  BY ZenonT(40) DEF HostStates
<1>29. \A v \in Coordinators : [s EXCEPT !.pointer = v] \in HostStates
  BY ZenonT(40) DEF HostStates
<1>30. \A v \in Transitions : [s EXCEPT !.pending = v] \in HostStates
  BY ZenonT(40) DEF HostStates
<1>31. \A v \in Updates : [s EXCEPT !.txn = v] \in HostStates
  BY ZenonT(40) DEF HostStates
<1>32. \A v \in [Keys -> Latches] : [s EXCEPT !.latch = v] \in HostStates
  BY ZenonT(40) DEF HostStates
<1>33. \A v \in [Slots -> HeldStates] : [s EXCEPT !.held = v] \in HostStates
  BY ZenonT(40) DEF HostStates
<1>34. \A v \in Seq(CleanupEntries) : [s EXCEPT !.cleanup = v] \in HostStates
  BY ZenonT(40) DEF HostStates
<1>35. \A v \in Seq(Frames) : [s EXCEPT !.fifo = v] \in HostStates
  BY ZenonT(40) DEF HostStates
<1> QED
  BY <1>1, <1>2, <1>3, <1>4, <1>5, <1>6, <1>7, <1>8, <1>9, <1>10, <1>11, <1>12, <1>13, <1>14,
     <1>15, <1>16, <1>17, <1>18, <1>19, <1>20, <1>21, <1>22, <1>23, <1>24, <1>25, <1>26,
     <1>27, <1>28, <1>29, <1>30, <1>31, <1>32, <1>33, <1>34, <1>35

\* An update of a field outside the ledger keeps it.
LEMMA FieldKeeps ==
    ASSUME NEW s \in HostStates
    PROVE  /\ \A v \in BOOLEAN : /\ Keeps(s, [s EXCEPT !.handoff = v])
                                 /\ Keeps(s, [s EXCEPT !.suspended = v])
                                 /\ Keeps(s, [s EXCEPT !.stopping = v])
                                 /\ Keeps(s, [s EXCEPT !.up = v])
                                 /\ Keeps(s, [s EXCEPT !.accepts = v])
                                 /\ Keeps(s, [s EXCEPT !.inventory = v])
                                 /\ Keeps(s, [s EXCEPT !.dialing = v])
                                 /\ Keeps(s, [s EXCEPT !.capture = v])
                                 /\ Keeps(s, [s EXCEPT !.ending = v])
                                 /\ Keeps(s, [s EXCEPT !.open = v])
                                 /\ Keeps(s, [s EXCEPT !.ok = v])
           /\ \A v \in Hosts : /\ Keeps(s, [s EXCEPT !.active = v])
                               /\ Keeps(s, [s EXCEPT !.authority = v])
           /\ \A v \in MaybeGen : /\ Keeps(s, [s EXCEPT !.auth = v])
                                  /\ Keeps(s, [s EXCEPT !.gen = v])
           /\ \A v \in SUBSET Devices : /\ Keeps(s, [s EXCEPT !.gated = v])
                                        /\ Keeps(s, [s EXCEPT !.present = v])
                                        /\ Keeps(s, [s EXCEPT !.wanted = v])
                                        /\ Keeps(s, [s EXCEPT !.affected = v])
           /\ \A v \in SeqNumbers : /\ Keeps(s, [s EXCEPT !.seq = v])
           /\ \A v \in Phases : /\ Keeps(s, [s EXCEPT !.phase = v])
           /\ \A v \in Coordinators : /\ Keeps(s, [s EXCEPT !.pointer = v])
           /\ \A v \in Transitions : /\ Keeps(s, [s EXCEPT !.pending = v])
           /\ \A v \in Updates : /\ Keeps(s, [s EXCEPT !.txn = v])
           /\ \A v \in Seq(Frames) : /\ Keeps(s, [s EXCEPT !.fifo = v])
           /\ Keeps(s, [s EXCEPT !.ready = FALSE]) /\ Keeps(s, [s EXCEPT !.running = FALSE])
<1>1. ASSUME NEW v \in BOOLEAN
      PROVE  /\ SameLedger(s, [s EXCEPT !.handoff = v])
             /\ SameLedger(s, [s EXCEPT !.suspended = v])
             /\ SameLedger(s, [s EXCEPT !.stopping = v])
             /\ SameLedger(s, [s EXCEPT !.up = v])
             /\ SameLedger(s, [s EXCEPT !.accepts = v])
             /\ SameLedger(s, [s EXCEPT !.inventory = v])
             /\ SameLedger(s, [s EXCEPT !.dialing = v])
             /\ SameLedger(s, [s EXCEPT !.capture = v])
             /\ SameLedger(s, [s EXCEPT !.ending = v])
             /\ SameLedger(s, [s EXCEPT !.open = v])
             /\ SameLedger(s, [s EXCEPT !.ok = v])
  BY DEF SameLedger
<1>2. ASSUME NEW v \in BOOLEAN
      PROVE  /\ Keeps(s, [s EXCEPT !.handoff = v])
             /\ Keeps(s, [s EXCEPT !.suspended = v])
             /\ Keeps(s, [s EXCEPT !.stopping = v])
             /\ Keeps(s, [s EXCEPT !.up = v])
             /\ Keeps(s, [s EXCEPT !.accepts = v])
             /\ Keeps(s, [s EXCEPT !.inventory = v])
             /\ Keeps(s, [s EXCEPT !.dialing = v])
             /\ Keeps(s, [s EXCEPT !.capture = v])
             /\ Keeps(s, [s EXCEPT !.ending = v])
             /\ Keeps(s, [s EXCEPT !.open = v])
             /\ Keeps(s, [s EXCEPT !.ok = v])
  BY <1>1, FieldTypes, FrameKeeps, Zenon
<1>3. ASSUME NEW v \in Hosts
      PROVE  /\ SameLedger(s, [s EXCEPT !.active = v])
             /\ SameLedger(s, [s EXCEPT !.authority = v])
  BY DEF SameLedger
<1>4. ASSUME NEW v \in Hosts
      PROVE  /\ Keeps(s, [s EXCEPT !.active = v])
             /\ Keeps(s, [s EXCEPT !.authority = v])
  BY <1>3, FieldTypes, FrameKeeps, Zenon
<1>5. ASSUME NEW v \in MaybeGen
      PROVE  /\ SameLedger(s, [s EXCEPT !.auth = v])
             /\ SameLedger(s, [s EXCEPT !.gen = v])
  BY DEF SameLedger
<1>6. ASSUME NEW v \in MaybeGen
      PROVE  /\ Keeps(s, [s EXCEPT !.auth = v])
             /\ Keeps(s, [s EXCEPT !.gen = v])
  BY <1>5, FieldTypes, FrameKeeps, Zenon
<1>7. ASSUME NEW v \in SUBSET Devices
      PROVE  /\ SameLedger(s, [s EXCEPT !.gated = v])
             /\ SameLedger(s, [s EXCEPT !.present = v])
             /\ SameLedger(s, [s EXCEPT !.wanted = v])
             /\ SameLedger(s, [s EXCEPT !.affected = v])
  BY DEF SameLedger
<1>8. ASSUME NEW v \in SUBSET Devices
      PROVE  /\ Keeps(s, [s EXCEPT !.gated = v])
             /\ Keeps(s, [s EXCEPT !.present = v])
             /\ Keeps(s, [s EXCEPT !.wanted = v])
             /\ Keeps(s, [s EXCEPT !.affected = v])
  BY <1>7, FieldTypes, FrameKeeps, Zenon
<1>9. ASSUME NEW v \in SeqNumbers
      PROVE  /\ SameLedger(s, [s EXCEPT !.seq = v])
  BY DEF SameLedger
<1>10. ASSUME NEW v \in SeqNumbers
      PROVE  /\ Keeps(s, [s EXCEPT !.seq = v])
  BY <1>9, FieldTypes, FrameKeeps, Zenon
<1>11. ASSUME NEW v \in Phases
      PROVE  /\ SameLedger(s, [s EXCEPT !.phase = v])
  BY DEF SameLedger
<1>12. ASSUME NEW v \in Phases
      PROVE  /\ Keeps(s, [s EXCEPT !.phase = v])
  BY <1>11, FieldTypes, FrameKeeps, Zenon
<1>13. ASSUME NEW v \in Coordinators
      PROVE  /\ SameLedger(s, [s EXCEPT !.pointer = v])
  BY DEF SameLedger
<1>14. ASSUME NEW v \in Coordinators
      PROVE  /\ Keeps(s, [s EXCEPT !.pointer = v])
  BY <1>13, FieldTypes, FrameKeeps, Zenon
<1>15. ASSUME NEW v \in Transitions
      PROVE  /\ SameLedger(s, [s EXCEPT !.pending = v])
  BY DEF SameLedger
<1>16. ASSUME NEW v \in Transitions
      PROVE  /\ Keeps(s, [s EXCEPT !.pending = v])
  BY <1>15, FieldTypes, FrameKeeps, Zenon
<1>17. ASSUME NEW v \in Updates
      PROVE  /\ SameLedger(s, [s EXCEPT !.txn = v])
  BY DEF SameLedger
<1>18. ASSUME NEW v \in Updates
      PROVE  /\ Keeps(s, [s EXCEPT !.txn = v])
  BY <1>17, FieldTypes, FrameKeeps, Zenon
<1>19. ASSUME NEW v \in Seq(Frames)
      PROVE  /\ SameLedger(s, [s EXCEPT !.fifo = v])
  BY DEF SameLedger
<1>20. ASSUME NEW v \in Seq(Frames)
      PROVE  /\ Keeps(s, [s EXCEPT !.fifo = v])
  BY <1>19, FieldTypes, FrameKeeps, Zenon
<1>21. SameLedger(s, [s EXCEPT !.ready = FALSE]) /\ SameLedger(s, [s EXCEPT !.running = FALSE])
  BY DEF SameLedger
<1>22. Keeps(s, [s EXCEPT !.ready = FALSE]) /\ Keeps(s, [s EXCEPT !.running = FALSE])
  BY <1>21, FieldTypes, FrameKeeps, Zenon
<1> QED
  BY <1>2, <1>4, <1>6, <1>8, <1>10, <1>12, <1>14, <1>16, <1>18, <1>20, <1>22, Zenon

=============================================================================
