---------------------------- MODULE CleanupProofs ----------------------------
(***************************************************************************)
(* The two movements of the cleanup ledger: a release is queued, and the   *)
(* queued releases are sent.                                               *)
(***************************************************************************)
EXTENDS LedgerBasics, SequenceTheorems

-----------------------------------------------------------------------------
(* queue_remote_cleanup *)

\* Queueing never fails; it owns what is affected and latches none of it.
LEMMA QueueKeeps ==
    ASSUME NEW s, Weak(s), NEW A
    PROVE  LET q == queue_remote_cleanup(s, A)
           IN /\ Weak(q)
              /\ HeldIsOwned(s) => HeldIsOwned(q)
              /\ Slots \subseteq A => HeldIsOwned(q)
              /\ Slots \subseteq A => \A k \in Keys : q.latch[k].to # "Remote"
              /\ FailsafeReleasesAll(s) => FailsafeReleasesAll(q)
              /\ QueuedSlots(q) = QueuedSlots(s) \cup (HeldSlots(s) \cap A)
              /\ q.held = s.held /\ q.ep = s.ep /\ q.drain = s.drain /\ q.staged = s.staged
              /\ q.candidate = s.candidate /\ q.routes = s.routes /\ q.ok = s.ok
              /\ q.ready = s.ready /\ q.running = s.running
<1> DEFINE new == (HeldSlots(s) \cap A) \ QueuedSlots(s)
           slots == MapOrder(new)
           entries == [i \in DOMAIN slots |-> [slot |-> slots[i], covered |-> s.held[slots[i]].seq]]
           latch == [k \in Keys |-> IF s.latch[k].to = "Remote" /\ <<s.latch[k].ep, k>> \in new
                                    THEN QuarantinedLatch ELSE s.latch[k]]
           q == queue_remote_cleanup(s, A)
           n == Len(s.cleanup)
           m == Cardinality(new)
<1>1. /\ s \in HostStates /\ s.latch \in [Keys -> Latches] /\ s.held \in [Slots -> HeldStates]
      /\ s.cleanup \in Seq(CleanupEntries) /\ n \in Nat /\ DOMAIN s.cleanup = 1..n
      /\ s.ep \in 0..MaxGen
  BY Types DEF Weak
<1>2. new \subseteq Slots /\ IsFiniteSet(new) /\ n + m <= MaxCleanup
  <2>1. new \subseteq Slots
    BY DEF HeldSlots
  <2> QED
    BY <2>1, SlotsFinite, CleanupFits
<1>3. /\ m \in Nat /\ slots \in [1..m -> new] /\ DOMAIN slots = 1..m
      /\ \A i, j \in 1..m : slots[i] = slots[j] => i = j
      /\ \A x \in new : \E i \in 1..m : slots[i] = x
  BY <1>2, MapOrderEnumerates
<1>4. q = [s EXCEPT !.cleanup = @ \o entries, !.latch = latch]
  BY <1>2, <1>3, CoreAssumption, <1>1 DEF queue_remote_cleanup
<1> HIDE DEF new, slots, m
<1>5. entries \in Seq(CleanupEntries) /\ Len(entries) = m
  <2>1. entries \in [1..m -> CleanupEntries]
    BY <1>1, <1>2, <1>3 DEF CleanupEntries, HeldStates
  <2> QED
    BY <1>3, <2>1
<1>6. latch \in [Keys -> Latches]
  BY <1>1, CoreAssumption DEF Latches, QuarantinedLatch, RouteKinds, MaybeGen
<1> HIDE DEF entries, latch, q
<1>7. q \in HostStates
  <2> DEFINE c == s.cleanup \o entries
  <2>1. c \in Seq(CleanupEntries) /\ q = [[s EXCEPT !.cleanup = c] EXCEPT !.latch = latch]
    BY <1>1, <1>4, <1>5
  <2> HIDE DEF c
  <2> QED
    BY <1>1, <1>6, <2>1, FieldTypes, Zenon
<1>8. /\ q.cleanup = s.cleanup \o entries /\ q.latch = latch
      /\ q.held = s.held /\ q.ep = s.ep /\ q.drain = s.drain /\ q.staged = s.staged
      /\ q.candidate = s.candidate /\ q.routes = s.routes /\ q.ok = s.ok
      /\ q.ready = s.ready /\ q.running = s.running
  BY <1>1, <1>4
<1>9. HeldSlots(q) = HeldSlots(s)
  BY <1>8 DEF HeldSlots
<1>10. /\ DOMAIN q.cleanup = 1..(n + m)
       /\ \A i \in 1..n : q.cleanup[i] = s.cleanup[i]
       /\ \A i \in 1..m : q.cleanup[n + i] = entries[i]
  <2>1. /\ q.cleanup \in Seq(CleanupEntries) /\ Len(q.cleanup) = n + m
        /\ \A i \in 1..(n + m) :
             q.cleanup[i] = IF i <= n THEN s.cleanup[i] ELSE entries[i - n]
    <3> DEFINE c == s.cleanup
    <3>1. c \in Seq(CleanupEntries) /\ entries \in Seq(CleanupEntries)
      BY <1>1, <1>5
    <3>2. Len(c) = n /\ Len(entries) = m /\ q.cleanup = c \o entries
      BY <1>5, <1>8
    <3> HIDE DEF c, n
    <3>3. /\ c \o entries \in Seq(CleanupEntries) /\ Len(c \o entries) = Len(c) + Len(entries)
          /\ \A i \in 1..(Len(c) + Len(entries)) :
               (c \o entries)[i] = IF i <= Len(c) THEN c[i] ELSE entries[i - Len(c)]
      BY <3>1, ConcatProperties, Zenon
    <3>4. \A i \in 1..(n + m) : q.cleanup[i] = IF i <= n THEN c[i] ELSE entries[i - n]
      BY <3>2, <3>3, Zenon
    <3> QED
      BY <3>2, <3>3, <3>4, Zenon DEF c
  <2>2. \A i \in 1..m : n + i \in 1..(n + m) /\ ~(n + i <= n) /\ (n + i) - n = i
    BY <1>1, <1>3
  <2>3. \A i \in 1..n : i \in 1..(n + m) /\ i <= n
    BY <1>1, <1>3
  <2>4. DOMAIN q.cleanup = 1..(n + m)
    BY <2>1, LenProperties, SMTT(30)
  <2> QED
    BY <2>1, <2>2, <2>3, <2>4, Zenon
<1>11. ASSUME NEW i \in 1..(n + m), i > n
       PROVE  /\ i - n \in 1..m /\ slots[i - n] \in new /\ q.cleanup[i].slot = slots[i - n]
              /\ q.cleanup[i].covered = s.held[slots[i - n]].seq
  <2>1. i - n \in 1..m /\ q.cleanup[i] = entries[i - n]
    BY <1>1, <1>3, <1>5, <1>8, <1>11
  <2> QED
    BY <1>3, <2>1 DEF entries
<1>12. QueuedSlots(q) = QueuedSlots(s) \cup new
  <2>1. ASSUME NEW x \in QueuedSlots(q) PROVE x \in QueuedSlots(s) \cup new
    <3>1. PICK i \in 1..(n + m) : x = q.cleanup[i].slot
      BY <1>10 DEF QueuedSlots
    <3>2. CASE i <= n
      BY <1>1, <1>10, <3>1, <3>2 DEF QueuedSlots
    <3>3. CASE i > n
      BY <1>11, <3>1, <3>3
    <3> QED
      BY <1>1, <1>3, <3>1, <3>2, <3>3
  <2>2. ASSUME NEW x \in QueuedSlots(s) PROVE x \in QueuedSlots(q)
    <3>1. PICK i \in 1..n : x = s.cleanup[i].slot
      BY <1>1 DEF QueuedSlots
    <3>2. i \in DOMAIN q.cleanup /\ q.cleanup[i].slot = x
      BY <1>1, <1>3, <1>10, <3>1
    <3> QED
      BY <3>2 DEF QueuedSlots
  <2>3. ASSUME NEW x \in new PROVE x \in QueuedSlots(q)
    <3>1. PICK i \in 1..m : slots[i] = x
      BY <1>3
    <3>2. n + i \in 1..(n + m) /\ n + i > n /\ (n + i) - n = i
      BY <1>1, <1>3, <3>1
    <3>3. PICK l \in 1..(n + m) : l > n /\ l - n = i
      BY <3>2
    <3>4. l \in DOMAIN q.cleanup /\ q.cleanup[l].slot = x
      BY <1>10, <1>11, <3>1, <3>3
    <3> QED
      BY <3>4 DEF QueuedSlots
  <2> QED
    BY <2>1, <2>2, <2>3
<1>13. QueuedSlots(q) = QueuedSlots(s) \cup (HeldSlots(s) \cap A)
  BY <1>12 DEF new
<1>14. \A k \in Keys : /\ q.latch[k].to = "Remote" => q.latch[k] = s.latch[k] /\ s.latch[k].to = "Remote"
                                                      /\ <<s.latch[k].ep, k>> \notin new
                       /\ q.latch[k].to # "Remote" /\ s.latch[k].to = "Remote" => <<s.latch[k].ep, k>> \in new
  BY <1>8 DEF latch, QuarantinedLatch
<1>15. RemoteLatchIsHeld(q)
  BY <1>8, <1>9, <1>12, <1>14, ZenonT(30) DEF Weak, RemoteLatchIsHeld
<1>16. QueuedIsHeld(q)
  <2>1. ASSUME NEW i \in 1..n
        PROVE  /\ q.cleanup[i].slot \in HeldSlots(q) \ new
               /\ q.cleanup[i].covered = q.held[q.cleanup[i].slot].seq
    BY <1>1, <1>8, <1>9, <1>10, SMTT(30) DEF Weak, QueuedIsHeld, new, QueuedSlots
  <2>2. ASSUME NEW i \in 1..(n + m), i > n
        PROVE  /\ q.cleanup[i].slot \in HeldSlots(q) \cap new
               /\ q.cleanup[i].covered = q.held[q.cleanup[i].slot].seq
    BY <1>8, <1>9, <1>11, <2>2 DEF new
  <2>3. ASSUME NEW i \in 1..(n + m), NEW j \in 1..(n + m), q.cleanup[i].slot = q.cleanup[j].slot
        PROVE  i = j
    <3>1. CASE i <= n /\ j <= n
      BY <1>1, <1>10, <2>3, <3>1, SMTT(30) DEF Weak, QueuedIsHeld
    <3>2. CASE i > n /\ j > n
      <4>1. PICK a \in 1..m : a = i - n /\ q.cleanup[i].slot = slots[a]
        BY <1>11, <3>2
      <4>2. PICK b \in 1..m : b = j - n /\ q.cleanup[j].slot = slots[b]
        BY <1>11, <3>2
      <4>3. a = b
        BY <1>3, <2>3, <4>1, <4>2
      <4> QED
        BY <1>1, <4>1, <4>2, <4>3
    <3>3. CASE i <= n /\ j > n
      BY <1>1, <2>1, <2>2, <2>3, <3>3
    <3>4. CASE i > n /\ j <= n
      BY <1>1, <2>1, <2>2, <2>3, <3>4
    <3> QED
      BY <1>1, <3>1, <3>2, <3>3, <3>4
  <2>4. \A i \in 1..(n + m) : i \in 1..n \/ i > n
    BY <1>1, <1>3
  <2> QED
    BY <1>10, <2>1, <2>2, <2>3, <2>4 DEF QueuedIsHeld
<1>17. OneEndpoint(q) /\ HeldBound(q) /\ (~q.staged => q.candidate = q.routes)
  BY <1>8, <1>9 DEF Weak, OneEndpoint, HeldBound
<1>18. HeldIsOwned(s) => HeldIsOwned(q)
  <2>1. ASSUME HeldIsOwned(s), NEW x \in HeldSlots(q), x \notin QueuedSlots(q)
        PROVE  q.latch[x[2]].to = "Remote" /\ q.latch[x[2]].ep = x[1]
    <3>1. /\ s.latch[x[2]].to = "Remote" /\ s.latch[x[2]].ep = x[1]
          /\ x[2] \in Keys /\ x = <<x[1], x[2]>> /\ x \notin new
      BY <1>9, <1>12, <2>1 DEF HeldIsOwned, HeldSlots, Slots
    <3> QED
      BY <1>8, <3>1 DEF latch
  <2> QED
    BY <2>1 DEF HeldIsOwned
<1>19. Slots \subseteq A => HeldIsOwned(q)
  BY <1>9, <1>13 DEF HeldIsOwned, HeldSlots
<1>20. ASSUME Slots \subseteq A PROVE \A k \in Keys : q.latch[k].to # "Remote"
  BY <1>14, <1>20 DEF Weak, RemoteLatchIsHeld, new, HeldSlots
<1>21. FailsafeReleasesAll(s) => FailsafeReleasesAll(q)
  BY <1>8, <1>14 DEF FailsafeReleasesAll
<1> QED
  BY <1>7, <1>8, <1>13, <1>15, <1>16, <1>17, <1>18, <1>19, <1>20, <1>21 DEF Weak, q

-----------------------------------------------------------------------------
(* Releases that are sent *)

\* A set of naturals that is not empty has a least element.
LEMMA Least ==
    ASSUME NEW T, T \subseteq Nat, T # {}
    PROVE  \E m \in T : \A k \in T : m <= k
<1>1. PICK m \in T : \A k \in T : ~(<<k, m>> \in OpToRel(<, Nat))
  BY NatLessThanWellFounded, WFMin, Zenon
<1>2. \A k \in T : ~(k < m)
  BY <1>1 DEF OpToRel
<1> QED
  BY <1>2

\* The number of releases the drain can send exists.
LEMMA SendableCountExists ==
    ASSUME NEW s \in HostStates
    PROVE  /\ SendableCount(s) \in 0..Len(s.cleanup)
           /\ \A i \in 1..SendableCount(s) : Sendable(s, i)
<1> DEFINE n == Len(s.cleanup)
           Bad == {i \in 1..n : ~Sendable(s, i)}
           P(m) == /\ \A i \in 1..m : Sendable(s, i)
                   /\ m < n => ~Sendable(s, m + 1)
<1>1. n \in Nat
  BY Types
<1>2. \E m \in 0..n : P(m)
  <2>1. CASE Bad = {}
    BY <1>1, <2>1
  <2>2. CASE Bad # {}
    <3>0. Bad \subseteq Nat
      BY <1>1
    <3>1. PICK b \in Bad : \A k \in Bad : b <= k
      BY <2>2, <3>0, Least, Zenon
    <3>2. b - 1 \in 0..n /\ (b - 1) + 1 = b /\ \A i \in 1..(b - 1) : i \in 1..n /\ i < b
      BY <1>1, <3>1
    <3>3. \A i \in 1..(b - 1) : Sendable(s, i)
      BY <1>1, <3>1, <3>2
    <3>4. ~Sendable(s, (b - 1) + 1)
      BY <3>1, <3>2
    <3> QED
      BY <3>2, <3>3, <3>4
  <2> QED
    BY <2>1, <2>2
<1>3. SendableCount(s) = CHOOSE m \in 0..n : P(m)
  BY Zenon DEF SendableCount
<1> HIDE DEF P
<1>4. SendableCount(s) \in 0..n /\ P(SendableCount(s))
  BY <1>2, <1>3, SMTT(30)
<1> QED
  BY <1>4 DEF P

\* Releases that enter the FIFO leave the ledger together with what they release.
LEMMA SentKeeps ==
    ASSUME NEW s, Weak(s), NEW n \in 0..Len(s.cleanup), \A i \in 1..n : Sendable(s, i)
    PROVE  LET t == Sent(s, n)
           IN /\ Weak(t)
              /\ HeldIsOwned(s) => HeldIsOwned(t)
              /\ FailsafeReleasesAll(s) => FailsafeReleasesAll(t)
              /\ QueuedSlots(t) \subseteq QueuedSlots(s) /\ HeldSlots(t) \subseteq HeldSlots(s)
              /\ HeldSlots(t) \cap QueuedSlots(s) \subseteq QueuedSlots(t)
              /\ \A x \in HeldSlots(t) : t.held[x] = s.held[x]
              /\ t.latch = s.latch /\ t.ep = s.ep /\ t.drain = s.drain /\ t.staged = s.staged
              /\ t.candidate = s.candidate /\ t.routes = s.routes /\ t.ok = s.ok
              /\ t.ready = s.ready /\ t.running = s.running
<1> DEFINE t == Sent(s, n)
           m == Len(s.cleanup)
           cleanup == SubSeq(s.cleanup, n + 1, m)
           held == [x \in Slots |-> IF \E i \in 1..n : s.cleanup[i].slot = x THEN NotHeld ELSE s.held[x]]
           fifo == s.fifo \o [i \in 1..n |-> [kind |-> "Cleanup", seq |-> s.seq + i - 1,
                                              key |-> s.cleanup[i].slot[2]]]
           seq == s.seq + n
<1>1. /\ s \in HostStates /\ s.held \in [Slots -> HeldStates] /\ s.latch \in [Keys -> Latches]
      /\ s.cleanup \in Seq(CleanupEntries) /\ m \in Nat /\ DOMAIN s.cleanup = 1..m
      /\ s.fifo \in Seq(Frames) /\ s.seq \in 1..MaxSeq /\ n \in Nat /\ n <= m
  BY Types, SMTT(30) DEF Weak
<1>2. t = [[[[s EXCEPT !.cleanup = cleanup] EXCEPT !.held = held] EXCEPT !.fifo = fifo] EXCEPT !.seq = seq]
  BY <1>1 DEF Sent
<1>3. /\ cleanup \in Seq(CleanupEntries) /\ DOMAIN cleanup = 1..(m - n)
      /\ \A i \in 1..(m - n) : cleanup[i] = s.cleanup[n + i]
  <2>1. \A i \in (n + 1)..m : s.cleanup[i] \in CleanupEntries
    BY <1>1
  <2>2. /\ cleanup \in Seq(CleanupEntries)
        /\ Len(cleanup) = IF n + 1 <= m THEN m - (n + 1) + 1 ELSE 0
        /\ \A i \in 1..(m - (n + 1) + 1) : cleanup[i] = s.cleanup[(n + 1) + i - 1]
    BY <1>1, <2>1, SubSeqProperties
  <2> HIDE DEF cleanup
  <2> QED
    BY <1>1, <2>2
<1>4. held \in [Slots -> HeldStates]
  BY <1>1, CoreAssumption DEF HeldStates, NotHeld, RouteKinds
<1>5. fifo \in Seq(Frames)
  <2> DEFINE more == [i \in 1..n |-> [kind |-> "Cleanup", seq |-> s.seq + i - 1,
                                      key |-> s.cleanup[i].slot[2]]]
  <2>1. ASSUME NEW i \in 1..n
        PROVE  s.seq + i - 1 \in SeqNumbers /\ s.cleanup[i].slot[2] \in Keys
    <3>1. s.cleanup[i] \in CleanupEntries /\ s.seq + i <= MaxSeq
      BY <1>1 DEF Sendable
    <3>2. s.cleanup[i].slot[2] \in Keys
      BY <3>1 DEF CleanupEntries, Slots
    <3> QED
      BY <1>1, <3>1, <3>2, CoreAssumption DEF SeqNumbers
  <2>2. more \in [1..n -> Frames]
    BY <2>1 DEF Frames
  <2>3. more \in Seq(Frames)
    BY <1>1, <2>2
  <2> HIDE DEF more
  <2>4. s.fifo \o more \in Seq(Frames)
    BY <1>1, <2>3
  <2> QED
    BY <2>4 DEF more
<1>6. seq \in SeqNumbers
  <2>1. CASE n = 0
    BY <1>1, <2>1 DEF SeqNumbers
  <2>2. CASE n # 0
    <3>1. n \in 1..n
      BY <1>1, <2>2
    <3>2. s.seq + n <= MaxSeq
      BY <3>1 DEF Sendable
    <3> QED
      BY <1>1, <3>2, CoreAssumption DEF SeqNumbers
  <2> QED
    BY <2>1, <2>2
<1> HIDE DEF cleanup, held, fifo, seq, t
<1>7. t \in HostStates
  BY <1>1, <1>2, <1>3, <1>4, <1>5, <1>6, FieldTypes, Zenon
<1>8. /\ t.cleanup = cleanup /\ t.held = held
      /\ t.latch = s.latch /\ t.ep = s.ep /\ t.drain = s.drain /\ t.staged = s.staged
      /\ t.candidate = s.candidate /\ t.routes = s.routes /\ t.ok = s.ok
      /\ t.ready = s.ready /\ t.running = s.running
  BY <1>1, <1>2
<1>9. /\ \A i \in 1..(m - n) : n + i \in 1..m /\ n + i > n
      /\ \A i \in 1..m : i \notin 1..n => i - n \in 1..(m - n) /\ n + (i - n) = i
  BY <1>1
<1>10. \A x \in Slots : /\ x \in HeldSlots(t) => x \in HeldSlots(s) /\ held[x] = s.held[x]
                        /\ x \in HeldSlots(t) <=> x \in HeldSlots(s) /\ ~\E i \in 1..n : s.cleanup[i].slot = x
  BY <1>8 DEF HeldSlots, held, NotHeld
<1>11. /\ QueuedSlots(t) \subseteq QueuedSlots(s)
       /\ \A i \in 1..m : i \notin 1..n => s.cleanup[i].slot \in QueuedSlots(t)
  <2>1. ASSUME NEW i \in 1..(m - n) PROVE cleanup[i].slot \in QueuedSlots(s)
    BY <1>1, <1>3, <1>9 DEF QueuedSlots
  <2>2. ASSUME NEW i \in 1..m, i \notin 1..n PROVE s.cleanup[i].slot \in QueuedSlots(t)
    <3>1. PICK j \in 1..(m - n) : n + j = i
      BY <1>9, <2>2
    <3>2. cleanup[j] = s.cleanup[i]
      BY <1>3, <3>1
    <3> QED
      BY <1>3, <1>8, <3>1, <3>2 DEF QueuedSlots
  <2> QED
    BY <1>3, <1>8, <2>1, <2>2 DEF QueuedSlots
<1>12. HeldSlots(t) \subseteq HeldSlots(s)
  BY <1>10 DEF HeldSlots
<1>13. QueuedIsHeld(t)
  <2>1. ASSUME NEW i \in 1..(m - n)
        PROVE  /\ cleanup[i].slot \in HeldSlots(t)
               /\ cleanup[i].covered = held[cleanup[i].slot].seq
    <3>1. PICK j \in 1..m : j > n /\ cleanup[i] = s.cleanup[j]
      BY <1>3, <1>9
    <3>2. /\ s.cleanup[j].slot \in HeldSlots(s) /\ s.cleanup[j].covered = s.held[s.cleanup[j].slot].seq
          /\ \A l \in 1..n : s.cleanup[l].slot # s.cleanup[j].slot
      <4>1. j \in DOMAIN s.cleanup /\ \A l \in 1..n : l \in DOMAIN s.cleanup /\ l # j
        BY <1>1, <3>1
      <4> QED
        BY <4>1 DEF Weak, QueuedIsHeld
    <3> QED
      BY <1>10, <3>1, <3>2 DEF HeldSlots
  <2>2. ASSUME NEW i \in 1..(m - n), NEW j \in 1..(m - n), cleanup[i].slot = cleanup[j].slot
        PROVE  i = j
    <3>1. n + i = n + j
      BY <1>1, <1>3, <1>9, <2>2, ZenonT(30) DEF Weak, QueuedIsHeld
    <3> QED
      BY <1>1, <3>1
  <2> QED
    BY <1>3, <1>8, <2>1, <2>2 DEF QueuedIsHeld
<1>14. RemoteLatchIsHeld(t)
  <2>1. ASSUME NEW k \in Keys, s.latch[k].to = "Remote"
        PROVE  s.latch[k].ep = s.ep /\ <<s.ep, k>> \in HeldSlots(t) \ QueuedSlots(t)
    <3>1. s.latch[k].ep = s.ep /\ <<s.ep, k>> \in HeldSlots(s) \ QueuedSlots(s)
      BY <2>1 DEF Weak, RemoteLatchIsHeld
    <3>2. \A i \in 1..n : s.cleanup[i].slot \in QueuedSlots(s)
      BY <1>1 DEF QueuedSlots
    <3> QED
      BY <1>10, <1>11, <3>1, <3>2 DEF HeldSlots
  <2> QED
    BY <1>8, <2>1 DEF RemoteLatchIsHeld
<1>15. OneEndpoint(t) /\ (~t.staged => t.candidate = t.routes)
  BY <1>8, <1>12 DEF Weak, OneEndpoint
<1>16. HeldBound(t)
  <2>1. HeldSlots(s) \subseteq Slots
    BY DEF HeldSlots
  <2>2. Cardinality(HeldSlots(t)) <= Cardinality(HeldSlots(s))
    BY <1>12, <2>1, SlotsFinite, FS_Subset
  <2> QED
    BY <1>12, <2>1, <2>2, SlotsFinite, CoreAssumption DEF Weak, HeldBound
<1>17. HeldIsOwned(s) => HeldIsOwned(t)
  <2>1. ASSUME HeldIsOwned(s), NEW x \in HeldSlots(t)
        PROVE  x \in QueuedSlots(t) \/ (t.latch[x[2]].to = "Remote" /\ t.latch[x[2]].ep = x[1])
    <3>1. x \in HeldSlots(s) /\ ~\E i \in 1..n : s.cleanup[i].slot = x
      BY <1>10 DEF HeldSlots
    <3>2. CASE x \in QueuedSlots(s)
      <4>1. PICK i \in 1..m : s.cleanup[i].slot = x
        BY <1>1, <3>2 DEF QueuedSlots
      <4> QED
        BY <1>11, <3>1, <4>1
    <3> QED
      BY <1>8, <2>1, <3>1, <3>2 DEF HeldIsOwned
  <2> QED
    BY <2>1 DEF HeldIsOwned
<1>18. FailsafeReleasesAll(s) => FailsafeReleasesAll(t)
  BY <1>8 DEF FailsafeReleasesAll
<1>19. \A x \in HeldSlots(t) : t.held[x] = s.held[x]
  BY <1>8, <1>10 DEF HeldSlots
<1>20. ASSUME NEW x \in HeldSlots(t) \cap QueuedSlots(s) PROVE x \in QueuedSlots(t)
  <2>1. PICK i \in 1..m : s.cleanup[i].slot = x
    BY <1>1, SMTT(30) DEF QueuedSlots
  <2>2. i \notin 1..n
    BY <1>10, <2>1 DEF HeldSlots
  <2> QED
    BY <1>11, <2>1, <2>2
<1> QED
  BY <1>7, <1>8, <1>11, <1>12, <1>13, <1>14, <1>15, <1>16, <1>17, <1>18, <1>19, <1>20 DEF Weak, t

-----------------------------------------------------------------------------
(* drain_remote_cleanup *)

\* The drain keeps the ledger, and afterwards no release waits while routing is
\* published: what could not be sent has closed the gate.
LEMMA DrainKeeps ==
    ASSUME NEW s, Weak(s)
    PROVE  LET d == drain_remote_cleanup(s)
           IN /\ Keeps(s, d) /\ Weak(d) /\ ReleasesGateRouting(d)
              /\ HeldIsOwned(s) => HeldIsOwned(d)
              /\ d.ok => QueuedSlots(d) = {} /\ HeldSlots(d) \cap QueuedSlots(s) = {}
              /\ \A x \in HeldSlots(d) : x \in HeldSlots(s) /\ d.held[x] = s.held[x]
              /\ d.latch = s.latch /\ d.ep = s.ep /\ d.drain = s.drain /\ d.staged = s.staged
              /\ d.candidate = s.candidate /\ d.routes = s.routes /\ d.running = s.running
              /\ (d.ok => s.ok) /\ (d.ready => s.ready)
<1> DEFINE n == SendableCount(s)
           t == Sent(s, n)
           d == drain_remote_cleanup(s)
<1>1. s \in HostStates
  BY DEF Weak
<1>2. n \in 0..Len(s.cleanup) /\ \A i \in 1..n : Sendable(s, i)
  BY <1>1, SendableCountExists
<1> HIDE DEF n
<1>3. /\ Weak(t)
      /\ HeldIsOwned(s) => HeldIsOwned(t)
      /\ FailsafeReleasesAll(s) => FailsafeReleasesAll(t)
      /\ QueuedSlots(t) \subseteq QueuedSlots(s) /\ HeldSlots(t) \subseteq HeldSlots(s)
      /\ HeldSlots(t) \cap QueuedSlots(s) \subseteq QueuedSlots(t)
      /\ \A x \in HeldSlots(t) : t.held[x] = s.held[x]
      /\ t.latch = s.latch /\ t.ep = s.ep /\ t.drain = s.drain /\ t.staged = s.staged
      /\ t.candidate = s.candidate /\ t.routes = s.routes /\ t.ok = s.ok
      /\ t.ready = s.ready /\ t.running = s.running
  BY <1>2, SentKeeps, SMTT(30)
<1>4. d = Drained(t)
  BY SMTT(30) DEF drain_remote_cleanup, n
<1> HIDE DEF t, d
<1>5. (Safe(s) => Safe(t)) /\ t \in HostStates
  BY <1>3 DEF Weak, Safe
<1>6. CASE ~cleanup_pending(t)
  <2>1. d = t /\ t.cleanup = <<>>
    BY <1>4, <1>6 DEF Drained, cleanup_pending
  <2>2. QueuedSlots(t) = {} /\ ReleasesGateRouting(t)
    BY <2>1, SMTT(30) DEF QueuedSlots, ReleasesGateRouting
  <2>3. Keeps(s, t)
    BY <1>3, <1>5, <2>2 DEF Keeps
  <2> QED
    BY <1>3, <2>1, <2>2, <2>3 DEF d
<1>7. CASE cleanup_pending(t)
  <2> DEFINE seq == IF t.cleanup[1].slot[1] = t.auth /\ t.seq < MaxSeq THEN t.seq + 1 ELSE t.seq
  <2>1. t \in HostStates /\ t.seq \in 1..MaxSeq
    BY <1>3, Types DEF Weak
  <2>2. seq \in SeqNumbers
    BY <2>1, CoreAssumption DEF SeqNumbers
  <2>3. d = [[[[[t EXCEPT !.ready = FALSE] EXCEPT !.active = "local"] EXCEPT !.handoff = FALSE]
               EXCEPT !.seq = seq] EXCEPT !.ok = FALSE]
    BY <1>4, <1>7, <2>1 DEF Drained, SendFailed, Fail, Gated
  <2> HIDE DEF seq
  <2>4. d \in HostStates
    BY <2>1, <2>2, <2>3, FieldTypes, ZenonT(30) DEF Hosts
  <2>5. SameLedger(t, d) /\ ~d.ok /\ ~d.ready
    BY <2>1, <2>3, SMTT(30) DEF SameLedger
  <2>6. Weak(d) /\ (Safe(t) => Safe(d)) /\ ReleasesGateRouting(d)
    BY <1>3, <2>4, <2>5, FrameKeeps DEF Keeps, ReleasesGateRouting
  <2>7. /\ HeldSlots(d) = HeldSlots(t) /\ d.held = t.held /\ d.running = s.running
        /\ HeldIsOwned(t) => HeldIsOwned(d)
    BY <1>3, <2>1, <2>3, <2>5, SMTT(30) DEF HeldSlots, SameLedger, HeldIsOwned, QueuedSlots
  <2>8. Keeps(s, d)
    BY <1>5, <2>4, <2>6, SMTT(30) DEF Keeps
  <2> QED
    BY <1>3, <2>5, <2>6, <2>7, <2>8 DEF SameLedger, d
<1> QED
  BY <1>6, <1>7

=============================================================================
