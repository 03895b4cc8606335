---------------------------- MODULE PeerSchedule ----------------------------
(***************************************************************************)
(* What the peer manager keeps for one paired peer (ManagedPeerState of    *)
(* peer_manager.rs): the connection generation gate of connection_role.rs,  *)
(* the task slot, the dial candidates and the reconnect backoff, and the    *)
(* entry points that move them.                                             *)
(*                                                                          *)
(* A generation and the stream it was allocated for are one number; 0 is    *)
(* none.  wait is the number of ticks until retry_not_before; delay is what  *)
(* next_delay returns next, kept instead of the number of attempts.         *)
(***************************************************************************)
EXTENDS Naturals, FiniteSets

CONSTANTS InitialDelay, MaximumDelay,  \* ReconnectPolicy, in ticks
          MaxCandidates                \* maximum_candidates_per_peer

ASSUME ScheduleAssumption ==
    /\ {InitialDelay, MaximumDelay, MaxCandidates} \subseteq Nat \ {0}
    /\ InitialDelay <= MaximumDelay

\* ConnectionRole::for_peers: the lower identity dials.
for_peers(local, remote) == IF local < remote THEN "Dialer" ELSE "Listener"

direction(role) == IF role = "Dialer" THEN "Outbound" ELSE "Inbound"

Idle == [kind |-> "Idle", id |-> 0]
Connecting(c) == [kind |-> "Connecting", id |-> c]
Session(g) == [kind |-> "Session", id |-> g]

\* PeerManager::new and attach_workspace_control.
NewPeer(role, candidates) ==
    [role |-> role, pending |-> 0, active |-> 0, slot |-> Idle, sender |-> 0,
     candidates |-> candidates, cursor |-> 0, delay |-> InitialDelay, wait |-> 0,
     unsettled |-> FALSE, revoked |-> FALSE]

-----------------------------------------------------------------------------
\* reconnect.rs

\* next_delay doubles the delay with every attempt, up to the maximum.
Doubled(delay) == IF 2 * delay > MaximumDelay THEN MaximumDelay ELSE 2 * delay

\* Only a host that dials reads its backoff again.
next_delay(p) ==
    IF p.role = "Listener" THEN p
    ELSE [p EXCEPT !.wait = p.delay, !.delay = Doubled(p.delay)]

schedule_retry(p) == IF p.revoked THEN p ELSE next_delay(p)


schedule_connect_failure(p) ==
    next_delay([p EXCEPT !.slot = Idle,
                      !.cursor = IF p.candidates = {} THEN @
                                 ELSE (@ + 1) % Cardinality(p.candidates)])

FreeSlot(p) == schedule_retry([p EXCEPT !.slot = Idle])

-----------------------------------------------------------------------------
\* ConnectionGenerationGate

CanBegin(p, dir) == dir = direction(p.role) /\ p.pending = 0 /\ p.active = 0 /\ ~p.revoked

begin_pending(p, g) == [p EXCEPT !.pending = g]
gate_activate(p) == [p EXCEPT !.active = p.pending, !.pending = 0]
abandon_pending(p) == [p EXCEPT !.pending = 0]
finish_active(p) == [p EXCEPT !.active = 0, !.unsettled = FALSE]

-----------------------------------------------------------------------------
\* Candidates

\* replace_candidates, for a snapshot it does not refuse as a whole.
replace_candidates(p, addresses) ==
    [p EXCEPT !.candidates = addresses,
              !.cursor = IF addresses = {} THEN 0 ELSE @ % Cardinality(addresses)]

CanReplaceSelected(p) == ~p.revoked /\ p.role = "Dialer" /\ p.slot = Idle /\ p.active = 0

replace_selected_outbound_candidate(p, address) ==
    [p EXCEPT !.candidates = {address}, !.cursor = 0]

-----------------------------------------------------------------------------
\* Dialling and accepting

CanPoll(p) ==
    /\ ~p.revoked /\ p.role = "Dialer" /\ p.slot = Idle
    /\ p.candidates # {} /\ p.wait = 0

\* BTreeSet::iter().nth(cursor): there is none past the end.
HasAddress(p) == p.cursor < Cardinality(p.candidates)
Address(p) == CHOOSE a \in p.candidates : Cardinality({b \in p.candidates : b < a}) = p.cursor

poll_outbound(p, c) == [p EXCEPT !.slot = Connecting(c)]

outbound_connected(p, c) == [begin_pending(p, c) EXCEPT !.slot = Session(c)]

CanAccept(p) == ~p.revoked /\ p.role = "Listener" /\ p.slot = Idle

inbound_accepted(p, c) == [begin_pending(p, c) EXCEPT !.slot = Session(c)]

\* install_prepared_session: the sender of an older session is dropped.
install_prepared_session(p, c) == [p EXCEPT !.sender = c]

cancel_established(p) == FreeSlot(abandon_pending(p))

-----------------------------------------------------------------------------
\* The events of a session, and its end.

\* Mutant: the slot is not compared with the generation of the event.
OwnsAny(p, c) == p.slot.kind = "Session"

Owns(p, c) == p.slot = Session(c)

\* handle_bound_event, Activated; settle_bound_event_result resets the
\* backoff.  Activation can fail, and then leaves no generation behind.
Activated(p, works) ==
    IF works THEN [gate_activate(p) EXCEPT !.delay = InitialDelay, !.wait = 0]
    ELSE FreeSlot(finish_active(gate_activate(p)))

Cancelled(p) == FreeSlot(abandon_pending(p))

\* reconcile_transport_lost_with_workspace: what fails is kept, unsettled.
TransportLost(p, settles) ==
    IF settles THEN FreeSlot(finish_active(p)) ELSE [p EXCEPT !.unsettled = TRUE]

\* reconcile_fatal_with_workspace, called by the capture callback or by an
\* event that could not be applied.
Retired(p) == FreeSlot(finish_active(p))

connection_task_lost(p, c, settles) ==
    IF ~Owns(p, c) THEN p
    ELSE IF p.active = c THEN TransportLost(p, settles)
    ELSE IF p.pending = c THEN FreeSlot(abandon_pending(p))
    ELSE p

\* Mutant: the pending generation survives.
revokeKeepsPending(p, settles) ==
    LET q == [p EXCEPT !.revoked = TRUE, !.candidates = {}]
    IN  IF q.active = 0 THEN [q EXCEPT !.slot = IF q.pending = 0 THEN Idle ELSE @]
        ELSE IF settles THEN [finish_active(q) EXCEPT !.slot = Idle] ELSE q

\* revoke, and shutdown, which does it to every peer: a generation whose
\* cleanup fails keeps its slot.
revoke(p, settles) ==
    LET q == [p EXCEPT !.revoked = TRUE, !.candidates = {}, !.pending = 0]
    IN  IF q.active = 0 THEN [q EXCEPT !.slot = Idle]
        ELSE IF settles THEN [finish_active(q) EXCEPT !.slot = Idle] ELSE q
=============================================================================
