---------------------------- MODULE PointerSession ----------------------------
(***************************************************************************)
(* Two hosts hand the pointer to each other: on each the workspace control *)
(* plane (crates/kvm-daemon/src/workspace_control.rs) drives the handoff   *)
(* coordinator from the messages of the admitted session, the cursor, the  *)
(* lifecycle tick and changes of displays and layout.  An error of any of  *)
(* these ends the session on the host that met it (supervisor.rs).         *)
(*                                                                         *)
(* p[h] is host h, wire[h] what its transport still has to deliver to it,  *)
(* in order.  A host that ends its session closes the transport; the other *)
(* may still read what was sent before it notices.                         *)
(*                                                                         *)
(* What only delays a proposal is left out: the dwell at an edge and the   *)
(* portal that rearms when the cursor leaves it.  What goes wrong in the   *)
(* routing core or in the session's queue is the operation's "trouble".    *)
(***************************************************************************)
EXTENDS PointerHandoff, FiniteSetsExt

CONSTANT MaxFaults   \* how many disturbances a behaviour has

ASSUME FaultsAssumption == MaxFaults \in Nat

VARIABLES p, wire, link, gen, faults

vars == <<p, wire, link, gen, faults>>

WorkspaceControlPlane(c) ==
    /\ c.conn \in {"Idle", "Up", "Ending", "Done"} /\ c.generation \in 0..MaxGen
    /\ c.ready \in BOOLEAN /\ c.built \in BOOLEAN
    /\ c.shows \in [Hosts -> Revisions] /\ c.layout \in Revisions

Init ==
    /\ p = [h \in Hosts |->
              [host |-> h, running |-> TRUE, session |-> 0, healthy |-> FALSE, epoch |-> NoEpoch,
               active |-> h, last_outbound |-> 0, last_inbound |-> 0, outbound |-> Idle,
               inbound |-> Idle, completed_outbound |-> Nothing, completed_inbound |-> Nothing,
               expired_inbound |-> Nothing, reply |-> NoEffect,
               conn |-> "Idle", ready |-> FALSE, built |-> FALSE,
               shows |-> [g \in Hosts |-> IF g = h THEN 1 ELSE 0], layout |-> 1,
               generation |-> 0, effect |-> NoEffect, out |-> <<>>, ok |-> TRUE]]
    /\ wire = [h \in Hosts |-> <<>>]
    /\ link = "Down"
    /\ gen = 0
    /\ faults = 0

-----------------------------------------------------------------------------
(* The workspace control plane of one host *)

SnapshotOf(c) ==
    [type |-> "Snapshot", id |-> c.shows[c.host], epoch |-> NoEpoch, outcome |-> "None"]

\* The first thing that fails in an operation: a device update is under way,
\* routing cannot be gated, the new authority cannot be published, the queue
\* takes no message or only one.
Troubles == {"None", "Busy", "Refused", "Unpublished", "NoRoom", "OneRoom"}
Room(trouble) == CASE trouble = "NoRoom" -> 0 [] trouble = "OneRoom" -> 1 [] OTHER -> 2

Send(c, m, trouble) ==
    IF Len(c.out) < Room(trouble) THEN [c EXCEPT !.out = Append(@, m)] ELSE Fail(c)

\* The routing core takes the new authority, or the session is lost.
publish_pointer_workspace(c, trouble) == IF trouble = "Unpublished" THEN Fail(c) ELSE c

activate(c, g, trouble) ==
    Send([c EXCEPT !.conn = "Up", !.ready = FALSE, !.generation = g], SnapshotOf(c), trouble)

suspend_selected(c, trouble) ==
    IF trouble = "Refused" THEN Fail(c)
    ELSE publish_pointer_workspace(
             [(IF c.session # 0 THEN degrade_session(c) ELSE c) EXCEPT !.ready = FALSE], trouble)

\* The configured links name displays of both hosts.
recompile_selected(c) ==
    IF c.shows[Other(c.host)] = 0 THEN Fail(c)
    ELSE [mark_session_healthy(bind_session(
              replace_workspace(c, [shows |-> c.shows, layout |-> c.layout]), c.generation))
            EXCEPT !.ready = TRUE, !.built = TRUE]

\* A revision the inventory already has is refused.
apply_remote_snapshot(c, m) ==
    IF m.id <= c.shows[Other(c.host)] THEN Fail(c)
    ELSE recompile_selected([c EXCEPT !.shows[Other(c.host)] = m.id])

refresh_selected(c, trouble) ==
    AndThen(recompile_selected(c), LAMBDA r : Send(r, SnapshotOf(r), trouble))

\* A change that the inventory rejects announces the old displays again.
apply_local_display_snapshot(c, rejected, trouble) ==
    AndThen(suspend_selected(c, trouble),
            LAMBDA s : refresh_selected(IF rejected THEN s
                                        ELSE [s EXCEPT !.shows[s.host] = @ + 1], trouble))

\* A layout that does not compile puts the previous one back.
replace_topology(c, layout, trouble) ==
    IF ~c.ready THEN Fail(c)
    ELSE AndThen(suspend_selected(c, trouble),
                 LAMBDA s : IF layout = s.layout
                            THEN [mark_session_healthy(s) EXCEPT !.ready = TRUE]
                            ELSE recompile_selected([s EXCEPT !.layout = layout]))

cancel_handoff_for_failsafe(c, trouble) ==
    IF ~c.built THEN c
    ELSE IF c.session = 0 THEN Fail(c)
    ELSE publish_pointer_workspace(mark_session_healthy(degrade_session(c)), trouble)

\* Routing is gated before the queue is asked.
HandOver(c, trouble) ==
    IF trouble = "Refused" THEN Fail(c) ELSE dispatch_pointer_effect(c, Room(trouble))

propose_pointer_handoff(c, trouble) ==
    AndThen(propose_leave(c, c.generation), LAMBDA n : HandOver(n, trouble))

enter_received(c, m, trouble) ==
    AndThen(receive_enter(c, c.generation, m),
            LAMBDA e : IF e.effect.purpose = "AcceptedAck" THEN HandOver(e, trouble)
                       ELSE dispatch_pointer_effect(e, Room(trouble)))

ack_received(c, m, trouble) ==
    AndThen(receive_ack(c, c.generation, m),
            LAMBDA a : IF a.effect.purpose # "Commit" THEN a
                       ELSE AndThen(HandOver(a, trouble),
                                    LAMBDA d : publish_pointer_workspace(d, trouble)))

commit_received(c, m, trouble) ==
    AndThen(receive_commit(c, c.generation, m),
            LAMBDA a : publish_pointer_workspace(a, trouble))

pointer_message(c, m, trouble) ==
    CASE m.type = "Leave"  -> receive_leave(c, c.generation, m)
      [] m.type = "Enter"  -> enter_received(c, m, trouble)
      [] m.type = "Ack"    -> ack_received(c, m, trouble)
      [] m.type = "Commit" -> commit_received(c, m, trouble)

\* Pointer messages need a compiled workspace and no device update under way.
handle_message(c, m, due, trouble) ==
    IF m.type = "Snapshot"
    THEN AndThen(suspend_selected(c, trouble), LAMBDA s : apply_remote_snapshot(s, m))
    ELSE IF ~c.ready \/ trouble = "Busy" THEN Fail(c)
    ELSE pointer_message(expire(c, due), m, trouble)

\* The expiry of anything pending is an error.
poll_timeout(c) == Fail(expire(c, TRUE))

retire(c) == [disconnect_session(c) EXCEPT !.ready = FALSE, !.conn = "Done",
                                           !.shows[Other(c.host)] = 0]

-----------------------------------------------------------------------------
(* Steps *)

Rest(c) == [c EXCEPT !.effect = NoEffect, !.out = <<>>, !.ok = TRUE]

\* A step that disturbs n times.
Costs(n) == /\ faults + n <= MaxFaults
            /\ faults' = faults + n

\* What an operation of host h leaves behind; it is itself a disturbance when
\* cost is 1.  After an error the session ends at once, or, as another
\* disturbance, later: when its releases could not be queued.
Settle(h, c, rest, cost) ==
    /\ \/ Costs(cost) /\ p' = [p EXCEPT ![h] = Rest(IF c.ok THEN c ELSE retire(c))]
       \/ /\ ~c.ok /\ Costs(cost + 1)
          /\ p' = [p EXCEPT ![h] = Rest([c EXCEPT !.conn = "Ending"])]
    /\ wire' = [wire EXCEPT ![h] = IF c.ok THEN rest ELSE <<>>,
                            ![Other(h)] = IF link = "Open" THEN @ \o c.out ELSE @]
    /\ link' = IF c.ok THEN link ELSE "Closed"
    /\ UNCHANGED gen

\* Trouble counts where it makes a difference.
Troubled(h, c, rest, cost) == ~c.ok /\ Settle(h, c, rest, cost + 1)

Operation(h, Op(_), rest, cost) ==
    /\ faults + cost <= MaxFaults
    /\ \/ Settle(h, Op("None"), rest, cost)
       \/ /\ faults + cost < MaxFaults
          /\ \E trouble \in Troubles \ {"None"} : Troubled(h, Op(trouble), rest, cost)

Pending(c) == c.outbound.phase # "None" \/ c.inbound.phase # "None"
Dues(c) == IF Pending(c) THEN BOOLEAN ELSE {FALSE}

\* A connection both hosts agree on: each has only one slot for the other.
Establish ==
    /\ link # "Open" /\ \A h \in Hosts : p[h].conn \in {"Idle", "Done"} /\ p[h].running
    /\ gen' = (gen % MaxGen) + 1
    /\ link' = "Open"
    /\ wire' = [h \in Hosts |-> <<>>]
    /\ p' = [h \in Hosts |-> [p[h] EXCEPT !.conn = "Idle"]]
    /\ UNCHANGED faults

Activate(h) ==
    /\ link = "Open" /\ p[h].conn = "Idle"
    /\ Operation(h, LAMBDA t : activate(p[h], gen, t), wire[h], 0)

CanDeliver(h) == p[h].conn = "Up" /\ wire[h] # <<>>

Deliver(h) ==
    /\ CanDeliver(h)
    /\ \E due \in Dues(p[h]) :
          Operation(h, LAMBDA t : handle_message(p[h], Head(wire[h]), due, t), Tail(wire[h]), 0)

\* A message that arrives twice; the transport never does this.
Redeliver(h) ==
    /\ faults < MaxFaults
    /\ p[h].conn = "Up" /\ wire[h] # <<>> /\ Head(wire[h]).type # "Snapshot"
    /\ Settle(h, handle_message(p[h], Head(wire[h]), FALSE, "None"), wire[h], 1)

\* The cursor rests at a portal.
Propose(h) ==
    /\ p[h].conn \in {"Up", "Ending"} /\ p[h].ready /\ ~Pending(p[h])
    /\ has_local_authority(p[h])
    /\ Operation(h, LAMBDA t : propose_pointer_handoff(p[h], t), wire[h], 0)

CanPoll(h) == p[h].conn \in {"Up", "Ending"} /\ p[h].ready /\ Pending(p[h])

Poll(h) ==
    /\ CanPoll(h)
    /\ Settle(h, poll_timeout(p[h]), wire[h], 0)

LocalDisplays(h) ==
    \E rejected \in BOOLEAN :
        /\ rejected \/ p[h].shows[h] < MaxRevision
        /\ \/ /\ p[h].conn \in {"Up", "Ending"}
              /\ Operation(h, LAMBDA t : apply_local_display_snapshot(p[h], rejected, t),
                           wire[h], 1)
           \/ /\ p[h].conn \notin {"Up", "Ending"} /\ ~rejected
              /\ p' = [p EXCEPT ![h].shows[h] = @ + 1, ![h].ready = FALSE]
              /\ Costs(1)
              /\ UNCHANGED <<wire, link, gen>>

ReplaceLayout(h) ==
    /\ p[h].conn \in {"Up", "Ending"}
    /\ \E layout \in 1..MaxRevision :
          Operation(h, LAMBDA t : replace_topology(p[h], layout, t), wire[h], 1)

\* The emergency chord, on either host.
Failsafe(h) ==
    /\ p[h].conn = "Up"
    /\ Operation(h, LAMBDA t : cancel_handoff_for_failsafe(p[h], t), wire[h], 1)

\* Heartbeats are missing; when they return nothing is restored.
Degrade(h) ==
    /\ p[h].conn = "Up"
    /\ Operation(h, LAMBDA t : suspend_selected(p[h], t), wire[h], 1)

Break ==
    /\ link = "Open"
    /\ link' = "Closed"
    /\ Costs(1)
    /\ UNCHANGED <<p, wire, gen>>

CanNotice(h) == link = "Closed" /\ p[h].conn \in {"Up", "Ending"}

Notice(h) ==
    /\ CanNotice(h)
    /\ p' = [p EXCEPT ![h] = retire(p[h])]
    /\ wire' = [wire EXCEPT ![h] = <<>>]
    /\ UNCHANGED <<link, gen, faults>>

Shutdown(h) ==
    /\ p[h].running
    /\ p' = [p EXCEPT ![h] = shutdown(retire(p[h]))]
    /\ wire' = [wire EXCEPT ![h] = <<>>]
    /\ link' = "Closed"
    /\ Costs(1)
    /\ UNCHANGED gen

Next ==
    \/ Establish \/ Break
    \/ \E h \in Hosts :
          \/ Activate(h) \/ Deliver(h) \/ Redeliver(h) \/ Propose(h) \/ Poll(h)
          \/ LocalDisplays(h) \/ ReplaceLayout(h) \/ Failsafe(h) \/ Degrade(h)
          \/ Notice(h) \/ Shutdown(h)

Spec == Init /\ [][Next]_vars

\* The transport delivers, a closed transport is noticed, and a deadline passes
\* and is seen by the next lifecycle tick: weak fairness of the three actions,
\* with the conditions under which they are enabled written out.
Fairness ==
    \A h \in Hosts :
        /\ []<>~CanDeliver(h) \/ []<><<Deliver(h)>>_vars
        /\ []<>~CanNotice(h) \/ []<><<Notice(h)>>_vars
        /\ []<>~CanPoll(h) \/ []<><<Poll(h)>>_vars

LiveSpec == Spec /\ Fairness

-----------------------------------------------------------------------------
(* Properties *)

\* The types of the state; between two handlers of a live session no host has
\* an effect that was neither sent nor failed (dispatch_pointer_effect, a leave
\* with its enter).
TypeOK ==
    /\ \A h \in Hosts : CoordinatorCore(p[h]) /\ WorkspaceControlPlane(p[h])
    /\ \A h \in Hosts : p[h].conn = "Ending" \/ AtRest(p[h])
    /\ \A h \in Hosts : \A i \in DOMAIN wire[h] :
          wire[h][i] \in [type : {"Snapshot", "Leave", "Enter", "Ack", "Commit"},
                          id : Ids \cup Revisions, epoch : Epochs, outcome : Outcomes]
    /\ link \in {"Down", "Open", "Closed"} /\ gen \in 0..MaxGen /\ faults \in 0..MaxFaults

Bound(h) == p[h].conn = "Up" /\ p[h].session = gen
InFlight(h, type) == {wire[h][i].id : i \in {j \in DOMAIN wire[h] : wire[h][j].type = type}}
DualRemote == \A h \in Hosts : p[h].active # h

\* While the session lives, the two hosts never both send their pointer to the
\* other one, except while the commit that brings it back is under way: whoever
\* commits first, whatever crosses on the wire, expires, or is changed under a
\* pending handoff (receive_commit, commit_effect_sent, replace_workspace).
NoDualRemote == DualRemote => link # "Open" \/ \E h \in Hosts : InFlight(h, "Commit") # {}

\* Two proposals that cross never leave a host with both pending
\* (receive_leave, propose_leave).
OneTransition == \A h \in Hosts : p[h].outbound.phase = "None" \/ p[h].inbound.phase = "None"

\* Both hosts count the same proposals: what the peer has accepted or still has
\* to read is the last number this host used, across rejected, abandoned and
\* repeated proposals (classify_inbound_sequence, next_outbound_sequence).
SequencesAgree ==
    link = "Open" /\ (\A h \in Hosts : Bound(h)) =>
        \A h \in Hosts :
            p[h].last_outbound = Max({p[Other(h)].last_inbound} \cup InFlight(Other(h), "Enter"))

\* The two hosts agree on where the pointer is and on what is proposed.
SidesAgree == TypeOK /\ NoDualRemote /\ OneTransition /\ SequencesAgree

Token == INSTANCE PointerToken
             WITH away <- {h \in Hosts : p[h].active # h},
                  carried <- {h \in Hosts : InFlight(h, "Commit") # {}},
                  up <- link = "Open"

\* The two coordinators implement the one pointer of PointerToken.
TokenKept == Token!Spec

\* A pending handoff is committed, refused, or given up (expire, poll_timeout,
\* disconnect_session).
Resolves == \A h \in Hosts : Pending(p[h]) ~> ~Pending(p[h])

\* A pointer that is on neither host is back on one of them sooner or later
\* (receive_commit, fail_local).
PointerComesBack == DualRemote ~> ~DualRemote

\* Every handoff ends, and no pointer stays between the hosts.
HandoffsEnd == Resolves /\ PointerComesBack

=============================================================================
