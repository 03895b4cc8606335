---------------------------- MODULE PointerHandoff ----------------------------
(***************************************************************************)
(* The pointer handoff coordinator of one host (CoordinatorCore in         *)
(* crates/kvm-daemon/src/pointer_handoff.rs): who has the pointer, the     *)
(* transition this host proposed, and the one its peer proposed.           *)
(*                                                                         *)
(* Every operation is a function of the coordinator's state c.  c.ok is    *)
(* FALSE when it returned an error, c.effect is the message it asks to     *)
(* send, c.out the messages the session's queue has accepted.              *)
(*                                                                         *)
(* A transition is its number and the epoch of the workspace it was        *)
(* resolved in: displays, edges and positions follow from these on both    *)
(* hosts.  "due" says that the deadline of the pending transition has      *)
(* passed when the operation reads the clock.  Pending and remembered      *)
(* transitions carry their session in the code; all of them are forgotten  *)
(* when the session changes, so the model keeps only the coordinator's.    *)
(***************************************************************************)
EXTENDS Integers, Sequences

CONSTANTS
    Hosts,      \* the two hosts of a session
    MaxGen,     \* sessions are numbered 1..MaxGen
    MaxId,      \* the last transition number (u64::MAX in the code)
    MaxRevision \* display inventories and layouts are numbered 1..MaxRevision

ASSUME HandoffAssumption ==
    /\ {MaxGen, MaxId, MaxRevision} \subseteq Nat \ {0}
    /\ \E a, b \in Hosts : a # b /\ Hosts = {a, b}

Other(h) == CHOOSE g \in Hosts : g # h

-----------------------------------------------------------------------------
(* State *)

Ids == 0..MaxId
Revisions == 0..MaxRevision

\* The protocol epoch is a digest of what was compiled: both hosts' displays
\* (0 when unknown) and the configured layout.
Epochs == [shows : [Hosts -> Revisions], layout : Revisions]
NoEpoch == [shows |-> [h \in Hosts |-> 0], layout |-> 0]

OutboundPhase == {"None", "LeaveQueued", "EnterQueued", "AwaitingAck", "CommitQueued",
                  "CommitDispatching"}
PendingInbound == {"None", "Hint", "Proposal", "Prepared"}
Outcomes == {"None", "Accepted", "Rejected", "StaleWorkspaceEpoch", "NotAuthoritative"}

Idle == [phase |-> "None", id |-> 0, epoch |-> NoEpoch]

PointerControlMessage ==
    [type : {"Leave", "Enter", "Ack", "Commit"}, id : Ids, epoch : Epochs, outcome : Outcomes]
Message(type, t) == [type |-> type, id |-> t.id, epoch |-> t.epoch, outcome |-> "None"]
make_ack(m, outcome) == [type |-> "Ack", id |-> m.id, epoch |-> m.epoch, outcome |-> outcome]

\* What is remembered of a finished transition (number 0: of none): how it was
\* acknowledged, whether its leave is known, whether it was committed.
Finished ==
    [id : Ids, epoch : Epochs, outcome : Outcomes, leave : BOOLEAN, commit : BOOLEAN]
Nothing ==
    [id |-> 0, epoch |-> NoEpoch, outcome |-> "None", leave |-> FALSE, commit |-> FALSE]

NoEffect == [purpose |-> "None", message |-> Message("Leave", Idle)]

CoordinatorCore(c) ==
    /\ c.host \in Hosts /\ c.running \in BOOLEAN /\ c.healthy \in BOOLEAN /\ c.session \in 0..MaxGen
    /\ c.epoch \in Epochs /\ c.active \in Hosts
    /\ c.last_outbound \in Ids /\ c.last_inbound \in Ids
    /\ c.outbound.phase \in OutboundPhase /\ c.outbound.id \in Ids
    /\ c.inbound.phase \in PendingInbound /\ c.inbound.id \in Ids
    /\ {c.completed_outbound, c.completed_inbound, c.expired_inbound} \subseteq Finished
    /\ c.effect = NoEffect /\ c.out = <<>> /\ c.ok

\* Whatever an operation asked to send has been sent or has failed.
AtRest(c) ==
    /\ c.outbound.phase \in {"None", "AwaitingAck"}
    /\ c.inbound.phase \in {"None", "Hint", "Prepared"}
    /\ c.reply = NoEffect

Fail(c) == [c EXCEPT !.ok = FALSE]
AndThen(c, Op(_)) == IF c.ok THEN Op(c) ELSE c

-----------------------------------------------------------------------------
(* Authority, session and clock *)

has_local_authority(c) == c.active = c.host /\ c.outbound.phase # "CommitDispatching"

fail_local(c) == [c EXCEPT !.active = c.host]

clear_transition_state(c) ==
    [c EXCEPT !.outbound = Idle, !.inbound = Idle, !.completed_outbound = Nothing,
              !.completed_inbound = Nothing, !.expired_inbound = Nothing, !.reply = NoEffect]

BackToLocal(c) == clear_transition_state(fail_local(c))

require_available_session(c, g) == c.running /\ c.session = g /\ c.healthy

\* The sequences restart with the session, not with the workspace.
bind_session(c, g) ==
    IF c.session = g THEN c
    ELSE [(IF c.session # 0 THEN BackToLocal(c) ELSE c)
            EXCEPT !.session = g, !.healthy = TRUE, !.last_outbound = 0, !.last_inbound = 0]

mark_session_healthy(c) == [c EXCEPT !.healthy = TRUE]

\* Mutant: a session that ends leaves the pointer where it was.
disconnect_keeping_pointer(c) ==
    [clear_transition_state(c) EXCEPT !.session = 0, !.healthy = FALSE]

degrade_session(c) == [BackToLocal(c) EXCEPT !.healthy = FALSE]
disconnect_session(c) == [BackToLocal(c) EXCEPT !.session = 0, !.healthy = FALSE]
replace_workspace(c, epoch) == [BackToLocal(c) EXCEPT !.epoch = epoch]
shutdown(c) == [disconnect_session(c) EXCEPT !.running = FALSE]

\* Both hosts cannot have a transition pending at one coordinator, so one
\* deadline is enough.  A hint that expires uses up its number.
expire(c, due) ==
    IF ~due THEN c
    ELSE [(IF c.outbound.phase # "None" THEN fail_local(c) ELSE c)
            EXCEPT !.outbound = Idle, !.inbound = Idle, !.reply = NoEffect,
                   !.last_inbound = IF c.inbound.phase = "Hint" THEN c.inbound.id ELSE @,
                   !.expired_inbound =
                       IF c.inbound.phase = "None" THEN @
                       ELSE [Nothing EXCEPT !.id = c.inbound.id, !.epoch = c.inbound.epoch]]

-----------------------------------------------------------------------------
(* Proposing *)

\* A number is never used twice in a session.
next_outbound_sequence(c) ==
    IF c.last_outbound = MaxId THEN Fail(fail_local(c))
    ELSE [c EXCEPT !.last_outbound = @ + 1,
                   !.outbound = [phase |-> "LeaveQueued", id |-> c.last_outbound + 1,
                                 epoch |-> c.epoch]]

WithEffect(c, purpose, message) ==
    [c EXCEPT !.effect = [purpose |-> purpose, message |-> message]]

propose_leave(c, g) ==
    IF \/ ~require_available_session(c, g)
       \/ c.outbound.phase # "None" \/ c.inbound.phase # "None"
       \/ ~has_local_authority(c)
    THEN Fail(c)
    ELSE AndThen(next_outbound_sequence(c),
                 LAMBDA n : WithEffect(n, "Leave", Message("Leave", n.outbound)))

-----------------------------------------------------------------------------
(* Receiving *)

classify_inbound_sequence(c, id) ==
    CASE id = c.last_inbound     -> "Duplicate"
      [] id = c.last_inbound + 1 -> "Next"
      [] OTHER                   -> "Refused"

\* Nothing pending survives the last number.
RefuseSequence(c) == Fail(IF c.last_inbound = MaxId THEN clear_transition_state(c) ELSE c)

Same(t, m) == t.id = m.id /\ t.epoch = m.epoch

\* With two hosts the peer may always hand the pointer over, except while this
\* host's own commit is on its way to the queue.
validate_authority(c) == c.active = Other(c.host) \/ has_local_authority(c)

duplicate_leave(c, m) ==
    IF \/ c.inbound.phase # "None" /\ Same(c.inbound, m)
       \/ c.completed_inbound.leave /\ Same(c.completed_inbound, m)
       \/ Same(c.expired_inbound, m)
    THEN c ELSE Fail(c)

\* Mutant: a proposal that crosses this host's own is taken as well.
receive_leave_crossing(c, g, m) ==
    CASE ~require_available_session(c, g) \/ c.reply.purpose # "None" -> Fail(c)
      [] classify_inbound_sequence(c, m.id) = "Duplicate" -> duplicate_leave(c, m)
      [] classify_inbound_sequence(c, m.id) = "Refused"   -> RefuseSequence(c)
      [] c.inbound.phase # "None"  -> IF Same(c.inbound, m) THEN c ELSE Fail(c)
      [] m.epoch # c.epoch \/ ~validate_authority(c) -> Fail(c)
      [] OTHER -> [c EXCEPT !.inbound = [phase |-> "Hint", id |-> m.id, epoch |-> m.epoch]]

receive_leave(c, g, m) ==
    CASE ~require_available_session(c, g) \/ c.reply.purpose # "None" -> Fail(c)
      [] classify_inbound_sequence(c, m.id) = "Duplicate" -> duplicate_leave(c, m)
      [] classify_inbound_sequence(c, m.id) = "Refused"   -> RefuseSequence(c)
      [] c.outbound.phase # "None" -> Fail(c)
      [] c.inbound.phase # "None"  -> IF Same(c.inbound, m) THEN c ELSE Fail(c)
      [] m.epoch # c.epoch \/ ~validate_authority(c) -> Fail(c)
      [] OTHER -> [c EXCEPT !.inbound = [phase |-> "Hint", id |-> m.id, epoch |-> m.epoch]]

accept_enter(c, m) ==
    WithEffect([c EXCEPT !.last_inbound = m.id,
                         !.inbound = [phase |-> "Proposal", id |-> m.id, epoch |-> m.epoch]],
               "AcceptedAck", make_ack(m, "Accepted"))

WithReply(c, purpose, message) ==
    WithEffect([c EXCEPT !.reply = [purpose |-> purpose, message |-> message]], purpose, message)

\* A refused proposal also drops the one that was pending.
rejection_effect(c, m, outcome) ==
    WithReply([c EXCEPT !.last_inbound = m.id, !.inbound = Idle],
              "RejectedAck", make_ack(m, outcome))

duplicate_enter(c, m) ==
    CASE Same(c.expired_inbound, m) -> Fail(c)
      [] c.inbound.phase = "Prepared" /\ Same(c.inbound, m) ->
             WithReply(c, "DuplicateAcceptedAck", make_ack(m, "Accepted"))
      [] c.completed_inbound.id # 0 /\ Same(c.completed_inbound, m) ->
             WithReply(c, "DuplicateAcceptedAck", make_ack(m, c.completed_inbound.outcome))
      [] OTHER -> Fail(c)

\* A proposal with the next number.
new_enter(c, m) ==
    CASE c.outbound.phase # "None" -> rejection_effect(c, m, "Rejected")
      [] c.inbound.phase = "Hint" /\ Same(c.inbound, m) -> accept_enter(c, m)
      [] c.inbound.phase = "Proposal" /\ Same(c.inbound, m) -> Fail(c)
      [] c.inbound.phase # "None"  -> rejection_effect(c, m, "Rejected")
      [] m.epoch # c.epoch         -> rejection_effect(c, m, "StaleWorkspaceEpoch")
      [] ~validate_authority(c)    -> rejection_effect(c, m, "NotAuthoritative")
      [] OTHER -> accept_enter(c, m)

receive_enter(c, g, m) ==
    IF ~require_available_session(c, g) \/ c.reply.purpose # "None" THEN Fail(c)
    ELSE CASE classify_inbound_sequence(c, m.id) = "Duplicate" -> duplicate_enter(c, m)
           [] classify_inbound_sequence(c, m.id) = "Refused"   -> RefuseSequence(c)
           [] OTHER -> new_enter(c, m)

\* An acknowledgement that does not fit the proposal also ends it.
receive_ack(c, g, m) ==
    CASE ~require_available_session(c, g) -> Fail(c)
      [] c.completed_outbound.id = m.id ->
             IF Same(c.completed_outbound, m) /\ c.completed_outbound.outcome = m.outcome
             THEN c ELSE Fail(c)
      [] m.id # c.outbound.id \/ c.outbound.phase # "AwaitingAck" -> Fail(c)
      [] m.epoch # c.outbound.epoch -> Fail(fail_local([c EXCEPT !.outbound = Idle]))
      [] m.outcome # "Accepted" ->
             fail_local([c EXCEPT !.outbound = Idle,
                                  !.completed_outbound =
                                      [Nothing EXCEPT !.id = m.id, !.epoch = m.epoch,
                                                      !.outcome = m.outcome]])
      [] OTHER -> WithEffect([c EXCEPT !.outbound.phase = "CommitQueued"],
                             "Commit", Message("Commit", c.outbound))

\* The pointer arrives only with the commit of what this host prepared.
receive_commit(c, g, m) ==
    CASE ~require_available_session(c, g) -> Fail(c)
      [] c.completed_inbound.commit /\ c.completed_inbound.id = m.id ->
             IF Same(c.completed_inbound, m) THEN c ELSE Fail(c)
      [] c.inbound.phase # "Prepared" \/ ~Same(c.inbound, m) -> Fail(c)
      [] OTHER -> [c EXCEPT !.active = c.host, !.inbound = Idle,
                            !.completed_inbound =
                                [id |-> m.id, epoch |-> m.epoch, outcome |-> "Accepted",
                                 leave |-> TRUE, commit |-> TRUE]]

-----------------------------------------------------------------------------
(* Sending what an operation asked for *)

\* The effect still belongs to what is pending.
validate_effect_ready(c) ==
    LET m == c.effect.message
        Outbound(phase) == c.outbound.phase = phase /\ Same(c.outbound, m)
    IN CASE c.effect.purpose = "Leave"       -> Outbound("LeaveQueued")
         [] c.effect.purpose = "Enter"       -> Outbound("EnterQueued")
         [] c.effect.purpose = "Commit"      -> Outbound("CommitQueued")
         [] c.effect.purpose = "AcceptedAck" -> c.inbound.phase = "Proposal" /\ Same(c.inbound, m)
         [] OTHER                            -> c.reply = c.effect

begin_commit_dispatch(c) ==
    IF c.effect.purpose = "Commit" THEN [c EXCEPT !.outbound.phase = "CommitDispatching"] ELSE c

effect_failed(c) ==
    CASE c.effect.purpose \in {"Leave", "Enter", "Commit"} -> fail_local([c EXCEPT !.outbound = Idle])
      [] c.effect.purpose = "AcceptedAck" -> [c EXCEPT !.inbound = Idle]
      [] OTHER -> [c EXCEPT !.reply = NoEffect]

\* Mutant: the pointer leaves with the proposal.
leave_sent_giving(c) ==
    WithEffect([c EXCEPT !.active = Other(c.host), !.outbound.phase = "EnterQueued"],
               "Enter", Message("Enter", c.outbound))

leave_effect_sent(c) ==
    WithEffect([c EXCEPT !.outbound.phase = "EnterQueued"], "Enter", Message("Enter", c.outbound))

\* The source gives the pointer away once its commit is in the queue.
commit_effect_sent(c) ==
    [c EXCEPT !.active = Other(c.host), !.outbound = Idle,
              !.completed_outbound = [Nothing EXCEPT !.id = c.outbound.id,
                                                     !.epoch = c.outbound.epoch,
                                                     !.outcome = "Accepted"]]

reply_effect_sent(c) ==
    [c EXCEPT !.reply = NoEffect,
              !.completed_inbound =
                  IF c.reply.purpose # "RejectedAck" THEN @
                  ELSE [Nothing EXCEPT !.id = c.reply.message.id, !.epoch = c.reply.message.epoch,
                                       !.outcome = c.reply.message.outcome]]

effect_sent(c, purpose) ==
    CASE purpose = "Leave"       -> leave_effect_sent(c)
      [] purpose = "Enter"       -> [c EXCEPT !.outbound.phase = "AwaitingAck"]
      [] purpose = "AcceptedAck" -> [c EXCEPT !.inbound.phase = "Prepared"]
      [] purpose = "Commit"      -> commit_effect_sent(c)
      [] OTHER                   -> reply_effect_sent(c)

\* "room" is how many messages the queue still accepts during this operation.
dispatch_effect(c, room) ==
    IF ~validate_effect_ready(c) THEN Fail(c)
    ELSE IF Len(c.out) >= room THEN Fail(effect_failed(begin_commit_dispatch(c)))
    ELSE effect_sent([begin_commit_dispatch(c)
                        EXCEPT !.out = Append(@, c.effect.message), !.effect = NoEffect],
                     c.effect.purpose)

\* A leave is followed by its enter.
dispatch_pointer_effect(c, room) ==
    AndThen(dispatch_effect(c, room),
            LAMBDA d : IF d.effect.purpose = "None" THEN d ELSE dispatch_effect(d, room))

=============================================================================
