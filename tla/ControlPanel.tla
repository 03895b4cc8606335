----------------------------- MODULE ControlPanel -----------------------------
(***************************************************************************)
(* SetupService of setup.rs on the two computers: pairing, the display map   *)
(* the pairing leader draws and the follower adopts, the files the runtime   *)
(* is started from, and the runtime process.                                 *)
(*                                                                          *)
(* The commands of one panel run one after the other (they share the window  *)
(* thread), and each ends with the same snapshot that the window's poll      *)
(* takes; a command is therefore one step.  A datagram is lost, or waits     *)
(* until the other panel's next snapshot reads it.                           *)
(***************************************************************************)
EXTENDS NearbyPairing

CONSTANTS NetCap,       \* datagrams a socket buffers
          MaxRequests,  \* pairing requests made
          MaxRevision,  \* display maps saved under one pairing
          MaxFaults     \* losses, restarts, delays and changes of mind

ASSUME PanelAssumption == {NetCap, MaxRequests, MaxRevision, MaxFaults} \subseteq Nat

VARIABLES panel,   \* panel[h]: stored setup, files, discovery and runtime
          net,     \* net[h]: datagrams on their way to h
          made,    \* requests made
          spent    \* faults so far

panelVars == <<panel, net, made, spent>>

Other(h) == CHOOSE g \in Hosts : g # h
DefaultMap == 1
Cards == {"Peer", "Stranger"}   \* whose pairing card is stored

\* A pasted card that is damaged, our own, or not of a supported computer is
\* refused before anything is written.
Pasted == Cards \union {"Invalid"}
validate_peer_bundle(card) == card # "Invalid"

\* StoredSetup; trust and files are TRUST_FILE and CONFIG_FILE with
\* PROFILE_FILE; stop is CONTROL_FILE; agreed records, for the properties,
\* that this user accepted, confirmed or pasted a card since the last refusal.
NewSetup == [peer |-> "None", role |-> "Unassigned", rev |-> 0, acked |-> 0, map |-> 0,
             configured |-> FALSE, validated |-> FALSE, trust |-> "None", files |-> 0,
             pending |-> NoMap, running |-> FALSE, stop |-> FALSE, agreed |-> FALSE]

PanelInit ==
    /\ panel = [h \in Hosts |-> NoDialogue @@ NewSetup]
    /\ net = [h \in Hosts |-> <<>>]
    /\ made = 0
    /\ spent = 0

\* The type of the state.  Between two commands nothing is left to send and
\* no completed pairing waits: every snapshot takes it (SetupService::snapshot).
PanelTypeOK ==
    /\ \A h \in Hosts :
        LET p == panel[h] IN
        /\ p.st \in Sessions /\ p.id \in 0 .. MaxRequests /\ p.age \in 0 .. 2
        /\ p.mapIn.n \in 0 .. MaxRevision /\ p.mapOut.n \in 0 .. MaxRevision
        /\ p.ackIn \in 0 .. MaxRevision /\ p.ackOut \in 0 .. MaxRevision
        /\ p.out = <<>> /\ ~p.done
        /\ p.peer \in Cards \union {"None"} /\ p.trust \in Cards \union {"None"}
        /\ p.role \in {"Unassigned", "Leader", "Follower"}
        /\ p.rev \in 0 .. MaxRevision /\ p.acked \in 0 .. p.rev
        /\ p.map \in Maps \union {0} /\ p.files \in Maps \union {0}
        /\ Len(net[h]) <= NetCap
    /\ made \in 0 .. MaxRequests
    /\ spent \in 0 .. MaxFaults

-----------------------------------------------------------------------------
\* The stored setup.

\* Err leaves the trust file of the new card behind.
install_peer_bundle(p, card, role) ==
    IF p.peer # "None" THEN [p EXCEPT !.trust = card]
    ELSE [p EXCEPT !.trust = card, !.peer = card, !.map = 0, !.role = role, !.rev = 0,
                   !.acked = 0, !.configured = FALSE, !.validated = FALSE]

\* Without a map of its own the panel writes the default arrangement.
MapInUse(p) == IF p.map = 0 THEN DefaultMap ELSE p.map

write_setup_configuration(p) ==
    [p EXCEPT !.files = MapInUse(p), !.configured = TRUE, !.validated = FALSE]

workspace_sync_state(p) ==
    CASE ~p.configured -> "NotConfigured"
      [] p.configured /\ p.role = "Unassigned" -> "Manual"
      [] p.configured /\ p.role = "Follower" -> IF p.rev > 0 THEN "Confirmed" ELSE "Waiting"
      [] p.configured /\ p.role = "Leader" ->
            IF p.rev > 0 /\ p.acked = p.rev THEN "Confirmed" ELSE "Waiting"

workspace_is_synchronized(p) == workspace_sync_state(p) \in {"Manual", "Confirmed"}

\* kvm_runtime::prepare reads the files and compares the pinned certificate.
prepare(p) == p.configured /\ p.trust = p.peer

-----------------------------------------------------------------------------
\* synchronize_workspace.

\* What the other computer signs verifies under its own stored card only; the
\* two hosts, the revision and the map are part of what is signed.
verify_peer_signature(p) == p.peer = "Peer"

apply_workspace_ack(p) ==
    [p EXCEPT !.ackIn = 0,
              !.acked = IF /\ p.role = "Leader" /\ verify_peer_signature(p)
                           /\ p.ackIn = p.rev /\ p.ackIn # 0 THEN p.ackIn ELSE @]

verify_incoming_workspace(p, update) ==
    verify_peer_signature(p) /\ p.role = "Follower" /\ update.n > p.rev

TakeLayout(p) ==
    [p EXCEPT !.mapIn = NoMap,
              !.pending = IF p.mapIn.n # 0 /\ verify_incoming_workspace(p, p.mapIn)
                          THEN p.mapIn ELSE @]

apply_workspace_layout(p, update, fits) ==
    IF ~verify_incoming_workspace(p, update) \/ ~fits THEN p
    ELSE write_setup_configuration([p EXCEPT !.map = update.map, !.rev = update.n])

\* Mutant: the map is applied under the running runtime.
ApplyPendingAnyway(p, fits) ==
    IF p.pending.n = 0 THEN p
    ELSE apply_workspace_layout([p EXCEPT !.pending = NoMap], p.pending, fits)

\* A running runtime is asked to stop first; fits: the map covers the displays
\* this computer has now.
ApplyPending(p, fits) ==
    IF p.pending.n = 0 THEN p
    ELSE IF p.running THEN [p EXCEPT !.stop = TRUE]
    ELSE apply_workspace_layout([p EXCEPT !.pending = NoMap], p.pending, fits)

\* What is signed, and sent.
sign_workspace_layout(p) == [n |-> p.rev, map |-> p.map]
sign_workspace_ack(p) == p.rev

Publish(p, seen) ==
    CASE p.configured /\ p.rev > 0 /\ p.role = "Leader" ->
            publish_workspace_layout(p, sign_workspace_layout(p), seen)
      [] p.configured /\ p.rev > 0 /\ p.role = "Follower" ->
            publish_workspace_ack(p, sign_workspace_ack(p), seen)
      [] OTHER -> p

\* An acknowledgement that finds no peer fails the whole snapshot.
synchronize_workspace(p, seen, fits) ==
    IF p.ackIn # 0 /\ p.peer = "None" THEN [p EXCEPT !.ackIn = 0]
    ELSE Publish(ApplyPending(TakeLayout(apply_workspace_ack(p)), fits), seen)

Complete(p) ==
    IF p.done /\ p.peer = "None" THEN install_peer_bundle([p EXCEPT !.done = FALSE], "Peer", "Follower")
    ELSE [p EXCEPT !.done = FALSE]

snapshot(h, p, packets, w) ==
    synchronize_workspace(
        pairing_snapshot(Complete(drain(h, refresh(p, w.due, w.seen), packets, w.seen,
                                        p.peer # "None"))), w.seen, w.fits)

\* The conditions a snapshot meets: a resend is due, the other computer's
\* beacon is fresh, a new map covers the displays; one without the last two
\* is a fault.  What a command has just sent is not due in its own snapshot.
Fine == [due |-> TRUE, seen |-> TRUE, fits |-> TRUE]
Soon == [Fine EXCEPT !.due = FALSE]
Weather == {Fine, Soon, [Fine EXCEPT !.seen = FALSE], [Fine EXCEPT !.fits = FALSE]}

\* What does not fit the receiver's buffer is lost.
Deliver(h, packets) == SubSeq(net[h] \o packets, 1, IF Len(net[h] \o packets) < NetCap
                                                   THEN Len(net[h] \o packets) ELSE NetCap)

\* The end of every command: the snapshot, with what it reads and sends.
Finish(h, p, w) ==
    LET q == snapshot(h, p, net[h], w) IN
    /\ panel' = [panel EXCEPT ![h] = [q EXCEPT !.out = <<>>]]
    /\ net' = [net EXCEPT ![h] = <<>>, ![Other(h)] = Deliver(Other(h), q.out)]

Costs(n) == spent + n <= MaxFaults /\ spent' = spent + n
Free == UNCHANGED spent
ensure_runtime_stopped(h) == ~panel[h].running

-----------------------------------------------------------------------------
\* The commands.

setup_status(h, w) ==
    /\ Finish(h, panel[h], w)
    /\ Costs(IF w.seen /\ w.fits THEN 0 ELSE 1)
    /\ UNCHANGED made

request_nearby_pairing(h) ==
    /\ ensure_runtime_stopped(h)
    /\ panel[h].peer = "None" /\ panel[h].st = "None"
    /\ made < MaxRequests
    /\ made' = made + 1
    /\ Finish(h, request_pairing(panel[h], made + 1), Soon)
    /\ Free

accept_nearby_pairing(h) ==
    /\ ensure_runtime_stopped(h)
    /\ panel[h].peer = "None" /\ panel[h].st = "IncomingRequested"
    /\ Finish(h, [accept_pairing(panel[h]) EXCEPT !.agreed = TRUE], Soon)
    /\ Free
    /\ UNCHANGED made

confirm_nearby_pairing(h) ==
    /\ ensure_runtime_stopped(h)
    /\ panel[h].peer = "None" /\ panel[h].st = "OutgoingAccepted"
    /\ Finish(h, install_peer_bundle([confirm_pairing(panel[h]) EXCEPT !.agreed = TRUE],
                                     "Peer", "Leader"), Soon)
    /\ Free
    /\ UNCHANGED made

decline_nearby_pairing(h) ==
    /\ ensure_runtime_stopped(h)
    /\ panel[h].st # "None"
    /\ Finish(h, [decline_pairing(panel[h]) EXCEPT !.agreed = @ /\ panel[h].peer # "None"], Soon)
    /\ Costs(1)
    /\ UNCHANGED made

import_peer_bundle(h, card) ==
    /\ ensure_runtime_stopped(h)
    /\ validate_peer_bundle(card)
    /\ IF panel[h].peer = "None"
       THEN Finish(h, install_peer_bundle([panel[h] EXCEPT !.agreed = TRUE], card, "Unassigned"), Soon)
       ELSE /\ panel' = [panel EXCEPT ![h] = install_peer_bundle(@, card, "Unassigned")]
            /\ UNCHANGED net
    /\ Costs(2)
    /\ UNCHANGED made

forget_paired_computer(h) ==
    /\ ensure_runtime_stopped(h)
    /\ panel[h].peer # "None"
    /\ Finish(h, clear_pairing([panel[h] EXCEPT !.peer = "None", !.role = "Unassigned", !.map = 0,
                                  !.rev = 0, !.acked = 0, !.configured = FALSE,
                                  !.validated = FALSE, !.trust = "None", !.files = 0,
                                  !.agreed = FALSE]), Soon)
    /\ Costs(1)
    /\ UNCHANGED made

\* create_local_identity with a new name or address.
create_local_identity(h) ==
    /\ ensure_runtime_stopped(h)
    /\ Finish(h, [panel[h] EXCEPT !.configured = FALSE, !.validated = FALSE], Soon)
    /\ Costs(2)
    /\ UNCHANGED made

SaveMap(p, map) ==
    write_setup_configuration(
        IF p.role = "Leader" /\ map # p.map
        THEN [p EXCEPT !.map = map, !.rev = @ + 1, !.acked = 0] ELSE [p EXCEPT !.map = map])

finalize_setup(h, map) ==
    /\ ensure_runtime_stopped(h)
    /\ panel[h].role # "Follower" /\ panel[h].peer # "None"
    /\ SaveMap(panel[h], map).rev <= MaxRevision
    /\ Finish(h, SaveMap(panel[h], map), Soon)
    /\ Free
    /\ UNCHANGED made

\* A failed prepare returns before the snapshot.
Validated(h, p) ==
    IF prepare(p) THEN Finish(h, [p EXCEPT !.validated = TRUE], Soon)
    ELSE panel' = [panel EXCEPT ![h] = p] /\ UNCHANGED net

repair_lan_binding(h) ==
    /\ ensure_runtime_stopped(h)
    /\ panel[h].peer # "None"
    /\ Validated(h, write_setup_configuration(panel[h]))
    /\ Costs(2)
    /\ UNCHANGED made

validate_setup(h) ==
    /\ ensure_runtime_stopped(h)
    /\ Validated(h, panel[h])
    /\ Free
    /\ UNCHANGED made

start_runtime(h) ==
    /\ ensure_runtime_stopped(h)
    /\ panel[h].validated /\ workspace_is_synchronized(panel[h])
    /\ LET p == write_setup_configuration(panel[h]) IN
       IF prepare(p)
       THEN Finish(h, [p EXCEPT !.validated = TRUE, !.stop = FALSE, !.running = TRUE], Soon)
       ELSE panel' = [panel EXCEPT ![h] = p] /\ UNCHANGED net
    /\ Costs(1)
    /\ UNCHANGED made

\* The command waits for the process; the wait may be in vain.
stop_runtime(h) ==
    /\ panel[h].running
    /\ \/ Finish(h, [panel[h] EXCEPT !.stop = TRUE, !.running = FALSE], Soon)
       \/ panel' = [panel EXCEPT ![h].stop = TRUE] /\ UNCHANGED net
    /\ Free
    /\ UNCHANGED made

-----------------------------------------------------------------------------
\* The environment.

RuntimeEnds(h) ==
    /\ panel[h].running
    /\ IF panel[h].stop THEN Free ELSE Costs(1)
    /\ panel' = [panel EXCEPT ![h].running = FALSE]
    /\ UNCHANGED <<net, made>>

\* open: the setup is read back; the dialogue and the pending map are gone.
PanelRestarts(h) ==
    /\ Costs(1)
    /\ panel' = [panel EXCEPT ![h] = NoDialogue @@ [@ EXCEPT !.pending = NoMap,
                                                            !.agreed = panel[h].peer # "None"]]
    /\ net' = [net EXCEPT ![h] = <<>>]
    /\ UNCHANGED made

TimePasses(h) ==
    /\ panel[h].st # "None" /\ panel[h].age < 2
    /\ Costs(1)
    /\ panel' = [panel EXCEPT ![h].age = @ + 1]
    /\ UNCHANGED <<net, made>>

Loses(h, i) ==
    /\ Costs(1)
    /\ net' = [net EXCEPT ![h] = RemoveAt(@, i)]
    /\ UNCHANGED <<panel, made>>

PanelNext ==
    \E h \in Hosts :
        \/ \E w \in Weather : setup_status(h, w)
        \/ request_nearby_pairing(h)
        \/ accept_nearby_pairing(h)
        \/ confirm_nearby_pairing(h)
        \/ decline_nearby_pairing(h)
        \/ forget_paired_computer(h)
        \/ create_local_identity(h)
        \/ repair_lan_binding(h)
        \/ validate_setup(h)
        \/ start_runtime(h)
        \/ stop_runtime(h)
        \/ \E card \in Pasted : import_peer_bundle(h, card)
        \/ \E map \in Maps : finalize_setup(h, map)
        \/ RuntimeEnds(h)
        \/ PanelRestarts(h)
        \/ TimePasses(h)
        \/ \E i \in DOMAIN net[h] : Loses(h, i)

PanelSpec == PanelInit /\ [][PanelNext]_panelVars

\* The window polls for as long as it is open, a beacon and a resend are due
\* every two seconds, and a runtime obeys the control file.  This is weak
\* fairness of setup_status(h, Fine) and of RuntimeEnds(h), with ENABLED
\* written out.
PollIdle(h) ==
    LET q == snapshot(h, panel[h], net[h], Fine) IN
    /\ net[h] = <<>>
    /\ Deliver(Other(h), q.out) = net[Other(h)]
    /\ [q EXCEPT !.out = <<>>] = panel[h]

PanelLive ==
    /\ PanelSpec
    /\ \A h \in Hosts : /\ []<>PollIdle(h) \/ []<><<setup_status(h, Fine)>>_panelVars
                        /\ []<>~(panel[h].running /\ panel[h].stop)

-----------------------------------------------------------------------------
Mutual(h) == panel[h].peer = "Peer" /\ panel[Other(h)].peer = "Peer"

\* OneLeader: two computers that are paired with each other never both lead,
\* and never both follow, however requests cross, answers are lost and pairings are
\* forgotten and made again (confirm_nearby_pairing, handle_pairing_request).
OneLeader ==
    \A h \in Hosts : Mutual(h) /\ panel[h].role # "Unassigned" => panel[Other(h)].role # panel[h].role

\* ConfirmedMapIsHeld: a leader whose map counts as confirmed has a follower
\* that stores this very map under this revision (apply_workspace_ack), even
\* after both forgot each other and revisions started again.
ConfirmedMapIsHeld ==
    \A h \in Hosts :
        (/\ Mutual(h) /\ panel[h].role = "Leader" /\ panel[Other(h)].role = "Follower"
         /\ panel[h].rev > 0 /\ panel[h].acked = panel[h].rev)
        => panel[Other(h)].map = panel[h].map /\ panel[Other(h)].rev = panel[h].rev

\* PeerOnlyByConsent: no computer is trusted that the user has not accepted,
\* confirmed or pasted since the user last refused, forgot or lost the
\* dialogue: a late confirmation completes nothing (handle_pairing_confirm,
\* take_completed_bundle, clear_pairing).
PeerOnlyByConsent == \A h \in Hosts : panel[h].peer # "None" => panel[h].agreed

\* RunsItsMap: the files of a running runtime hold the map its panel shows,
\* and were validated: a map that arrives meanwhile waits for the runtime to
\* stop (synchronize_workspace, start_runtime).
RunsItsMap ==
    \A h \in Hosts : panel[h].running =>
        panel[h].files = MapInUse(panel[h]) /\ panel[h].validated

\* Two panels that are paired have agreed to it, on one leader.
PairingAgreed == PanelTypeOK /\ OneLeader /\ PeerOnlyByConsent

\* The map shown as confirmed or as running is the one that is.
MapsAgree == ConfirmedMapIsHeld /\ RunsItsMap

Leads(h) == /\ Mutual(h) /\ panel[h].role = "Leader" /\ panel[Other(h)].role = "Follower"
            /\ panel[h].configured /\ panel[h].rev > 0

\* MapReachesFollower: a map the leader saved is confirmed in the end, through
\* lost datagrams, restarts and a follower whose runtime has to stop first.
MapReachesFollower ==
    \A h \in Hosts : Leads(h) ~> (~Leads(h) \/ panel[h].acked = panel[h].rev)
=============================================================================
