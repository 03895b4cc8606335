--------------------------- MODULE DiagnosticsRelay ---------------------------
(***************************************************************************)
(* The log of the follower's runtime on the leader's panel, in debug builds: *)
(* the follower signs a batch with its stream and sequence and repeats it     *)
(* until there is another, the leader's discovery keeps one batch, and each    *)
(* snapshot of the leader's panel takes it.  Packets are lost, repeated and    *)
(* reordered, and a panel that starts again begins a stream.  A log is a       *)
(* number that grows; the signature of an honest peer verifies.                *)
(***************************************************************************)
EXTENDS Naturals

CONSTANTS MaxLog,        \* bound: growths of the log
          MaxStreams,    \* bound: starts of the follower's panel
          MaxForgotten   \* bound: pairings forgotten and made again

VARIABLES devlog,      \* the log of the follower's runtime
          sender,      \* DiagnosticRelayState, as the follower uses it
          advertised,  \* diagnostic_advertised
          packets,     \* packets on the way: any may arrive, again or never
          incoming,    \* incoming_diagnostic
          shown,       \* DiagnosticRelayState, as the leader uses it
          forgotten

relayVars == <<devlog, sender, advertised, packets, incoming, shown, forgotten>>

NoBatch == [stream |-> 0, sequence |-> 0, log |-> 0]
NewRelay(stream) == [stream |-> stream, next |-> 1, last |-> 0]

RelayInit ==
    /\ devlog = 0 /\ sender = NewRelay(1) /\ advertised = NoBatch /\ packets = {}
    /\ incoming = NoBatch /\ shown = NoBatch /\ forgotten = 0

LogGrows ==
    /\ devlog < MaxLog /\ devlog' = devlog + 1
    /\ UNCHANGED <<sender, advertised, packets, incoming, shown, forgotten>>

\* A log that has not changed is not published again.
publish_diagnostic_batch(batch) == /\ advertised' = batch /\ packets' = packets \union {batch}
publish_developer_diagnostics ==
    /\ sender.last # devlog
    /\ publish_diagnostic_batch([stream |-> sender.stream, sequence |-> sender.next, log |-> devlog])
    /\ sender' = [sender EXCEPT !.last = devlog, !.next = @ + 1]
    /\ UNCHANGED <<devlog, incoming, shown, forgotten>>

retry_diagnostic_packet ==
    /\ advertised # NoBatch /\ packets' = packets \union {advertised}
    /\ UNCHANGED <<devlog, sender, advertised, incoming, shown, forgotten>>

FollowerRestarts ==
    /\ sender.stream < MaxStreams
    /\ sender' = NewRelay(sender.stream + 1) /\ advertised' = NoBatch
    /\ UNCHANGED <<devlog, packets, incoming, shown, forgotten>>

handle_diagnostic_batch(b, again) ==
    /\ packets' = IF again THEN packets ELSE packets \ {b}
    /\ incoming' = IF \/ incoming = NoBatch \/ incoming.stream # b.stream
                      \/ b.sequence >= incoming.sequence
                   THEN b ELSE incoming
    /\ UNCHANGED <<devlog, sender, advertised, shown, forgotten>>

Shows(b) == b.stream # shown.stream \/ b.sequence > shown.sequence

receive_developer_diagnostics ==
    /\ incoming # NoBatch /\ incoming' = NoBatch
    /\ shown' = IF Shows(incoming) THEN incoming ELSE shown
    /\ UNCHANGED <<devlog, sender, advertised, packets, forgotten>>

\* clear_pairing on both computers; the leader, unassigned, clears what it
\* shows, and the follower keeps its stream.
PairingForgotten ==
    /\ forgotten < MaxForgotten /\ forgotten' = forgotten + 1
    /\ advertised' = NoBatch /\ incoming' = NoBatch /\ shown' = NoBatch
    /\ UNCHANGED <<devlog, sender, packets>>

RelayNext ==
    \/ LogGrows \/ publish_developer_diagnostics \/ retry_diagnostic_packet \/ FollowerRestarts
    \/ receive_developer_diagnostics \/ PairingForgotten
    \/ \E b \in packets, again \in BOOLEAN : handle_diagnostic_batch(b, again)

RelayTypeOK == /\ shown.log <= MaxLog /\ shown.stream <= MaxStreams
               /\ shown.sequence < sender.next \/ shown.stream # sender.stream

-----------------------------------------------------------------------------
\* As long as the leader shows one stream of a pairing, the log it shows only
\* grows, although packets are repeated and overtake one another
\* (handle_diagnostic_batch, receive_developer_diagnostics).
LogOnlyGrows ==
    [][shown'.stream = shown.stream => shown'.log >= shown.log]_relayVars
=============================================================================
