---------------------------- MODULE NearbyPairing ----------------------------
(***************************************************************************)
(* NearbyDiscovery of nearby.rs: one control panel's end of the pairing      *)
(* dialogue and of the exchange of display maps, over UDP datagrams.         *)
(*                                                                          *)
(* A panel is a record.  Its fields st, id and age are the PairingSession    *)
(* (age 1: CONFIRM_RETRY_AFTER has passed since `created`, age 2: also       *)
(* PAIRING_EXPIRES_AFTER), done is completed_bundle, mapIn and ackIn what     *)
(* arrived and was not taken, mapOut and ackOut what is advertised, and      *)
(* `out` the datagrams the current operation sends.  There is one other      *)
(* computer, so peer ids, addresses and cards need no names.                 *)
(***************************************************************************)
EXTENDS Naturals, SequencesExt

CONSTANTS Hosts,    \* the two computers
          Rank      \* the lexical order of their peer ids

Maps == {1, 2}
NoMap == [n |-> 0, map |-> 0]

Sessions == {"None", "OutgoingRequested", "IncomingRequested", "IncomingAccepted",
             "OutgoingAccepted", "OutgoingConfirmed"}

Packet(kind, n, map) == [kind |-> kind, n |-> n, map |-> map]
Send(p, packet) == [p EXCEPT !.out = Append(@, packet)]

\* start: the discovery half of a panel that has just been opened.
NoDialogue == [st |-> "None", id |-> 0, age |-> 0, done |-> FALSE, mapIn |-> NoMap,
               ackIn |-> 0, mapOut |-> NoMap, ackOut |-> 0, out |-> <<>>]

Session(p, st, id) == [p EXCEPT !.st = st, !.id = id]
NoSession(p) == [p EXCEPT !.st = "None", !.id = 0, !.age = 0]

-----------------------------------------------------------------------------
\* Retries.  `due` is the throttle of the resends, `seen` a fresh record of
\* the other computer's beacon.

\* Both lifetimes count from the moment the request was made or arrived.
expired(p) == p.age >= IF p.st = "OutgoingConfirmed" THEN 1 ELSE 2

RetryOf(st) ==
    CASE st = "OutgoingRequested" -> {"Request"}
      [] st = "IncomingAccepted"  -> {"Accept"}
      [] st = "OutgoingConfirmed" -> {"Confirm"}
      [] OTHER                    -> {}

retry_pairing_packet(p, due) ==
    IF p.st # "None" /\ expired(p) THEN NoSession(p)
    ELSE IF due /\ RetryOf(p.st) # {}
    THEN Send(p, Packet(CHOOSE k \in RetryOf(p.st) : TRUE, p.id, 0))
    ELSE p

retry_workspace_packet(p, due, seen) ==
    IF p.mapOut.n = 0 \/ ~due \/ ~seen THEN p
    ELSE Send(p, Packet("WorkspaceLayout", p.mapOut.n, p.mapOut.map))

retry_workspace_ack_packet(p, due, seen) ==
    IF p.ackOut = 0 \/ ~due \/ ~seen THEN p
    ELSE Send(p, Packet("WorkspaceLayoutAck", p.ackOut, 0))

\* Mutant: a map and its acknowledgement are sent once.
refreshPairingOnly(p, due, seen) == retry_pairing_packet(p, due)

refresh(p, due, seen) ==
    retry_workspace_ack_packet(
        retry_workspace_packet(retry_pairing_packet(p, due), due, seen), due, seen)

\* A map that is already advertised waits for its retry.
publish_workspace_layout(p, layout, seen) ==
    IF p.mapOut = layout THEN p
    ELSE retry_workspace_packet([p EXCEPT !.mapOut = layout], TRUE, seen)

\* The signature is part of the comparison and no two signatures are the
\* same: every call is a change, and is sent.
publish_workspace_ack(p, n, seen) ==
    retry_workspace_ack_packet([p EXCEPT !.ackOut = n], TRUE, seen)

-----------------------------------------------------------------------------
\* handle_pairing_packet.

\* The lexical tie-break between two requests that cross.
MayReplace(h, p) ==
    \/ p.st = "None"
    \/ p.st = "OutgoingRequested" /\ \A g \in Hosts \ {h} : Rank[h] > Rank[g]

handle_pairing_request(h, p, k, seen, configured) ==
    IF seen /\ ~configured /\ MayReplace(h, p)
    THEN [Session(p, "IncomingRequested", k.n) EXCEPT !.age = 0] ELSE p

handle_pairing_accept(p, k) ==
    IF p.st = "OutgoingRequested" /\ p.id = k.n
    THEN Session(p, "OutgoingAccepted", k.n) ELSE p

\* Mutant: a confirmation completes a request nobody accepted here.
handle_pairing_confirmEarly(p, k) ==
    IF p.st \in {"IncomingRequested", "IncomingAccepted"} /\ p.id = k.n
    THEN [NoSession(p) EXCEPT !.done = TRUE] ELSE p

handle_pairing_confirm(p, k) ==
    IF p.st = "IncomingAccepted" /\ p.id = k.n
    THEN [NoSession(p) EXCEPT !.done = TRUE] ELSE p

handle_pairing_decline(p, k) ==
    IF p.st # "None" /\ p.id = k.n THEN NoSession(p) ELSE p

handle_workspace_layout(p, k, seen) ==
    IF seen /\ k.n > p.mapIn.n THEN [p EXCEPT !.mapIn = [n |-> k.n, map |-> k.map]] ELSE p

handle_workspace_ack(p, k, seen) ==
    IF seen /\ k.n >= p.ackIn THEN [p EXCEPT !.ackIn = k.n] ELSE p

handle_pairing_packet(h, p, k, seen, configured) ==
    CASE k.kind = "Request"            -> handle_pairing_request(h, p, k, seen, configured)
      [] k.kind = "Accept"             -> handle_pairing_accept(p, k)
      [] k.kind = "Confirm"            -> handle_pairing_confirm(p, k)
      [] k.kind = "Decline"            -> handle_pairing_decline(p, k)
      [] k.kind = "WorkspaceLayout"    -> handle_workspace_layout(p, k, seen)
      [] k.kind = "WorkspaceLayoutAck" -> handle_workspace_ack(p, k, seen)

\* snapshot: everything that has arrived, in order.
drain(h, p, packets, seen, configured) ==
    FoldLeft(LAMBDA q, k : handle_pairing_packet(h, q, k, seen, configured), p, packets)

\* pairing_snapshot, after the drain.
pairing_snapshot(p) == IF p.st # "None" /\ expired(p) THEN NoSession(p) ELSE p

-----------------------------------------------------------------------------
\* What the user's commands do here.

request_pairing(p, id) ==
    [Send(Session(p, "OutgoingRequested", id), Packet("Request", id, 0)) EXCEPT !.age = 0]

accept_pairing(p) ==
    Send(Session(p, "IncomingAccepted", p.id), Packet("Accept", p.id, 0))

confirm_pairing(p) ==
    Send(Session(p, "OutgoingConfirmed", p.id), Packet("Confirm", p.id, 0))

decline_pairing(p) == NoSession(Send(p, Packet("Decline", p.id, 0)))

clear_pairing(p) ==
    [(IF p.st = "None" THEN p ELSE decline_pairing(p))
        EXCEPT !.done = FALSE, !.mapIn = NoMap, !.ackIn = 0, !.mapOut = NoMap, !.ackOut = 0]
=============================================================================
