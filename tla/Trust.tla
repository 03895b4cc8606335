-------------------------------- MODULE Trust --------------------------------
(***************************************************************************)
(* Who may connect, in kvm-security: the PairingSession of each of two       *)
(* computers, the allowlist the finished pairings are kept in, the resolver   *)
(* snapshot the TLS handshake asks, and PairedSessionAdmission, which asks     *)
(* the allowlist once more.  A snapshot is taken at one time and used at       *)
(* another.  A channel is the pair of credentials it was opened with; the       *)
(* approval of one user is told to the other computer on the channel, late,     *)
(* twice or never.                                                             *)
(***************************************************************************)
EXTENDS Naturals, Sequences, FiniteSets

CONSTANTS MaxChannels,   \* bound: channels opened for pairing
          MaxUpsets,     \* bound: refusals, revocations, new credentials and failures
          MaxAdmissions, \* bound: admitted connections of a computer
          Servers        \* the computers that are connected to

VARIABLES credential,  \* credential[c]: what computer c presents
          chans,       \* the channels, in the order they were opened
          side,        \* side[c]: the pairing session of c
          consent,     \* <<c, n>>: the user of c approved n, and c tells its mate
          refused,     \* for the properties: <<c, n>>, the user of c turned n down
          kept,        \* kept[c]: the allowlist of c, with the channel it is from
          by_fingerprint, \* by_fingerprint[c]: credentials the resolver knows
          hand,        \* hand[c]: the credential of a connection past TLS, or 0
          served, upsets

trustVars == <<credential, chans, side, consent, refused, kept, by_fingerprint, hand, served, upsets>>

Computers == {1, 2}
Mate(c) == 3 - c
NotKept == [key |-> 0, on |-> 0]

TrustInit ==
    /\ credential = [c \in Computers |-> 1] /\ chans = <<>>
    /\ side = [c \in Computers |-> [on |-> 0, state |-> "None"]]
    /\ consent = {} /\ refused = {}
    /\ kept = [c \in Computers |-> NotKept] /\ by_fingerprint = [c \in Computers |-> {}]
    /\ hand = [c \in Computers |-> 0] /\ served = [c \in Computers |-> 0] /\ upsets = 0

Upset == upsets < MaxUpsets /\ upsets' = upsets + 1

OpenChannel ==
    /\ Len(chans) < MaxChannels /\ chans' = Append(chans, credential)
    /\ UNCHANGED <<credential, side, consent, refused, kept, by_fingerprint, hand, served, upsets>>

-----------------------------------------------------------------------------
\* PairingSession.  An operation that answers TerminalState changes nothing.

\* The exporter sorts the two identities, so both ends of a channel get one code.
verification_code(c) == side[c].on

pairing_start(c) ==
    /\ side[c].on < Len(chans)
    /\ side' = [side EXCEPT ![c] = [on |-> Len(chans), state |-> "AwaitingBoth"]]
    /\ UNCHANGED <<credential, chans, consent, refused, kept, by_fingerprint, hand, served, upsets>>

\* Mutant: the approval of one user is enough.
approve_localAlone(s) ==
    CASE s \in {"AwaitingBoth", "AwaitingLocal"} -> "Complete" [] OTHER -> s

approve_local(s) ==
    CASE s = "AwaitingBoth" -> "AwaitingRemote" [] s = "AwaitingLocal" -> "Complete" [] OTHER -> s

approve_remote(s) ==
    CASE s = "AwaitingBoth" -> "AwaitingLocal" [] s = "AwaitingRemote" -> "Complete" [] OTHER -> s

Undecided == {"AwaitingBoth", "AwaitingLocal", "AwaitingRemote"}
report_verification_mismatch(s) == IF s \in Undecided THEN "VerificationFailed" ELSE s
cancel(s) == IF s \in Undecided THEN "Cancelled" ELSE s

\* The user sees the same code on both screens.
UserApproves(c) ==
    /\ side[c].on # 0 /\ verification_code(c) = verification_code(Mate(c))
    /\ side[c].state \in Undecided
    /\ side' = [side EXCEPT ![c].state = approve_local(@)]
    /\ consent' = consent \union {<<c, side[c].on>>}
    /\ UNCHANGED <<credential, chans, refused, kept, by_fingerprint, hand, served, upsets>>

RemoteApproval(c) ==
    /\ <<Mate(c), side[c].on>> \in consent
    /\ side' = [side EXCEPT ![c].state = approve_remote(@)]
    /\ UNCHANGED <<credential, chans, consent, refused, kept, by_fingerprint, hand, served, upsets>>

UserRefuses(c) ==
    /\ side[c].state \in Undecided
    /\ \/ side' = [side EXCEPT ![c].state = report_verification_mismatch(@)]
       \/ side' = [side EXCEPT ![c].state = cancel(@)]
    /\ Upset /\ refused' = refused \union {<<c, side[c].on>>}
    /\ UNCHANGED <<credential, chans, consent, kept, by_fingerprint, hand, served>>

\* finish consumes the session, whatever its state, and pair may fail.
finish(c, ok) ==
    /\ side[c].state # "None"
    /\ side' = [side EXCEPT ![c].state = "None"]
    /\ IF ok /\ side[c].state = "Complete" THEN UNCHANGED upsets ELSE Upset
    /\ kept' = IF ok /\ side[c].state = "Complete"
               THEN [kept EXCEPT ![c] = [key |-> chans[side[c].on][Mate(c)], on |-> side[c].on]] ELSE kept
    /\ UNCHANGED <<credential, chans, consent, refused, by_fingerprint, hand, served>>

revoke(c) ==
    /\ Upset /\ kept[c] # NotKept /\ kept' = [kept EXCEPT ![c] = NotKept]
    /\ UNCHANGED <<credential, chans, side, consent, refused, by_fingerprint, hand, served>>

\* A computer set up anew presents another credential under the same name.
Renew(c) ==
    /\ Upset /\ credential' = [credential EXCEPT ![c] = @ + 1]
    /\ UNCHANGED <<chans, side, consent, refused, kept, by_fingerprint, hand, served>>

-----------------------------------------------------------------------------
from_paired_peers(c) ==
    /\ by_fingerprint' = [by_fingerprint EXCEPT ![c] = {kept[c].key} \ {0}]
    /\ UNCHANGED <<credential, chans, side, consent, refused, kept, hand, served, upsets>>

resolve(c) ==
    /\ hand[c] = 0 /\ credential[Mate(c)] \in by_fingerprint[c]
    /\ hand' = [hand EXCEPT ![c] = credential[Mate(c)]]
    /\ UNCHANGED <<credential, chans, side, consent, refused, kept, by_fingerprint, served, upsets>>

authorize_identity(c, key) == kept[c] # NotKept /\ kept[c].key = key

\* Hello, transport and authentication agree between two computers that run
\* this code; a failing store is answered as unavailable and admits nobody.
admit_with_verifier(c, available) ==
    /\ hand[c] # 0 /\ hand' = [hand EXCEPT ![c] = 0]
    /\ IF available THEN UNCHANGED upsets ELSE Upset
    /\ IF available /\ authorize_identity(c, hand[c])
       THEN served[c] < MaxAdmissions /\ served' = [served EXCEPT ![c] = @ + 1]
       ELSE UNCHANGED served
    /\ UNCHANGED <<credential, chans, side, consent, refused, kept, by_fingerprint>>

TrustNext ==
    \/ OpenChannel
    \/ \E c \in Computers :
        \/ pairing_start(c) \/ UserApproves(c) \/ RemoteApproval(c) \/ UserRefuses(c) \/ revoke(c) \/ Renew(c)
        \/ \E ok \in BOOLEAN : finish(c, ok)
    \/ \E c \in Servers : \/ from_paired_peers(c) \/ resolve(c)
                         \/ \E ok \in BOOLEAN : admit_with_verifier(c, ok)

TrustTypeOK ==
    \A c \in Computers :
        /\ side[c].state \in Undecided \union {"None", "Complete", "Cancelled", "VerificationFailed"}
        /\ kept[c].on \in 0 .. MaxChannels /\ served[c] \in 0 .. MaxAdmissions

-----------------------------------------------------------------------------
\* A computer keeps a peer only if both users approved the pairing it comes
\* from, on the same channel, and its own user did not turn it down before or
\* after approving, in whatever order the approvals arrive
\* (PairingSession::approve_local, approve_remote, cancel, finish).
TrustIsMutual ==
    \A c \in Computers : kept[c] # NotKept =>
        /\ {<<1, kept[c].on>>, <<2, kept[c].on>>} \subseteq consent
        /\ <<c, kept[c].on>> \notin refused

\* A connection is admitted only with the credential of the pairing in force:
\* a peer revoked, or paired again under a new credential, since the resolver
\* let it through the handshake is turned away
\* (PairedPeerAllowlist::authorize_identity, admit_with_verifier).
AdmittedIsTrusted ==
    [][\A c \in Computers : served'[c] > served[c] =>
            kept[c] # NotKept /\ hand[c] = chans[kept[c].on][Mate(c)]]_trustVars
=============================================================================
