----------------------------- MODULE Connections -----------------------------
(***************************************************************************)
(* Two hosts that keep one session with each other: the transport loop of  *)
(* active.rs at both, with its dial and session tasks, the peer managers    *)
(* they share, the listener of the host that is dialled, and the streams    *)
(* between them.                                                            *)
(*                                                                          *)
(* A stream is a number of Streams, reused when both hosts are done with    *)
(* it.  end[h][c] is what host h has of stream c: a dial, a socket in the   *)
(* listener, a session runner with the events drive_session has not taken   *)
(* yet.  What a session does beyond its admission is NetworkSession's.      *)
(***************************************************************************)
EXTENDS PeerSchedule, Sequences

CONSTANTS Dialer, Listener,  \* the identities of the hosts
          Streams,           \* streams that can exist at once
          Addresses,         \* addresses discovery can show to the dialer
          Reachable,         \* the ones the listener is bound to
          AcceptedCap,       \* event_queue_capacity of the listener's service
          MaxFaults          \* disturbances of a run

ASSUME ConnectionAssumption ==
    /\ {Dialer, Listener} \subseteq Nat /\ Dialer < Listener
    /\ IsFiniteSet(Streams) /\ Streams \subseteq Nat \ {0}
    /\ Reachable \subseteq Addresses /\ Addresses \subseteq Nat /\ IsFiniteSet(Addresses)
    /\ AcceptedCap \in Nat \ {0} /\ MaxFaults \in Nat

VARIABLES m,      \* each manager's state of the other host
          loop,   \* each transport loop
          end,    \* what each host has of each stream
          cut,    \* streams that carry nothing, or never will
          lan,    \* the listener's service: is it up, and the streams it accepted
          spent   \* disturbances so far

vars == <<m, loop, end, cut, lan, spent>>

Hosts == {Dialer, Listener}
Other(h) == IF h = Dialer THEN Listener ELSE Dialer

At(st) == [st |-> st, ev |-> <<>>, stop |-> FALSE]
NoEnd == At("None")
GoneEnd == At("Gone")

Running == [st |-> "Running", why |-> "None"]

\* What a discovery snapshot may say of the peer.
Snapshots == {a \in SUBSET Addresses : Cardinality(a) <= MaxCandidates}

\* The first snapshot has been applied.
Init ==
    /\ \E a \in Snapshots :
          m = [h \in Hosts |-> NewPeer(for_peers(h, Other(h)), IF h = Dialer THEN a ELSE {})]
    /\ loop = [h \in Hosts |-> Running]
    /\ end = [h \in Hosts |-> [c \in Streams |-> NoEnd]]
    /\ cut = {}
    /\ lan = [up |-> TRUE, accepted |-> <<>>]
    /\ spent = 0

Costs(n) == spent + n <= MaxFaults /\ spent' = spent + n

Stage(h, c) == end[h][c].st
Runner(h, c) == Stage(h, c) \in {"Admit", "Live", "Ended"}
Ends(h, c, e) == [end EXCEPT ![h][c] = e]

\* A failure of the loop's body: it goes on to finish_transport_tasks.
Fails(h, why) == loop' = [loop EXCEPT ![h] = [st |-> "Settling", why |-> why]]
Goes(h) == loop[h].st = "Running"

-----------------------------------------------------------------------------
\* The tick: service_manager, then poll_dial if no dial is under way.

Dials(h) == {c \in Streams : Stage(h, c) \in {"Dialing", "Dialed", "Failed"}}
Unused == {c \in Streams : \A h \in Hosts : Stage(h, c) \in {"None", "Gone"}}
NextStream == CHOOSE c \in Unused : TRUE

\* A stream's number is used again: nobody remembers the old one.
Renewed(p, c) == IF p.sender = c THEN [p EXCEPT !.sender = 0] ELSE p

TickFails(h) ==
    /\ Goes(h) /\ m[h].unsettled
    /\ Fails(h, "Unsettled")
    /\ UNCHANGED <<m, end, cut, lan, spent>>

TickWaits(h) ==
    /\ Goes(h) /\ ~m[h].unsettled
    /\ m[h].wait > 0
    /\ m' = [m EXCEPT ![h].wait = @ - 1]
    /\ UNCHANGED <<loop, end, cut, lan, spent>>

TickDials(h) ==
    /\ Goes(h) /\ ~m[h].unsettled /\ Dials(h) = {}
    /\ CanPoll(m[h])
    /\ IF HasAddress(m[h])
       THEN /\ Unused # {}
            /\ m' = [x \in Hosts |-> Renewed(IF x = h THEN poll_outbound(m[h], NextStream)
                                             ELSE m[x], NextStream)]
            /\ end' = [end EXCEPT ![h][NextStream] = At("Dialing"),
                                  ![Other(h)][NextStream] = NoEnd]
            /\ cut' = IF Address(m[h]) \in Reachable THEN cut \ {NextStream}
                      ELSE cut \union {NextStream}
            /\ UNCHANGED loop
       ELSE Fails(h, "InvalidCandidate") /\ UNCHANGED <<m, end, cut>>
    /\ UNCHANGED <<lan, spent>>

-----------------------------------------------------------------------------
\* The dial, and the listener's service as far as the dialer sees it: which
\* sockets it refuses, and why, is LanListener's.

Connects(c) ==
    /\ Stage(Dialer, c) = "Dialing" /\ Stage(Listener, c) = "None"
    /\ c \notin cut /\ lan.up
    /\ end' = Ends(Listener, c, At("Tls"))
    /\ UNCHANGED <<m, loop, cut, lan, spent>>

\* The client has the server's certificate and its own is on the way.
ClientFinishes(c) ==
    /\ Stage(Dialer, c) = "Dialing" /\ Stage(Listener, c) = "Tls" /\ c \notin cut
    /\ end' = Ends(Dialer, c, At("Dialed"))
    /\ UNCHANGED <<m, loop, cut, lan, spent>>

\* The dial fails because nobody answers, or for no reason.
DialFails(c) ==
    /\ Stage(Dialer, c) = "Dialing"
    /\ IF c \in cut \/ Stage(Listener, c) = "Gone" \/ (Stage(Listener, c) = "None" /\ ~lan.up)
       THEN UNCHANGED spent ELSE Costs(1)
    /\ end' = Ends(Dialer, c, At("Failed"))
    /\ UNCHANGED <<m, loop, cut, lan>>

\* The server's handshake is done.  The client may have finished before the
\* server rejects it, and may be gone before the server has finished.
ServerAccepts(c) ==
    /\ Stage(Listener, c) = "Tls" /\ Stage(Dialer, c) \notin {"Dialing", "Failed"}
    /\ IF Len(lan.accepted) < AcceptedCap
       THEN /\ lan' = [lan EXCEPT !.accepted = Append(@, c)]
            /\ end' = Ends(Listener, c, At("Queued"))
       ELSE end' = Ends(Listener, c, GoneEnd) /\ UNCHANGED lan
    /\ UNCHANGED <<m, loop, cut, spent>>

ServerRejects(c) ==
    /\ Stage(Listener, c) = "Tls"
    /\ IF c \in cut \/ Stage(Dialer, c) \in {"Failed", "Gone"} THEN UNCHANGED spent ELSE Costs(1)
    /\ end' = Ends(Listener, c, GoneEnd)
    /\ UNCHANGED <<m, loop, cut, lan>>

\* The last accept loop gave up.
ServiceEnds ==
    /\ lan.up /\ Costs(1)
    /\ lan' = [lan EXCEPT !.up = FALSE]
    /\ end' = [end EXCEPT ![Listener] = [c \in Streams |-> IF Stage(Listener, c) = "Tls" THEN GoneEnd
                                                         ELSE end[Listener][c]]]
    /\ UNCHANGED <<m, loop, cut>>

-----------------------------------------------------------------------------
\* Streams become sessions: prepare_inbound, finish_dial and prepare_session.

\* prepare_session: what it cannot start ends the loop.
Prepares(h, p, c, builds) ==
    IF builds
    THEN /\ m' = [m EXCEPT ![h] = install_prepared_session(p, c)]
         /\ end' = Ends(h, c, At("Admit"))
         /\ UNCHANGED <<loop, spent>>
    ELSE /\ m' = [m EXCEPT ![h] = cancel_established(p)]
         /\ end' = Ends(h, c, GoneEnd)
         /\ Fails(h, "Admission") /\ Costs(1)

TakesAccepted(h) ==
    /\ h = Listener /\ Goes(h) /\ lan.accepted # <<>>
    /\ lan' = [lan EXCEPT !.accepted = Tail(@)]
    /\ LET c == Head(lan.accepted) IN
       IF CanAccept(m[h]) /\ CanBegin(m[h], "Inbound")
       THEN \E builds \in BOOLEAN : Prepares(h, inbound_accepted(m[h], c), c, builds)
       ELSE end' = Ends(h, c, GoneEnd) /\ UNCHANGED <<m, loop, spent>>
    /\ UNCHANGED cut

\* accepted.recv() returns None.
ServiceMissed(h) ==
    /\ h = Listener /\ Goes(h) /\ ~lan.up /\ lan.accepted = <<>>
    /\ Fails(h, "Listener")
    /\ UNCHANGED <<m, end, cut, lan, spent>>

FinishesDial(h, c) ==
    /\ Goes(h) /\ Stage(h, c) \in {"Dialed", "Failed"}
    /\ IF m[h].slot # Connecting(c)
       THEN Fails(h, "StaleDial") /\ end' = Ends(h, c, GoneEnd) /\ UNCHANGED <<m, spent>>
       ELSE IF Stage(h, c) = "Failed"
       THEN /\ m' = [m EXCEPT ![h] = schedule_connect_failure(@)]
            /\ end' = Ends(h, c, GoneEnd)
            /\ UNCHANGED <<loop, spent>>
       ELSE IF CanBegin(m[h], "Outbound")
       THEN \E builds \in BOOLEAN : Prepares(h, outbound_connected(m[h], c), c, builds)
       ELSE /\ m' = [m EXCEPT ![h] = schedule_connect_failure(@)]
            /\ Fails(h, "Generation") /\ end' = Ends(h, c, GoneEnd) /\ UNCHANGED spent
    /\ UNCHANGED <<cut, lan>>

-----------------------------------------------------------------------------
\* The session runner, as far as the manager sees it.

Report(e, k, st) == [e EXCEPT !.ev = Append(@, k), !.st = st]

\* The other end has started its runner, and so sent what admission needs.
Admits(h, c) ==
    /\ Stage(h, c) = "Admit" /\ c \notin cut /\ ~end[h][c].stop
    /\ Stage(Other(h), c) \in {"Admit", "Live"}
    /\ end' = Ends(h, c, Report(end[h][c], "Admitted", "Live"))
    /\ UNCHANGED <<m, loop, cut, lan, spent>>

\* The stream is over: cut, closed by the other end, or by silence.
StreamOver(h, c) == c \in cut \/ Stage(Other(h), c) \in {"Gone", "Ended", "None"}

RunnerEnds(h, c) ==
    /\ Stage(h, c) \in {"Admit", "Live"}
    /\ IF StreamOver(h, c) \/ end[h][c].stop \/ (Stage(h, c) = "Live" /\ m[h].sender # c)
       THEN UNCHANGED spent ELSE Costs(1)
    /\ end' = Ends(h, c, Report(end[h][c], IF Stage(h, c) = "Admit" THEN "Cancelled"
                                           ELSE "Disconnected", "Ended"))
    /\ UNCHANGED <<m, loop, cut, lan>>

\* An application message of an active session reaches the other end.  Of
\* those the other manager owns, only one that it cannot apply matters here.
Speaks(h, c) ==
    /\ Stage(h, c) = "Live" /\ m[h].active = c /\ c \notin cut
    /\ Stage(Other(h), c) = "Live" /\ ~end[Other(h)][c].stop /\ end[Other(h)][c].ev = <<>>
    /\ IF Owns(m[Other(h)], c) THEN Costs(1) ELSE UNCHANGED spent
    /\ end' = [end EXCEPT ![Other(h)][c].ev = <<"Message">>]
    /\ UNCHANGED <<m, loop, cut, lan>>

\* drive_session: one event.  The runner is stopped when the event retired
\* its generation, or the generation is not the manager's.
Handled(h, c, p, stops) ==
    /\ m' = [m EXCEPT ![h] = p]
    /\ end' = [end EXCEPT ![h][c].ev = Tail(@), ![h][c].stop = @ \/ stops]

HandlesEvent(h, c) ==
    /\ Runner(h, c) /\ end[h][c].ev # <<>>
    /\ LET k == Head(end[h][c].ev) IN
       IF ~Owns(m[h], c)
       THEN Handled(h, c, m[h], TRUE) /\ UNCHANGED spent
       ELSE CASE k = "Admitted" ->
                   \/ Handled(h, c, Activated(m[h], TRUE), FALSE) /\ UNCHANGED spent
                   \/ Handled(h, c, Activated(m[h], FALSE), TRUE) /\ Costs(1)
              [] k = "Cancelled" ->
                   Handled(h, c, Cancelled(m[h]), TRUE) /\ UNCHANGED spent
              [] k = "Disconnected" ->
                   \/ Handled(h, c, TransportLost(m[h], TRUE), TRUE) /\ UNCHANGED spent
                   \/ Handled(h, c, TransportLost(m[h], FALSE), TRUE) /\ Costs(1)
              [] k = "Message" ->
                   Handled(h, c, Retired(m[h]), TRUE) /\ UNCHANGED spent
    /\ UNCHANGED <<loop, cut, lan>>

\* The event channel is closed, or the loop has told drive_session to stop:
\* it waits for the runner and reports the loss of the task.
TaskEnds(h, c) ==
    /\ Stage(h, c) = "Ended"
    /\ end[h][c].ev = <<>> \/ loop[h].st = "Draining"
    /\ \/ /\ m' = [m EXCEPT ![h] = connection_task_lost(@, c, TRUE)]
          /\ UNCHANGED spent
       \/ /\ m[h].active = c /\ Costs(1)
          /\ m' = [m EXCEPT ![h] = connection_task_lost(@, c, FALSE)]
    /\ end' = Ends(h, c, GoneEnd)
    /\ UNCHANGED <<loop, cut, lan>>

-----------------------------------------------------------------------------
\* Disturbances

StreamBreaks(c) ==
    /\ c \notin cut /\ c \notin Unused /\ Costs(1)
    /\ cut' = cut \union {c}
    /\ UNCHANGED <<m, loop, end, lan>>

\* The capture callback meets a fatal error: the manager retires the
\* generation and frees the slot, and nobody tells drive_session.
CaptureRetires(h) ==
    /\ Goes(h) /\ m[h].active # 0 /\ ~m[h].unsettled /\ Costs(1)
    /\ m' = [m EXCEPT ![h] = Retired(@)]
    /\ UNCHANGED <<loop, end, cut, lan>>

\* A captured record that the core refuses while no generation is active: the
\* manager frees the slot, also under a dial that is on its way.
CaptureFreesSlot(h) ==
    /\ Goes(h) /\ m[h].active = 0 /\ m[h].slot.kind = "Connecting" /\ Costs(1)
    /\ m' = [m EXCEPT ![h] = FreeSlot(@)]
    /\ UNCHANGED <<loop, end, cut, lan>>

\* apply_discovery_snapshot, or an address from the operator.
CandidatesChange ==
    /\ Goes(Dialer) /\ Costs(1)
    /\ \/ \E a \in Snapshots :
             /\ ~m[Dialer].revoked
             /\ m' = [m EXCEPT ![Dialer] = replace_candidates(@, a)]
       \/ \E a \in Addresses :
             /\ CanReplaceSelected(m[Dialer])
             /\ m' = [m EXCEPT ![Dialer] = replace_selected_outbound_candidate(@, a)]
    /\ UNCHANGED <<loop, end, cut, lan>>

Revokes(h) ==
    /\ Goes(h) /\ ~m[h].revoked /\ Costs(1)
    /\ m' = [m EXCEPT ![h] = revoke(@, TRUE)]
    /\ UNCHANGED <<loop, end, cut, lan>>

-----------------------------------------------------------------------------
\* Shutdown: finish_transport_tasks.

Stops(h) ==
    /\ Goes(h) /\ Costs(1)
    /\ Fails(h, "None")
    /\ UNCHANGED <<m, end, cut, lan>>

\* settle_shutdown, until the manager has nothing active or the deadline is
\* over; then dials are aborted and the other tasks told.
Aborted(h) ==
    [c \in Streams |->
        CASE Stage(h, c) \in {"Dialing", "Dialed", "Failed"} -> GoneEnd
          [] Runner(h, c)                                    -> [end[h][c] EXCEPT !.stop = TRUE]
          [] Stage(h, c) \in {"Tls", "Queued"}                -> GoneEnd
          [] OTHER                                           -> end[h][c]]

Settles(h) ==
    /\ loop[h].st = "Settling"
    /\ \/ /\ m' = [m EXCEPT ![h] = revoke(@, TRUE)]
          /\ loop' = [loop EXCEPT ![h].st = "Draining"]
          /\ UNCHANGED spent
       \/ /\ m[h].active # 0 /\ Costs(1)
          /\ m' = [m EXCEPT ![h] = revoke(@, FALSE)]
          /\ loop' = [loop EXCEPT ![h] = [st |-> "Draining", why |-> "Deadline"]]
    /\ end' = [end EXCEPT ![h] = Aborted(h)]
    /\ lan' = IF h = Listener THEN [up |-> FALSE, accepted |-> <<>>] ELSE lan
    /\ UNCHANGED cut

\* Every session task has been joined.
LoopReturns(h) ==
    /\ loop[h].st = "Draining"
    /\ \A c \in Streams : ~Runner(h, c)
    /\ loop' = [loop EXCEPT ![h].st = "Stopped"]
    /\ UNCHANGED <<m, end, cut, lan, spent>>

-----------------------------------------------------------------------------
HostStep(h) ==
    \/ TickFails(h) \/ TickWaits(h) \/ TickDials(h)
    \/ TakesAccepted(h) \/ ServiceMissed(h)
    \/ Settles(h) \/ LoopReturns(h)
    \/ \E c \in Streams : \/ FinishesDial(h, c) \/ Admits(h, c) \/ RunnerEnds(h, c)
                          \/ HandlesEvent(h, c) \/ TaskEnds(h, c) \/ Speaks(h, c)

DialStep(c) ==
    \/ Connects(c) \/ ClientFinishes(c) \/ DialFails(c)
    \/ ServerAccepts(c) \/ ServerRejects(c)

Disturbance ==
    \/ \E c \in Streams : StreamBreaks(c)
    \/ \E h \in Hosts : CaptureRetires(h) \/ CaptureFreesSlot(h) \/ Revokes(h) \/ Stops(h)
    \/ CandidatesChange \/ ServiceEnds

Next == (\E h \in Hosts : HostStep(h)) \/ (\E c \in Streams : DialStep(c)) \/ Disturbance

Spec == Init /\ [][Next]_vars

-----------------------------------------------------------------------------
Peers ==
    [role : {"Dialer", "Listener"}, pending : Streams \union {0}, active : Streams \union {0},
     slot : [kind : {"Idle", "Connecting", "Session"}, id : Streams \union {0}],
     sender : Streams \union {0}, candidates : Snapshots, cursor : 0 .. MaxCandidates - 1,
     delay : 1 .. MaximumDelay, wait : 0 .. MaximumDelay, unsettled : BOOLEAN, revoked : BOOLEAN]

Loops ==
    [st : {"Running", "Settling", "Draining", "Stopped"},
     why : {"None", "Unsettled", "InvalidCandidate", "Listener", "StaleDial", "Admission",
            "Generation", "Deadline"}]

StreamEnds ==
    [st : {"None", "Dialing", "Dialed", "Failed", "Tls", "Queued", "Admit", "Live", "Ended", "Gone"},
     ev : Seq({"Admitted", "Cancelled", "Disconnected", "Message"}), stop : BOOLEAN]

\* Every variable has its type; the cursor and the addresses stay below the
\* manager's limit, and a runner has at most two events under way.
TypeOK ==
    /\ m \in [Hosts -> Peers]
    /\ loop \in [Hosts -> Loops]
    /\ end \in [Hosts -> [Streams -> StreamEnds]]
    /\ \A h \in Hosts, c \in Streams : Len(end[h][c].ev) <= 2
    /\ cut \subseteq Streams
    /\ lan \in [up : BOOLEAN, accepted : Seq(Streams)] /\ Len(lan.accepted) <= AcceptedCap
    /\ spent \in 0 .. MaxFaults

\* The task slot and the generation gate of a peer tell the same story: a slot
\* in session names the pending or active generation, a generation has the
\* slot, and a slot that connects has a dial under way.  A late event of an
\* older stream, a revocation or a retirement by the capture callback changes
\* both or neither (peer_manager.rs).
SlotOwnsGate ==
    \A h \in Hosts :
        /\ m[h].slot.kind = "Session" => m[h].slot.id \in {m[h].pending, m[h].active}
        /\ m[h].pending # 0 => m[h].slot = Session(m[h].pending)
        /\ m[h].active # 0 => m[h].slot = Session(m[h].active)
        /\ m[h].slot.kind = "Connecting" => m[h].slot.id \in Dials(h)

\* A generation that the manager of a running loop believes in has a session
\* task that will report its end, or has failed to settle and fails the next
\* tick.  Otherwise the slot would be taken for ever.
ActiveIsBacked ==
    \A h \in Hosts : Goes(h) =>
        /\ m[h].active # 0 => Runner(h, m[h].active) \/ m[h].unsettled
        /\ m[h].pending # 0 => Runner(h, m[h].pending)

\* A transport loop never ends over its own bookkeeping: poll_outbound always
\* finds an address at the cursor, and the gate admits the stream of every dial
\* the manager still waits for (finish_dial in active.rs).
LoopFailsForCause == \A h \in Hosts : loop[h].why \notin {"InvalidCandidate", "Generation"}

\* A loop that returned before its deadline has left nothing: no dial, no
\* session task, no generation (finish_transport_tasks and settle_shutdown).
StoppedIsClean ==
    \A h \in Hosts : loop[h].st = "Stopped" /\ loop[h].why # "Deadline" =>
        /\ m[h].slot = Idle /\ m[h].pending = 0 /\ m[h].active = 0
        /\ \A c \in Streams : Stage(h, c) \in {"None", "Gone"}

\* The bookkeeping of a peer is of one piece: types, slot, gate and task agree.
SlotsBacked == TypeOK /\ SlotOwnsGate /\ ActiveIsBacked


\* A revoked peer's generation may end but none becomes active any more,
\* whatever dial, stream or admission was under way.
RevokedStaysOut ==
    [][\A h \in Hosts : m[h].revoked => m'[h].active \in {0, m[h].active}]_vars

-----------------------------------------------------------------------------
Free(A) == A /\ UNCHANGED spent

RunnerStep(h, c) == Admits(h, c) \/ RunnerEnds(h, c) \/ HandlesEvent(h, c) \/ TaskEnds(h, c)
LoopStep(h) ==
    \/ TickFails(h) \/ TickWaits(h) \/ TickDials(h) \/ TakesAccepted(h) \/ ServiceMissed(h)
    \/ Settles(h) \/ LoopReturns(h) \/ \E c \in Streams : FinishesDial(h, c)
Fairness ==
    /\ \A h \in Hosts : WF_vars(Free(LoopStep(h)))
    /\ \A h \in Hosts, c \in Streams : WF_vars(Free(RunnerStep(h, c)))
    /\ \A c \in Streams : WF_vars(Free(DialStep(c)))

QuietSpec == Spec /\ Fairness
LiveSpec == QuietSpec /\ \A h \in Hosts, c \in Streams : WF_vars(Free(Speaks(h, c)))

Connected == \E c \in Streams \ cut : \A h \in Hosts : m[h].active = c /\ Stage(h, c) = "Live"

GivenUp == \E h \in Hosts : ~Goes(h) \/ m[h].revoked

=============================================================================
