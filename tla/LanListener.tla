----------------------------- MODULE LanListener -----------------------------
(***************************************************************************)
(* BoundedLanListener of listener.rs: accept loops, raw queue, the rate     *)
(* limits and permits of the TLS handshakes, the queue of authenticated     *)
(* streams, and the counters of its report.  A socket is its source.        *)
(*                                                                          *)
(* A window of attempts is "fresh" until its time is over; start_handshake  *)
(* looks at it, as the code does, only when the next socket arrives.        *)
(***************************************************************************)
EXTENDS Naturals, Sequences, FiniteSets, FiniteSetsExt

CONSTANTS Sources,            \* source addresses
          UnsafeSources,      \* the ones is_safe_lan_ip refuses
          Loops,              \* accept loops, one per bound address
          RawCap,             \* raw_accept_queue_capacity
          EventCap,           \* event_queue_capacity
          MaxSources,         \* maximum_tracked_sources
          MaxSourceAttempts,  \* maximum_attempts_per_source
          MaxGlobalAttempts,  \* maximum_global_attempts
          MaxPerSource,       \* maximum_per_source_handshakes
          MaxHandshakes,      \* maximum_outstanding_handshakes
          MaxAcceptErrors,    \* MAX_CONSECUTIVE_ACCEPT_ERRORS
          MaxSockets          \* bound: sockets and accept errors of a run

ASSUME ListenerAssumption ==
    /\ IsFiniteSet(Sources) /\ UnsafeSources \subseteq Sources /\ IsFiniteSet(Loops)
    /\ {RawCap, EventCap, MaxSources, MaxSourceAttempts, MaxGlobalAttempts,
        MaxPerSource, MaxHandshakes, MaxAcceptErrors} \subseteq Nat \ {0}
    /\ MaxSockets \in Nat

VARIABLES lan,    \* the state of run()
          seen,   \* sockets offered by the operating system, and accept errors
          lost    \* handshakes of each source whose task panicked

listenerVars == <<lan, seen, lost>>

NewWindow == [fresh |-> TRUE, attempts |-> 0]
Untracked == [known |-> FALSE, fresh |-> FALSE, attempts |-> 0, flight |-> 0]

\* bind, and the start of run.
ListenerInit ==
    /\ lan = [up |-> TRUE, loops |-> [i \in Loops |-> 0], raw |-> <<>>, tasks |-> [s \in Sources |-> 0],
              global |-> NewWindow, src |-> [s \in Sources |-> Untracked], events |-> <<>>,
              accepted |-> 0, rejected |-> 0]
    /\ seen = 0
    /\ lost = [s \in Sources |-> 0]

Tasks(l) == MapThenSumSet(LAMBDA s : l.tasks[s], Sources)
Tracked(l) == {s \in Sources : l.src[s].known}
record_rejection(l) == [l EXCEPT !.rejected = @ + 1]

\* An accept loop that gave up is gone from the set.
Accepting(l) == {i \in DOMAIN l.loops : l.loops[i] < MaxAcceptErrors}

-----------------------------------------------------------------------------
\* accept_loop.  A socket whose set_nodelay fails is rejected like one of an
\* unsafe source.

accept_next(l, i, s) ==
    LET k == [l EXCEPT !.loops[i] = 0]
    IN  IF s \in UnsafeSources \/ Len(l.raw) >= RawCap THEN record_rejection(k)
        ELSE [k EXCEPT !.raw = Append(@, s)]

Accepts ==
    /\ lan.up /\ seen < MaxSockets
    /\ \E i \in Accepting(lan), s \in Sources : lan' = accept_next(lan, i, s)
    /\ seen' = seen + 1 /\ UNCHANGED lost

AcceptErrs ==
    /\ lan.up /\ seen < MaxSockets
    /\ \E i \in Accepting(lan) : lan' = record_rejection([lan EXCEPT !.loops[i] = @ + 1])
    /\ seen' = seen + 1 /\ UNCHANGED lost

-----------------------------------------------------------------------------
\* start_handshake: one operator per early return.

Spawn(l, s) ==
    IF l.src[s].flight >= MaxPerSource \/ Tasks(l) >= MaxHandshakes THEN record_rejection(l)
    ELSE [l EXCEPT !.src[s].flight = @ + 1, !.tasks[s] = @ + 1]

\* Mutant: one attempt too many.
CountAttemptLate(l, s) ==
    IF l.src[s].attempts > MaxSourceAttempts THEN record_rejection(l)
    ELSE Spawn([l EXCEPT !.src[s].attempts = @ + 1], s)

CountAttempt(l, s) ==
    IF l.src[s].attempts >= MaxSourceAttempts THEN record_rejection(l)
    ELSE Spawn([l EXCEPT !.src[s].attempts = @ + 1], s)

TrackSource(l, s) ==
    IF ~l.src[s].known /\ Cardinality(Tracked(l)) >= MaxSources THEN record_rejection(l)
    ELSE CountAttempt(IF l.src[s].fresh THEN l
                      ELSE [l EXCEPT !.src[s] = [@ EXCEPT !.known = TRUE, !.fresh = TRUE,
                                                          !.attempts = 0]], s)

\* Mutant: a source is forgotten with its window, whatever it has in flight.
retainFresh(l) ==
    [l EXCEPT !.src = [s \in Sources |-> IF l.src[s].fresh THEN l.src[s] ELSE Untracked]]

retain(l) ==
    [l EXCEPT !.src = [s \in Sources |-> IF l.src[s].fresh \/ l.src[s].flight > 0
                                         THEN l.src[s] ELSE Untracked]]

CountGlobally(l, s) ==
    IF l.global.attempts >= MaxGlobalAttempts THEN record_rejection(l)
    ELSE TrackSource(retain([l EXCEPT !.global.attempts = @ + 1]), s)

start_handshake(l, s) ==
    CountGlobally([l EXCEPT !.global = IF @.fresh THEN @ ELSE NewWindow], s)

StartsHandshake ==
    /\ lan.up /\ lan.raw # <<>>
    /\ lan' = start_handshake([lan EXCEPT !.raw = Tail(@)], Head(lan.raw))
    /\ UNCHANGED <<seen, lost>>

-----------------------------------------------------------------------------
\* handle_handshake_join: a lost task cannot say whose permit it held.

Joined(l, s) == [l EXCEPT !.tasks[s] = @ - 1]
Permit(l, s) == [Joined(l, s) EXCEPT !.src[s].flight = IF @ = 0 THEN 0 ELSE @ - 1]

handle_handshake_join(l, s, result) ==
    CASE result = "Ok" -> IF Len(l.events) >= EventCap THEN record_rejection(Permit(l, s))
                          ELSE [Permit(l, s) EXCEPT !.events = Append(@, s), !.accepted = @ + 1]
      [] result = "Err" -> record_rejection(Permit(l, s))
      [] result = "Panic" -> record_rejection(Joined(l, s))

HandshakeJoins ==
    /\ lan.up
    /\ \E s \in Sources, result \in {"Ok", "Err", "Panic"} :
          /\ lan.tasks[s] > 0
          /\ lan' = handle_handshake_join(lan, s, result)
          /\ lost' = IF result = "Panic" THEN [lost EXCEPT ![s] = @ + 1] ELSE lost
    /\ UNCHANGED seen

-----------------------------------------------------------------------------
\* Time, the consumer, and the end of run.

WindowElapses ==
    /\ \/ lan.global.fresh /\ lan' = [lan EXCEPT !.global.fresh = FALSE]
       \/ \E s \in Sources : lan.src[s].fresh /\ lan' = [lan EXCEPT !.src[s].fresh = FALSE]
    /\ UNCHANGED <<seen, lost>>

TakesStream ==
    /\ lan.events # <<>>
    /\ lan' = [lan EXCEPT !.events = Tail(@)]
    /\ UNCHANGED <<seen, lost>>

\* By shutdown, by a consumer that went away, or with the last accept loop
\* once the raw queue is empty.  The tasks are aborted.
ListenerEnds ==
    /\ lan.up
    /\ lan' = [lan EXCEPT !.up = FALSE, !.raw = <<>>, !.tasks = [s \in Sources |-> 0]]
    /\ UNCHANGED <<seen, lost>>

ListenerNext ==
    \/ Accepts \/ AcceptErrs \/ StartsHandshake \/ HandshakeJoins
    \/ WindowElapses \/ TakesStream \/ ListenerEnds

-----------------------------------------------------------------------------
\* The state of the listener has its type, within all of its limits.
ListenerTypeOK ==
    /\ lan.up \in BOOLEAN /\ \A i \in Loops : lan.loops[i] \in 0 .. MaxAcceptErrors
    /\ Len(lan.raw) <= RawCap /\ Len(lan.events) <= EventCap
    /\ Tasks(lan) <= MaxHandshakes /\ Cardinality(Tracked(lan)) <= MaxSources
    /\ lan.global.attempts <= MaxGlobalAttempts
    /\ \A s \in Sources : lan.src[s].attempts <= MaxSourceAttempts /\ lan.tasks[s] <= MaxPerSource
    /\ seen \in 0 .. MaxSockets

\* The permits of a source are its handshakes under way and those whose task
\* panicked, also when the source's window is over and the table of sources is
\* cleaned: no source exceeds its limit by waiting (start_handshake's retain).
PermitsAccounted ==
    lan.up => \A s \in Sources : lan.src[s].flight = lan.tasks[s] + lost[s]

\* Every socket and every accept error is in the raw queue, in a handshake, or
\* counted once as accepted or rejected (the counters of LanListenerReport).
EverySocketAccounted ==
    lan.up => seen = Len(lan.raw) + Tasks(lan) + lan.accepted + lan.rejected

\* Limits do not outlive their cause: with no handshake under way and every
\* window over, the next socket of a source gets its handshake, unless panics
\* have used up the source's permits or filled the table of sources.
QuietSourceAdmitted ==
    \A s \in Sources \ UnsafeSources :
        /\ lan.up /\ Tasks(lan) = 0 /\ ~lan.global.fresh /\ \A t \in Sources : ~lan.src[t].fresh
        /\ lost[s] < MaxPerSource
        /\ lost[s] > 0 \/ Cardinality({t \in Sources : lost[t] > 0}) < MaxSources
        => start_handshake(lan, s).tasks[s] = 1
=============================================================================
