------------------------------ MODULE Discovery ------------------------------
(***************************************************************************)
(* MdnsDiscoveryAdapter of kvm-discovery: the bridge task that turns the    *)
(* browser's events into a bounded cache of services and publishes a        *)
(* snapshot of it, and the adapter's start, shutdown and Drop.  The mDNS    *)
(* daemon is external: it delivers events in any order, for names and       *)
(* records of anybody's choice.                                             *)
(***************************************************************************)
EXTENDS Naturals, Sequences, FiniteSets, Functions

CONSTANTS Names,          \* service fullnames
          Records,        \* [hint, addresses]: what a valid record says
          MaximumServices,\* DiscoveryCacheConfig.maximum_services
          ResolvedTtl,    \* MdnsAdapterConfig.resolved_ttl, clamped by the cache
          Horizon,        \* bound: the time that passes
          MaxQueued,      \* bound: events waiting in the browser's channel
          MaxMishaps      \* bound: daemon commands that fail or time out

VARIABLES bridge,    \* run_bridge: its task, cache and published snapshot
          adapter,   \* MdnsDiscoveryAdapter, and what the daemon does for it
          events,    \* the browser's channel
          now,       \* monotonic time
          mishaps,   \* failures so far
          heard      \* for the properties: when each name was last resolved

discoveryVars == <<bridge, adapter, events, now, mishaps, heard>>

\* A record that fails validate_record_shape, parse_txt, the version, the peer
\* hint or the address checks.
Malformed == [hint |-> 0, addresses |-> {}]

Event(kind, name, record) == [kind |-> kind, name |-> name, record |-> record]

DiscoveryInit ==
    /\ bridge = [task |-> "none", cache |-> <<>>, published |-> {}]
    /\ adapter = [state |-> "absent", stop |-> FALSE, daemon |-> FALSE, browsing |-> FALSE,
                  registered |-> FALSE]
    /\ events = <<>> /\ now = 0 /\ mishaps = 0
    /\ heard = [n \in Names |-> 0]

-----------------------------------------------------------------------------
\* DiscoveryCache: [cache, change].

\* DiscoverySnapshot::from_candidates: one candidate per hint and address.
snapshot(cache) ==
    UNION {{[hint |-> cache[n].record.hint, address |-> a] : a \in cache[n].record.addresses}
           : n \in DOMAIN cache}

remove_fullname(cache, name) ==
    IF name \in DOMAIN cache THEN [cache |-> Restrict(cache, DOMAIN cache \ {name}), change |-> "Changed"]
    ELSE [cache |-> cache, change |-> "Unchanged"]

Put(cache, name, service) ==
    [n \in DOMAIN cache \union {name} |-> IF n = name THEN service ELSE cache[n]]

\* A newcomer never evicts a current record; a known one is always renewed.
apply_resolved(cache, name, record) ==
    IF record = Malformed THEN [cache |-> cache, change |-> "Unchanged"]
    ELSE IF name \notin DOMAIN cache /\ Cardinality(DOMAIN cache) >= MaximumServices
    THEN [cache |-> cache, change |-> "Saturated"]
    ELSE LET service == [record |-> record, expires_at |-> now + ResolvedTtl]
         IN  [cache  |-> Put(cache, name, service),
              change |-> IF name \in DOMAIN cache /\ cache[name] = service THEN "Unchanged" ELSE "Changed"]

expire(cache) ==
    LET kept == {n \in DOMAIN cache : cache[n].expires_at > now}
    IN  [cache |-> Restrict(cache, kept), change |-> IF kept = DOMAIN cache THEN "Unchanged" ELSE "Changed"]

apply_service_event(cache, event) ==
    CASE event.kind = "ServiceResolved" -> apply_resolved(cache, event.name, event.record)
      [] event.kind = "ServiceRemoved"  -> remove_fullname(cache, event.name)
      [] event.kind = "Other"           -> [cache |-> cache, change |-> "Unchanged"]

-----------------------------------------------------------------------------
\* run_bridge: a biased select, so a tick is only taken when no event waits.

Applied(b, outcome) ==
    [b EXCEPT !.cache = outcome.cache,
              !.published = IF outcome.change = "Changed" THEN snapshot(outcome.cache) ELSE @]

BridgeStops ==
    /\ bridge.task = "running" /\ adapter.stop
    /\ bridge' = [bridge EXCEPT !.task = "ended"]
    /\ UNCHANGED <<adapter, events, now, mishaps, heard>>

\* The loop also ends with the browser's channel.
BrowserCloses ==
    /\ bridge.task = "running" /\ ~adapter.stop /\ events = <<>> /\ ~adapter.browsing
    /\ bridge' = [bridge EXCEPT !.task = "ended"]
    /\ UNCHANGED <<adapter, events, now, mishaps, heard>>

BridgeEvent ==
    /\ bridge.task = "running" /\ ~adapter.stop /\ events # <<>>
    /\ bridge' = Applied(bridge, apply_service_event(bridge.cache, Head(events)))
    /\ heard' = IF Head(events).kind = "ServiceResolved" /\ Head(events).record # Malformed
                THEN [heard EXCEPT ![Head(events).name] = now] ELSE heard
    /\ events' = Tail(events)
    /\ UNCHANGED <<adapter, now, mishaps>>

ExpiryTick ==
    /\ bridge.task = "running" /\ ~adapter.stop /\ events = <<>>
    /\ bridge' = Applied(bridge, expire(bridge.cache))
    /\ UNCHANGED <<adapter, events, now, mishaps, heard>>

-----------------------------------------------------------------------------
\* The daemon and the clock (external).

DaemonEvent ==
    /\ adapter.browsing /\ Len(events) < MaxQueued /\ now < Horizon
    /\ \E n \in Names : \E e \in {Event("ServiceResolved", n, r) : r \in Records \union {Malformed}}
                                 \union {Event("ServiceRemoved", n, Malformed), Event("Other", n, Malformed)} :
          events' = Append(events, e)
    /\ UNCHANGED <<bridge, adapter, now, mishaps, heard>>

TimePasses ==
    /\ now < Horizon /\ now' = now + 1 /\ UNCHANGED <<bridge, adapter, events, mishaps, heard>>

-----------------------------------------------------------------------------
\* The adapter.

Mishap == mishaps < MaxMishaps /\ mishaps' = mishaps + 1

start_with_daemon ==
    /\ adapter.state = "absent"
    /\ adapter' = [adapter EXCEPT !.state = "started", !.daemon = TRUE, !.browsing = TRUE, !.registered = TRUE]
    /\ bridge' = [bridge EXCEPT !.task = "running"]
    /\ UNCHANGED <<events, now, mishaps, heard>>

\* browse or register refuses: what was begun is undone and no task is spawned.
StartFails ==
    /\ adapter.state = "absent" /\ Mishap
    /\ adapter' = [adapter EXCEPT !.state = "gone"]
    /\ UNCHANGED <<bridge, events, now, heard>>

\* shutdown: one action per await.
shutdown_ ==
    /\ adapter.state = "started"
    /\ adapter' = [adapter EXCEPT !.state = "joining", !.stop = TRUE]
    /\ UNCHANGED <<bridge, events, now, mishaps, heard>>

Aborted(b) == [b EXCEPT !.task = "ended"]

\* Joined, or the deadline passed and it was aborted.
BridgeJoined ==
    /\ adapter.state = "joining"
    /\ \/ bridge.task = "ended" /\ UNCHANGED <<bridge, mishaps>>
       \/ bridge.task = "running" /\ Mishap /\ bridge' = Aborted(bridge)
    /\ adapter' = [adapter EXCEPT !.state = "leaving"]
    /\ UNCHANGED <<events, now, heard>>

Left(a) == [a EXCEPT !.daemon = FALSE, !.browsing = FALSE, !.registered = FALSE]

\* stop_browse, unregister and shutdown of the daemon, then Drop: nothing when
\* the daemon confirmed, and everything again when it did not.
DaemonStopped ==
    /\ adapter.state = "leaving"
    /\ \/ adapter' = [Left(adapter) EXCEPT !.state = "gone"] /\ UNCHANGED mishaps
       \/ Mishap /\ adapter' = [adapter EXCEPT !.state = "dropping"]
    /\ UNCHANGED <<bridge, events, now, heard>>

\* Drop: of a running adapter, of a shutdown whose future is dropped at an
\* await, and after a failed shutdown.  Its daemon calls may be refused too.
Drop ==
    /\ adapter.state \in {"started", "joining", "leaving", "dropping"}
    /\ bridge' = [bridge EXCEPT !.task = "ended"]
    /\ \/ adapter' = [Left(adapter) EXCEPT !.state = "gone", !.stop = TRUE] /\ UNCHANGED mishaps
       \/ Mishap /\ adapter' = [adapter EXCEPT !.state = "gone", !.stop = TRUE]
    /\ UNCHANGED <<events, now, heard>>

DiscoveryNext ==
    \/ BridgeStops \/ BrowserCloses \/ BridgeEvent \/ ExpiryTick \/ DaemonEvent \/ TimePasses
    \/ start_with_daemon \/ StartFails \/ shutdown_ \/ BridgeJoined \/ DaemonStopped \/ Drop

-----------------------------------------------------------------------------
DiscoveryTypeOK ==
    /\ DOMAIN bridge.cache \subseteq Names /\ Cardinality(DOMAIN bridge.cache) <= MaximumServices
    /\ bridge.task \in {"none", "running", "ended"}
    /\ adapter.state \in {"absent", "started", "joining", "leaving", "dropping", "gone"}
    /\ Len(events) <= MaxQueued /\ now \in 0 .. Horizon /\ mishaps \in 0 .. MaxMishaps

\* A service leaves the published view only by its own goodbye, its own newer
\* record, or ResolvedTtl after it was last resolved: nothing that other names
\* announce, however many they are, takes its place or lets it run out early.
LeavesOnItsOwn ==
    [][\A n \in DOMAIN bridge.cache :
          n \notin DOMAIN bridge'.cache =>
              \/ events # <<>> /\ Head(events) = Event("ServiceRemoved", n, Malformed)
              \/ now >= heard[n] + ResolvedTtl]_discoveryVars

\* The bridge offers the dialer more than what was resolved less than
\* ResolvedTtl ago.
StaleOffered ==
    /\ bridge.task = "running"
    /\ ~(bridge.published \subseteq
            snapshot(Restrict(bridge.cache, {n \in DOMAIN bridge.cache : now < heard[n] + ResolvedTtl})))

\* "No bridge task remains detached": once the adapter is gone, by shutdown,
\* by Drop or by a start that failed, so is its task.
NoBridgeLeftBehind == adapter.state \in {"gone", "leaving", "dropping"} => bridge.task # "running"
=============================================================================
