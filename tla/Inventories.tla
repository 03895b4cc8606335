----------------------------- MODULE Inventories -----------------------------
(***************************************************************************)
(* The display and device inventories of one host (display_inventory.rs,    *)
(* device_inventory.rs) as its workspace control drives them: what the      *)
(* sessions of several remote hosts publish, under which generation and     *)
(* revision.  A remote host runs the same program: it sends both snapshots  *)
(* on activation, one per local change, and its device snapshot again when  *)
(* a degraded session recovers.                                             *)
(*                                                                          *)
(* Metadata is abstracted to the identifiers of an inventory; generation 0  *)
(* is "none".                                                               *)
(***************************************************************************)
EXTENDS Naturals, Sequences, FiniteSets, FiniteSetsExt

CONSTANTS RemoteHosts,      \* the hosts that may connect
          MaxRemoteHosts,   \* remote_hosts of both configurations
          PerHost,          \* devices_per_host, displays_per_host
          Total,            \* total_devices, total_displays
          Items,            \* identifiers of devices and displays
          MaxMoves          \* bound: connections and losses; a degradation or a
                            \* change counts for two

VARIABLES displays,  \* DisplayInventory: remote part
          devices,   \* DeviceInventory: remote part
          remote,    \* each remote host, and its session's channel
          gate,      \* the last generation handed out
          moves      \* events so far

inventoryVars == <<displays, devices, remote, gate, moves>>

NoRecord == [gen |-> 0, revision |-> 0, items |-> {}]
Nobody == [h \in RemoteHosts |-> 0]

InventoryInit ==
    /\ displays = [active |-> Nobody, retired |-> Nobody, shutdown |-> FALSE,
                   records |-> [h \in RemoteHosts |-> NoRecord]]
    /\ devices = [active |-> Nobody, retired |-> Nobody, suspended |-> Nobody, shutdown |-> FALSE,
                  slots |-> {}, records |-> [h \in RemoteHosts |-> NoRecord]]
    /\ remote = [h \in RemoteHosts |->
                   [gen |-> 0, revision |-> 1, items |-> {}, resync |-> FALSE, chan |-> <<>>,
                    high |-> 0, ended |-> "no"]]
    /\ gate = 0 /\ moves = 0

Result(state, ok) == [state |-> state, ok |-> ok]
Err(state, why) == Result(state, why)

Occupied(inv) == {h \in RemoteHosts : inv.active[h] # 0}
TotalItems(inv) == MapThenSumSet(LAMBDA h : Cardinality(inv.records[h].items), RemoteHosts)

-----------------------------------------------------------------------------
\* Both inventories: apply_snapshot, apply_add/apply_update, apply_remove.

Fits(inv, h, items) ==
    /\ Cardinality(items) <= PerHost
    /\ TotalItems(inv) - Cardinality(inv.records[h].items) + Cardinality(items) <= Total

Insert(inv, h, m) ==
    Result([inv EXCEPT !.records[h] = [gen |-> inv.active[h], revision |-> m.revision, items |-> m.items]], "Ok")

apply_snapshot(inv, h, m) ==
    IF inv.records[h].gen # 0 /\ m.revision <= inv.records[h].revision THEN Err(inv, "StaleRevision")
    ELSE IF ~Fits(inv, h, m.items) THEN Err(inv, "CapacityExceeded")
    ELSE Insert(inv, h, m)

\* validate_exact_next, then the one item of the message.
apply_update(inv, h, m) ==
    IF inv.records[h].gen = 0 THEN Err(inv, "InventoryUnavailable")
    ELSE IF m.revision <= inv.records[h].revision THEN Err(inv, "StaleRevision")
    ELSE IF m.revision > inv.records[h].revision + 1 THEN Err(inv, "RevisionGap")
    ELSE IF ~Fits(inv, h, m.items) THEN Err(inv, "CapacityExceeded")
    ELSE Insert(inv, h, m)

-----------------------------------------------------------------------------
\* DisplayInventory.

activate_display(inv, h, g) ==
    IF inv.shutdown \/ g <= inv.retired[h] THEN Err(inv, "SessionMismatch")
    ELSE IF Cardinality(Occupied(inv)) >= MaxRemoteHosts THEN Err(inv, "CapacityExceeded")
    ELSE Result([inv EXCEPT !.active[h] = g], "Ok")

Retired(inv) == {h \in RemoteHosts : inv.retired[h] # 0}

shutdown_remote(inv) ==
    [inv EXCEPT !.shutdown = TRUE, !.active = Nobody, !.retired = Nobody,
                !.records = [h \in RemoteHosts |-> NoRecord]]

\* The oldest retired generation makes room, and its host's record goes too.
Evict(inv, h) ==
    IF inv.retired[h] = 0 /\ Cardinality(Retired(inv)) >= MaxRemoteHosts
    THEN LET oldest == CHOOSE o \in Retired(inv) : \A r \in Retired(inv) : inv.retired[o] <= inv.retired[r]
         IN  [inv EXCEPT !.retired[oldest] = 0, !.records[oldest] = NoRecord]
    ELSE inv

Forget(inv, h, g) ==
    [inv EXCEPT !.active[h] = 0, !.retired[h] = g,
                !.records[h] = IF @.gen = g THEN NoRecord ELSE @]

invalidate_display(inv, h, g) ==
    IF inv.active[h] # g THEN inv ELSE Forget(Evict(inv, h), h, g)

-----------------------------------------------------------------------------
\* DeviceInventory: a host keeps its slot for good.

activate_device(inv, h, g) ==
    IF inv.shutdown THEN Err(inv, "SessionMismatch")
    ELSE IF h \in inv.slots
    THEN IF g <= inv.retired[h] THEN Err(inv, "SessionMismatch")
         ELSE Result([inv EXCEPT !.active[h] = g, !.suspended[h] = 0], "Ok")
    ELSE IF Cardinality(inv.slots) >= MaxRemoteHosts THEN Err(inv, "CapacityExceeded")
    ELSE Result([inv EXCEPT !.slots = @ \union {h}, !.active[h] = g, !.suspended[h] = 0], "Ok")


invalidate_device(inv, h, g) ==
    IF inv.active[h] # g THEN inv
    ELSE [inv EXCEPT !.active[h] = 0, !.retired[h] = g, !.suspended[h] = 0,
                     !.records[h] = IF @.gen = g THEN NoRecord ELSE @]

suspend_remote(inv, h) ==
    IF inv.active[h] = 0 \/ inv.records[h].gen # inv.active[h] THEN inv
    ELSE [inv EXCEPT !.suspended[h] = IF @ > inv.records[h].revision THEN @ ELSE inv.records[h].revision,
                     !.records[h] = NoRecord]

apply_remote_snapshot(inv, h, m) ==
    IF m.revision <= inv.suspended[h] THEN Err(inv, "StaleRevision")
    ELSE LET r == apply_snapshot(inv, h, m)
         IN  IF r.ok = "Ok" THEN Result([r.state EXCEPT !.suspended[h] = 0], "Ok") ELSE Err(inv, r.ok)

-----------------------------------------------------------------------------
\* Workspace control.

Move(cost) == moves + cost <= MaxMoves /\ moves' = moves + cost

Message(kind, r) == [kind |-> kind, revision |-> r.revision, items |-> r.items]

\* The session is over: retire_settled_metadata, and the remote side with it.
Closed(h, why) ==
    [remote EXCEPT ![h] = [@ EXCEPT !.gen = 0, !.chan = <<>>, !.resync = FALSE, !.high = 0, !.ended = why]]

\* activate: the display inventory first.  When the device inventory refuses,
\* the session fails and what the first did is undone.
activate(h) ==
    /\ remote[h].gen = 0 /\ Move(1) /\ gate' = gate + 1
    /\ LET d == activate_display(displays, h, gate + 1)
           v == activate_device(devices, h, gate + 1)
       IN  \/ /\ d.ok = "Ok" /\ v.ok = "Ok"
              /\ displays' = d.state /\ devices' = v.state
              /\ remote' = [remote EXCEPT ![h].gen = gate + 1, ![h].ended = "no",
                              ![h].chan = <<Message("DisplaySnapshot", remote[h]),
                                            Message("DeviceSnapshot", remote[h])>>]
           \/ /\ d.ok = "Ok" /\ v.ok # "Ok"
              /\ displays' = invalidate_display(d.state, h, gate + 1)
              /\ remote' = Closed(h, v.ok) /\ UNCHANGED devices
           \/ d.ok # "Ok" /\ remote' = Closed(h, d.ok) /\ UNCHANGED <<displays, devices>>

Retire(h, why) ==
    /\ displays' = invalidate_display(displays, h, remote[h].gen)
    /\ devices' = invalidate_device(devices, h, remote[h].gen)
    /\ remote' = Closed(h, why)

SessionLost(h) == remote[h].gen # 0 /\ Move(1) /\ Retire(h, "lost") /\ UNCHANGED gate

Handle(h, m) ==
    CASE m.kind = "DisplaySnapshot" -> [inv |-> "displays", res |-> apply_snapshot(displays, h, m)]
      [] m.kind = "DisplayUpdated"  -> [inv |-> "displays", res |-> apply_update(displays, h, m)]
      [] m.kind = "DeviceSnapshot"  -> [inv |-> "devices", res |-> apply_remote_snapshot(devices, h, m)]
      [] m.kind \in {"DeviceAdded", "DeviceRemoved"} -> [inv |-> "devices", res |-> apply_update(devices, h, m)]

\* handle_message: a refused message is fatal to the session.
handle_message(h) ==
    /\ remote[h].chan # <<>>
    /\ LET m == Head(remote[h].chan)
           o == Handle(h, m)
       IN  \/ /\ o.res.ok = "Ok"
              /\ displays' = IF o.inv = "displays" THEN o.res.state ELSE displays
              /\ devices' = IF o.inv = "devices" THEN o.res.state ELSE devices
              /\ remote' = [remote EXCEPT ![h].chan = Tail(@),
                                          ![h].high = IF o.inv = "devices" THEN m.revision ELSE @]
           \/ o.res.ok # "Ok" /\ Retire(h, o.res.ok)
    /\ UNCHANGED <<gate, moves>>

\* degrade, at this host: the device metadata of the session is withdrawn.
degrade(h) ==
    /\ remote[h].gen # 0 /\ Move(2)
    /\ devices' = suspend_remote(devices, h)
    /\ UNCHANGED <<displays, remote, gate>>

\* shutdown
shutdown_workspace ==
    /\ ~displays.shutdown /\ Move(1)
    /\ displays' = shutdown_remote(displays)
    /\ devices' = [devices EXCEPT !.shutdown = TRUE, !.active = Nobody, !.retired = Nobody, !.slots = {},
                                  !.suspended = Nobody, !.records = [h \in RemoteHosts |-> NoRecord]]
    /\ remote' = [h \in RemoteHosts |-> [remote[h] EXCEPT !.gen = 0, !.chan = <<>>, !.resync = FALSE,
                                                          !.high = 0]]
    /\ UNCHANGED gate

-----------------------------------------------------------------------------
\* The remote hosts.

\* A local change: the next revision, sent whole or, when it is one item, alone.
LocalChange(h) ==
    /\ Move(2)
    /\ \E items \in {i \in SUBSET Items : Cardinality(i) <= PerHost} :
       \E kinds \in {<<"DisplaySnapshot", "DeviceSnapshot">>, <<"DisplayUpdated", "DeviceAdded">>,
                     <<"DisplayUpdated", "DeviceRemoved">>} :
          /\ Len(remote[h].chan) = 0
          /\ kinds[2] = "DeviceAdded" => \E i \in items : remote[h].items = items \ {i}
          /\ kinds[2] = "DeviceRemoved" => \E i \in remote[h].items : items = remote[h].items \ {i}
          /\ remote' = [remote EXCEPT ![h].revision = @ + 1, ![h].items = items,
                 ![h].chan = IF remote[h].gen = 0 THEN @
                             ELSE [k \in 1 .. 2 |-> [kind |-> kinds[k], revision |-> remote[h].revision + 1,
                                                     items |-> items]]]
    /\ UNCHANGED <<displays, devices, gate>>

\* Its own end of the session degrades, and recovers: connected.
RemoteDegrades(h) ==
    /\ remote[h].gen # 0 /\ ~remote[h].resync /\ Move(2)
    /\ remote' = [remote EXCEPT ![h].resync = TRUE]
    /\ UNCHANGED <<displays, devices, gate>>

connected_(h) ==
    /\ remote[h].resync
    /\ remote' = [remote EXCEPT ![h].resync = FALSE,
                                ![h].chan = Append(@, Message("DeviceSnapshot", remote[h]))]
    /\ UNCHANGED <<displays, devices, gate, moves>>

InventoryNext ==
    \/ shutdown_workspace
    \/ \E h \in RemoteHosts : activate(h) \/ SessionLost(h) \/ handle_message(h) \/ degrade(h)
                              \/ LocalChange(h) \/ RemoteDegrades(h) \/ connected_(h)

-----------------------------------------------------------------------------
InventoryTypeOK ==
    /\ \A inv \in {displays, devices} :
          /\ Cardinality(Occupied(inv)) <= MaxRemoteHosts
          /\ TotalItems(inv) <= Total
    /\ Cardinality(Retired(displays)) <= MaxRemoteHosts
    /\ moves \in 0 .. MaxMoves

\* Published metadata is that of a session that is still admitted: no record
\* outlives its generation, in either inventory.
MetadataOfLiveSessions ==
    \A h \in RemoteHosts : \A inv \in {displays, devices} :
        inv.records[h].gen # 0 => inv.records[h].gen = inv.active[h] /\ inv.active[h] = remote[h].gen

\* "A strictly newer full snapshot": within a session the device revisions this
\* host accepts grow, also across a suspension, so that metadata that was
\* withdrawn does not come back as it was.
RevisionsGrow ==
    [][\A h \in RemoteHosts :
          remote[h].gen # 0 /\ remote'[h].gen = remote[h].gen /\ devices'.records[h] # devices.records[h]
              => devices'.records[h] = NoRecord \/ devices'.records[h].revision > remote[h].high]_inventoryVars

\* Connections that come and go never use the display inventory up: until
\* shutdown, with a place free, a new session of any host is admitted.
ChurnKeepsActivation ==
    \A h \in RemoteHosts :
        ~devices.shutdown /\ displays.active[h] = 0 /\ Cardinality(Occupied(displays)) < MaxRemoteHosts
            => activate_display(displays, h, gate + 1).ok = "Ok"

\* A session that degraded and recovered goes on: what a host sends again on
\* recovery is not refused as stale.
RecoveredSessionLives == \A h \in RemoteHosts : remote[h].ended # "StaleRevision"
=============================================================================
