---------------------------- MODULE RuntimeProcess ----------------------------
(***************************************************************************)
(* The control panel and the runtime processes it starts, at the grain of   *)
(* their file operations: SetupService of setup.rs on one manually paired    *)
(* computer, and main.rs, prepare and run_with_capture_status of the         *)
(* runtime.  They meet in the setup directory: a lock, a control file, a     *)
(* status file, and the configuration, profile and trust files.              *)
(*                                                                          *)
(* A command of the panel is a list of file operations.  It is abandoned at  *)
(* the first one that fails; the panel may die between any two and come      *)
(* back.  prepare reads its files at once.                                   *)
(***************************************************************************)
EXTENDS Naturals, Sequences, FiniteSets

CONSTANTS Bundles,      \* pairing bundles of other computers
          Addresses,    \* addresses the peer is observed at
          MaxRuns,      \* bound: processes started
          MaxCommands,  \* bound: commands given to the panel
          MaxWoes       \* bound: failures, deaths and changes of address

VARIABLES disk,      \* the setup directory
          desk,      \* the panel
          proc,      \* proc[p]: the p-th runtime process
          lock,      \* the process that holds the managed lock, or 0
          observed,  \* where discovery sees the peer
          commands, woes

runtimeVars == <<disk, desk, proc, lock, observed, commands, woes>>

Runs == 1 .. MaxRuns
Absent == [peer |-> 0, addr |-> 0]
NoSetup == [peer |-> 0, addr |-> 0, configured |-> FALSE, validated |-> FALSE]
NoStatus == [by |-> 0, service |-> "none", owner |-> "none"]
\* over records, for the properties, the runs that were over when it was
\* asked for.
NotStarted == [phase |-> "none", transport |-> "none", capture |-> FALSE, told |-> FALSE,
               shutdown |-> FALSE, failed |-> FALSE, serves |-> Absent, over |-> {}]
Opened(setup) == [mem |-> setup, next |-> setup, todo |-> <<>>, child |-> 0, fault |-> FALSE,
                  over |-> {}]

\* A new directory, or one whose setup is complete.
RuntimeInit ==
    /\ observed \in Addresses
    /\ \E b \in Bundles \union {0} :
          LET f == [peer |-> b, addr |-> IF b = 0 THEN 0 ELSE observed]
              s == [peer |-> f.peer, addr |-> f.addr, configured |-> b # 0, validated |-> b # 0]
          IN  /\ disk = [state |-> s, config |-> f, profile |-> f, trust |-> b,
                         control |-> "none", status |-> NoStatus]
              /\ desk = Opened(s)
    /\ proc = [p \in Runs |-> NotStarted]
    /\ lock = 0 /\ commands = 0 /\ woes = 0

Dead == {"none", "exited", "failed"}
Over == {p \in Runs : proc[p].phase \in {"exited", "failed"}}
Alive(p) == p # 0 /\ proc[p].phase \notin Dead
runtime_lock_held == lock # 0

Woe(w) == woes' = woes + w /\ woes' <= MaxWoes

-----------------------------------------------------------------------------
\* secure_read, parse, validate_config_matches_profile and build_prepared.

validate_config_matches_profile == disk.config = disk.profile
build_prepared == disk.trust = disk.profile.peer
prepare == /\ disk.profile # Absent /\ disk.config # Absent /\ disk.trust # 0
           /\ validate_config_matches_profile /\ build_prepared

-----------------------------------------------------------------------------
\* The panel.

Begin(d, todo) == /\ desk.todo = <<>> /\ commands < MaxCommands
                  /\ commands' = commands + 1
                  /\ desk' = [d EXCEPT !.todo = todo]
                  /\ UNCHANGED <<disk, proc, lock, observed, woes>>

ensure_runtime_stopped == ~Alive(desk.child) /\ ~runtime_lock_held
Idled(d) == [d EXCEPT !.child = 0]

\* The refusal while the runtime runs, which forgets a child that is dead.
RefusedWhileRunning ==
    /\ desk.child # 0 /\ ~Alive(desk.child) /\ runtime_lock_held
    /\ Begin(Idled(desk), <<>>)

import_peer_bundle(b) ==
    /\ ensure_runtime_stopped
    /\ Begin([Idled(desk) EXCEPT !.next = [NoSetup EXCEPT !.peer = b, !.addr = observed]],
             <<"trust", "install">>)

forget_paired_computer ==
    /\ ensure_runtime_stopped /\ desk.mem.peer # 0
    /\ Begin([Idled(desk) EXCEPT !.mem = NoSetup],
             <<"save", "-trust", "-config", "-profile", "-status">>)

\* refresh_lan_addresses
Refreshed(s) == [s EXCEPT !.addr = observed]

finalize_setup ==
    /\ ensure_runtime_stopped /\ desk.mem.peer # 0
    /\ Begin([Idled(desk) EXCEPT !.next = Refreshed(desk.mem)], <<"config", "profile", "commit">>)

Rewrite == <<"config", "profile", "flags", "save", "prepare", "valid", "save">>

repair_lan_binding ==
    /\ ensure_runtime_stopped /\ desk.mem.peer # 0
    /\ Begin([Idled(desk) EXCEPT !.mem = Refreshed(@), !.next = Refreshed(desk.mem)], Rewrite)

validate_setup ==
    /\ ensure_runtime_stopped
    /\ Begin(Idled(desk), <<"prepare", "valid", "save">>)

\* Mutant: the configuration written last is good enough.
start_runtimeAsIs ==
    /\ desk.child = 0 /\ ~runtime_lock_held /\ desk.mem.validated
    /\ Begin(desk, <<"prepare", "run", "-status", "spawn">>)

start_runtime ==
    /\ desk.child = 0 /\ ~runtime_lock_held /\ desk.mem.validated /\ desk.mem.configured
    /\ Begin([desk EXCEPT !.mem = Refreshed(@), !.next = Refreshed(desk.mem), !.over = Over],
             Rewrite \o <<"run", "-status", "spawn">>)

stop_runtime == Begin(desk, <<"stop", "await">>)

\* poll_runtime_state; every snapshot takes it.
poll_runtime_state ==
    /\ desk.todo = <<>> /\ desk.child # 0 /\ ~Alive(desk.child)
    /\ desk' = [desk EXCEPT !.child = 0, !.fault = proc[desk.child].phase = "failed"]
    /\ UNCHANGED <<disk, proc, lock, observed, commands, woes>>

PanelRunning == IF desk.child # 0 THEN Alive(desk.child) ELSE runtime_lock_held

\* One file operation: what it does to the directory and to the panel.
Item == Head(desk.todo)
Flagged(s, valid) == [s EXCEPT !.configured = TRUE, !.validated = valid]

Written ==
    CASE Item = "trust"   -> [disk EXCEPT !.trust = desk.next.peer]
      [] Item = "install" -> IF desk.mem.peer # 0 THEN disk ELSE [disk EXCEPT !.state = desk.next]
      [] Item = "config"  -> [disk EXCEPT !.config = [peer |-> desk.next.peer, addr |-> desk.next.addr]]
      [] Item = "profile" -> [disk EXCEPT !.profile = [peer |-> desk.next.peer, addr |-> desk.next.addr]]
      [] Item = "commit"  -> [disk EXCEPT !.state = Flagged(desk.next, FALSE)]
      [] Item = "save"    -> [disk EXCEPT !.state = desk.mem]
      [] Item = "run"     -> [disk EXCEPT !.control = "run"]
      [] Item = "stop"    -> [disk EXCEPT !.control = "stop"]
      [] Item = "-trust"  -> [disk EXCEPT !.trust = 0]
      [] Item = "-config" -> [disk EXCEPT !.config = Absent]
      [] Item = "-profile" -> [disk EXCEPT !.profile = Absent]
      [] Item = "-status" -> [disk EXCEPT !.status = NoStatus]
      [] OTHER -> disk

Remembered ==
    CASE Item = "install" -> IF desk.mem.peer # 0 THEN desk.mem ELSE desk.next
      [] Item = "commit"  -> Flagged(desk.next, FALSE)
      [] Item = "flags"   -> Flagged(desk.mem, FALSE)
      [] Item = "valid"   -> [desk.mem EXCEPT !.validated = TRUE]
      [] OTHER -> desk.mem

\* What stop_runtime waits for.
Stopped == IF desk.child # 0 THEN ~Alive(desk.child) ELSE ~runtime_lock_held

Operation ==
    /\ desk.todo # <<>> /\ Item \notin {"spawn", "await"}
    /\ desk' = [desk EXCEPT !.todo = IF Item = "prepare" /\ ~prepare THEN <<>> ELSE Tail(@),
                            !.mem = Remembered]
    /\ disk' = Written
    /\ UNCHANGED <<proc, lock, observed, commands, woes>>

Fresh == {p \in Runs : proc[p].phase = "none"}

SpawnChild ==
    /\ desk.todo # <<>> /\ Item = "spawn"
    /\ \E p \in Fresh : /\ \A q \in Fresh : p <= q
                        /\ proc' = [proc EXCEPT ![p].phase = "spawned", ![p].over = desk.over]
                        /\ desk' = [desk EXCEPT !.todo = <<>>, !.child = p, !.fault = FALSE]
    /\ UNCHANGED <<disk, lock, observed, commands, woes>>

StopSettles ==
    /\ desk.todo # <<>> /\ Item = "await" /\ Stopped
    /\ desk' = [desk EXCEPT !.todo = <<>>, !.child = 0, !.fault = FALSE]
    /\ UNCHANGED <<disk, proc, lock, observed, commands, woes>>

\* A write or a removal fails, the runtime cannot be spawned, or fifteen
\* seconds are over.  A failed secure_write leaves the file as it was, or,
\* when only its second rename fails, leaves none.
OperationFails ==
    /\ desk.todo # <<>> /\ Item \notin {"prepare", "flags", "valid"} /\ Woe(1)
    /\ desk' = [desk EXCEPT !.todo = <<>>, !.mem = IF Item = "install" THEN Remembered ELSE @]
    /\ \/ disk' = disk
       \/ Item \in {"run", "stop"} /\ disk' = [disk EXCEPT !.control = "none"]
       \/ Item = "config" /\ disk' = [disk EXCEPT !.config = Absent]
       \/ Item = "profile" /\ disk' = [disk EXCEPT !.profile = Absent]
       \/ Item = "trust" /\ disk' = [disk EXCEPT !.trust = 0]
    /\ UNCHANGED <<proc, lock, observed, commands>>

\* SetupService::open after the panel died.
PanelRestarts ==
    /\ Woe(1) /\ desk' = Opened(disk.state)
    /\ UNCHANGED <<disk, proc, lock, observed, commands>>

PeerMoves ==
    /\ Woe(1) /\ observed' \in Addresses \ {observed}
    /\ UNCHANGED <<disk, desk, proc, lock, commands>>

-----------------------------------------------------------------------------
\* A runtime process p.

Proc(p, r) == proc' = [proc EXCEPT ![p] = r]
Published(p, service, owner) == [disk EXCEPT !.status = [by |-> p, service |-> service, owner |-> owner]]
Ends(p, r, failed) ==
    /\ Proc(p, [r EXCEPT !.phase = IF failed THEN "failed" ELSE "exited", !.capture = FALSE])
    /\ lock' = IF lock = p THEN 0 ELSE lock

acquire_managed_lock(p) ==
    /\ proc[p].phase = "spawned"
    /\ \/ lock = 0 /\ Proc(p, [proc[p] EXCEPT !.phase = "locked"]) /\ lock' = p
       \/ lock # 0 /\ Ends(p, proc[p], TRUE)
    /\ UNCHANGED <<disk, desk, observed, commands, woes>>

\* managed_stop_requested, in a task that looks four times a second.
managed_stop_requested(p) ==
    /\ Alive(p) /\ proc[p].phase # "spawned" /\ ~proc[p].shutdown /\ disk.control = "stop"
    /\ Proc(p, [proc[p] EXCEPT !.shutdown = TRUE])
    /\ UNCHANGED <<disk, desk, lock, observed, commands, woes>>

Interrupted(p) ==
    /\ Alive(p) /\ proc[p].phase # "spawned" /\ ~proc[p].shutdown /\ Woe(1)
    /\ Proc(p, [proc[p] EXCEPT !.shutdown = TRUE])
    /\ UNCHANGED <<disk, desk, lock, observed, commands>>

\* run_native_profile: prepare, enumerate and compose, then the service starts.
run_native_profile(p) ==
    /\ proc[p].phase = "locked"
    /\ \/ /\ prepare /\ UNCHANGED <<lock, woes>>
          /\ Proc(p, [proc[p] EXCEPT !.phase = "starting", !.transport = "binding", !.serves = disk.profile])
          /\ disk' = Published(p, "starting", "Local")
       \/ /\ \/ ~prepare /\ UNCHANGED woes
             \/ prepare /\ Woe(1)
          /\ Ends(p, proc[p], TRUE) /\ UNCHANGED disk
    /\ UNCHANGED <<desk, observed, commands>>

\* await_transport_ready
await_transport_ready(p) ==
    /\ proc[p].phase = "starting"
    /\ \/ Proc(p, [proc[p] EXCEPT !.phase = "ready", !.transport = "up"]) /\ UNCHANGED <<lock, woes>>
       \/ Ends(p, [proc[p] EXCEPT !.transport = "failed"], TRUE) /\ Woe(1)
    /\ UNCHANGED <<disk, desk, observed, commands>>

\* Shutdown before capture, capture.start, or its failure.
StartCapture(p) ==
    /\ proc[p].phase = "ready"
    /\ \/ /\ proc[p].shutdown /\ UNCHANGED woes
          /\ Proc(p, [proc[p] EXCEPT !.phase = "waiting", !.told = TRUE])
       \/ /\ ~proc[p].shutdown /\ UNCHANGED woes
          /\ Proc(p, [proc[p] EXCEPT !.phase = "armed", !.capture = TRUE])
       \/ /\ ~proc[p].shutdown /\ Woe(1)
          /\ Proc(p, [proc[p] EXCEPT !.phase = "waiting", !.told = TRUE, !.failed = TRUE])
    /\ UNCHANGED <<disk, desk, lock, observed, commands>>

\* The transport's tick publishes what the manager says.
report_manager_snapshot(p) ==
    /\ Alive(p) /\ proc[p].transport = "up" /\ proc[p].phase # "starting"
    /\ \E owner \in {"Local", "Peer"} : disk' = Published(p, "running", owner)
    /\ UNCHANGED <<desk, proc, lock, observed, commands, woes>>

TransportEnds(p) ==
    /\ Alive(p) /\ proc[p].transport = "up"
    /\ \/ proc[p].told /\ UNCHANGED woes /\ Proc(p, [proc[p] EXCEPT !.transport = "ended"])
       \/ Woe(1) /\ \E how \in {"failed", "panicked"} : Proc(p, [proc[p] EXCEPT !.transport = how])
    /\ UNCHANGED <<disk, desk, lock, observed, commands>>

Close(p, r, failed) ==
    /\ Proc(p, [r EXCEPT !.phase = "closing", !.capture = FALSE, !.told = TRUE, !.failed = failed])
    /\ disk' = Published(p, "stopping", "Local") /\ UNCHANGED lock

\* The loop of run_with_capture_status.  A transport task that panicked ends
\* the service at once; dropping the supervisor stops capture.
ServiceLoop(p) ==
    /\ proc[p].phase = "armed"
    /\ \/ proc[p].shutdown /\ UNCHANGED woes /\ Close(p, proc[p], FALSE)
       \/ ~proc[p].shutdown /\ proc[p].transport = "failed" /\ UNCHANGED woes /\ Close(p, proc[p], TRUE)
       \/ /\ ~proc[p].shutdown /\ proc[p].transport = "panicked"
          /\ Ends(p, proc[p], TRUE) /\ UNCHANGED <<disk, woes>>
       \/ Woe(1) /\ Close(p, proc[p], TRUE)
    /\ UNCHANGED <<desk, observed, commands>>

TransportSettled(p) == proc[p].transport \in {"ended", "failed", "panicked"}

\* The transport settles, or ten seconds pass; only the last way out
\* publishes the fault.
SettleTransport(p) ==
    \/ /\ proc[p].phase = "waiting" /\ TransportSettled(p)
       /\ Ends(p, proc[p], proc[p].failed \/ proc[p].transport # "ended")
       /\ UNCHANGED <<disk, desk, observed, commands, woes>>
    \/ /\ proc[p].phase = "closing" /\ TransportSettled(p)
       /\ LET failed == proc[p].failed \/ proc[p].transport # "ended" IN
          /\ Ends(p, proc[p], failed)
          /\ disk' = IF failed /\ proc[p].transport # "panicked"
                     THEN Published(p, "faulted", "Local") ELSE disk
       /\ UNCHANGED <<desk, observed, commands, woes>>
    \/ /\ proc[p].phase = "closing" /\ ~TransportSettled(p) /\ Woe(1) /\ Ends(p, proc[p], TRUE)
       /\ UNCHANGED <<disk, desk, observed, commands>>

Killed(p) == Alive(p) /\ Woe(1) /\ Ends(p, proc[p], TRUE) /\ UNCHANGED <<disk, desk, observed, commands>>

ProcessStep(p) ==
    \/ acquire_managed_lock(p) \/ run_native_profile(p) \/ await_transport_ready(p)
    \/ StartCapture(p) \/ ServiceLoop(p) \/ SettleTransport(p)

RuntimeNext ==
    \/ \E b \in Bundles : import_peer_bundle(b)
    \/ RefusedWhileRunning \/ forget_paired_computer \/ finalize_setup \/ repair_lan_binding
    \/ validate_setup \/ start_runtime \/ stop_runtime \/ poll_runtime_state
    \/ Operation \/ SpawnChild \/ StopSettles \/ OperationFails \/ PanelRestarts \/ PeerMoves
    \/ \E p \in Runs :
          \/ ProcessStep(p) \/ managed_stop_requested(p) \/ Interrupted(p)
          \/ report_manager_snapshot(p) \/ TransportEnds(p) \/ Killed(p)

-----------------------------------------------------------------------------
\* The type of the state; the panel works on one command at a time.
RuntimeTypeOK ==
    /\ disk.trust \in Bundles \union {0} /\ disk.state.peer \in Bundles \union {0}
    /\ disk.config.peer \in Bundles \union {0} /\ disk.profile.peer \in Bundles \union {0}
    /\ disk.control \in {"none", "run", "stop"} /\ disk.status.by \in 0 .. MaxRuns
    /\ desk.child \in 0 .. MaxRuns /\ lock \in 0 .. MaxRuns
    /\ woes \in 0 .. MaxWoes /\ commands \in 0 .. MaxCommands

\* However panels come and go, the managed lock (main.rs) lets one process
\* open native capture, and what the panel shows of a running service was not
\* published by a run that was over when that service was asked for.
ShownStatusIsCurrent ==
    /\ \A p, q \in Runs : (proc[p].capture /\ proc[q].capture) => p = q
    /\ PanelRunning => disk.status.by \notin proc[IF desk.child # 0 THEN desk.child ELSE lock].over

\* The process the panel started serves the stored peer at the stored address,
\* with that peer's certificate as its trust.
ServesStoredSetup ==
    \A p \in Runs : (p = desk.child /\ Alive(p) /\ proc[p].serves # Absent) =>
        proc[p].serves = [peer |-> disk.state.peer, addr |-> disk.state.addr]

\* "Shutdown and every fault revoke native suppression [...] before transport
\* is asked to close" (run_with_capture): a transport told to stop, or one
\* whose process is gone, leaves no capture behind.
SuppressionEndsFirst ==
    \A p \in Runs : (proc[p].told \/ ~Alive(p)) => ~proc[p].capture

\* A process runs on with a stop request in its control file.
StopPending == disk.control = "stop" /\ \E p \in Runs : Alive(p)
=============================================================================
