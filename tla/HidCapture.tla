----------------------------- MODULE HidCapture -----------------------------
(***************************************************************************)
(* IOHID observation of kvm-macos/native.rs: the owner's start_observation  *)
(* and stop_observation, the capture thread with its table of devices, and  *)
(* the delivery thread behind a bounded queue.  A value is Motion or the    *)
(* number of a key or button transition; its device may have been unplugged *)
(* since, and is then not in the table.                                     *)
(***************************************************************************)
EXTENDS Naturals, Sequences

CONSTANTS HidRuns,       \* bound: calls of start_observation
          HidTrouble,    \* bound: native failures and timeouts
          HidQueueCap,   \* CAPTURE_QUEUE_CAPACITY
          HidValues,     \* bound: transitions observed in a run
          HidDevices     \* the keyboards and pointers of the machine

VARIABLES owner,   \* MacInputBackend, observing, and its pending wait
          hid,     \* the two threads of every run
          hitches  \* failures so far

hidVars == <<owner, hid, hitches>>

HidMotion == 0

NoHidThreads ==
    [cap |-> "unborn", del |-> "unborn", ready |-> "none", active |-> FALSE, stop |-> FALSE,
     devices |-> {}, queue |-> <<>>, health |-> "Idle", observed |-> 0, delivered |-> 0]

\* current is the run whose counters the backend reads.
HidInit ==
    /\ owner = [run |-> 0, session |-> 0, current |-> 0, wait |-> "none"]
    /\ hid = [g \in 1 .. HidRuns |-> NoHidThreads]
    /\ hitches = 0

Hitch == hitches < HidTrouble /\ hitches' = hitches + 1

-----------------------------------------------------------------------------
\* The owner.

start_observation ==
    /\ owner.wait = "none" /\ owner.run < HidRuns
    /\ owner' = [owner EXCEPT !.run = @ + 1, !.wait = IF owner.session = 0 THEN "ready" ELSE @]
    /\ \/ owner.session # 0 /\ UNCHANGED <<hid, hitches>>
       \/ /\ owner.session = 0
          /\ hid' = [hid EXCEPT ![owner.run + 1].cap = "born", ![owner.run + 1].del = "waiting"]
          /\ UNCHANGED hitches

\* A missing permission, or a thread that cannot be spawned.
StartRefused ==
    /\ owner.wait = "none" /\ owner.run < HidRuns /\ Hitch
    /\ owner' = [owner EXCEPT !.run = @ + 1] /\ UNCHANGED hid

HidReady ==
    /\ owner.wait = "ready" /\ hid[owner.run].ready = "Ok"
    /\ hid' = [hid EXCEPT ![owner.run].health = "Running", ![owner.run].active = TRUE]
    /\ owner' = [owner EXCEPT !.wait = "none", !.session = owner.run, !.current = owner.run]
    /\ UNCHANGED hitches

\* A startup error joins both threads; a timeout leaves them to themselves.
HidNotReady ==
    /\ owner.wait = "ready"
    /\ \/ /\ hid[owner.run].ready = "Err" /\ hid[owner.run].cap = "done" /\ hid[owner.run].del = "done"
          /\ UNCHANGED <<hid, hitches>>
       \/ /\ hid[owner.run].ready = "none" /\ Hitch
          /\ hid' = [hid EXCEPT ![owner.run].ready = "Dropped"]
    /\ owner' = [owner EXCEPT !.wait = "none"]

stop_observation ==
    /\ owner.session # 0 /\ owner.wait = "none"
    /\ hid' = [hid EXCEPT ![owner.session].stop = TRUE]
    /\ owner' = [owner EXCEPT !.wait = "stop"] /\ UNCHANGED hitches

StoppedHealth(h) == IF h = "Running" THEN "Stopped" ELSE h

HidJoins ==
    /\ owner.wait = "stop" /\ hid[owner.session].cap = "done" /\ hid[owner.session].del = "done"
    /\ hid' = [hid EXCEPT ![owner.session].health = StoppedHealth(@)]
    /\ owner' = [owner EXCEPT !.wait = "none", !.session = 0] /\ UNCHANGED hitches

HidStopTimesOut ==
    /\ owner.wait = "stop" /\ Hitch
    /\ hid[owner.session].cap # "done" \/ hid[owner.session].del # "done"
    /\ owner' = [owner EXCEPT !.wait = "none"] /\ UNCHANGED hid

-----------------------------------------------------------------------------
\* run_capture_thread

Runs_(g, pc, t) == hid[g].cap = pc /\ hid' = [hid EXCEPT ![g] = t] /\ UNCHANGED owner

OpenManager(g) ==
    \/ Runs_(g, "born", [hid[g] EXCEPT !.cap = "open", !.devices = HidDevices]) /\ UNCHANGED hitches
    \/ Runs_(g, "born", [hid[g] EXCEPT !.cap = "done", !.ready = IF @ = "none" THEN "Err" ELSE @]) /\ Hitch

PublishRunLoop(g) ==
    /\ Runs_(g, "open", IF hid[g].ready = "Dropped" THEN [hid[g] EXCEPT !.cap = "done"]
                        ELSE [hid[g] EXCEPT !.ready = "Ok", !.cap = "barrier"])
    /\ UNCHANGED hitches

EnterRunLoop(g) ==
    hid[g].active /\ Runs_(g, "barrier", [hid[g] EXCEPT !.cap = "loop"]) /\ UNCHANGED hitches

LeaveRunLoop(g) ==
    hid[g].stop /\ Runs_(g, "loop", [hid[g] EXCEPT !.cap = "done"]) /\ UNCHANGED hitches

\* iohid_device_matched and iohid_device_removed
DeviceChanges(g) ==
    /\ \E d \in HidDevices :
          Runs_(g, "loop", [hid[g] EXCEPT !.devices = IF d \in @ THEN @ \ {d} ELSE @ \union {d}])
    /\ UNCHANGED hitches

try_send(t, v) ==
    IF Len(t.queue) < HidQueueCap THEN [t EXCEPT !.queue = Append(@, v)]
    ELSE IF v = HidMotion THEN t
    ELSE [t EXCEPT !.health = "TransitionDiscontinuity", !.stop = TRUE]

\* iohid_input_value: nothing once stop is requested, or for a device that is
\* not in the table.
iohid_input_value(g) ==
    /\ ~hid[g].stop
    /\ \E d \in HidDevices :
          /\ d \in hid[g].devices
          /\ \/ Runs_(g, "loop", try_send(hid[g], HidMotion))
             \/ /\ hid[g].observed < HidValues
                /\ Runs_(g, "loop", try_send([hid[g] EXCEPT !.observed = @ + 1], hid[g].observed + 1))
    /\ UNCHANGED hitches

\* The delivery thread drains the queue and ends with the capture thread.
Deliver(g) ==
    /\ hid[g].del = "waiting"
    /\ \/ /\ hid[g].queue # <<>>
          /\ hid' = [hid EXCEPT ![g].queue = Tail(@),
                                ![g].delivered = IF Head(hid[g].queue) = HidMotion THEN @
                                                 ELSE Head(hid[g].queue)]
       \/ /\ hid[g].queue = <<>> /\ hid[g].cap = "done"
          /\ hid' = [hid EXCEPT ![g].del = "done"]
    /\ UNCHANGED <<owner, hitches>>

HidNext ==
    \/ start_observation \/ StartRefused \/ HidReady \/ HidNotReady
    \/ stop_observation \/ HidJoins \/ HidStopTimesOut
    \/ \E g \in 1 .. HidRuns : OpenManager(g) \/ PublishRunLoop(g) \/ EnterRunLoop(g) \/ LeaveRunLoop(g)
                               \/ DeviceChanges(g) \/ iohid_input_value(g) \/ Deliver(g)

-----------------------------------------------------------------------------
HidTypeOK ==
    /\ owner.session \in 0 .. HidRuns /\ hitches \in 0 .. HidTrouble
    /\ \A g \in 1 .. HidRuns :
          /\ Len(hid[g].queue) <= HidQueueCap /\ hid[g].devices \subseteq HidDevices
          /\ hid[g].health \in {"Idle", "Running", "Stopped", "TransitionDiscontinuity"}

\* No transition is skipped on its way to the callback.
HidTransitionsInOrder ==
    [][\A g \in 1 .. HidRuns : hid'[g].delivered \in {hid[g].delivered, hid[g].delivered + 1}]_hidVars

\* A run that refused a transition says so, also after it was stopped: when it
\* has ended and a transition never reached the callback, its health is
\* TransitionDiscontinuity (lifecycle_state then answers Faulted).
DiscontinuityReported ==
    \A g \in 1 .. HidRuns :
        hid[g].del = "done" /\ hid[g].delivered < hid[g].observed =>
            hid[g].health = "TransitionDiscontinuity"
=============================================================================
