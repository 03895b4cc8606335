--------------------------- MODULE RawInputCapture ---------------------------
(***************************************************************************)
(* Raw Input observation of kvm-windows/native.rs: the owner's              *)
(* start_observing and stop_observing, the message thread of a generation   *)
(* with its process-wide registration (ownership.rs), and the callback      *)
(* thread behind a bounded queue.                                           *)
(*                                                                          *)
(* A packet is Motion or the number of a key or button transition.  A       *)
(* generation's threads end on their own when the owner gives up on them.   *)
(***************************************************************************)
EXTENDS Naturals, Sequences

CONSTANTS MaxObservations,      \* bound: calls of start_observing
          MaxTrouble,   \* bound: native failures and timeouts
          QueueCap,     \* CAPTURE_QUEUE_CAPACITY
          MaxPackets    \* bound: transitions and motions observed in a run

VARIABLES obs,      \* the owner and RAW_INPUT_OWNERSHIP
          raw,      \* the threads of every generation
          trouble   \* failures so far

rawVars == <<obs, raw, trouble>>

Observations == 1 .. MaxObservations
Motion == 0

\* msg and cb are the program counters of the two threads; observed and
\* delivered number transitions.
NoThreads ==
    [msg |-> "unborn", cb |-> "unborn", registered |-> FALSE, ready |-> "none", acked |-> FALSE,
     stop |-> FALSE, queue |-> <<>>, result |-> "Ok", observed |-> 0, motions |-> 0, delivered |-> 0]

RawInit ==
    /\ obs = [run |-> 0, session |-> 0, wait |-> "none", life |-> "Idle", claim |-> 0]
    /\ raw = [g \in Observations |-> NoThreads]
    /\ trouble = 0

Troubled == trouble < MaxTrouble /\ trouble' = trouble + 1

-----------------------------------------------------------------------------
\* The owner.

start_observing ==
    /\ obs.wait = "none" /\ obs.run < MaxObservations
    /\ LET g == obs.run + 1
       IN  \/ /\ obs.session # 0 \/ obs.claim # 0
              /\ obs' = [obs EXCEPT !.run = g] /\ UNCHANGED <<raw, trouble>>
           \/ /\ Troubled   \* a thread that cannot be spawned
              /\ obs' = [obs EXCEPT !.run = g] /\ UNCHANGED raw
           \/ /\ obs.session = 0 /\ obs.claim = 0
              /\ obs' = [obs EXCEPT !.run = g, !.claim = g, !.wait = "ready"]
              /\ raw' = [raw EXCEPT ![g].msg = "born", ![g].cb = "waiting"]
              /\ UNCHANGED trouble

RawReady ==
    /\ obs.wait = "ready" /\ raw[obs.run].ready = "Ok"
    /\ IF raw[obs.run].msg = "done"
       THEN obs' = [obs EXCEPT !.wait = "none"] /\ UNCHANGED raw
       ELSE /\ raw' = [raw EXCEPT ![obs.run].acked = TRUE]
            /\ obs' = [obs EXCEPT !.wait = "none", !.session = obs.run, !.life = "Running"]
    /\ UNCHANGED trouble

\* An error, a timeout or a thread that ended: both threads are left alone.
RawNotReady ==
    /\ obs.wait = "ready"
    /\ \/ raw[obs.run].ready = "Err" /\ UNCHANGED <<raw, trouble>>
       \/ /\ raw[obs.run].ready = "none" /\ Troubled
          /\ raw' = [raw EXCEPT ![obs.run].ready = "Dropped"]
    /\ obs' = [obs EXCEPT !.wait = "none"]

stop_observing ==
    /\ obs.session # 0 /\ obs.wait = "none"
    /\ raw' = [raw EXCEPT ![obs.session].stop = TRUE]
    /\ obs' = [obs EXCEPT !.wait = "stop"] /\ UNCHANGED trouble

BothEnded(t) == t.msg = "done" /\ t.cb = "done"

StopObserved ==
    /\ obs.wait = "stop" /\ BothEnded(raw[obs.session])
    /\ obs' = [obs EXCEPT !.wait = "none", !.session = 0,
                          !.life = IF raw[obs.session].result = "Ok" THEN "Stopped" ELSE "Faulted"]
    /\ UNCHANGED <<raw, trouble>>

\* The session stays, and a later stop waits for what is left of it.
StopObservingTimesOut ==
    /\ obs.wait = "stop" /\ ~BothEnded(raw[obs.session]) /\ Troubled
    /\ obs' = [obs EXCEPT !.wait = "none"] /\ UNCHANGED raw

-----------------------------------------------------------------------------
\* raw_input_thread of generation g

Msg(g, pc, t) == raw[g].msg = pc /\ raw' = [raw EXCEPT ![g] = t]
SendErr(t) == [t EXCEPT !.ready = IF @ = "none" THEN "Err" ELSE @]

\* Without a window the claim is dropped.  A registration that fails may have
\* registered one of the two collections: it is cleaned up like a success.
CreateWindow(g) ==
    \/ /\ Msg(g, "born", [raw[g] EXCEPT !.msg = "window", !.registered = TRUE])
       /\ UNCHANGED <<obs, trouble>>
    \/ /\ Msg(g, "born", [SendErr(raw[g]) EXCEPT !.msg = "done"])
       /\ Troubled /\ obs' = [obs EXCEPT !.claim = 0]
    \/ /\ Msg(g, "born", [SendErr(raw[g]) EXCEPT !.msg = "cleanup", !.registered = TRUE])
       /\ Troubled /\ UNCHANGED obs

ReportReady(g) ==
    /\ Msg(g, "window", IF raw[g].ready = "Dropped" THEN [raw[g] EXCEPT !.msg = "cleanup", !.result = "Err"]
                        ELSE [raw[g] EXCEPT !.ready = "Ok", !.msg = "barrier"])
    /\ UNCHANGED <<obs, trouble>>

AwaitOwner(g) ==
    \/ raw[g].acked /\ Msg(g, "barrier", [raw[g] EXCEPT !.msg = "loop"]) /\ UNCHANGED <<obs, trouble>>
    \/ /\ ~raw[g].acked /\ Troubled /\ UNCHANGED obs
       /\ Msg(g, "barrier", [raw[g] EXCEPT !.msg = "cleanup", !.result = "Err"])


\* enqueue_captured: motion that does not fit is dropped; a transition that
\* does not fit ends the loop.
enqueue_captured(t, packet) ==
    IF Len(t.queue) < QueueCap THEN [t EXCEPT !.queue = Append(@, packet)]
    ELSE IF packet = Motion THEN t
    ELSE [t EXCEPT !.msg = "cleanup", !.result = "Err"]

DispatchRawInput(g) ==
    \/ /\ raw[g].observed < MaxPackets /\ UNCHANGED <<obs, trouble>>
       /\ Msg(g, "loop", enqueue_captured([raw[g] EXCEPT !.observed = @ + 1], raw[g].observed + 1))
    \/ /\ raw[g].motions < MaxPackets /\ UNCHANGED <<obs, trouble>>
       /\ Msg(g, "loop", enqueue_captured([raw[g] EXCEPT !.motions = @ + 1], Motion))

RawLoopEnds(g) ==
    \/ raw[g].stop /\ Msg(g, "loop", [raw[g] EXCEPT !.msg = "cleanup"]) /\ UNCHANGED <<obs, trouble>>
    \/ Troubled /\ Msg(g, "loop", [raw[g] EXCEPT !.msg = "cleanup", !.result = "Err"]) /\ UNCHANGED obs

Releases(removed) == removed

\* NativeCaptureRegistration::cleanup, and again in its Drop.
RawCleanup(g) ==
    /\ \E removed \in BOOLEAN :
          /\ Msg(g, "cleanup", [raw[g] EXCEPT !.msg = "done", !.registered = ~removed,
                                              !.result = IF removed THEN @ ELSE "Err"])
          /\ obs' = IF Releases(removed) /\ obs.claim = g THEN [obs EXCEPT !.claim = 0] ELSE obs
          /\ IF removed THEN UNCHANGED trouble ELSE Troubled

\* callback_dispatch_loop: drains the queue, then ends with the sender.
CallbackLoop(g) ==
    /\ raw[g].cb = "waiting"
    /\ \/ /\ raw[g].queue # <<>>
          /\ raw' = [raw EXCEPT ![g].queue = Tail(@),
                                ![g].delivered = IF Head(raw[g].queue) = Motion THEN @
                                                 ELSE Head(raw[g].queue)]
       \/ /\ raw[g].queue = <<>> /\ raw[g].msg = "done"
          /\ raw' = [raw EXCEPT ![g].cb = "done"]
    /\ UNCHANGED <<obs, trouble>>

RawNext ==
    \/ start_observing \/ RawReady \/ RawNotReady \/ stop_observing \/ StopObserved
    \/ StopObservingTimesOut
    \/ \E g \in Observations : CreateWindow(g) \/ ReportReady(g) \/ AwaitOwner(g) \/ DispatchRawInput(g)
                       \/ RawLoopEnds(g) \/ RawCleanup(g) \/ CallbackLoop(g)

-----------------------------------------------------------------------------
RawTypeOK ==
    /\ obs.claim \in 0 .. MaxObservations /\ obs.session \in 0 .. MaxObservations /\ trouble \in 0 .. MaxTrouble
    /\ \A g \in Observations : Len(raw[g].queue) <= QueueCap /\ raw[g].delivered \in 0 .. MaxPackets

\* A generation whose registration is, or may be, with Windows owns it: a later
\* generation never replaces a registration that could not be removed.
RegistrationOwned == \A g \in Observations : raw[g].registered => obs.claim = g

\* No key or button transition is skipped: the callback sees the first
\* transition, then the second, and so on, also when the queue overflows.
TransitionsInOrder ==
    [][\A g \in Observations : raw'[g].delivered \in {raw[g].delivered, raw[g].delivered + 1}]_rawVars

\* When stop_observing has returned, no callback of that generation runs any
\* more, and what its threads had accepted was delivered.
StoppedIsDrained ==
    obs.life \in {"Stopped", "Faulted"} /\ obs.session = 0 =>
        \A g \in Observations : raw[g].stop => raw[g].cb = "done" /\ raw[g].queue = <<>>
=============================================================================
