----------------------------- MODULE MacCapture -----------------------------
(***************************************************************************)
(* The whole-host capture of kvm-macos/native.rs under its supervisor: the  *)
(* owner's start_whole_host_alpha, stop_whole_host_alpha and cursor calls,  *)
(* and the thread of each generation with its Quartz event tap.  The owner  *)
(* deactivates a generation from outside: it clears active and disables the *)
(* tap, both of which the thread watches.                                   *)
(***************************************************************************)
EXTENDS CaptureSupervisor, Integers

VARIABLES mac,   \* MacInputBackend, its pending wait, WHOLE_HOST_CAPTURE_OWNED
          tap    \* the thread of every generation, its tap and its counters

macVars == <<supervisorVars, mac, tap>>

Taps == 1 .. MaxStarts
Terminal == {"TapDisabled", "TapInvalidated", "CallbackPanicked", "CallbackOverran",
             "TransitionDiscontinuity"}

NoTapThread ==
    [pc |-> "unborn", active |-> FALSE, installed |-> FALSE, enabled |-> FALSE, valid |-> FALSE,
     health |-> "Idle", ready |-> "none", activated |-> FALSE, result |-> "Ok", decision |-> "none"]

\* current is the generation whose counters the backend reads (0: a new one);
\* hides counts the hides of CoreGraphics without their show.
MacInit ==
    /\ SupervisorInit
    /\ mac = [session |-> 0, current |-> 0, wait |-> "none", owner |-> 0,
              cursor_hidden |-> FALSE, hides |-> 0, cursorOk |-> TRUE]
    /\ tap = [g \in Taps |-> NoTapThread]

lifecycle_state ==
    IF mac.current = 0 THEN "Idle"
    ELSE IF tap[mac.current].health \in Terminal THEN "Faulted" ELSE tap[mac.current].health

-----------------------------------------------------------------------------
\* update_cursor_visibility.  Showing associates mouse and cursor again and
\* shows whatever that returned; hiding is undone when it cannot dissociate.

CursorSame(m, visible) == visible # m.cursor_hidden

CursorResults(m, visible) ==
    IF CursorSame(m, visible) THEN {[m EXCEPT !.cursorOk = TRUE]}
    ELSE {[m EXCEPT !.cursor_hidden = ~visible, !.hides = IF visible THEN @ - 1 ELSE @ + 1, !.cursorOk = TRUE],
          [m EXCEPT !.cursorOk = FALSE]}
         \union (IF visible THEN {[m EXCEPT !.hides = @ - 1, !.cursorOk = FALSE]} ELSE {})

Costs(m) == IF m.cursorOk THEN UNCHANGED harm ELSE Harmed

MacCalling(op) == cap.todo # <<>> /\ Head(cap.todo) = op

MacCursor ==
    /\ \E op \in {"hide", "show"} : MacCalling(op)
    /\ \E m \in CursorResults(mac, MacCalling("show")) :
          mac' = m /\ Reply(m.cursorOk) /\ Costs(m)
    /\ UNCHANGED tap

MacWarp ==
    /\ MacCalling("warp")
    /\ \/ Reply(TRUE) /\ UNCHANGED harm
       \/ Reply(FALSE) /\ Harmed
    /\ UNCHANGED <<mac, tap>>

-----------------------------------------------------------------------------
\* The owner's start and stop.

\* Permissions, ownership and the new thread.
MacSpawn ==
    /\ MacCalling("start") /\ mac.wait = "none"
    /\ \/ (mac.session # 0 \/ mac.owner # 0) /\ Reply(FALSE) /\ UNCHANGED <<mac, tap, harm>>
       \/ Harmed /\ Reply(FALSE) /\ UNCHANGED <<mac, tap>>
       \/ /\ mac.session = 0 /\ mac.owner = 0
          /\ tap' = [tap EXCEPT ![starts].pc = "born"]
          /\ mac' = [mac EXCEPT !.wait = "ready", !.owner = starts]
          /\ UNCHANGED supervisorVars

MacReady ==
    /\ mac.wait = "ready" /\ tap[starts].ready = "Ok"
    /\ tap' = [tap EXCEPT ![starts].health = "Running", ![starts].activated = TRUE]
    /\ mac' = [mac EXCEPT !.wait = "none", !.session = starts, !.current = starts]
    /\ Reply(TRUE) /\ UNCHANGED harm

MacReadyFails ==
    /\ mac.wait = "ready" /\ tap[starts].ready = "Err" /\ tap[starts].pc = "done"
    /\ mac' = [mac EXCEPT !.wait = "none"]
    /\ Reply(FALSE) /\ UNCHANGED <<tap, harm>>

\* The channels are dropped and the thread is left alone.
MacReadyTimesOut ==
    /\ mac.wait = "ready" /\ tap[starts].ready = "none" /\ Harmed
    /\ tap' = [tap EXCEPT ![starts].ready = "Dropped"]
    /\ mac' = [mac EXCEPT !.wait = "none"]
    /\ Reply(FALSE)

\* WholeHostController::deactivate
deactivate(t) == [t EXCEPT !.active = FALSE, !.enabled = FALSE]

MacStop ==
    /\ MacCalling("stop") /\ mac.wait = "none"
    /\ \E m \in CursorResults(mac, TRUE) :
          /\ Costs(m)
          /\ IF m.session = 0 THEN mac' = m /\ Reply(m.cursorOk) /\ UNCHANGED tap
             ELSE /\ mac' = [m EXCEPT !.wait = "done"]
                  /\ tap' = [tap EXCEPT ![m.session] = deactivate(@)]
                  /\ UNCHANGED <<cap, starts>>

MacJoins ==
    /\ mac.wait = "done" /\ tap[mac.session].pc = "done"
    /\ tap' = [tap EXCEPT ![mac.session].health = IF @ = "Running" THEN "Stopped" ELSE @]
    /\ mac' = [mac EXCEPT !.wait = "none", !.session = 0]
    /\ Reply(mac.cursorOk /\ tap[mac.session].result = "Ok") /\ UNCHANGED harm

MacStopTimesOut ==
    /\ mac.wait = "done" /\ tap[mac.session].pc # "done" /\ Harmed
    /\ mac' = [mac EXCEPT !.wait = "none"]
    /\ Reply(FALSE) /\ UNCHANGED tap

-----------------------------------------------------------------------------
\* run_whole_host_capture_thread of generation g

TapStep(g, pc, t) == tap[g].pc = pc /\ tap' = [tap EXCEPT ![g] = t] /\ UNCHANGED <<cap, starts>>

\* The tap is created enabled; nothing calls it before the run loop.
TapSetUp(g) ==
    \/ /\ TapStep(g, "born", [tap[g] EXCEPT !.pc = "created", !.installed = TRUE,
                                            !.enabled = TRUE, !.valid = TRUE])
       /\ UNCHANGED <<mac, harm>>
    \/ /\ TapStep(g, "born", [tap[g] EXCEPT !.pc = "done", !.ready = IF @ = "none" THEN "Err" ELSE @])
       /\ Harmed /\ mac' = [mac EXCEPT !.owner = 0]

TapReady(g) ==
    /\ TapStep(g, "created", IF tap[g].ready = "Dropped" THEN [tap[g] EXCEPT !.pc = "leaving"]
                             ELSE [tap[g] EXCEPT !.ready = "Ok", !.pc = "barrier"])
    /\ UNCHANGED <<mac, harm>>

TapActivated(g) ==
    /\ tap[g].activated
    /\ TapStep(g, "barrier", [tap[g] EXCEPT !.active = TRUE, !.pc = "loop"])
    /\ UNCHANGED <<mac, harm>>

\* One turn of the run loop, with the notification of a disabled tap.
LoopChecks(t) ==
    IF ~t.active THEN [t EXCEPT !.pc = "leaving"]
    ELSE IF ~t.valid THEN [t EXCEPT !.health = "TapInvalidated", !.active = FALSE]
    ELSE IF ~t.enabled THEN [t EXCEPT !.health = "TapDisabled", !.active = FALSE]
    ELSE t

TapTurns(g) ==
    /\ TapStep(g, "loop", LoopChecks(tap[g]))
    /\ UNCHANGED <<mac, harm>>

\* The system disables or invalidates the tap.
TapLost(g) ==
    /\ tap[g].valid /\ tap[g].enabled /\ Harmed
    /\ \/ TapStep(g, "loop", [tap[g] EXCEPT !.valid = FALSE])
       \/ TapStep(g, "loop", [tap[g] EXCEPT !.enabled = FALSE])
    /\ UNCHANGED mac

TapTeardown(g) ==
    /\ TapStep(g, "leaving", [tap[g] EXCEPT !.active = FALSE, !.enabled = FALSE, !.valid = FALSE,
                                            !.installed = FALSE, !.pc = "removed"])
    /\ UNCHANGED <<mac, harm>>

\* Ownership is dropped last; the counters decide what the thread returns.
TapEnds(g) ==
    /\ TapStep(g, "removed", [tap[g] EXCEPT !.pc = "done",
                                            !.result = IF @ = "Ok" /\ tap[g].health \in Terminal
                                                       THEN "Err" ELSE @])
    /\ mac' = [mac EXCEPT !.owner = 0] /\ UNCHANGED harm

\* quartz_event_tap_callback on the thread's run loop: an event, and the end of
\* its dispatch, in time or late, with a panic, or out of sequence numbers.
TapCalled(g) ==
    /\ tap[g].active /\ tap[g].enabled /\ tap[g].valid /\ tap[g].decision = "none"
    /\ \E d \in capture_callback(cap) : TapStep(g, "loop", [tap[g] EXCEPT !.decision = d, !.pc = "callback"])
    /\ UNCHANGED <<mac, harm>>

TapReturns(g) ==
    LET back == [tap[g] EXCEPT !.decision = "none", !.pc = "loop"]
    IN  /\ \/ TapStep(g, "callback", back) /\ UNCHANGED harm
           \/ /\ \E h \in {"CallbackPanicked", "CallbackOverran", "TransitionDiscontinuity"} :
                    TapStep(g, "callback", [back EXCEPT !.health = h, !.active = FALSE])
              /\ Harmed
        /\ UNCHANGED mac

TapThread(g) ==
    \/ TapSetUp(g) \/ TapReady(g) \/ TapActivated(g) \/ TapTurns(g)
    \/ TapTeardown(g) \/ TapEnds(g) \/ TapReturns(g)

MacOwner == MacSpawn \/ MacReady \/ MacReadyFails \/ MacStop \/ MacJoins \/ MacCursor \/ MacWarp

MacNext ==
    \/ SupervisorNext(lifecycle_state) /\ UNCHANGED <<mac, tap>>
    \/ MacOwner \/ MacReadyTimesOut \/ MacStopTimesOut
    \/ \E g \in Taps : TapThread(g) \/ TapLost(g) \/ TapCalled(g)

-----------------------------------------------------------------------------
MacTypeOK ==
    /\ SupervisorTypeOK
    /\ mac.session \in 0 .. MaxStarts /\ mac.owner \in 0 .. MaxStarts
    /\ mac.hides \in -MaxHarm .. 1
    /\ \A g \in Taps : tap[g].health \in Terminal \union {"Idle", "Running", "Stopped"}

\* A generation with a tap holds the process-wide ownership until the tap is
\* gone, so two taps never see the same event.
TapHoldsOwnership == \A g \in Taps : tap[g].installed => mac.owner = g

\* Unless the supervisor is armed, or inside a call, no tap takes part in the
\* delivery of input: a generation that becomes active after it was stopped
\* finds its tap disabled (the activation races deactivate).
NoTapUnlessArmed ==
    Idle(cap) /\ cap.state # "Armed" => \A g \in Taps : ~(tap[g].active /\ tap[g].enabled)

\* After a shutdown that succeeded the cursor is not hidden, also when showing
\* it failed on the way (stop_whole_host_alpha tries again and reports it).
StoppedShowsCursor == cap.state = "Stopped" => mac.hides <= 0

\* The capture is armed and its tap was disabled or invalidated; no tap is ever
\* enabled again (run_whole_host_capture_thread).
ArmedWithoutTap ==
    cap.state = "Armed" /\ \E g \in Taps : g = mac.session /\ ~(tap[g].enabled /\ tap[g].valid)
=============================================================================
