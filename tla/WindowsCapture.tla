--------------------------- MODULE WindowsCapture ---------------------------
(***************************************************************************)
(* The whole-host capture of kvm-windows/native.rs under its supervisor:    *)
(* the owner's start_whole_host_alpha and stop_whole_host_alpha, the hook   *)
(* thread of each generation, and the low-level hooks it installs.  The     *)
(* owner and the thread share the callback state and two channels (ready,   *)
(* and its acknowledgement); a process-wide slot names the generation whose *)
(* hooks are installed.                                                     *)
(*                                                                          *)
(* Low-level hooks are called on the installing thread while it pumps       *)
(* messages, so a callback runs only in its message loop.                   *)
(***************************************************************************)
EXTENDS CaptureSupervisor

CONSTANT MaxMessages   \* bound: cursor messages waiting in a thread's queue

VARIABLES win,   \* WindowsInputBackend, its pending wait, WHOLE_HOST_HOOK_STATE
          hook   \* the hook thread of every generation, and its callback state

windowsVars == <<supervisorVars, win, hook>>

Generations == 1 .. MaxStarts

\* WholeHostCallbackState::new, and a thread that does not run yet.
NoHookThread ==
    [pc |-> "unborn", life |-> "Idle", active |-> FALSE, keyboard |-> FALSE, mouse |-> FALSE,
     hidden |-> FALSE, queue |-> <<>>, ready |-> "none", acked |-> FALSE, result |-> "Ok",
     decision |-> "none"]

WindowsInit ==
    /\ SupervisorInit
    /\ win = [session |-> 0, last |-> "Idle", wait |-> "none", slot |-> 0]
    /\ hook = [g \in Generations |-> NoHookThread]

-----------------------------------------------------------------------------
\* WholeHostCallbackState

activate_callbacks(h) == [h EXCEPT !.life = "Running", !.active = TRUE]
halt(h) == [h EXCEPT !.active = FALSE, !.life = IF @ = "Faulted" THEN @ ELSE "Stopped"]
fault(h) == [h EXCEPT !.active = FALSE, !.life = "Faulted"]

\* Mutant: the state is believed, whatever became of the thread.
capture_lifecycleTrusting == IF win.session = 0 THEN win.last ELSE hook[win.session].life

\* capture_lifecycle: a finished thread that still says Running has faulted.
capture_lifecycle ==
    IF win.session = 0 THEN win.last
    ELSE IF hook[win.session].pc = "done" /\ hook[win.session].life = "Running" THEN "Faulted"
    ELSE hook[win.session].life

-----------------------------------------------------------------------------
\* The owner.  Each action is one return of a blocking call.

Calling(op) == cap.todo # <<>> /\ Head(cap.todo) = op

SpawnHookThread ==
    /\ Calling("start") /\ win.wait = "none"
    /\ \/ win.session # 0 /\ Reply(FALSE) /\ UNCHANGED <<win, hook, harm>>
       \/ win.session = 0 /\ Harmed /\ Reply(FALSE) /\ UNCHANGED <<win, hook>>
       \/ /\ win.session = 0
          /\ hook' = [hook EXCEPT ![starts].pc = "born"]
          /\ win' = [win EXCEPT !.wait = "id"]
          /\ UNCHANGED supervisorVars

ThreadIdTimesOut ==
    /\ win.wait = "id" /\ hook[starts].pc = "born"
    /\ Harmed /\ Reply(FALSE)
    /\ win' = [win EXCEPT !.wait = "none"]
    /\ UNCHANGED hook


\* ready is Ok: activate_callbacks, then acknowledge.  The acknowledgement is refused
\* only by a thread that has ended.
ActivateOrFault(h) == IF h.pc = "done" THEN fault(activate_callbacks(h)) ELSE activate_callbacks(h)

ReadyArrives ==
    /\ win.wait = "ready" /\ hook[starts].ready = "Ok"
    /\ LET ended == hook[starts].pc = "done"
       IN  /\ hook' = [hook EXCEPT ![starts] = [ActivateOrFault(@) EXCEPT !.acked = ~ended]]
           /\ win' = IF ended THEN [win EXCEPT !.wait = "none"]
                     ELSE [win EXCEPT !.wait = "none", !.session = starts, !.last = "Running"]
           /\ Reply(~ended)
    /\ UNCHANGED harm

ReadyFails ==
    /\ win.wait = "ready" /\ hook[starts].ready = "Err" /\ hook[starts].pc = "done"
    /\ win' = [win EXCEPT !.wait = "none"]
    /\ Reply(FALSE) /\ UNCHANGED <<hook, harm>>

\* The first half of stop_whole_host_alpha; a dead thread takes no message.
BeginStop(h) ==
    [halt(h) EXCEPT !.queue = IF h.pc = "done" THEN @ ELSE @ \o <<"SHOW", "STOP">>]

ReadyTimesOut ==
    /\ win.wait = "ready" /\ hook[starts].ready = "none" /\ Harmed
    /\ hook' = [hook EXCEPT ![starts] = BeginStop([@ EXCEPT !.ready = "Dropped"])]
    /\ win' = [win EXCEPT !.session = starts, !.wait = "done"]
    /\ UNCHANGED <<cap, starts>>

stop_whole_host_alpha ==
    /\ Calling("stop") /\ win.wait = "none"
    /\ IF win.session = 0 THEN Reply(TRUE) /\ UNCHANGED <<win, hook>>
       ELSE /\ hook' = [hook EXCEPT ![win.session] = BeginStop(@)]
            /\ win' = [win EXCEPT !.wait = "done"]
            /\ UNCHANGED <<cap, starts>>
    /\ UNCHANGED harm

\* A failed startup answers with its own error, whatever the stop returned.
ThreadJoins ==
    /\ win.wait = "done" /\ hook[win.session].pc = "done"
    /\ LET h == hook[win.session]
           joined == IF h.result = "Ok" THEN h ELSE fault(h)
       IN  /\ hook' = [hook EXCEPT ![win.session] = joined]
           /\ win' = [win EXCEPT !.wait = "none", !.session = 0, !.last = joined.life]
           /\ Reply(Calling("stop") /\ h.result = "Ok")
    /\ UNCHANGED harm

StopTimesOut ==
    /\ win.wait = "done" /\ hook[win.session].pc # "done"
    /\ Harmed /\ Reply(FALSE)
    /\ hook' = [hook EXCEPT ![win.session] = fault(@)]
    /\ win' = [win EXCEPT !.wait = "none", !.last = "Faulted"]

update_cursor_visibility ==
    /\ \E op \in {"hide", "show"} :
          /\ Calling(op)
          /\ \/ win.session = 0 /\ Reply(op = "show") /\ UNCHANGED hook
             \/ win.session # 0 /\ hook[win.session].pc = "done" /\ Reply(FALSE) /\ UNCHANGED hook
             \/ /\ win.session # 0 /\ hook[win.session].pc # "done"
                /\ Len(hook[win.session].queue) < MaxMessages
                /\ hook' = [hook EXCEPT ![win.session].queue =
                                Append(@, IF op = "show" THEN "SHOW" ELSE "HIDE")]
                /\ Reply(TRUE)
    /\ UNCHANGED <<win, harm>>

set_cursor_position ==
    /\ Calling("warp")
    /\ \/ Reply(TRUE) /\ UNCHANGED harm
       \/ Reply(FALSE) /\ Harmed
    /\ UNCHANGED <<win, hook>>

-----------------------------------------------------------------------------
\* The hook thread of generation g.  Each step writes hook[g], and the slot.

Steps(g, h, slot) ==
    /\ hook' = [hook EXCEPT ![g] = h]
    /\ win' = [win EXCEPT !.slot = slot]

Thread(g, pc) == hook[g].pc = pc /\ UNCHANGED <<cap, starts>>

\* The thread publishes its id and goes on only if the owner took it.
PublishId(g) ==
    /\ Thread(g, "born")
    /\ LET taken == win.wait = "id" /\ starts = g
       IN  /\ hook' = [hook EXCEPT ![g].pc = IF taken THEN "claiming" ELSE "done"]
           /\ win' = IF taken THEN [win EXCEPT !.wait = "ready"] ELSE win
    /\ UNCHANGED harm

\* What the thread sends when it cannot start; nobody may be listening.
SendsErr(h) == [h EXCEPT !.ready = IF @ = "none" THEN "Err" ELSE @, !.pc = "done"]

claim_whole_host_state(g) ==
    /\ Thread(g, "claiming")
    /\ IF win.slot = 0 THEN Steps(g, [hook[g] EXCEPT !.pc = "installing"], g)
       ELSE Steps(g, SendsErr(hook[g]), win.slot)
    /\ UNCHANGED harm

\* Mutant: the slot is released whatever became of the hooks.
remove_whole_host_hooksAlways(h, removed) ==
    IF removed THEN [state |-> [h EXCEPT !.active = FALSE, !.keyboard = FALSE, !.mouse = FALSE],
                     release |-> TRUE]
    ELSE [state |-> [fault(h) EXCEPT !.result = "Err"], release |-> TRUE]

\* A hook that cannot be removed keeps its callback state in the slot.
remove_whole_host_hooks(h, removed) ==
    IF removed THEN [state |-> [h EXCEPT !.active = FALSE, !.keyboard = FALSE, !.mouse = FALSE],
                     release |-> TRUE]
    ELSE [state |-> [fault(h) EXCEPT !.result = "Err"], release |-> FALSE]

Slot(r) == IF r.release THEN 0 ELSE win.slot
NoKeyboardHook(g) == Steps(g, SendsErr(hook[g]), 0) /\ Harmed

\* The mouse hook fails: the keyboard hook is removed, or stays with the slot.
NoMouseHook(g) ==
    \/ Steps(g, SendsErr(halt(hook[g])), 0) /\ Harmed
    \/ /\ Steps(g, SendsErr(fault([hook[g] EXCEPT !.keyboard = TRUE])), win.slot)
       /\ harm + 1 < MaxHarm /\ harm' = harm + 2

Hooked(h) == [h EXCEPT !.keyboard = TRUE, !.mouse = TRUE]

\* GetCursorPos or the bounds of the desktop fail: the hooks come off again.
NoBaseline(g) ==
    LET kept == remove_whole_host_hooks(fault(Hooked(hook[g])), FALSE)
    IN  \/ Steps(g, SendsErr(fault(hook[g])), 0) /\ Harmed
        \/ /\ Steps(g, SendsErr(kept.state), Slot(kept))
           /\ harm + 1 < MaxHarm /\ harm' = harm + 2

InstallHooks(g) ==
    /\ Thread(g, "installing")
    /\ \/ Steps(g, [Hooked(hook[g]) EXCEPT !.pc = "installed"], win.slot) /\ UNCHANGED harm
       \/ NoKeyboardHook(g) \/ NoMouseHook(g) \/ NoBaseline(g)

\* The owner did not answer: take the hooks off.
Unacknowledged(h) == [halt(h) EXCEPT !.pc = "removing", !.result = "Err"]

SendReady(g) ==
    /\ Thread(g, "installed")
    /\ Steps(g, IF hook[g].ready = "Dropped" THEN Unacknowledged(hook[g])
                ELSE [hook[g] EXCEPT !.ready = "Ok", !.pc = "barrier"], win.slot)
    /\ UNCHANGED harm

AwaitAck(g) ==
    /\ Thread(g, "barrier")
    /\ \/ hook[g].acked /\ Steps(g, [hook[g] EXCEPT !.pc = "loop"], win.slot) /\ UNCHANGED harm
       \/ ~hook[g].acked /\ Steps(g, Unacknowledged(hook[g]), win.slot) /\ Harmed

-----------------------------------------------------------------------------
\* whole_host_message_loop

\* The loop is left: a generation still Running has faulted.
Leaves(h, result) ==
    LET out == [h EXCEPT !.pc = "removing", !.result = result]
    IN  IF h.life = "Running" THEN fault(out) ELSE out

show_thread_cursor(h) == [h EXCEPT !.hidden = FALSE]
Next_(h) == [h EXCEPT !.queue = Tail(@)]

StopMessage(g) ==
    /\ Head(hook[g].queue) = "STOP"
    /\ Steps(g, Leaves(show_thread_cursor(Next_(hook[g])), "Ok"), win.slot) /\ UNCHANGED harm

ShowMessage(g) ==
    /\ Head(hook[g].queue) = "SHOW"
    /\ Steps(g, show_thread_cursor(Next_(hook[g])), win.slot) /\ UNCHANGED harm

\* A failing recenter returns from the function, past show_thread_cursor.
HideMessage(g) ==
    LET hidden == [Next_(hook[g]) EXCEPT !.hidden = TRUE]
    IN  /\ Head(hook[g].queue) = "HIDE"
        /\ \/ Steps(g, hidden, win.slot) /\ UNCHANGED harm
           \/ Steps(g, Leaves(hidden, "Err"), win.slot) /\ Harmed

MessageArrives(g) ==
    /\ Thread(g, "loop") /\ hook[g].queue # <<>>
    /\ StopMessage(g) \/ ShowMessage(g) \/ HideMessage(g)

\* GetMessageW fails, or the thread is asked to quit.
LoopBreaks(g) ==
    /\ Thread(g, "loop") /\ Harmed
    /\ \E result \in {"Ok", "Err"} : Steps(g, Leaves(show_thread_cursor(hook[g]), result), win.slot)

HooksComeOff(g) ==
    /\ Thread(g, "removing")
    /\ \E removed \in BOOLEAN :
          LET r == remove_whole_host_hooks(hook[g], removed)
          IN  /\ Steps(g, [r.state EXCEPT !.pc = "ending"], Slot(r))
              /\ IF removed THEN UNCHANGED harm ELSE Harmed

\* The channels of the thread close only when it has returned.
ThreadEnds(g) ==
    /\ Thread(g, "ending")
    /\ Steps(g, [hook[g] EXCEPT !.pc = "done"], win.slot) /\ UNCHANGED harm

-----------------------------------------------------------------------------
\* low_level_keyboard_hook and low_level_mouse_hook: without an active state
\* in the slot the event is passed on.  The callback decides, and active is
\* read again before the event is suppressed.

HookCalled(g) ==
    /\ Thread(g, "loop") /\ win.slot = g /\ hook[g].active
    /\ \E d \in capture_callback(cap) :
          Steps(g, [hook[g] EXCEPT !.pc = "callback", !.decision = d], win.slot)
    /\ UNCHANGED harm

\* dispatch ends: on time, or late, with a panic, an exhausted sequence or a
\* recenter that fails, each of which faults the generation.
HookReturns(g) ==
    LET back == [hook[g] EXCEPT !.pc = "loop", !.decision = "none"]
    IN  /\ Thread(g, "callback")
        /\ \/ Steps(g, back, win.slot) /\ UNCHANGED harm
           \/ Steps(g, fault(back), win.slot) /\ Harmed

HookThread(g) ==
    \/ PublishId(g) \/ claim_whole_host_state(g) \/ InstallHooks(g) \/ SendReady(g) \/ AwaitAck(g)
    \/ MessageArrives(g) \/ HooksComeOff(g) \/ ThreadEnds(g) \/ HookReturns(g)

Owner ==
    \/ SpawnHookThread \/ ReadyArrives \/ ReadyFails \/ stop_whole_host_alpha \/ ThreadJoins
    \/ update_cursor_visibility \/ set_cursor_position

WindowsNext ==
    \/ SupervisorNext(capture_lifecycle) /\ UNCHANGED <<win, hook>>
    \/ Owner \/ ThreadIdTimesOut \/ ReadyTimesOut \/ StopTimesOut
    \/ \E g \in Generations : HookThread(g) \/ LoopBreaks(g) \/ HookCalled(g)

-----------------------------------------------------------------------------
WindowsTypeOK ==
    /\ SupervisorTypeOK
    /\ win \in [session : 0 .. MaxStarts, last : {"Idle", "Running", "Stopped", "Faulted"},
                wait : {"none", "id", "ready", "done"}, slot : 0 .. MaxStarts]
    /\ \A g \in Generations :
          /\ hook[g].life \in {"Idle", "Running", "Stopped", "Faulted"}
          /\ hook[g].ready \in {"none", "Ok", "Err", "Dropped"}
          /\ Len(hook[g].queue) <= MaxMessages + 2 * (MaxHarm + 2)

\* A generation whose hooks are installed owns the slot, also after a removal
\* that failed: no second set of hooks is ever installed beside it.
HooksOwnSlot ==
    \A g \in Generations : hook[g].keyboard \/ hook[g].mouse => win.slot = g

\* Unless the supervisor is armed, or inside a call, no generation is active:
\* whatever threads and hooks a failed or timed-out call left behind pass all
\* input on (start, stop, shutdown and Drop all end fail-open).
QuietUnlessArmed ==
    Idle(cap) /\ cap.state # "Armed" =>
        \A g \in Generations : ~hook[g].active

\* Interleavings alone never degrade the capture: without a native failure or
\* a timeout, start, poll_lifecycle and shutdown succeed.
HealthyNeverDegrades ==
    (harm = 0 /\ \E g \in Generations : hook[g].pc # "unborn") => cap.state # "Degraded"

\* The capture is armed and its thread has left its loop (poll_lifecycle,
\* capture_lifecycle).
ArmedWithoutHooks == cap.state = "Armed" /\ \E g \in Generations : g = win.session /\ hook[g].pc = "done"
=============================================================================
