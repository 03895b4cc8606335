-------------------------- MODULE CaptureSupervisor --------------------------
(***************************************************************************)
(* NativeCaptureSupervisor (native_capture.rs): the owner of a native       *)
(* capture backend.  It closes the gate of the router before it touches the *)
(* backend, arms the callback last, keeps the cursor in step with pointer   *)
(* authority and tears everything down when the backend has failed.         *)
(*                                                                          *)
(* A call of the supervisor blocks in the backend's start, stop and cursor  *)
(* operations: todo is what it still has to call, goal is what it is doing. *)
(* WindowsCapture and MacCapture carry the calls out, with the threads of   *)
(* the backend running in between.                                          *)
(***************************************************************************)
EXTENDS Naturals, Sequences

CONSTANTS MaxStarts,   \* bound: how often start is called
          MaxHarm      \* bound: native failures, timeouts and panics

VARIABLES cap,     \* the supervisor, and what it sees of the router
          starts,  \* calls of start so far
          harm     \* failures so far

supervisorVars == <<cap, starts, harm>>

Operations == {"start", "warp", "hide", "show", "stop"}
Goals == {"None", "Start", "StartFailed", "Rollback", "Sync", "Degrade", "Shutdown", "Drop"}

SupervisorInit ==
    /\ cap = [state |-> "LocalOnly", armed |-> FALSE, gated |-> TRUE, local |-> TRUE,
              landed |-> TRUE, visible |-> TRUE, warp |-> FALSE, todo |-> <<>>, goal |-> "None"]
    /\ starts = 0
    /\ harm = 0

\* A failure of the machine, drawn from the budget.
Harmed == harm < MaxHarm /\ harm' = harm + 1
Idle(c) == c.todo = <<>> /\ c.goal = "None" /\ c.state # "Dropped"
Call(c, goal, calls) == [c EXCEPT !.goal = IF calls = <<>> THEN "None" ELSE goal, !.todo = calls]

\* callback_armed := false, then gate_router: the router publishes its gate,
\* and with it local authority, also when its cleanup fails.
gate_router(c) == [c EXCEPT !.armed = FALSE, !.gated = TRUE, !.local = TRUE]

\* The common teardown: show the cursor if it is hidden, then stop.
Teardown(c, goal) ==
    Call([gate_router(c) EXCEPT !.visible = TRUE, !.warp = FALSE], goal,
         IF c.visible THEN <<"stop">> ELSE <<"show", "stop">>)

-----------------------------------------------------------------------------
\* The calls.  lifecycle is what the backend's capture_lifecycle answers.

start ==
    /\ Idle(cap) /\ cap.state = "LocalOnly" /\ starts < MaxStarts
    /\ starts' = starts + 1
    /\ \/ cap' = Call(gate_router(cap), "Start", <<"start">>) /\ UNCHANGED harm
       \/ cap' = gate_router(cap) /\ Harmed

\* start, once the backend has started: the gate opens, then the callback.
FinishStart(lifecycle) ==
    /\ cap.todo = <<>> /\ cap.goal = "Start"
    /\ \/ /\ lifecycle = "Running"
          /\ cap' = [cap EXCEPT !.armed = TRUE, !.gated = FALSE, !.state = "Armed", !.goal = "None"]
          /\ UNCHANGED harm
       \/ /\ lifecycle # "Running"
          /\ cap' = Call(gate_router(cap), "Rollback", <<"stop">>)
          /\ UNCHANGED harm
       \/ /\ lifecycle = "Running" /\ Harmed
          /\ cap' = Call(gate_router(cap), "Rollback", <<"stop">>)
    /\ UNCHANGED starts

\* sync_cursor_visibility: a landing point is warped to before the cursor shows.
sync_cursor_visibility(c) ==
    LET pending == c.warp \/ (c.local /\ ~c.landed)
        warps == c.local /\ c.landed /\ (~c.visible \/ pending)
        shows == c.visible # c.local
    IN  Call([c EXCEPT !.warp = pending], "Sync",
             (IF warps THEN <<"warp">> ELSE <<>>)
             \o (IF shows THEN IF c.local THEN <<"show">> ELSE <<"hide">> ELSE <<>>))

poll_lifecycle(lifecycle) ==
    /\ Idle(cap) /\ cap.state = "Armed"
    /\ cap' = IF lifecycle = "Running" THEN sync_cursor_visibility(cap)
              ELSE Teardown(cap, "Degrade")
    /\ UNCHANGED <<starts, harm>>

shutdown ==
    /\ Idle(cap) /\ cap.state # "Stopped"
    /\ cap' = Teardown(cap, "Shutdown")
    /\ UNCHANGED <<starts, harm>>

\* Drop, when the owner returns without a shutdown.
drop ==
    /\ Idle(cap)
    /\ cap' = IF cap.state \in {"Armed", "Degraded"}
              THEN Call([cap EXCEPT !.armed = FALSE], "Drop", <<"stop">>)
              ELSE [cap EXCEPT !.armed = FALSE, !.state = "Dropped"]
    /\ UNCHANGED <<starts, harm>>

-----------------------------------------------------------------------------
\* What the supervisor does with the answer to the call at the head of todo.

CursorFails(c) == Call([gate_router(c) EXCEPT !.visible = TRUE, !.warp = FALSE],
                       "Degrade", <<"show", "stop">>)

Settled(c, state) == [c EXCEPT !.todo = <<>>, !.goal = "None", !.state = state]

Replied(c, ok) ==
    LET op == Head(c.todo)
        rest == Call(c, c.goal, Tail(c.todo))
    IN  CASE op = "start" /\ ok -> [c EXCEPT !.todo = <<>>]
          [] op = "start" /\ ~ok -> Call(c, "StartFailed", <<"stop">>)
          [] op = "stop" /\ c.goal \in {"StartFailed", "Rollback"} ->
                 Settled(c, IF ok THEN "LocalOnly" ELSE "Degraded")
          [] op = "stop" /\ c.goal = "Shutdown" -> Settled(c, IF ok THEN "Stopped" ELSE "Degraded")
          [] op = "stop" /\ c.goal = "Degrade" -> Settled(c, "Degraded")
          [] op = "stop" /\ c.goal = "Drop" -> Settled(c, "Dropped")
          [] op \in {"warp", "hide", "show"} /\ c.goal = "Sync" /\ ~ok -> CursorFails(c)
          [] op = "warp" /\ ok -> [rest EXCEPT !.warp = FALSE]
          [] op = "hide" /\ ok -> [rest EXCEPT !.visible = FALSE, !.warp = FALSE]
          [] op = "show" /\ (ok \/ c.goal # "Sync") -> [rest EXCEPT !.visible = TRUE]

\* The backend answers the pending call.
Reply(ok) == cap' = Replied(cap, ok) /\ UNCHANGED starts

-----------------------------------------------------------------------------
\* The router, driven by the session (external to this module): authority
\* goes to the peer and comes back, first without a landing point.

RouterMoves ==
    /\ ~cap.gated
    /\ \/ cap.local /\ cap' = [cap EXCEPT !.local = FALSE]
       \/ ~cap.local /\ \E landed \in BOOLEAN : cap' = [cap EXCEPT !.local = TRUE, !.landed = landed]
       \/ cap.local /\ ~cap.landed /\ cap' = [cap EXCEPT !.landed = TRUE]
    /\ UNCHANGED <<starts, harm>>

\* capture_callback: what it may answer to a physical event.  A contended lock
\* and a panic of the router both answer AllowLocal.
capture_callback(c) ==
    IF c.armed /\ ~c.gated /\ ~c.local THEN {"SuppressLocal", "AllowLocal"} ELSE {"AllowLocal"}

SupervisorNext(lifecycle) ==
    \/ start \/ FinishStart(lifecycle) \/ poll_lifecycle(lifecycle)
    \/ shutdown \/ drop \/ RouterMoves

-----------------------------------------------------------------------------
SupervisorTypeOK ==
    /\ cap \in [state : {"LocalOnly", "Armed", "Degraded", "Stopped", "Dropped"},
                armed : BOOLEAN, gated : BOOLEAN, local : BOOLEAN, landed : BOOLEAN,
                visible : BOOLEAN, warp : BOOLEAN, goal : Goals,
                todo : UNION {[1 .. n -> Operations] : n \in 0 .. 2}]
    /\ starts \in 0 .. MaxStarts /\ harm \in 0 .. MaxHarm
=============================================================================
