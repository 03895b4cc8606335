----------------------------- MODULE PointerPath -----------------------------
(***************************************************************************)
(* Motion and scrolling at the native edges, along one axis unless the code    *)
(* couples two: the Windows mouse hook, which turns positions into deltas     *)
(* and holds a hidden cursor at the centre of the desktop; the Windows and    *)
(* macOS injectors, which send whole steps and keep the fraction; and the     *)
(* macOS pointer, whose posted positions the system applies later.            *)
(*                                                                          *)
(* edge says which of the three this behaviour is about.  Lengths are in      *)
(* halves of a step where fractions matter.                                   *)
(***************************************************************************)
EXTENDS Integers, Sequences, FiniteSets

CONSTANTS Width,        \* the desktop is 0 .. Width
          Limit,        \* the largest whole step an injector takes (i32::MAX)
          MaxMotions,   \* bound: events
          MaxQuartz     \* bound: posted events the system has not applied

VARIABLES edge, hookp, steps, quartz, motions

pointerVars == <<edge, hookp, steps, quartz, motions>>

Moves == {-2, -1, 1, 2}
Axes == {"x", "y"}
virtual_desktop_center == Width \div 2
NoTarget == -100

\* seed_pointer: the baseline is where the cursor is.
PointerPathInit ==
    /\ edge \in {"hook", "steps", "quartz"}
    /\ hookp = [cursor |-> 0, baseline |-> 0, active |-> TRUE, remote |-> FALSE, message |-> "none",
                moved |-> 0, sent |-> 0]
    /\ steps = [ended |-> FALSE, rest |-> [a \in Axes |-> 0], sent |-> [a \in Axes |-> 0],
                asked |-> [a \in Axes |-> 0]]
    /\ quartz = [target |-> NoTarget, burst |-> FALSE, synced |-> FALSE, cursor |-> 0, posted |-> <<>>,
                 from |-> 0, asked |-> 0]
    /\ motions = 0

MotionAt(which) == /\ edge = which /\ motions < MaxMotions /\ motions' = motions + 1
                 /\ UNCHANGED edge

-----------------------------------------------------------------------------
\* The Windows hook.  A suppressed motion does not move the cursor.

Clamp(x) == IF x < 0 THEN 0 ELSE IF x > Width THEN Width ELSE x

fault_pointer(h) == [h EXCEPT !.active = FALSE]

\* The baseline first, then SetCursorPos.
recenter_pointer(h, ok) ==
    IF ok THEN [h EXCEPT !.baseline = virtual_desktop_center, !.cursor = virtual_desktop_center]
    ELSE fault_pointer([h EXCEPT !.baseline = virtual_desktop_center])

commit_pointer_position(h, pt) == [h EXCEPT !.baseline = pt, !.cursor = pt]

pointer_delta(h, pt) == pt - h.baseline

\* A physical motion by d to pt.  moved sums what the user moved of what a
\* remote route took, sent what was forwarded.
low_level_mouse_hook(h, d, pt, ok) ==
    IF pointer_delta(h, pt) = 0 THEN [h EXCEPT !.cursor = pt]
    ELSE IF h.remote
    THEN recenter_pointer([h EXCEPT !.moved = @ + d, !.sent = @ + pointer_delta(h, pt)], ok)
    ELSE commit_pointer_position(h, pt)

\* A motion the edge of the desktop cuts short is reported as short as it is.
PhysicalMotion(d, ok) ==
    /\ MotionAt("hook") /\ hookp.active
    /\ LET pt == Clamp(hookp.cursor + d)
       IN  hookp' = low_level_mouse_hook(hookp, pt - hookp.cursor, pt, ok)
    /\ UNCHANGED <<steps, quartz>>

\* This computer is also injected into: such an event is never suppressed.
InjectedMotion(d) ==
    /\ MotionAt("hook") /\ hookp.active
    /\ LET pt == Clamp(hookp.cursor + d)
       IN  hookp' = IF pointer_delta(hookp, pt) = 0 THEN [hookp EXCEPT !.cursor = pt]
                    ELSE commit_pointer_position(hookp, pt)
    /\ UNCHANGED <<steps, quartz>>

\* The route changes, and asks the hook thread to hide or to show the cursor;
\* one request at a time.
Reroutes ==
    /\ MotionAt("hook") /\ hookp.active /\ hookp.message = "none"
    /\ hookp' = [hookp EXCEPT !.remote = ~@, !.message = IF hookp.remote THEN "show" ELSE "hide"]
    /\ UNCHANGED <<steps, quartz>>

\* whole_host_message_loop: hiding the cursor takes it to the centre.
HandlesMessage(ok) ==
    /\ edge = "hook" /\ hookp.message # "none"
    /\ hookp' = IF hookp.message = "hide" THEN recenter_pointer([hookp EXCEPT !.message = "none"], ok)
                ELSE [hookp EXCEPT !.message = "none"]
    /\ UNCHANGED <<edge, steps, quartz, motions>>

-----------------------------------------------------------------------------
\* take_integral_delta and take_scroll_steps: truncation is towards zero.

Trunc(t) == IF t >= 0 THEN t \div 2 ELSE -((-t) \div 2)
OutOfRange(t) == Trunc(t) > Limit \/ Trunc(t) < -Limit

take_integral_delta(s, a, v) ==
    [s EXCEPT !.rest[a] = v + @ - 2 * Trunc(v + @), !.sent[a] = @ + Trunc(v + s.rest[a])]

\* The first axis is taken when the second turns out not to fit; the caller
\* ends the session with any error.
inject_steps(s, x, y, ok) ==
    IF OutOfRange(x + s.rest["x"]) THEN [s EXCEPT !.ended = TRUE]
    ELSE IF OutOfRange(y + s.rest["y"]) THEN [take_integral_delta(s, "x", x) EXCEPT !.ended = TRUE]
    ELSE [take_integral_delta(take_integral_delta(s, "x", x), "y", y) EXCEPT
            !.ended = ~ok /\ (Trunc(x + s.rest["x"]) # 0 \/ Trunc(y + s.rest["y"]) # 0)]

InjectsSteps(x, y, ok) ==
    /\ MotionAt("steps") /\ ~steps.ended
    /\ steps' = inject_steps([steps EXCEPT !.asked = [@ EXCEPT !["x"] = @ + x, !["y"] = @ + y]], x, y, ok)
    /\ UNCHANGED <<hookp, quartz>>

-----------------------------------------------------------------------------
\* The macOS pointer.

\* from and asked, for the properties: where the pointer was when it was last
\* read, and what has been asked of it since.
pointer_base(q) ==
    IF q.burst /\ q.synced /\ q.target # NoTarget THEN q
    ELSE [q EXCEPT !.target = q.cursor, !.synced = TRUE, !.from = q.cursor, !.asked = 0]

inject_move(q, d) ==
    [q EXCEPT !.posted = Append(@, q.target + d), !.target = @ + d, !.burst = TRUE, !.asked = @ + d]

InjectsMove(d, ok) ==
    /\ MotionAt("quartz") /\ Len(quartz.posted) < MaxQuartz
    /\ quartz' = IF ok THEN inject_move(pointer_base(quartz), d) ELSE pointer_base(quartz)
    /\ UNCHANGED <<hookp, steps>>

\* A button event is posted at the pointer and puts it there.
InjectsButton(ok) ==
    /\ MotionAt("quartz") /\ Len(quartz.posted) < MaxQuartz
    /\ LET q == pointer_base(quartz)
       IN  quartz' = IF ok THEN [q EXCEPT !.posted = Append(@, q.target)] ELSE q
    /\ UNCHANGED <<hookp, steps>>

SystemApplies ==
    /\ edge = "quartz" /\ quartz.posted # <<>>
    /\ quartz' = [quartz EXCEPT !.cursor = Clamp(Head(quartz.posted)), !.posted = Tail(@)]
    /\ UNCHANGED <<edge, hookp, steps, motions>>

\* POINTER_ACTIVE_RESYNC and POINTER_BURST_RESYNC run out.
ResyncDue ==
    /\ edge = "quartz"
    /\ \/ quartz.synced /\ quartz' = [quartz EXCEPT !.synced = FALSE]
       \/ quartz.burst /\ quartz' = [quartz EXCEPT !.synced = FALSE, !.burst = FALSE]
    /\ UNCHANGED <<edge, hookp, steps, motions>>

PointerPathNext ==
    \/ \E d \in Moves, ok \in BOOLEAN : PhysicalMotion(d, ok) \/ InjectsMove(d, ok)
    \/ \E d \in Moves : InjectedMotion(d)
    \/ Reroutes
    \/ \E ok \in BOOLEAN : HandlesMessage(ok) \/ InjectsButton(ok)
    \/ \E x, y \in {-3, -1, 1, 5}, ok \in BOOLEAN : InjectsSteps(x, y, ok)
    \/ SystemApplies \/ ResyncDue

PointerPathTypeOK ==
    /\ hookp.cursor \in 0 .. Width /\ hookp.baseline \in 0 .. Width
    /\ \A a \in Axes : steps.rest[a] \in -1 .. 1
    /\ Len(quartz.posted) <= MaxQuartz /\ quartz.cursor \in 0 .. Width

-----------------------------------------------------------------------------
\* What a remote route is sent is what the user moved: neither the jump of the
\* cursor to the centre nor a motion injected in between is taken for motion
\* (pointer_delta, recenter_pointer, commit_pointer_position).
MotionForwarded == hookp.sent = hookp.moved

\* As long as no injection failed, the whole steps sent and the fraction kept
\* are all that was asked for, on either axis and in either direction
\* (take_integral_delta, take_scroll_steps).
FractionsAddUp ==
    ~steps.ended => \A a \in Axes : steps.asked[a] = 2 * steps.sent[a] + steps.rest[a]

\* Between two readings of the pointer, the last position posted is where it
\* was read plus every motion asked for since, however late the system is in
\* applying them (pointer_base, inject_payload).
MovesAddUp ==
    quartz.asked # 0 /\ quartz.posted # <<>>
        => quartz.posted[Len(quartz.posted)] = quartz.from + quartz.asked
=============================================================================
