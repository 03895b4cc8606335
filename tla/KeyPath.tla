------------------------------- MODULE KeyPath -------------------------------
(***************************************************************************)
(* A key on its way from the keyboard of one computer to the operating      *)
(* system of another, of the other platform: the capture callback and its    *)
(* table, the wire, the roles of the modifiers, the table of the injection   *)
(* backend, and the record the receiving coordinator keeps of what it holds. *)
(*                                                                          *)
(* KeyCode has one key of each kind the tables tell apart: an ordinary one,  *)
(* two modifiers that change roles, two that share an Apple position, Caps   *)
(* Lock, Fn (no HID usage on the wire) and a media key (no Quartz position). *)
(* Events are delivered at once and in order: the transport is elsewhere.    *)
(***************************************************************************)
EXTENDS Naturals, FiniteSets, TLC

CONSTANTS MaxKeyEvents,  \* bound: events of the keyboard
          MaxRefusals    \* bound: injections the system refuses, and reconnections

VARIABLES source,    \* the platform of the keyboard: "mac" or "windows"
          keyboard,  \* down, and what the capture side remembers
          linked,    \* a session is admitted
          far,       \* the receiving coordinator and its operating system
          keyEvents, refusals

keyVars == <<source, keyboard, linked, far, keyEvents, refusals>>

KeyCode == {"KeyA", "AltLeft", "MetaLeft", "F13", "PrintScreen", "CapsLock", "Fn", "MediaPlayPause"}

mac_virtual_key ==
    [KeyA |-> "a", AltLeft |-> "option", MetaLeft |-> "command", F13 |-> "vk69",
     PrintScreen |-> "vk69", CapsLock |-> "caps", Fn |-> "fn", MediaPlayPause |-> "none"]

\* Capture takes the Apple name of a shared position.
key_from_mac_virtual_key ==
    [a |-> "KeyA", option |-> "AltLeft", command |-> "MetaLeft", vk69 |-> "F13",
     caps |-> "CapsLock", fn |-> "Fn"]

scan_code ==
    [KeyA |-> "a", AltLeft |-> "alt", MetaLeft |-> "win", F13 |-> "sc64", PrintScreen |-> "sc37e",
     CapsLock |-> "caps", Fn |-> "none", MediaPlayPause |-> "sc22e"]

key_from_scan_code ==
    [a |-> "KeyA", alt |-> "AltLeft", win |-> "MetaLeft", sc64 |-> "F13", sc37e |-> "PrintScreen",
     caps |-> "CapsLock", sc22e |-> "MediaPlayPause"]

\* Keyboard page 7 and consumer page 12.
Unsupported == <<0, 0>>
key_to_wire ==
    [KeyA |-> <<7, 4>>, AltLeft |-> <<7, 226>>, MetaLeft |-> <<7, 227>>, F13 |-> <<7, 104>>,
     PrintScreen |-> <<7, 70>>, CapsLock |-> <<7, 57>>, Fn |-> Unsupported,
     MediaPlayPause |-> <<12, 205>>]

keyboard_key_from_usage ==
    4 :> "KeyA" @@ 57 :> "CapsLock" @@ 70 :> "PrintScreen" @@ 104 :> "F13" @@ 226 :> "AltLeft"
    @@ 227 :> "MetaLeft"
consumer_key_from_usage == 205 :> "MediaPlayPause"

key_code_from_wire(w) ==
    IF w[1] = 7 THEN keyboard_key_from_usage[w[2]] ELSE consumer_key_from_usage[w[2]]

\* The same exchange in both directions, set up when the peer is of the other
\* platform.
windows_key_for_macos_source(k) ==
    CASE k = "MetaLeft" -> "AltLeft" [] k = "AltLeft" -> "MetaLeft" [] OTHER -> k
macos_key_for_windows_source(k) ==
    CASE k = "AltLeft" -> "MetaLeft" [] k = "MetaLeft" -> "AltLeft" [] OTHER -> k

MacModifiers == {"option", "command", "fn"}

Positions == IF source = "mac" THEN DOMAIN key_from_mac_virtual_key ELSE DOMAIN key_from_scan_code
CodeAt(p) == IF source = "mac" THEN key_from_mac_virtual_key[p] ELSE key_from_scan_code[p]
FarPosition(k) == IF source = "mac" THEN scan_code[windows_key_for_macos_source(k)]
                  ELSE mac_virtual_key[macos_key_for_windows_source(k)]

\* since, for the properties: the positions pressed while this session lives.
KeyInit ==
    /\ source \in {"mac", "windows"}
    /\ keyboard = [down |-> {}, bits |-> {}, owned |-> {}, since |-> {}]
    /\ linked = TRUE
    /\ far = [pressed |-> {}, system |-> {}, flags |-> {}]
    /\ keyEvents = 0 /\ refusals = 0

-----------------------------------------------------------------------------
\* Capture: "none" is an event without a translation, which stays local.

\* Mutant: a released key stays in the bits.
key_was_heldForever(bits, p, released) == bits \union {p}

key_was_held(bits, p, released) == IF released THEN bits \ {p} ELSE bits \union {p}

quartz_modifier_pressed(p, flags) == IF p \in flags THEN "Pressed" ELSE "Released"

\* A modifier is reported by the flags after the event; Caps Lock is not.
translate_quartz_keyboard(p, autorepeat, flags) ==
    CASE p = "caps" -> "none"
      [] p \in MacModifiers -> quartz_modifier_pressed(p, flags)
      [] autorepeat -> "Repeated"
      [] OTHER -> IF p \in flags THEN "Pressed" ELSE "Released"

low_level_keyboard_hook(p, released) ==
    CASE released -> "Released" [] p \in keyboard.bits -> "Repeated" [] OTHER -> "Pressed"

-----------------------------------------------------------------------------
\* The receiving end.

\* One native event: a modifier also changes the flags that go with it.
Post(f, p, isDown) == [f EXCEPT !.system = IF isDown THEN @ \union {p} ELSE @ \ {p}]
WithFlag(f, p, isDown) ==
    IF source = "windows" /\ p \in MacModifiers
    THEN [f EXCEPT !.flags = IF isDown THEN @ \union {p} ELSE @ \ {p}] ELSE f

Injects(k, ok) == ok /\ FarPosition(k) # "none"
inject_payload(f, k, state, ok) ==
    IF FarPosition(k) = "none" THEN f
    ELSE IF ~ok THEN WithFlag(f, FarPosition(k), state # "Released")
    ELSE Post(WithFlag(f, FarPosition(k), state # "Released"), FarPosition(k), state # "Released")

\* release_all_inbound: what cannot be released stays on the record; refused
\* are the keys the system does not take.
release_all_inbound(f, refused) ==
    LET done == {k \in f.pressed : Injects(k, k \notin refused)}
        gone == {FarPosition(k) : k \in done}
        tried == {FarPosition(k) : k \in f.pressed}
    IN  [f EXCEPT !.pressed = @ \ done, !.system = @ \ gone, !.flags = @ \ tried]

inject_received(f, k, state, ok) ==
    LET g == inject_payload(f, k, state, ok)
    IN  [g EXCEPT !.pressed = CASE state = "Pressed" -> @ \union {k}
                                [] state = "Released" /\ Injects(k, ok) -> @ \ {k}
                                [] OTHER -> @]

UnmatchedRepeat(k, state) == state = "Repeated" /\ k \notin far.pressed

-----------------------------------------------------------------------------
\* The path: the core owns a key from its press on, forwards what belongs to
\* a key it owns, and a failure of either end ends the session.

Owns(k, state) == state = "Pressed" \/ (state # "none" /\ k \in keyboard.owned)
Forwarded(k, state, ok) == /\ key_to_wire[k] # Unsupported /\ ~UnmatchedRepeat(k, state)
                           /\ Injects(k, ok)

\* The keyboard of the source reports a change of p.
Captures(kb, p, state, ok) ==
    LET k == CodeAt(p)
        sent == key_code_from_wire(key_to_wire[k])
        arrives == key_to_wire[k] # Unsupported /\ ~UnmatchedRepeat(k, state)
        after == IF arrives THEN inject_received(far, sent, state, ok) ELSE far
    IN  IF ~linked \/ ~Owns(k, state)
        THEN ok /\ keyboard' = kb /\ UNCHANGED <<linked, far, refusals>>
        ELSE IF Forwarded(k, state, ok)
        THEN /\ keyboard' = [kb EXCEPT !.owned = IF state = "Released" THEN @ \ {k} ELSE @ \union {k}]
             /\ far' = after /\ UNCHANGED <<linked, refusals>>
        ELSE \E refused \in SUBSET after.pressed :
                /\ refusals' = refusals + (IF ok THEN 0 ELSE 1) + Cardinality(refused)
                /\ refusals' <= MaxRefusals
                /\ linked' = FALSE /\ far' = release_all_inbound(after, refused)
                /\ keyboard' = [kb EXCEPT !.owned = {}, !.since = {}]

KeyEvent == keyEvents < MaxKeyEvents /\ keyEvents' = keyEvents + 1 /\ UNCHANGED source

KeyDown(p, ok) ==
    /\ KeyEvent /\ p \notin keyboard.down
    /\ Captures([keyboard EXCEPT !.down = @ \union {p},
                                 !.bits = key_was_held(@, p, FALSE),
                                 !.since = IF linked THEN @ \union {p} ELSE @], p,
                IF source = "mac" THEN translate_quartz_keyboard(p, FALSE, keyboard.down \union {p})
                ELSE low_level_keyboard_hook(p, FALSE), ok)

KeyRepeats(p, ok) ==
    /\ KeyEvent /\ p \in keyboard.down /\ ~(source = "mac" /\ p \in MacModifiers \union {"caps"})
    /\ Captures([keyboard EXCEPT !.bits = key_was_held(@, p, FALSE)], p,
                IF source = "mac" THEN translate_quartz_keyboard(p, TRUE, keyboard.down)
                ELSE low_level_keyboard_hook(p, FALSE), ok)

KeyUp(p, ok) ==
    /\ KeyEvent /\ p \in keyboard.down
    /\ Captures([keyboard EXCEPT !.down = @ \ {p}, !.bits = key_was_held(@, p, TRUE),
                                 !.since = @ \ {p}], p,
                IF source = "mac" THEN translate_quartz_keyboard(p, FALSE, keyboard.down \ {p})
                ELSE low_level_keyboard_hook(p, TRUE), ok)

\* activate_binding: only with nothing left to release.
activate_binding ==
    /\ ~linked /\ far.pressed = {} /\ refusals < MaxRefusals
    /\ linked' = TRUE /\ refusals' = refusals + 1
    /\ UNCHANGED <<source, keyboard, far, keyEvents>>

KeyNext ==
    \/ \E p \in Positions, ok \in BOOLEAN : KeyDown(p, ok) \/ KeyRepeats(p, ok) \/ KeyUp(p, ok)
    \/ activate_binding

KeyTypeOK ==
    /\ keyboard.down \subseteq Positions /\ keyboard.bits \subseteq Positions
    /\ keyboard.owned \subseteq KeyCode /\ far.pressed \subseteq KeyCode
    /\ far.flags \subseteq MacModifiers

-----------------------------------------------------------------------------
\* A position two keys share: the first release lets go of it.
Shared(p) == Cardinality({k \in KeyCode : FarPosition(k) = p}) > 1
FarDown == {FarPosition(CodeAt(p)) : p \in {q \in keyboard.since : source = "windows" \/ q # "caps"}}

\* While the session lives the other system has down exactly the keys pressed
\* here since it began and still down, each at its own position and with the
\* modifiers in their roles; a shared position it may have let go of earlier.
\* Afterwards it has down only what the coordinator still means to release
\* (key_was_held, translate_quartz_keyboard, inject_received).
SameKeysDown ==
    /\ linked => /\ far.system \subseteq FarDown
                 /\ \A p \in FarDown : p \in far.system \/ Shared(p)
    /\ far.system \subseteq {FarPosition(k) : k \in far.pressed}

\* The modifier word macOS events carry names no modifier the coordinator does
\* not hold: a press is on record before it is injected, so one the system
\* refused is taken back (MacOutputBackend::inject_payload, inject_received).
NoStrayModifier == far.flags \subseteq {FarPosition(k) : k \in far.pressed}
=============================================================================
