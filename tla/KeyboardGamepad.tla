-------------------------- MODULE KeyboardGamepad --------------------------
(* The keyboard as a gamepad (struct sc_keyboard_gamepad): what its          *)
(* operations make of the keys it holds and of the pads, which events they   *)
(* send to the gamepad processor, and when they ask for ticks.  The module   *)
(* has no variables: an operator takes the state g and returns the next one, *)
(* with the events it sent appended to g.out.  Gamepads uses it.             *)
(*                                                                           *)
(* A pad points -1, 0 or 1 on each axis.  A stick's deflection is 0..FullCap *)
(* (INT16_MAX), at most WalkCap of it with the walk key held.  A stick's     *)
(* position is <<x, y, m>>: where its keys push it and how far, or, while    *)
(* they do not, 0, 0 and what the mouse gives.  A trigger is a button here.  *)
EXTENDS Integers, Sequences, SequencesExt

CONSTANTS
    Keys,       \* kg->keys: the sequence of keys of the spec
    Input,      \* for each, "key", "button" (of the mouse) or "wheel"
    Control,    \* for each, its control: Button, Direction or Walk below
    Sticks,     \* the sticks, of left and right
    MousePad,   \* the stick the mouse moves (mouse_stick), or another value
    Neutral,    \* the pads with socd=neutral
    FullCap,    \* INT16_MAX
    WalkCap,    \* walk_percent of it
    FirstStep,  \* the deflection of KG_FIRST_STEP_MS; FullCap without a ramp
    Speeds      \* bound: the positions the mouse gives are 1..Speeds

ASSUME CapsAssumption == /\ FullCap \in Nat \ {0}
                         /\ WalkCap \in 1 .. FullCap
                         /\ FirstStep \in 1 .. FullCap
                         /\ Speeds \in Nat
ASSUME SticksAssumption == Sticks \subseteq {"left", "right"}

KeySet == ToSet(Keys)
Pads == Sticks \cup {"dpad"}
Axes == {"x", "y"}

(* The gamepad's buttons: <<name, 0>>, and the D-pad's (kg_dpad_button).      *)
PlainButton(b) == <<b, 0>>
DpadButton(axis, sign) == <<axis, sign>>
DpadButtons == Axes \X {-1, 1}

(* The controls a key may have (kg_controls).                                *)
Button(b) == [kind |-> "button", button |-> PlainButton(b)]
Direction(pad, axis, sign) ==
    [kind |-> "direction", pad |-> pad, axis |-> axis, sign |-> sign]
Walk == [kind |-> "walk"]

(* Every key is of one of these inputs, and has one of these controls.       *)
ASSUME KeysAssumption ==
    /\ Keys \in Seq(KeySet)
    /\ Input \in [KeySet -> {"key", "button", "wheel"}]
    /\ \A k \in KeySet :
         /\ Control[k].kind \in {"button", "direction", "walk"}
         /\ Control[k].kind = "walk" => Control[k] = Walk
         /\ Control[k].kind = "button" =>
               Control[k] = Button(Control[k].button[1])
         /\ Control[k].kind = "direction" =>
               /\ Control[k].pad \in Pads /\ Control[k].axis \in Axes
               /\ Control[k].sign \in {-1, 1}
               /\ Control[k] = Direction(Control[k].pad, Control[k].axis,
                                         Control[k].sign)

(* sc_keyboard_gamepad_init.  held: the pressed keys, in the order of their  *)
(* presses (key->pressed); moved: mouse_dx or mouse_dy; mouse: the position  *)
(* mouse_x, mouse_y; armed: the owner's timer.                               *)
InitialGamepad ==
    [held |-> << >>, dir |-> [p \in Pads |-> [a \in Axes |-> 0]],
     magnitude |-> [p \in Sticks |-> 0], sent |-> [p \in Sticks |-> <<0, 0, 0>>],
     ramping |-> [p \in Sticks |-> FALSE], ticking |-> FALSE, armed |-> FALSE,
     moved |-> FALSE, mouse |-> 0, out |-> << >>]

Held(g) == ToSet(g.held)
ControlHeld(g, c) == \E k \in Held(g) : Control[k] = c
WalkHeld(g) == ControlHeld(g, Walk)
CapBeyondFull(g) == IF WalkHeld(g) THEN WalkCap ELSE FullCap + 1
StickCap(g) == IF WalkHeld(g) THEN WalkCap ELSE FullCap

(* kg_pad_direction: of two opposite directions the one pressed last counts, *)
(* or none does.                                                             *)
PadDirection(g, pad, axis) ==
    LET signs == {Control[k].sign : k \in {h \in Held(g) :
                     /\ Control[h].kind = "direction"
                     /\ Control[h].pad = pad /\ Control[h].axis = axis}}
        last == SelectLastInSeq(g.held, LAMBDA h :
                     /\ Control[h].kind = "direction"
                     /\ Control[h].pad = pad /\ Control[h].axis = axis)
    IN IF signs = {} \/ (pad \in Neutral /\ signs = {-1, 1})
       THEN 0 ELSE Control[g.held[last]].sign

PadPoints(g, pad) == [a \in Axes |-> PadDirection(g, pad, a)]
-----------------------------------------------------------------------------
(* Sending.                                                                  *)

SendButton(g, button, down) ==
    [g EXCEPT !.out = Append(@, [kind |-> "button", button |-> button,
                                 down |-> down])]

(* Sends the buttons dir has the D-pad point to, on some of the axes.        *)
SendDpad(g, dir, axes, down) ==
    LET send(h, a) == IF a \in axes /\ dir[a] # 0
                      THEN SendButton(h, DpadButton(a, dir[a]), down) ELSE h
    IN send(send(g, "x"), "y")

(* kg_move_dpad: the buttons it leaves are released before the ones it       *)
(* reaches are pressed.                                                      *)
PressThenRelease(g, dir) ==
    LET old == g.dir["dpad"]
        turned == {a \in Axes : dir[a] # old[a]}
        g1 == [g EXCEPT !.dir["dpad"] = dir]
    IN SendDpad(SendDpad(g1, dir, turned, TRUE), old, turned, FALSE)
MoveDpad(g, dir) ==
    LET old == g.dir["dpad"]
        turned == {a \in Axes : dir[a] # old[a]}
        g1 == [g EXCEPT !.dir["dpad"] = dir]
    IN SendDpad(SendDpad(g1, old, turned, FALSE), dir, turned, TRUE)

Centered(dir) == \A a \in Axes : dir[a] = 0

StickPosition(g, pad) ==
    IF Centered(g.dir[pad]) THEN <<0, 0, IF pad = MousePad THEN g.mouse ELSE 0>>
    ELSE <<g.dir[pad]["x"], g.dir[pad]["y"], g.magnitude[pad]>>

(* kg_send_stick: in one event, if the position is not the one sent last.    *)
SendStick(g, pad) ==
    LET p == StickPosition(g, pad) IN
    IF p = g.sent[pad] THEN g
    ELSE [g EXCEPT !.sent[pad] = p,
                   !.out = Append(@, [kind |-> "stick", stick |-> pad,
                                      position |-> p])]

(* kg_start_ticking, and the owner's arm: nothing if it ticks already.       *)
StartTicking(g) ==
    IF g.ticking THEN g ELSE [g EXCEPT !.ticking = TRUE, !.armed = TRUE]

(* kg_move_stick: to the center or down to the cap at once; else one step at *)
(* once and the ticks carry it on.                                           *)
MoveStick(g, pad, dir) ==
    LET cap == StickCap(g)
        m == g.magnitude[pad]
        g1 == [g EXCEPT !.dir[pad] = dir]
        to(n) == [g1 EXCEPT !.magnitude[pad] = n, !.ramping[pad] = FALSE]
        ramped == [to(m + FirstStep) EXCEPT !.ramping[pad] = TRUE]
        g2 == IF Centered(dir) THEN to(0)
              ELSE IF m >= cap THEN to(cap)
              ELSE IF g.ramping[pad] THEN g1
              ELSE IF m + FirstStep >= cap THEN to(cap)
              ELSE StartTicking(ramped)
    IN SendStick(g2, pad)
-----------------------------------------------------------------------------
(* The operations.                                                           *)

(* The cap of the sticks changed: those that are pushed follow it.           *)
MoveSticks(g) ==
    LET move(h, p) == IF p \notin Sticks \/ Centered(h.dir[p]) THEN h
                      ELSE MoveStick(h, p, h.dir[p])
    IN move(move(g, "left"), "right")

(* kg_apply_key: another key of the control may hold it already, or still.   *)
ApplyKey(g, key, down) ==
    LET c == Control[key]
        g1 == [g EXCEPT !.held = IF down THEN Append(@, key)
                                 ELSE RemoveFirst(@, key)]
        held == ControlHeld(g1, c)
    IN CASE c.kind = "direction" ->
                IF c.pad = "dpad" THEN MoveDpad(g1, PadPoints(g1, "dpad"))
                ELSE MoveStick(g1, c.pad, PadPoints(g1, c.pad))
         [] c.kind # "direction" /\ held = ControlHeld(g, c) -> g1
         [] c.kind = "button" /\ held # ControlHeld(g, c) ->
                SendButton(g1, c.button, held)
         [] c.kind = "walk" /\ held # ControlHeld(g, c) -> MoveSticks(g1)

(* Releases the held keys among some, in the order of the spec.              *)
ReleaseKeys(g, keys) ==
    LET release(h, k) == IF k \in Held(h) /\ k \in keys THEN ApplyKey(h, k, FALSE)
                         ELSE h
        after[n \in 0 .. Len(Keys)] ==
            IF n = 0 THEN g ELSE release(after[n - 1], Keys[n])
    IN after[Len(Keys)]

(* sc_keyboard_gamepad_release_all                                           *)
ReleaseNothing(g) == g
ReleaseAll(g) == ReleaseKeys(g, KeySet)

(* sc_keyboard_gamepad_release_mouse: the motion not sent yet is dropped.    *)
ReleaseMouse(g) ==
    LET g1 == ReleaseKeys(g, {k \in KeySet : Input[k] # "key"})
        g2 == [g1 EXCEPT !.moved = FALSE, !.mouse = 0]
    IN IF MousePad \in Sticks THEN SendStick(g2, MousePad) ELSE g2

(* sc_keyboard_gamepad_handle_mouse_motion                                   *)
MouseMotionUntimed(g) == [g EXCEPT !.moved = TRUE]
MouseMotion(g) == StartTicking([g EXCEPT !.moved = TRUE])

(* sc_keyboard_gamepad_handle_mouse_wheel: a notch of a wheel's direction.   *)
WheelNotch(g, key) ==
    StartTicking(IF key \in Held(g) THEN g ELSE ApplyKey(g, key, TRUE))

WheelHeld(g) == {k \in Held(g) : Input[k] = "wheel"}

(* sc_keyboard_gamepad_tick.  step: the deflection of the time elapsed; due: *)
(* the notches whose moment is over; speed: the position the motion since    *)
(* the last tick gives; stopped: there was none for KG_MOUSE_HOLD_MS.        *)
Tick(g, step, due, speed, stopped) ==
    LET ramp(h, p) ==
            IF p \notin Sticks \/ ~h.ramping[p] THEN h
            ELSE LET m == h.magnitude[p] + step IN
                 SendStick(IF m >= StickCap(h)
                           THEN [h EXCEPT !.magnitude[p] = StickCap(h),
                                          !.ramping[p] = FALSE]
                           ELSE [h EXCEPT !.magnitude[p] = m], p)
        g1 == ramp(ramp(g, "left"), "right")
        g2 == ReleaseKeys(g1, due)
        g3 == IF MousePad \notin Sticks THEN g2
              ELSE SendStick([g2 EXCEPT !.moved = FALSE,
                                        !.mouse = IF g2.moved THEN speed
                                                  ELSE IF stopped THEN 0
                                                  ELSE @], MousePad)
        more == \/ \E p \in Sticks : g1.ramping[p]
                \/ WheelHeld(g1) \ due # {}
                \/ g3.mouse # 0
    IN [g3 EXCEPT !.ticking = more]
=============================================================================
