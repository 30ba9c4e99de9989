------------------------------ MODULE Gamepads ------------------------------
(* The host's gamepads on the device: the keyboard gamepad and real ones,    *)
(* passed on only while the window has the focus (struct sc_gamepad_focus),  *)
(* as HID devices with one slot each (struct sc_hid_gamepad), whose reports  *)
(* go through the controller's bounded queue to the device's UHID manager.   *)
(*                                                                           *)
(* The console's UI thread handles the window's events, a timer's thread     *)
(* queues ticks for the keyboard gamepad, and the control thread sends the   *)
(* queue's messages, which the device handles in that order.  The user's     *)
(* fingers are part of the state: an event of a key or a mouse button only   *)
(* reaches the gamepad if the window, and the gamepad in it, gets it.        *)
EXTENDS KeyboardGamepad, FiniteSets

CONSTANTS
    Gamepads,     \* the ids of real gamepads (SDL joystick ids)
    Kb,           \* SC_KEYBOARD_GAMEPAD_ID
    NoPad,        \* SC_GAMEPAD_ID_INVALID
    MaxGamepads,  \* SC_GAMEPAD_FOCUS_MAX_GAMEPADS and SC_MAX_GAMEPADS, 8
    QueueLimit,   \* SC_CONTROL_MSG_QUEUE_LIMIT, 60
    Setups,       \* bound: the keys and gamepads there are, if the mouse moves
    MaxDown,      \* bound: keys and mouse buttons the user holds down at once
    MaxBacklog    \* bound: messages queued when the focus or a gamepad comes

ASSUME PadsAssumption == /\ Kb \notin Gamepads
                         /\ NoPad \notin Gamepads \cup {Kb}
ASSUME GamepadBoundsAssumption == /\ MaxGamepads \in Nat \ {0}
                                  /\ QueueLimit \in Nat \ {0}
                                  /\ MaxDown \in Nat
                                  /\ MaxBacklog \in Nat
ASSUME SetupsAssumption ==
    Setups \subseteq [keys : SUBSET KeySet, gamepads : SUBSET Gamepads,
                      mouse : BOOLEAN]

VARIABLES
    setup,    \* the one of Setups at hand
    down,     \* the keys and mouse buttons the user holds down
    plugged,  \* real gamepads: "no", "in", "out" (an id is not used again)
    paused,   \* screen->paused
    focused,  \* the window has the focus; gf->focused
    captured, \* the window has the pointer
    kg,       \* struct sc_keyboard_gamepad
    tick,     \* a GAMEKB_TIMER event is queued
    pads,     \* gf->gamepads: the ids, in the order they were connected
    slots,    \* hid->slots: whose each is, and what it reports
    queue,    \* controller->queue: the UHID messages
    device,   \* the device's gamepads: what each reports, or NoPad
    lost      \* history: the slots whose last report did not fit the queue

vars == <<setup, down, plugged, paused, focused, captured, kg, tick, pads, slots,
          queue, device, lost>>

SlotIds == 1 .. MaxGamepads

(* sc_hid_gamepad_slot_init: nothing pressed, the sticks centered.           *)
RestReport == [buttons |-> {}, stick |-> [p \in Sticks |-> <<0, 0, 0>>]]
FreeSlot == [id |-> NoPad, report |-> RestReport]

(* options->keyboard_gamepad: there is one if it was given any keys.         *)
HasKeyboardGamepad == setup.keys # {}

(* The window is about to get the focus; the keyboard gamepad, if any, is    *)
(* plugged.                                                                  *)
Init ==
    /\ setup \in Setups
    /\ down = {} /\ plugged = [g \in Gamepads |-> "no"]
    /\ paused = FALSE /\ focused = FALSE
    /\ captured = (HasKeyboardGamepad /\ MousePad \in Sticks)
    /\ kg = InitialGamepad /\ tick = FALSE
    /\ pads = IF HasKeyboardGamepad THEN <<Kb>> ELSE << >>
    /\ slots = [i \in SlotIds |-> FreeSlot]
    /\ queue = << >> /\ lost = {}
    /\ device = [i \in SlotIds |-> NoPad]
-----------------------------------------------------------------------------
(* The controller's queue.  A state s of the path to the device has the      *)
(* slots, the queue and the lost reports.                                    *)
Path == [slots |-> slots, queue |-> queue, lost |-> lost]
Leave(s) == slots' = s.slots /\ queue' = s.queue /\ lost' = s.lost

(* sc_control_msg_is_droppable                                               *)
InputOrOpen(type) == type \in {"input", "create"}
IsDroppable(type) == type = "input"

(* sc_controller_push_msg: beyond the limit, a droppable message is dropped. *)
Push(s, type, i, report) ==
    IF Len(s.queue) < QueueLimit \/ ~IsDroppable(type)
    THEN [s EXCEPT !.queue = Append(@, [type |-> type, slot |-> i,
                                        report |-> report]),
                   !.lost = @ \ {i}]
    ELSE [s EXCEPT !.lost = @ \cup {i}]

(* UhidManager: what a message makes of a gamepad of the device.  An input   *)
(* for one that is not there is ignored.                                     *)
UhidTakes(d, m) ==
    CASE m.type = "create" -> RestReport
      [] m.type = "destroy" -> NoPad
      [] m.type = "input" -> IF d = NoPad THEN NoPad ELSE m.report

(* run_controller sends the next message, and the device handles it.         *)
DeviceTakes ==
    /\ queue # << >>
    /\ queue' = Tail(queue)
    /\ LET m == Head(queue) IN
       device' = [device EXCEPT ![m.slot] = UhidTakes(@, m)]
    /\ UNCHANGED <<setup, down, plugged, paused, focused, captured, kg, tick, pads,
                   slots, lost>>
-----------------------------------------------------------------------------
(* The HID gamepads.                                                         *)
SlotsOf(s, id) == {i \in SlotIds : s.slots[i].id = id}
FirstOf(ids) == CHOOSE i \in ids : \A j \in ids : i <= j

(* sc_hid_gamepad_generate_open, in the first free slot, and UHID_CREATE.    *)
Open(s, id) ==
    IF SlotsOf(s, NoPad) = {} THEN s
    ELSE LET i == FirstOf(SlotsOf(s, NoPad)) IN
         Push([s EXCEPT !.slots[i] = [id |-> id, report |-> RestReport]],
              "create", i, RestReport)

(* sc_hid_gamepad_generate_close, and UHID_DESTROY.                          *)
Close(s, id) ==
    IF SlotsOf(s, id) = {} THEN s
    ELSE LET i == FirstOf(SlotsOf(s, id)) IN
         Push([s EXCEPT !.slots[i] = FreeSlot], "destroy", i, RestReport)

(* sc_hid_gamepad_generate_input_from_button and _from_stick.                *)
Report(r, e) ==
    IF e.kind = "stick" THEN [r EXCEPT !.stick[e.stick] = e.position]
    ELSE [r EXCEPT !.buttons = IF e.down THEN @ \cup {e.button}
                               ELSE @ \ {e.button}]

(* The slot takes the event, and is reported as a whole.                     *)
TakeEvent(s, id, e) ==
    IF SlotsOf(s, id) = {} THEN s
    ELSE LET i == FirstOf(SlotsOf(s, id))
             r == Report(s.slots[i].report, e)
         IN Push([s EXCEPT !.slots[i].report = r], "input", i, r)
-----------------------------------------------------------------------------
(* Passing gamepads on, with the focus.                                      *)

(* The events of a gamepad: only while focused, and if it is known.          *)
PassOn(s, id, events) ==
    IF focused /\ id \in ToSet(pads)
    THEN LET after[n \in 0 .. Len(events)] ==
                 IF n = 0 THEN s ELSE TakeEvent(after[n - 1], id, events[n])
         IN after[Len(events)]
    ELSE s

(* A handler leaves the keyboard gamepad as g, its events sent on.           *)
Sent(g) == [g EXCEPT !.out = << >>]
Handle(g) == kg' = Sent(g) /\ Leave(PassOn(Path, Kb, g.out))

(* The gamepad is known already (SDL and init_sdl_gamepads both announce     *)
(* it), or there are too many.                                               *)
OnlyTooMany(id) == Len(pads) = MaxGamepads
NotTaken(id) == id \in ToSet(pads) \/ Len(pads) = MaxGamepads

(* sc_gamepad_focus: process_gamepad_added                                   *)
GamepadAdded(id) ==
    /\ plugged[id] # "out" /\ Len(queue) <= MaxBacklog
    /\ plugged' = [plugged EXCEPT ![id] = "in"]
    /\ pads' = IF NotTaken(id) THEN pads ELSE Append(pads, id)
    /\ Leave(IF NotTaken(id) \/ ~focused THEN Path ELSE Open(Path, id))
    /\ UNCHANGED <<setup, down, paused, focused, captured, kg, tick, device>>

(* process_gamepad_removed: the others stay in their order.                  *)
GamepadRemoved(id) ==
    /\ plugged[id] = "in"
    /\ plugged' = [plugged EXCEPT ![id] = "out"]
    /\ pads' = RemoveFirst(pads, id)
    /\ Leave(IF focused /\ id \in ToSet(pads) THEN Close(Path, id) ELSE Path)
    /\ UNCHANGED <<setup, down, paused, focused, captured, kg, tick, device>>

(* A button of a real gamepad.                                               *)
GamepadButton(id, b, isDown) ==
    /\ plugged[id] = "in"
    /\ ~paused
    /\ Leave(PassOn(Path, id, <<[kind |-> "button", button |-> b,
                                down |-> isDown]>>))
    /\ UNCHANGED <<setup, down, plugged, paused, focused, captured, kg, tick, pads,
                   device>>
-----------------------------------------------------------------------------
(* The window's events.                                                      *)
TakesMouse == HasKeyboardGamepad /\ MousePad \in Sticks
HasMouse == TakesMouse /\ captured

(* sc_gamepad_focus_set_focused: the gamepads, in their order.               *)
OpenAll(s) ==
    LET after[n \in 0 .. Len(pads)] ==
            IF n = 0 THEN s ELSE Open(after[n - 1], pads[n])
    IN after[Len(pads)]
CloseAll(s) ==
    LET after[n \in 0 .. Len(pads)] ==
            IF n = 0 THEN s ELSE Close(after[n - 1], pads[n])
    IN after[Len(pads)]

(* The window gains the focus: every gamepad is added to the device.         *)
FocusGained ==
    /\ ~focused /\ Len(queue) <= MaxBacklog
    /\ focused' = TRUE
    /\ Leave(OpenAll(Path))
    /\ UNCHANGED <<setup, down, plugged, paused, captured, kg, tick, pads, device>>

(* It loses it: the keys are released, then the gamepads removed, then the   *)
(* pointer let go, with the mouse.                                           *)
FocusLost ==
    /\ focused
    /\ focused' = FALSE
    /\ captured' = (captured /\ ~TakesMouse)
    /\ LET g == ReleaseAll(kg) IN
       /\ Leave(CloseAll(PassOn(Path, Kb, g.out)))
       /\ kg' = Sent(IF HasMouse THEN ReleaseMouse(g) ELSE g)
    /\ UNCHANGED <<setup, down, plugged, paused, tick, pads, device>>

(* The capture key: the pointer is let go, and the mouse with it.            *)
LetPointerGo ==
    /\ focused /\ HasMouse
    /\ captured' = FALSE
    /\ Handle(ReleaseMouse(kg))
    /\ UNCHANGED <<setup, down, plugged, paused, focused, tick, pads, device>>

CapturePointer ==
    /\ focused /\ TakesMouse /\ ~captured
    /\ captured' = TRUE
    /\ UNCHANGED <<setup, down, plugged, paused, focused, kg, tick, pads, slots, queue,
                   device, lost>>

(* sc_screen_set_paused, as far as it matters here.                          *)
TogglePause ==
    /\ paused' = ~paused
    /\ UNCHANGED <<setup, down, plugged, focused, captured, kg, tick, pads, slots,
                   queue, device, lost>>
-----------------------------------------------------------------------------
(* Keys and the mouse: sc_input_manager.                                     *)

(* Whether the gamepad gets the events of a key.                             *)
Gets(k) == focused /\ (Input[k] = "button" => HasMouse)

(* A key goes down: a paused display takes no presses.                       *)
Press(k) ==
    /\ Input[k] # "wheel" /\ k \notin down /\ Cardinality(down) < MaxDown
    /\ down' = down \cup {k}
    /\ Handle(IF Gets(k) /\ ~paused /\ k \notin Held(kg)
              THEN ApplyKey(kg, k, TRUE) ELSE kg)
    /\ UNCHANGED <<setup, plugged, paused, focused, captured, tick, pads, device>>

(* It goes up: the release of a held key is taken whatever else is the case. *)
ReleaseUnlessPaused(k) ==
    /\ k \in down
    /\ down' = down \ {k}
    /\ Handle(IF Gets(k) /\ ~paused /\ k \in Held(kg)
              THEN ApplyKey(kg, k, FALSE) ELSE kg)
    /\ UNCHANGED <<setup, plugged, paused, focused, captured, tick, pads, device>>
Release(k) ==
    /\ k \in down
    /\ down' = down \ {k}
    /\ Handle(IF Gets(k) /\ k \in Held(kg) THEN ApplyKey(kg, k, FALSE) ELSE kg)
    /\ UNCHANGED <<setup, plugged, paused, focused, captured, tick, pads, device>>

Wheel(k) ==
    /\ Input[k] = "wheel"
    /\ focused /\ HasMouse /\ ~paused
    /\ Handle(WheelNotch(kg, k))
    /\ UNCHANGED <<setup, down, plugged, paused, focused, captured, tick, pads, device>>

Motion ==
    /\ setup.mouse
    /\ focused /\ HasMouse /\ ~paused
    /\ Handle(MouseMotion(kg))
    /\ UNCHANGED <<setup, down, plugged, paused, focused, captured, tick, pads, device>>

(* sc_keyboard_gamepad_timer_cb                                              *)
TimerFires ==
    /\ kg.armed
    /\ tick' = TRUE
    /\ UNCHANGED <<setup, down, plugged, paused, focused, captured, kg, pads, slots,
                   queue, device, lost>>

(* sc_keyboard_gamepad_timer_on_event: the timer is stopped if there is no   *)
(* more to do.  A tick queued before comes late.                             *)
OnTick(step, due, speed, stopped) ==
    /\ tick
    /\ tick' = FALSE
    /\ LET g == Tick(kg, step, due, speed, stopped) IN
       Handle([g EXCEPT !.armed = g.ticking /\ @])
    /\ UNCHANGED <<setup, down, plugged, paused, focused, captured, pads, device>>

(* What the time since the last tick may be, where it makes a difference.    *)
TickSteps == IF \E p \in Sticks : kg.ramping[p] THEN 0 .. FullCap ELSE {0}
TickSpeeds == IF kg.moved THEN 0 .. Speeds ELSE {0}
TickStops == IF kg.mouse # 0 THEN BOOLEAN ELSE {FALSE}
-----------------------------------------------------------------------------
Next ==
    \/ DeviceTakes
    \/ \E id \in setup.gamepads :
          \/ GamepadAdded(id) \/ GamepadRemoved(id)
          \/ \E b \in BOOLEAN : GamepadButton(id, PlainButton("a"), b)
    \/ FocusGained \/ FocusLost
    \/ LetPointerGo \/ CapturePointer \/ TogglePause
    \/ \E k \in setup.keys : Press(k) \/ Release(k) \/ Wheel(k)
    \/ Motion
    \/ TimerFires
    \/ \E step \in TickSteps, due \in SUBSET WheelHeld(kg), speed \in TickSpeeds,
          stopped \in TickStops : OnTick(step, due, speed, stopped)

Spec == Init /\ [][Next]_vars
-----------------------------------------------------------------------------
AllButtons == DpadButtons \cup {PlainButton("a")}
              \cup {Control[k].button : k \in {h \in KeySet :
                                               Control[h].kind = "button"}}
Positions == (-1 .. 1) \X (-1 .. 1) \X (0 .. FullCap + Speeds)
Reports == [buttons : SUBSET AllButtons, stick : [Sticks -> Positions]]
ASSUME NoPadAssumption == NoPad \notin Reports

(* The type invariant.                                                       *)
TypeOK ==
    /\ setup \in Setups
    /\ down \subseteq KeySet
    /\ plugged \in [Gamepads -> {"no", "in", "out"}]
    /\ <<paused, focused, captured, tick>> \in BOOLEAN \X BOOLEAN \X BOOLEAN \X BOOLEAN
    /\ Held(kg) \subseteq KeySet /\ Cardinality(Held(kg)) = Len(kg.held)
    /\ kg.dir \in [Pads -> [Axes -> -1 .. 1]]
    /\ kg.magnitude \in [Sticks -> 0 .. FullCap]
    /\ kg.sent \in [Sticks -> Positions]
    /\ kg.ramping \in [Sticks -> BOOLEAN]
    /\ kg.mouse \in 0 .. Speeds
    /\ <<kg.ticking, kg.armed, kg.moved>> \in BOOLEAN \X BOOLEAN \X BOOLEAN
    /\ kg.out = << >>
    /\ ToSet(pads) \subseteq Gamepads \cup {Kb} /\ Len(pads) <= MaxGamepads
    /\ slots \in [SlotIds -> [id : Gamepads \cup {Kb, NoPad}, report : Reports]]
    /\ \A m \in ToSet(queue) :
         m \in [type : {"create", "input", "destroy"}, slot : SlotIds,
                report : Reports]
    /\ \A i \in SlotIds : device[i] = NoPad \/ device[i] \in Reports
    /\ lost \subseteq SlotIds

(* No control is held on the gamepad that the user has let go of, wherever   *)
(* the release went: a pause, a focus lost, a pointer let go meanwhile.  The *)
(* wheel's notches end with a tick.                                          *)
NothingStuck == Held(kg) \ WheelHeld(kg) \subseteq down

(* What the device should see of the keyboard gamepad: the controls held, by *)
(* any of their keys, the D-pad and the sticks as their keys point them.     *)
Expected ==
    [buttons |-> {Control[k].button : k \in {h \in Held(kg) :
                                             Control[h].kind = "button"}}
                 \cup {b \in DpadButtons : PadDirection(kg, "dpad", b[1]) = b[2]},
     stick |-> [p \in Sticks |->
                  LET d == PadPoints(kg, p) IN
                  IF Centered(d)
                  THEN <<0, 0, IF p = MousePad THEN kg.mouse ELSE 0>>
                  ELSE <<d["x"], d["y"], kg.magnitude[p]>>]]

(* While the window has the focus, the keyboard gamepad's slot is what the   *)
(* held keys say, although every handler only sends what it changed.         *)
SlotShowsKeys ==
    focused /\ HasKeyboardGamepad
        => \E i \in SlotIds : slots[i] = [id |-> Kb, report |-> Expected]

(* No report on its way to the device points the keyboard's D-pad two        *)
(* opposite ways.                                                            *)
NeverTwoWays ==
    \A m \in ToSet(queue) : \A a \in Axes :
        ~({DpadButton(a, -1), DpadButton(a, 1)} \subseteq m.report.buttons)

(* The device is given the known gamepads while the window has the focus,    *)
(* each once, and none otherwise, however gamepads come and go meanwhile.    *)
SlotsFollowFocus ==
    /\ \A id \in Gamepads \cup {Kb} :
         Cardinality(SlotsOf(Path, id)) =
             IF focused /\ id \in ToSet(pads) THEN 1 ELSE 0
    /\ \A i \in SlotIds : slots[i].id # NoPad => slots[i].id \in ToSet(pads)

(* Once the device has handled what was sent, it has the gamepads the slots  *)
(* have, and no others, and it shows what they report, unless the last       *)
(* report did not fit the queue.                                             *)
DeviceFollows ==
    queue = << >> =>
        \A i \in SlotIds :
            /\ (device[i] = NoPad) = (slots[i].id = NoPad)
            /\ slots[i].id # NoPad /\ i \notin lost
                   => device[i] = slots[i].report

(* What is left for the ticks: a ramp, a notch to release, the mouse.        *)
TickWork == \/ \E p \in Sticks : kg.ramping[p]
            \/ WheelHeld(kg) # {}
            \/ kg.moved \/ kg.mouse # 0

(* As long as there is work for them, the ticks come.                        *)
WorkIsTimed == TickWork => kg.ticking /\ kg.armed

(* As keyboard_gamepad.h has it: the owner ticks until a stick that started  *)
(* ramping has nothing more to do.  Without ticks, a pushed stick is where   *)
(* its keys push it.                                                         *)
StickReachesTarget ==
    ~kg.armed => \A p \in Sticks :
        ~Centered(kg.dir[p]) => kg.magnitude[p] = StickCap(kg)
=============================================================================
