----------------------------- MODULE MCGamepads -----------------------------
(* Gamepads on small instances.  The keyboard gamepad has a on a key and on  *)
(* the wheel, the D-pad's left on a key and its right on a mouse button, the *)
(* left stick's left and right, and walk, which MCWheelWalk has on the wheel *)
(* instead.  The setups look at the buttons, at the stick, which the mouse   *)
(* moves too, at the stick and the wheel, and at real gamepads, with and     *)
(* without the keyboard's.                                                   *)
EXTENDS Gamepads

CONSTANTS pad1, pad2

MCKeys == <<"Space", "WheelUp", "Left", "MouseLeft", "A", "D", "Tab">>
MCInput == [k \in ToSet(MCKeys) |-> CASE k = "MouseLeft" -> "button"
                                      [] k = "WheelUp" -> "wheel"
                                      [] OTHER -> "key"]
MCControl ==
    [k \in ToSet(MCKeys) |->
        CASE k \in {"Space", "WheelUp"} -> Button("a")
          [] k = "Left" -> Direction("dpad", "x", -1)
          [] k = "MouseLeft" -> Direction("dpad", "x", 1)
          [] k = "A" -> Direction("left", "x", -1)
          [] k = "D" -> Direction("left", "x", 1)
          [] k = "Tab" -> Walk]
MCWheelWalk == [MCControl EXCEPT !["WheelUp"] = Walk]

MCSetup(keys, gamepads, mouse) ==
    [keys |-> keys, gamepads |-> gamepads, mouse |-> mouse]
MCSetups == {MCSetup({"Space", "WheelUp", "Left", "MouseLeft"}, {}, FALSE),
             MCSetup({"A", "D", "Tab"}, {}, TRUE),
             MCSetup({"D", "WheelUp"}, {}, FALSE),
             MCSetup({"Space"}, {pad1, pad2}, FALSE),
             MCSetup({}, {pad1, pad2}, FALSE)}
MCStickSetups == {MCSetup({"D", "WheelUp"}, {}, FALSE)}
=============================================================================
