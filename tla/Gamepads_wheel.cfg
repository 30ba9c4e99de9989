SPECIFICATION Spec
CONSTANTS
    Keys <- MCKeys
    Input <- MCInput
    Control <- MCWheelWalk
    Sticks = {"left"}
    MousePad = "left"
    Neutral = {"left"}
    FullCap = 3
    WalkCap = 1
    FirstStep = 1
    Speeds = 1
    pad1 = pad1
    pad2 = pad2
    Gamepads = {pad1, pad2}
    Kb = Kb
    NoPad = NoPad
    MaxGamepads = 2
    QueueLimit = 2
    Setups <- MCStickSetups
    MaxDown = 2
    MaxBacklog = 1
INVARIANT
    StickReachesTarget
CHECK_DEADLOCK FALSE
