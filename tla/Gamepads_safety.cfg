SPECIFICATION Spec
CONSTANTS
    Keys <- MCKeys
    Input <- MCInput
    Control <- MCControl
    Sticks = {"left"}
    MousePad = "left"
    Neutral = {"left"}
    FullCap = 3
    WalkCap = 1
    FirstStep = 1
    Speeds = 1
    pad1 = pad1
    pad2 = pad2
    Gamepads = {pad1, pad2}
    Kb = Kb
    NoPad = NoPad
    MaxGamepads = 2
    QueueLimit = 2
    Setups <- MCSetups
    MaxDown = 2
    MaxBacklog = 1
INVARIANTS
    TypeOK
    NothingStuck
    SlotShowsKeys
    NeverTwoWays
    SlotsFollowFocus
    DeviceFollows
    WorkIsTimed
CHECK_DEADLOCK FALSE
