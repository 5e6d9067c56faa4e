SPECIFICATION FairSpec
CONSTANTS
    Panels <- MCPanelSet
    Own <- MCOwn
    Buttons <- MCButtons
    Gestures = {"press_1", "press_2"}
    Rows <- MCRows
    Commands <- MCCommands
    OutDepth = 2
    InDepth = 2
    MaxInputs = 2
    MaxFaults = 1
INVARIANTS
    PressActsAtMostOnce
    PictureFollowsBroker
PROPERTIES
    DayIsKnownFirst
    OccupancyArrives
CHECK_DEADLOCK FALSE
