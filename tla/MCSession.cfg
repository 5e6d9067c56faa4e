SPECIFICATION FairSpec
CONSTANTS
    night = night
    lamp = lamp
    States = {lamp}
    Gates = {night}
    OutDepth = 2
    InDepth = 2
    MaxChanges = 2
    MaxFaults = 1
INVARIANTS
    StaleOnlyWhenLost
    GateFollowsBroker
    NoDoomedGate
PROPERTIES
    EventuallyCurrent
CHECK_DEADLOCK FALSE
