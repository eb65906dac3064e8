SPECIFICATION ContainerFairSpec
CONSTANTS
    MaxLaunches = 3
    MaxCalls = 3
    MaxDepth = 3
INVARIANT LostPageOutlivesItsCalls
PROPERTIES ParkedSwept TeardownReturns
CHECK_DEADLOCK FALSE
