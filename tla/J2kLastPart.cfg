CONSTANTS
    Streams <- LastPartStreams
    MaxCalls = 2
SPECIFICATION Spec
CHECK_DEADLOCK FALSE
INVARIANT TileWhole
