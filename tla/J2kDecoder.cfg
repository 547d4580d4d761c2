CONSTANTS
    Streams <- MCStreams
    MaxCalls = 3
SPECIFICATION Spec
CHECK_DEADLOCK FALSE
INVARIANT TypeOK
INVARIANT DataInOrder
INVARIANT WholeImage
INVARIANT NeverFails
INVARIANT StrictRefusesPartial
PROPERTY OnlyDecodedFreed
PROPERTY CallReturns
