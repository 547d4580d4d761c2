CONSTANT Tiles <- MCTiles
SPECIFICATION Spec
INVARIANT TypeOK SameOrder EveryPacketOnce PartsAsAnnounced
