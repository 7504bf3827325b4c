\* With Lens = {1, 2}: LiveWrapReadsOrdered.
SPECIFICATION Spec
CONSTANTS
    Size = 7
    Lens = {2, 7}
    MaxPackets = 6
INVARIANT RoomAtEnd
