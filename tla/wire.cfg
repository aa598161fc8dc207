\* Streams of a hello and two frames, cut anywhere.
SPECIFICATION WireFairSpec
CONSTANTS
    Streams <- MCStreams
    HelloHeader = 3
    FrameHeader = 2
    MaxHello = 2
    MaxFrame = 3
    MaxRead = 6
    Slots = 1
INVARIANTS HandledInOrder NeverStalls
PROPERTIES ReaderEnds
CHECK_DEADLOCK FALSE
