\* The buffer takes two USB packets; the queue overflows while the host does not read.
CONSTANTS
    Cells <- MCCells
    UsbSize = 2
    Capacity = 4
    QueueSize = 5
    Bus <- MCBus
SPECIFICATION StateSpec
INVARIANTS TypeOK NoFalseChecksumError EventsHappened
PROPERTIES KeepsFrames FramesArrive
