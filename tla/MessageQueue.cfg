SPECIFICATION FairSpec
CONSTANTS
    baseband = baseband
    rssi = rssi
    Writers = {baseband, rssi}
    Periodic = {rssi}
    RecordBytes <- MCRecordBytes
    ShutdownBytes = 1
    QueueBytes = 7
    Numbers = 4
    WindowPushes = 1
    None = None
INVARIANTS
    TypeOK
    OldImageGone
PROPERTIES
    HandledInOrder
    LossOnlyBySwitch
    StrandedByWipe
    EventuallyTaken
