SPECIFICATION FairSpec
CONSTANT MaxAttempts = 4
CHECK_DEADLOCK FALSE
INVARIANTS
    MicIsReleased
    DroppedStaysUnsent
    CapturesAreReported
    NoCaptureOverTranscript
PROPERTIES
    RecordingEnds
