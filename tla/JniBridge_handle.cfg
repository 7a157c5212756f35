SPECIFICATION Spec
CONSTANTS
    None = None
    Callers = {t1, t2}
    EngineThreads = {e1, e2}
    t1 = t1
    t2 = t2
    e1 = e1
    e2 = e2
    Arguments <- SomeArguments
    Layouts <- SomeLayouts
    Watermarks <- SomeWatermarks
    LogLevels = {1}
    FrameSizes = {2, 6}
    FirstAudio = 1
    FirstVideo = 2
    AudioSlack = 1
    VideoSlack = 2
    UidBits = 3
    MaxSteps = 2
INVARIANTS
    TypeOK
    LeaveFindsTheObject
    HandleIsOfLiveEngine
    ThreadsAttachedAsAsked
    ArraysHoldFrames
    HandedAsAsked
PROPERTIES
    SessionEnds
CHECK_DEADLOCK FALSE
