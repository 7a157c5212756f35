SPECIFICATION Spec
CONSTANTS
    MaxUsers = 18
    Canvases <- SomeCanvases
INVARIANTS
    InsideTheCanvas
    NobodyIsCovered
    EveryoneIsShown
    LargeUserIsLarge
CHECK_DEADLOCK FALSE
