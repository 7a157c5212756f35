SPECIFICATION Spec
CONSTANTS
    MaxUsers = 18
    Canvases <- SomeCanvases
INVARIANT
    RegionsAreFractions
CHECK_DEADLOCK FALSE
