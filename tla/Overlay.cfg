SPECIFICATION Spec
CONSTANTS
    Overlays = {banner, popup}
    Direct = {popup}
    Target = target
    MaxRounds = 10
    StackBound = 6
PROPERTIES
    ActionProceeds
CHECK_DEADLOCK FALSE
