SPECIFICATION Spec
CONSTANTS
    MaxPages = 2
    Selectors = {s1}
    MaxId = 5
    MaxStrays = 1
    MaxLocators = 2
INVARIANTS
    TabsBounded
    IdMeansOnePage
    HandlerRegistered
PROPERTIES
    ImplementsCache
