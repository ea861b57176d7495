SPECIFICATION Spec
CONSTANTS
    Browsers = {b1, b2}
    None = None
INVARIANTS
    ClosedIsGone
    UsableIsListed
    NoChromeLeft
PROPERTIES
    SignalExits
