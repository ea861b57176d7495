SPECIFICATION ElementsSpec
CONSTANTS
    MaxNodes = 3
    MaxChanges = 2
    NoNode = 0
INVARIANT
    VisibleBeforeActing
