CONSTANTS
    Pages <- MCPages
    None = None
SPECIFICATION Spec
INVARIANTS TypeOK PlacedWhereDrawn DrawnOnceInOrder ReadsInOrder
CHECK_DEADLOCK FALSE
