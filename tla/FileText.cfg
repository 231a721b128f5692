CONSTANTS
    Request = {r1, r2, r3}
    Document <- MCDocument
    NewText <- MCNewText
    PageNo = {0, 1, 2, 3}
    Blank = Blank
SPECIFICATION Spec
INVARIANTS TypeOK JoinKeepsPages
PROPERTIES DocumentIsShown EditIsStored LoneEditTouchesOnePage DeletedStaysDeleted
SYMMETRY Symmetric
CHECK_DEADLOCK FALSE
