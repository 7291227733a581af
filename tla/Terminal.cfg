SPECIFICATION Spec
CONSTANTS
    Texts <- MCTexts
    Columns = {1, 3}
    Rows = 2
    MaxTexts = 5
INVARIANTS TypeOK  TextInOrder RowsFit
CHECK_DEADLOCK FALSE
