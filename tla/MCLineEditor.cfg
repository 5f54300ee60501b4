SPECIFICATION Spec
CONSTANTS
    Markers = {"A", "B"}
    Texts <- MCTexts
    Chars = {"/"}
    MaxLen = 4
    MaxHistory = 1
    MaxKept = 1
INVARIANTS
    SubmitsAsMeant
    MarkersHaveBlocks
    PopupCompletesWord
CHECK_DEADLOCK FALSE
