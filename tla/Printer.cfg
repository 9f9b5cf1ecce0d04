SPECIFICATION Spec
CONSTANTS
    Texts <- MCTexts
    paraDelimMarker <- MCMarker
    MaxWords = 4
INVARIANTS
    WhitespaceUsedUp
    LineNumbersCountLines
    MarkersEncloseChanges
