CONSTANTS
    FILE_BUFFER_SIZE = 3
    Texts <- MCTexts
    Delimiters <- MCDelimiters
    Category <- MCCategory
SPECIFICATION FairSpec
INVARIANTS TypeOK InputDecoded ReadsBack
PROPERTY ReadingEnds
