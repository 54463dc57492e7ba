\* Answers of up to two pieces, through a relay that tampers twice.
SPECIFICATION FairSpec
CONSTANTS
    Pieces <- ShortAndLong
    Counts = {0, 3}
    PromptTokens = 1
    MaxPieces = 2
    MaxMeddles = 2
CHECK_DEADLOCK FALSE
INVARIANTS TypeOK TextIsPrefix CompleteIsWhole CompleteIsSettled BillIsEarned
PROPERTIES Settles
