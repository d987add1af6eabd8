\* A gif of three chunks over pipes that hold one item.
CONSTANTS
    Output = 3
    PipeSize = 1
SPECIFICATION Spec
INVARIANTS
    FinishedGifIsWhole
    FailureHiddenOnlyByRace
PROPERTIES
    Returns
    ReaderEnds
\* The call is over, and the reader may wait for ever.
CHECK_DEADLOCK FALSE
