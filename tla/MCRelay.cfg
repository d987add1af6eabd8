\* Safety and refinement of the relay; ids are drawn one at a time.
CONSTANTS
    u1 = u1
    u2 = u2
    j1 = j1
    Calls = {u1, u2, j1}
    Endpoint <- MCEndpoint
    NoCall = NoCall
    RacyUlid = FALSE
SPECIFICATION Spec
SYMMETRY MCSymmetry
INVARIANTS
    TypeOK
    AnswerIsOwn
    DeliverHasReceiver
    EntryHasWaiter
PROPERTIES
    StrandedForGood
    KeepsPromise
