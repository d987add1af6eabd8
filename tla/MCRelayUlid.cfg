\* Two overlapping calls of GetUlid draw one id.
CONSTANTS
    u1 = u1
    u2 = u2
    j1 = j1
    Calls = {u1, u2}
    Endpoint <- MCEndpointUpload
    NoCall = NoCall
    RacyUlid = TRUE
SPECIFICATION Spec
INVARIANT RequestIdsUnique
