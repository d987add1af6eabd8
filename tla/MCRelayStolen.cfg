\* A response another handler takes from the shared channel never reaches its caller.
CONSTANTS
    u1 = u1
    u2 = u2
    j1 = j1
    Calls = {u1, u2}
    Endpoint <- MCEndpointUpload
    NoCall = NoCall
    RacyUlid = FALSE
SPECIFICATION FairSpec
PROPERTY ResponseReachesCaller
