\* Liveness of the relay with two calls on one response channel.
CONSTANTS
    u1 = u1
    u2 = u2
    j1 = j1
    Calls = {u1, u2}
    Endpoint <- MCEndpointUpload
    NoCall = NoCall
    RacyUlid = FALSE
SPECIFICATION FairSpec
PROPERTIES
    Settles
    DeliveryEnds
    LoneCallAnswered
