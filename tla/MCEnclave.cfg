\* Any two of two uploads and two views; a path without and one with a
\* directory; two deliveries of a message.
CONSTANTS
    u1 = u1
    u2 = u2
    v1 = v1
    v2 = v2
    Uploads = {u1, u2}
    Views = {v1, v2}
    Names = {"clip", "dir/clip"}
    Base <- MCBase
    MaxTries = 2
    MaxJobs = 2
    None = None
SPECIFICATION Spec
INVARIANTS
    TypeOK
    LostOnlyIfOverlapped
    PublishedIsVouchedFor
    SuccessIsOwnUnlessShared
PROPERTIES
    StagedIsHandled
    WaitEnds
\* Every file may have been handled.
CHECK_DEADLOCK FALSE
