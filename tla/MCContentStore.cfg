\* Two uploads, a download and a query.
CONSTANTS
    Uploads = {u1, u2}
    Downloads = {d1}
    Queries = {q1}
    Keys = {k1, k2, k3, k4}
    NoKey = NoKey
    NoUpload = NoUpload
    Lengths = {0, 1}
SPECIFICATION Spec
SYMMETRY MCSymmetry
INVARIANTS
    TypeOK
    RecordIsWhole
    FoundIsPullable
    ServedAsAsked
    AcceptedLeavesNoOrphan
    OriginalsStayPrivate
PROPERTIES
    KeepsCatalogue
