\* The paywall with one publisher, over the life of a subscription.
CONSTANTS
    Accounts = {a1, a2}
    Publishers = {p1}
    Contents = {k1}
    Users = {u1}
    GatewayAddr = gateway
    Null = Null
    Period = 2
    UintRange = 2
    Endowment = 1
    Prices = {0, 1}
    Costs = {1}
    EndOfTime = 2
SPECIFICATION Spec
SYMMETRY MCSymmetry
INVARIANTS
    TypeOK
    EarningsBacked
    PagesAgreeOnSubscription
    RegistriesAgree
PROPERTIES
    AccessLasts
    EtherLeaves
    KeepsAccess
