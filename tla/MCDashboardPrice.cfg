\* The dollars come to an ether amount of few digits.
CONSTANTS
    Accounts = {a1, a2}
    Publishers = {p1, p2}
    Contents = {k1}
    Users = {u1}
    GatewayAddr = gateway
    Null = Null
    Period = 1
    UintRange = 2
    Endowment = 0
    Prices = {0, 200, 100}
    Costs = {0}
    EndOfTime = 0
    Files = {f1, f2}
    NoFile = NoFile
    Nobody = Nobody
    Unknown = Unknown
    Amounts = {200}
    NoAmount = NoAmount
    Rate = 2
    Ether = 1000
    Units = {1, 10, 100, 1000}
    Place = 10
    MaxActs = 4
SPECIFICATION DashSpec
INVARIANTS
    PricedAsConfirmed
\* The publisher may be done.
CHECK_DEADLOCK FALSE
