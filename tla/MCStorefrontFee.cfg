\* A new reader is asked the fee times the wei of an ether.
CONSTANTS
    Accounts = {owner, a1}
    Publishers = {shop}
    Contents = {item}
    Users = {u1, u2, u3}
    GatewayAddr = gateway
    Null = Null
    Period = 1
    UintRange = 2
    Endowment = 3
    Prices = {0, 1, 2}
    Costs = {1}
    EndOfTime = 2
    Owner = owner
    Shop = shop
    Item = item
    Price = 1
    Fee = 1
    WeiPerEther = 2
    MaxActs = 2
SPECIFICATION StoreSpec
PROPERTIES
    NewSubscribersPayTheFee
\* The pages may be done.
CHECK_DEADLOCK FALSE
