CONSTANTS
    a1 = a1
    a2 = a2
    a3 = a3
    k1 = k1
    k2 = k2
    g1 = g1
    g2 = g2
    NoRow = NoRow
    Null = Null
    Addrs <- MCAddrs
    Keys <- MCKeys
    GroupKeys <- MCGroupKeys

SPECIFICATION SpecWithUpdate


INVARIANT UniqueIndexExact
