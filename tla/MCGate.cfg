SPECIFICATION FairSpec
CONSTANTS
    h1 = h1
    h2 = h2
    h3 = h3
    w1 = w1
    w2 = w2
    k1 = k1
    k2 = k2
    None = None
    Hosts = {h1, h2}
    Writers = {w1}
    Workers = {k1}
    MaxWrites = 2
    MaxFaults = 1
    MaxQueue = 1
    Passes = 3
INVARIANT StableServed
INVARIANT SettledExact
PROPERTY EventuallyExact
CHECK_DEADLOCK FALSE
