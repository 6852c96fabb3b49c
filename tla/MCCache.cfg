SPECIFICATION FairSpec
CONSTANTS
    h1 = h1
    h2 = h2
    t1 = t1
    t2 = t2
    r1 = r1
    w1 = w1
    w2 = w2
    None = None
    Hosts = {h1, h2}
    Tenants = {t1, t2}
    Resolvers = {r1}
    Writers = {w1, w2}
    Deployments <- MCDeployments
    Passes = 3
INVARIANT Coherent
PROPERTY EventuallyCoherent
PROPERTY TasksCatchUp
CHECK_DEADLOCK FALSE
