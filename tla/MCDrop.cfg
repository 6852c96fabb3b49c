CONSTANTS
    Shards = {"s1", "s2"}
    Names = {"acme"}
    None = None
    Labels <- MCLabels
    Broken = {""}
    Numeric = {}
    Canon <- MCCanon
    Hostnames <- MCHosts
    RuleForms <- MCRules
    Solo = t0
    Pair = {t1, t2}
    Threads <- MCThreads
    Lone = w0
    Crew = {w1}
    Workers <- MCWorkers
    Droppers = {d1}
    Setups <- MCSetups
    MaxTenants = 2
    MaxDomains = 2
SPECIFICATION Spec
CHECK_DEADLOCK FALSE
PROPERTY OnlyOrphansDropped
