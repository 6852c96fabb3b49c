SPECIFICATION FairSpec
CONSTANTS
    None = None
    Tenants <- MCTenants
    Shards <- MCShards
    ShardOf <- MCShardOf
    ActiveShards <- MCActive
    Options <- MCOptions
    Fleets <- MCFleets
    MaxSignals = 2
    MaxEvents = 2
INVARIANT Truthful
INVARIANT GateAgrees
INVARIANT ShardLimit
INVARIANT BreakerBound
INVARIANT RoundRobin
INVARIANT NobodyLeft
INVARIANT DrainPrompt
PROPERTY HardStopEnds
PROPERTY Terminates
PROPERTY LedgerKept
CHECK_DEADLOCK FALSE
