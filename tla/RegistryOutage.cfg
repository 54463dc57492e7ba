\* An owner that contributes, around an outage.
SPECIFICATION Spec
CONSTANTS
    alice = alice  bob = bob
    Owner = alice
    Contributors = {alice, bob}
    Declared <- PairShares
    Capacity = 2
    MaxConcurrent = 1
    HeartbeatTimeout = 1
    MaxCredited = 3
    Reports <- WildReports
    StartTime = 2
    MaxTime = 6
INVARIANTS OutageNeverPaid
