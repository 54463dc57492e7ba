\* A deadline that fires after the lease was issued.
SPECIFICATION Spec
CONSTANTS
    r1 = r1  r2 = r2  r3 = r3  m1 = m1  m2 = m2
    Requests = {r1, r2}
    Models = {m1}
    Scores = {1}
    Peers <- LonePeer
    Serves <- LoneServes
    MaxConcurrent <- LoneSlots
    MaxQueue = 2
    LeaseTTL = 1
    QueueTimeout = 1
    HeartbeatTimeout = 0
INVARIANTS RefusedHoldsNoSlot
