\* One peer with one slot and three callers of different standing: the contended queue,
\* with fair timers and tasks.
SPECIFICATION FairSpec
CONSTANTS
    r1 = r1  r2 = r2  r3 = r3  m1 = m1  m2 = m2
    Requests = {r1, r2, r3}
    Models = {m1}
    Scores = {1, 2}
    Peers <- LonePeer
    Serves <- LoneServes
    MaxConcurrent <- LoneSlots
    MaxQueue = 2
    LeaseTTL = 0
    QueueTimeout = 0
    HeartbeatTimeout = 0
INVARIANTS TypeOK QueueConsistent
PROPERTIES ServedByFairShare Answered
