\* A peer for each of two models: slots, leases and the promise of LeasePool, and a
\* freed slot that must find its waiter behind others it cannot serve.
SPECIFICATION Spec
CONSTANTS
    r1 = r1  r2 = r2  r3 = r3  m1 = m1  m2 = m2
    Requests = {r1, r2, r3}
    Models = {m1, m2}
    Scores = {1}
    Peers <- TwinPeers
    Serves <- MixedServes
    MaxConcurrent <- TwinSlots
    MaxQueue = 2
    LeaseTTL = 0
    QueueTimeout = 0
    HeartbeatTimeout = 0
SYMMETRY CallerSymmetry
INVARIANTS SlotAccounting LeaseTableConsistent
PROPERTIES FreedSlotsAreOffered BusyIsInForce KeepsPromise
