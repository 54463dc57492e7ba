\* Two exchanges for one slot, and room for one id in the seen-set.
SPECIFICATION ExchangeSpec
CONSTANTS
    v1 = v1  v2 = v2  key1 = key1  key2 = key2  modelA = modelA  modelB = modelB
    Messages = {v1, v2}
    MaxAge = 1
    Grace = 0
    TTL = 3
    MaxEntries = 1
    MaxSetback = 1
    Drift = 1
    MaxClock = 3
    Rosters <- ThreeRosters
    Keys = {key1, key2}
    Models = {modelA, modelB}
    Entry <- Changing
    Slots = 1
SYMMETRY MessageSymmetry
INVARIANTS ExchangeTypeOK AcceptedOnce NothingServableIsLost SlotsFollowRelays
PROPERTIES ExposureBounded 
