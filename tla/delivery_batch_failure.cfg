\* One instance; the messages of a multicast may all fail one by one.
CONSTANTS
    Signals = {phone}
    EpisodeSignals = {phone}
    Tokens = {}
    MaxChanges = 1
    MaxCrashes = 0
    None = None
    SavesMayFail = FALSE
    Instances = {i1}
    Limit = 1
    MaxPurges = 0
    NoId = NoId
    EventIds <- MCEventIds
    Faults = {"devices"}
SPECIFICATION DeliverySpec
INVARIANTS AcceptedMeansTold
