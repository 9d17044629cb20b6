\* One instance whose only failures are exceptions of the multicast; a purge.
CONSTANTS
    Signals = {phone}
    EpisodeSignals = {phone}
    Tokens = {}
    MaxChanges = 2
    MaxCrashes = 1
    None = None
    SavesMayFail = FALSE
    Instances = {i1}
    Limit = 1
    MaxPurges = 1
    NoId = NoId
    EventIds <- MCEventIds
    Faults = {}
SPECIFICATION FairDeliverySpec
INVARIANT AcceptedMeansTold
PROPERTY QueuedIsTold
