\* Two instances and every failure, as an implementation of PushPromise.
CONSTANTS
    Signals = {phone}
    EpisodeSignals = {phone}
    Tokens = {}
    MaxChanges = 2
    MaxCrashes = 1
    None = None
    SavesMayFail = TRUE
    Instances = {i1, i2}
    Limit = 1
    MaxPurges = 0
    NoId = NoId
    EventIds <- MCEventIds
    Faults = {"list", "devices", "undo", "die"}
SPECIFICATION DeliverySpec
INVARIANT AtMostOnePush
PROPERTY PromiseKept
