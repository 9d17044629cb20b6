\* One phone, failed snapshots, failed saves and restarts of the Agent.
CONSTANTS
    Endpoints = {phone}
    OutageConfirmation = 1
    RecoveryConfirmation = 1
    MaxTime = 6
    MaxGap = 1
    NoTime = NoTime
    Signals = {phone}
    EpisodeSignals = {phone}
    Tokens = {}
    MaxChanges = 0
    MaxCrashes = 2
    None = None
    SavesMayFail = TRUE
SPECIFICATION AlertSpec
INVARIANTS EventsNameOutages OneEventPerLife
