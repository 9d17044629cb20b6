\* Two signals and one app; saves may fail, the Agent may crash.
CONSTANTS
    Signals = {phone, trunk}
    EpisodeSignals = {phone}
    Tokens = {app}
    MaxChanges = 3
    MaxCrashes = 1
    None = None
    SavesMayFail = TRUE
SPECIFICATION FairSpec
INVARIANT FingerprintsAccounted
PROPERTIES OwedUntilAnswered NoStaleRegistration OutboxDrains WordingAnnounced
