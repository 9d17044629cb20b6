\* The tracker, the moments, the last-active times, the live feed, the call history
\* and the three connections to a PBX that keep a session.
CONSTANTS
    phone1 = phone1
    phone2 = phone2
    queue1 = queue1
    trunk1 = trunk1
    record1 = record1
    record2 = record2
    item1 = item1
    text1 = text1
    text2 = text2
    Endpoints = {phone1, phone2}
    OutageConfirmation = 2
    RecoveryConfirmation = 2
    MaxTime = 10
    MaxGap = 2
    NoTime = NoTime
    Offices <- MCOffices
    OutageWait = 1
    RecoveryWait = 2
    Nothing = Nothing
    Extensions = {phone1, phone2}
    MaxClock = 5
    Never = Never
    Payloads <- MCPayloads
    Items = {item1}
    Contents = {text1, text2}
    MaxUnread = 1
    Gone = Gone
    Pbxs <- MCPbxs
    Unsupported = Unsupported
    Askers = {loop, request}
    Bridges = {bridge1, bridge2}
    RestartSeconds = 2
    StaleSeconds = 1
    ReadDelay = 1
    MaxMishaps = 2
    NoBridge = NoBridge
    Publisher = loop
    Listeners = {request}
    Lifetime = 4
    Margin = 2
    MaxDelay = 1
    RefreshAfter = 1
    MaxRefusals = 2
    NoToken = NoToken
    HistoryLimit = 3
    TailRows = 4
    Lines = 2
    MaxCalls = 5
    LastHalf = 3
SPECIFICATION AgentPartsSpec
INVARIANTS ShownIffConfirmed IdNamesOutage AlertsApart RecoveriesHold LastActiveSurvives CleanDaysTrue SnapshotTold OneBridge
PROPERTIES PraiseEarned FeedCatchesUp BridgeComesBack YeastarComesBack
CHECK_DEADLOCK FALSE
