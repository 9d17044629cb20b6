\* One app with one key, two payloads and one failure.
CONSTANTS
    Apps = {d1}
    Keys = {k1}
    Homes = {h1, h2}
    Commands = {}
    MaxTrouble = 1
    MaxChanges = 2
    Absent = Absent
SPECIFICATION ChannelSpec
PROPERTIES LiveMeansCurrent
CHECK_DEADLOCK FALSE
