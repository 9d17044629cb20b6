\* One app with two keys, two payloads and one command.  Three troubles: two
\* uploads that are stored but not saved, and a restart.
CONSTANTS
    payload1 = payload1
    payload2 = payload2
    Apps = {d1}
    Keys = {k1, k2}
    Homes <- MCHomes
    Commands = {c1}
    MaxTrouble = 3
    MaxChanges = 3
    Absent = Absent
SPECIFICATION MCChannelSpec
PROPERTIES CommandsFinal FallsOnlyIfForgotten EveryAppServed CommandSettled
CHECK_DEADLOCK FALSE
