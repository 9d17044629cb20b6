\* Two addresses and a table for both.
CONSTANTS
    Clients = {client1, client2}
    Overflow = Overflow
    Period = 2
    RequestLimit = 3
    ActivationLimit = 2
    MaxWindows = 2
    EvictBatch = 1
SPECIFICATION LimiterSpec
PROPERTIES ActivationsApart
