\* The device registry, the enrollment, the limiter and the usage counters, each
\* with one relay instance.
CONSTANTS
    c1 = c1
    c2 = c2
    a1 = a1
    k1 = k1
    k2 = k2
    ticket1 = ticket1
    Agents = {a1}
    Credentials = {c1, c2}
    CredentialOf <- MCCredentialOf
    Tokens = {t1, t2}
    MaxDevices = 2
    Instances = {i1}
    MaxWaiting = 1
    MaxTorn = 1
    None = None
    Keys = {k1, k2}
    Ids = {x1, x2}
    Activations = {q1, q2}
    Tickets = {ticket1}
    TicketOf <- MCTicketOf
    Modes = {"open", "ticket", "closed"}
    Servers = {s1}
    NoOne = NoOne
    Clients = {client1, client2, client3}
    Overflow = Overflow
    Period = 2
    RequestLimit = 3
    ActivationLimit = 2
    MaxWindows = 1
    EvictBatch = 1
    LastDay = 4
    MaxCount = 2
    Handlers = {h1}
    NoDay = NoDay
SPECIFICATION RelayPartsSpec
INVARIANTS OneOwner TicketOnce OneIdentity PairsOneApp WithinLimits CountsKept
PROPERTIES CapacityKept IdentityKept
CHECK_DEADLOCK FALSE
