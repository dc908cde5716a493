SPECIFICATION Spec
CONSTANTS
    l1 = l1
    l2 = l2
    a = a
    c1 = c1
    c2 = c2
    read = read
    Nobody = Nobody
    AgentIds = {a}
    Lives = {l1, l2}
    Calls = {c1, c2}
    Capacity = 2
    RestartMax = 1
    MaxPanics = 2
    MaxStops = 1
    IdOf <- MCSameId
    Provides <- MCProvides
    CapOf <- MCCapOf
INVARIANTS
    RegistryIsHonest
    NoReplay
PROPERTIES
    ExchangeSpec
    CallsEnd
    PanicsAreNoticed
CHECK_DEADLOCK FALSE
