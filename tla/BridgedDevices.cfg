SPECIFICATION BridgedSpec
CONSTANTS
    m1 = m1
    m2 = m2
    r1 = r1
    d1 = d1
    Objs <- MCObjs
    Topics <- MCTopics
    DeviceTopics <- MCDeviceTopics
    Mappings = {m1, m2}
    Requests = {r1}
    Handlers = {d1}
    MaxConnects = 2
    MaxFails = 1
    MaxRequests = 4
    MaxLists = 2
    Kinds = {"light", "sensor", "button", "binary", "climate"}
    Reported <- MCReported
    Declares <- MCDeclares
    Writes <- MCWrites
    Cap = 2
    MaxGen = 1
    MaxEvents = 2
    MaxWrites = 2
    Aborts = TRUE
SYMMETRY Sym
INVARIANTS
    ListenersAreHeard
    HandlersAreOwned
    KnownIsActive
    ValuesConverge
    DeclaredIsSeen
PROPERTY SettingShown
CHECK_DEADLOCK FALSE
