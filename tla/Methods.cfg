SPECIFICATION Spec
CONSTANTS
    light = "light"
    other = "other"
    h1 = h1
    h2 = h2
    Devices <- MCDevices
    Lights <- MCLights
    Restless <- MCLights
    Native <- MCLights
    Handlers <- MCHandlers
    DSUIDs <- MCDSUIDs
    Lists <- MCLists
    Scenes = {5, 15}
    Values = {150}
    MaxRequests = 2
SYMMETRY Symmetry
INVARIANTS FrontEndsAgree
PROPERTIES AsAnswered OnlyAddressed WritesStand
CHECK_DEADLOCK FALSE
