CONSTANTS
    Plugins <- MCPlugins
    Levels = {0, 10, 5000}
    Hues = {0, 359}
    Sats = {0, 3}
    MaxChanges = 3
    MaxReconnects = 1
    MaxInFlight = 3
    Origins <- MCOrigins
    Handlers = {h1, h2}
    Dogs = {d1}
    MaxEvents = 4
    Modes <- MCModes
    Presses = {4, 14, 21}
    Pauses = {5, 6}
    MaxPresses = 5
    Values = {1, 250}
    MaxAgain = 1
SPECIFICATION EndSpec
INVARIANTS
    LampShown
    CommandsStand
    ButtonRests
    ClicksAreRight
PROPERTY HoldEnds
CHECK_DEADLOCK FALSE
