SPECIFICATION TaskSpec
CONSTANTS
    Devices = {d1}
    Handlers = {h1, h2}
    Ramps = {r1, r2}
    NoRamp = NoRamp
    Top <- MCTop
    LevelStep <- MCStep
    Commands <- MCCommands
    Plugins = {p1}
    Entities = {e1}
    Admins = {a1}
    Supervisor = Supervisor
    Main = Main
    Insts = {i1, i2}
    NoInst = NoInst
    Modes <- MCModes
INVARIANTS
    RampsTracked
    StopIsEffective
PROPERTIES
    RampEnds
    FailedRestarts
