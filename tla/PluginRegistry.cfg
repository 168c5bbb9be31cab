SPECIFICATION Spec
CONSTANTS
    Plugins = {p1, p2}
    Entities = {e1}
    Admins = {a1, a2}
    Supervisor = Supervisor
    Main = Main
    Insts = {i1, i2, i3}
    NoInst = NoInst
    Modes <- MCModes
SYMMETRY Symm
INVARIANTS
    InstancesAreAccounted
    StoppedStaysDown
    MappedHasDevice
    RunningIsSubscribed
