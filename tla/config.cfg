\* Two processes, two updates of two keys, every failure and two stops.
SPECIFICATION ConfigSpec
CONSTANTS
    proc1 = proc1
    proc2 = proc2
    update1 = update1
    update2 = update2
    key1 = key1
    key2 = key2
    Procs = {proc1, proc2}
    Updates = {update1, update2}
    Keys = {key1, key2}
    MaxStops = 2
    Faults = {"db", "redis"}
SYMMETRY Symmetry
INVARIANTS
    ConfigTypeOK
    SettledAgrees
CHECK_DEADLOCK FALSE
