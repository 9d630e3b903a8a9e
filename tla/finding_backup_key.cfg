SPECIFICATION Spec
CONSTANTS
    d1 = d1
    d2 = d2
    t1 = t1
    t2 = t2
    r1 = r1
    Devices = {d1}
    Keys = {k1, k2, k3}
    NoKey = NoKey
    Plain = Plain
    Rows = {r1}
    OldRows = {}
    Legacy = {}
    Tasks = {t1}
    RunsOn <- OneDevice
    MaxFaults = 1
PROPERTY KeyOfBackupKept
