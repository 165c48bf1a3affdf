CONSTANTS
    n1 = n1
    n2 = n2
    n3 = n3
    i1 = i1
    i2 = i2
    Node <- MCNode
    Id <- MCId
    R = 1
    MaxFail = 0
    FreshIds = TRUE
    Forged <- MCNoForged
    Absent = Absent
SPECIFICATION MCCrashSpec
PROPERTY SurvivorGeneratorsTerminate
