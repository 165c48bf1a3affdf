CONSTANTS
    n1 = n1
    n2 = n2
    n3 = n3
    i1 = i1
    i2 = i2
    Node <- MCThreeNodes
    Id <- MCOneId
    R = 3
    MaxFail = 0
    FreshIds = TRUE
    Forged <- MCNoForged
    Absent = Absent
SPECIFICATION FairSpec
PROPERTY GeneratorsTerminate
