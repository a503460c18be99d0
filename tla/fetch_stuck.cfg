SPECIFICATION PersistentSpec
CONSTANTS
    f1 = f1
    f2 = f2
    flow1 = flow1
    flow2 = flow2
    t1 = t1
    t2 = t2
    Files = {f1}
    Flows = {flow1}
    FlowOf <- OneFlow
    Fetchers = {t1}
    FileOf <- FirstFile
    Readers = {}
    Siblings = {}
    Versions = {v1}
    Size = 3
    MinBytes = 2
    Inodes = {i1, i2}
    NoInode = NoInode
    NoFile = NoFile
    MayOmitLength = FALSE
    MayIgnoreRange = FALSE
    MayRefuse = FALSE
PROPERTY EventuallyInstalled
