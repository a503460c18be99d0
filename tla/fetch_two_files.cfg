SPECIFICATION Spec
CONSTANTS
    f1 = f1
    f2 = f2
    flow1 = flow1
    flow2 = flow2
    t1 = t1
    t2 = t2
    Files = {f1, f2}
    Flows = {flow1, flow2}
    FlowOf <- OwnFlow
    Fetchers = {t1, t2}
    FileOf <- FileEach
    Readers = {own}
    Siblings = {}
    Versions = {v1}
    Size = 3
    MinBytes = 2
    Inodes = {i1, i2, i3, i4, i5}
    NoInode = NoInode
    NoFile = NoFile
    MayOmitLength = FALSE
    MayIgnoreRange = FALSE
    MayRefuse = TRUE
SYMMETRY InodeSymmetry
INVARIANTS DownloadingShown FigureOnDisk
PROPERTY KeptBytes
