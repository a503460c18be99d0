SPECIFICATION Spec
CONSTANTS
    f1 = f1
    f2 = f2
    flow1 = flow1
    flow2 = flow2
    t1 = t1
    t2 = t2
    Files = {f1}
    Flows = {flow1}
    FlowOf <- OneFlow
    Fetchers = {t1}
    FileOf <- FirstFile
    Readers = {own, sibling}
    Siblings = {sibling}
    Versions = {v1}
    Size = 4
    MinBytes = 3
    Inodes = {i1, i2, i3, i4}
    NoInode = NoInode
    NoFile = NoFile
    MayOmitLength = FALSE
    MayIgnoreRange = TRUE
    MayRefuse = TRUE
SYMMETRY InodeSymmetry
INVARIANTS TypeOK TargetIsWhole PartIsPrefix FetchInv
PROPERTY SlotSpec
