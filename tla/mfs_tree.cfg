\* The root and three more inodes, two names in each directory.
CONSTANTS
    Inodes = {root, i1, i2, i3}
    ROOT_INODE = root
    NO_INODE = NO_INODE
    Names = {a, b, c}
    dot1 = dot1
    dot2 = dot2
    LINK_MAX = 4
SPECIFICATION Spec
CONSTRAINT SmallTrees
SYMMETRY Symmetry
INVARIANTS
    LinkCounts
    TreeShape
    RemovedStayEmpty
PROPERTIES
    FailuresChangeNothing
    MountPointsStay
