\* A directory on the root volume and one on another, two tools at once.
CONSTANTS
    d1 = d1
    d12 = d12
    Dirs = {d1, d12}
    RootDirs = {d1}
    Names = {n}
    Files = {f1, f2}
    Users = {u1, u2}
    NONE = NONE
    Prefix <- PrefixPairs
    Inodes = {1, 2}
    ENTRIES = 2
SPECIFICATION Spec
SYMMETRY Symmetry
INVARIANTS
    SavedIsRecorded
PROPERTIES
    SavedUntilAsked
    FirstComesBack
