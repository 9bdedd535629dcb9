\* A file is deleted from a directory on the root volume and undeleted.
CONSTANTS
    d1 = d1
    d12 = d12
    Dirs = {d1, d12}
    RootDirs = {d1}
    Names = {n}
    Files = {f1, f2}
    Users = {u1}
    NONE = NONE
    Prefix <- PrefixPairs
    Inodes = {1, 2}
    ENTRIES = 2
SPECIFICATION Spec
SYMMETRY Symmetry
PROPERTY UndeleteKeepsFile
