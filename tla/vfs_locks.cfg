\* Two volumes, two directories on one of them, a file to be truncated.
CONSTANTS
    d1 = d1
    d2 = d2
    e = e
    f = f
    vol1 = vol1
    vol2 = vol2
    Threads = {t1, t2}
    Volumes = {vol1, vol2}
    Dirs = {d1, d2, e}
    Files = {f}
    VolumeOf <- Mounts
    Device = f
    Lengths = {0, 1}
    Grouped = {t1}
    NULL = NULL
SPECIFICATION FairSpec
INVARIANTS
    AllReleased
    RemovalAlone
    SizesAgree
    DeadlocksKnown
CHECK_DEADLOCK FALSE
PROPERTY CallsReturn
