\* Three zones, the last of which the largest file does not fill.
CONSTANTS
    ZONE = 3
    MAX_SIZE = 8
SPECIFICATION Spec
INVARIANT NoZonesBehind
PROPERTY ImplementsFile
