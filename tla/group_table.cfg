\* Two slots for three names: names, slots, senders and numGroups.
CONSTANTS
    MAX_GROUPS = 2
    MAX_RECEIVERS = 1
    MAX_SENDERS = 1
    MAX_ITEMS = 1
    g = g
    g1 = g1
    h = h
    Extra = 1
    Names = {g, g1, h}
    Prefix <- PrefixPairs
    EmptyName = EmptyName
    LongName = LongName
    Senders = {s1, s2}
    Receivers = {r1}
    Mesgs = {m}
    LongMesg = LongMesg
    NoMesg = NoMesg
SPECIFICATION TableSpec
CONSTRAINT NumGroupsBound
SYMMETRY Symmetry
INVARIANTS
    UniqueNames
    CountsOpenGroups
