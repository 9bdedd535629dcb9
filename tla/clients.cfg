\* Publishers that each send once, two receivers, an operator who closes and
\* recovers the group.
CONSTANTS
    MAX_GROUPS = 1
    MAX_RECEIVERS = 2
    MAX_SENDERS = 1
    MAX_ITEMS = 2
    g = g
    theGroup = g
    Names = {g}
    Prefix <- PrefixPairs
    EmptyName = EmptyName
    LongName = LongName
    Senders = {}
    Receivers = {r1, r2}
    Mesgs = {m}
    LongMesg = LongMesg
    NoMesg = NoMesg
    Publishers = {p1, p2, p3}
    Endless = FALSE
    MaxOpens = 2
SPECIFICATION CSpec
CHECK_DEADLOCK FALSE
PROPERTIES
    EveryMessageRead
    ClosingReleases
