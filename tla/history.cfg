\* One slot that two groups take in turn, two items; more receivers than places.
CONSTANTS
    MAX_GROUPS = 1
    MAX_RECEIVERS = 2
    MAX_SENDERS = 1
    MAX_ITEMS = 2
    g = g
    g1 = g1
    h = h
    Extra = 1
    Names = {g, h}
    Prefix <- PrefixPairs
    EmptyName = EmptyName
    LongName = LongName
    Senders = {}
    Receivers = {r1, r2, r3}
    MaxSends = 3
    Mesgs <- SentTexts
    LongMesg = LongMesg
    NoMesg = NoMesg
SPECIFICATION HSpec
CONSTRAINT NumGroupsBound
SYMMETRY Symmetry
INVARIANTS
    HistoryInv
    ReadersFit
    NoFullyReadItem
    NothingLost
    OrderedWhileRising
PROPERTY KeepsPromise
