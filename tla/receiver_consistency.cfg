\* Two receivers, a slot freed by both and taken again while a later one is unread.
CONSTANTS
    MAX_GROUPS = 1
    MAX_RECEIVERS = 2
    MAX_SENDERS = 1
    MAX_ITEMS = 2
    g = g
    g1 = g1
    h = h
    Extra = 1
    Names = {g}
    Prefix <- PrefixPairs
    EmptyName = EmptyName
    LongName = LongName
    Senders = {}
    Receivers = {r1, r2}
    MaxSends = 4
    Mesgs <- SentTexts
    LongMesg = LongMesg
    NoMesg = NoMesg
SPECIFICATION HSpec
CONSTRAINT NumGroupsBound
SYMMETRY Symmetry
INVARIANT ReceiverConsistent
