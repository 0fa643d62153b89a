CONSTANTS
    a1 = a1
    a2 = a2
    c1 = c1
    n1 = n1
    o1 = o1
    o2 = o2
    key = key
    None = None
    BufSize = 3
    Alphabet = 6
    MaxUnread = 5
    MaxRings = 3
    Puts = {1, 3}
    Needs = {2, 4}
SPECIFICATION ExchangesSpec
INVARIANTS
    ExchangesSound
    RelaySound
PROPERTIES
    ImplementsStream
    ExchangesEnd
CHECK_DEADLOCK FALSE
