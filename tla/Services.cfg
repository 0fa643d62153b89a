CONSTANTS
    a1 = a1
    a2 = a2
    c1 = c1
    c2 = c2
    n1 = n1
    n2 = n2
    None = None
    o1 = o1
    o2 = o2
    o3 = o3
    Null = Null
    l1 = l1
SPECIFICATION ServicesSpec
VIEW ServicesView
INVARIANTS
    NamesSound
    ObjectsSound
    OptionsArrive
    RelayedSound
    PartnerAlone
PROPERTIES
    NothingDestroyed
CHECK_DEADLOCK FALSE
