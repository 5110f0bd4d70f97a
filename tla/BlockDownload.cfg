SPECIFICATION FairSpec
CONSTANTS
    h = h
    s = s
    g = g
    a1 = a1
    a2 = a2
    b1 = b1
    NoPeer = NoPeer
    NoBlock = NoBlock
    Peer = {h, s}
    Prompt = {h}
    Block = {g, a1, a2, b1}
    Genesis = g
    Parent <- MCParent
    Anc <- MCAnc
    Height <- MCHeight
    Best <- MCBest
    Has <- MCHas
    NearToday = 2
    Fresh = 1
    MaxInTransit = 1
    Window = 1
    MaxHeaders = 2
    MaxProtect = 1
    KeepBlocks = 2
    MaxUnasked = 1
INVARIANTS
    InFlightExact
    NothingSkipped
PROPERTIES
    
    ChainFetched
CHECK_DEADLOCK FALSE
