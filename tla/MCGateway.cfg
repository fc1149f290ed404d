CONSTANTS
    Calls = {c1}
    Offers = {o1}
    Controls = {k1, k2}
    Closers = {h1, h2}
    None = None
    InboxSize = 1
    BrowserKeepsOneSocket = TRUE
SPECIFICATION FairSpec
INVARIANTS
    TypeOK
    NoProducerLeft
    MicFollowsTurn
PROPERTIES
    DisconnectTearsDown
    EndReturns
