\* Peers move under their tunnels while others write these.
SPECIFICATION FairSpec
CONSTANTS
    None = None
    va = va  vb = vb  c2 = c2  i1 = i1  i2 = i2  t1 = t1  t2 = t2
    Label <- AllLabels
    Peer <- TwoPeers
    IP = {i1, i2}
    Tunnel = {t1, t2}
    MaxMoves = 3
    MaxEdits = 3
    MaxFaults = 1
INVARIANT TypeOK
PROPERTIES FollowsFeed EventuallyLatest EventuallyCopied
CHECK_DEADLOCK FALSE
