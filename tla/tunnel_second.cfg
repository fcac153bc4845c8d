\* A second tunnel on the same gateway.
SPECIFICATION FairSpec
CONSTANTS
    None = None
    g1 = g1  g2 = g2  t1 = t1  t2 = t2  p1 = p1  p2 = p2  c1 = c1  c2 = c2
    lan1 = lan1  lan2 = lan2  r1 = r1  r2 = r2  i1 = i1  i2 = i2  i3 = i3
    Gateway = {g1}
    Tunnel = {t1, t2}
    Peer = {p1, p2}
    CIDR = {c1, c2}
    RemoteIP = {r1}
    GwIP = {i1}
    Addr = {"a1"}
    Type = {"vxlan"}
    InitIP <- MCInitIP
    OvnGw <- OneSubnet
    CidrOf <- TwoClusters
    VidPort <- OwnVid
    Concurrent = FALSE
    StaleReads = FALSE
    MaxFaults = 0
    MaxEvents = 2
    MaxOutages = 0
PROPERTY EventuallyBuilt
CHECK_DEADLOCK FALSE
