\* Two tunnels on the only gateway of the VPC share its routes.
SPECIFICATION Spec
CONSTANTS
    None = None
    g1 = g1  g2 = g2  t1 = t1  t2 = t2  p1 = p1  p2 = p2  c1 = c1  c2 = c2
    lan1 = lan1  lan2 = lan2  r1 = r1  r2 = r2  i1 = i1  i2 = i2  i3 = i3
    Gateway = {g1}
    Tunnel = {t1, t2}
    Peer = {p1}
    CIDR = {c1}
    RemoteIP = {r1, r2}
    GwIP = {i1}
    Addr = {"a1"}
    Type = {"gre"}
    InitIP <- MCInitIP
    OvnGw <- OneSubnet
    CidrOf <- OneCluster
    VidPort <- DefaultVid
    Concurrent = TRUE
    StaleReads = TRUE
    MaxFaults = 1
    MaxEvents = 4
    MaxOutages = 1
INVARIANT NothingLeftBehind
PROPERTIES StatusTruthful CutOnlyByDelRoute
CHECK_DEADLOCK FALSE
