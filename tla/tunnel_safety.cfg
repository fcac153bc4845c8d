\* One tunnel, two gateways: interleavings, failed calls and an outage.
SPECIFICATION Spec
CONSTANTS
    None = None
    g1 = g1  g2 = g2  t1 = t1  t2 = t2  p1 = p1  p2 = p2  c1 = c1  c2 = c2
    lan1 = lan1  lan2 = lan2  r1 = r1  r2 = r2  i1 = i1  i2 = i2  i3 = i3
    Gateway = {g1, g2}
    Tunnel = {t1}
    Peer = {p1}
    CIDR = {c1}
    RemoteIP = {r1}
    GwIP = {i1, i2, i3}
    Addr = {"a1"}
    Type = {"gre", "vxlan"}
    InitIP <- MCInitIP
    OvnGw <- OneSubnet
    CidrOf <- OneCluster
    VidPort <- DefaultVid
    Concurrent = TRUE
    StaleReads = TRUE
    MaxFaults = 1
    MaxEvents = 3
    MaxOutages = 1
INVARIANTS TypeOK DeviceHasStatusType PatchedOnlyIfBuilt EgressRecorded
PROPERTIES StatusTruthful ReleasedClean NoLostUpdate KeepsContract BuiltOnlyOwned LivesInOrder
CHECK_DEADLOCK FALSE
