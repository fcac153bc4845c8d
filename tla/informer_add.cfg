\* The first gateway of a VPC is deployed.
SPECIFICATION Spec
CONSTANTS
    None = None
    g1 = g1  g2 = g2  g3 = g3  t1 = t1  t2 = t2  i1 = i1  i2 = i2  i3 = i3  i4 = i4
    Gateway = {g1, g2}
    IP = {i1, i2}
    Tunnel = {t1}
    InitIP <- MCInitIP
    StaleReads = FALSE
    Overlap = FALSE
    MaxFaults = 0
    MaxOutages = 1
    MaxEvents = 2
INVARIANT LoneGatewayNamed
CHECK_DEADLOCK FALSE
