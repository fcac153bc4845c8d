\* Two gateways, one tunnel: stale reads, failed calls, overlapping outages.
SPECIFICATION HSpec
CONSTANTS
    None = None
    g1 = g1  g2 = g2  g3 = g3  t1 = t1  t2 = t2  i1 = i1  i2 = i2  i3 = i3  i4 = i4
    Gateway = {g1, g2}
    IP = {i1, i2, i3}
    Tunnel = {t1}
    InitIP <- MCInitIP
    StaleReads = TRUE
    Overlap = TRUE
    MaxFaults = 1
    MaxOutages = 1
    MaxEvents = 1
INVARIANT TypeOK
PROPERTIES RoutedFirst PatchedAsNamed TakenFromFailed KeepsPrimary
CHECK_DEADLOCK FALSE
