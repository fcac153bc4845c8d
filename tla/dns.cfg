\* Two objects of one VPC share its route and the Corefile.
SPECIFICATION FairSpec
CONSTANTS
    None = None
    f1 = f1  f2 = f2  v1 = v1  v2 = v2
    Forward = {f1, f2}
    Vpc = {v1, v2}
    MaxFaults = 1
    MaxEvents = 3
    MaxChanges = 1
INVARIANTS TypeOK ForwardedBeforeRouted AtMostOneTooMany 
PROPERTY EventuallySettled
CHECK_DEADLOCK FALSE
