SPECIFICATION FairSpec
CONSTANTS
    p1 = p1
    Port = {p1}
    Operator = {o1}
    Kind = {"disable"}
    QVlanSet = TRUE
    Rules <- MCRules
    Devices <- MCDevices
    MaxRows = 2
    MaxTrouble = 1
INVARIANTS TypeOK EnforcedIsAccounted
PROPERTY OwedComesBack
CHECK_DEADLOCK FALSE
