SPECIFICATION Spec
CONSTANTS
    p1 = p1
    Port = {p1}
    Operator = {o1, o2}
    Kind = {"quarantine"}
    QVlanSet = TRUE
    Rules <- NoRules
    Devices <- MCDevices
    MaxRows = 2
    MaxTrouble = 0
INVARIANT NotStranded
CHECK_DEADLOCK FALSE
