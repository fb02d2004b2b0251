SPECIFICATION Spec
CONSTANTS
    Agent = {h1}
    Admin = {a1}
    MaxCA = 2
    MaxSerial = 3
    MaxTrouble = 2
INVARIANTS TypeOK ChainAtRest ActiveTrusted NoneStranded
CHECK_DEADLOCK FALSE
CONSTRAINT Telling
