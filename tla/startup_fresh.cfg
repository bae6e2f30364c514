SPECIFICATION FairSpec
CONSTANTS
    Pod = {p1, p2}
    Operator = Operator
    Urls = {"postgresql"}
    Plans = {"image"}
    Jobs = {"none"}
    Faults = {"none"}
    MaxFault = 0
PROPERTY
    ImageComesUp
CHECK_DEADLOCK FALSE
