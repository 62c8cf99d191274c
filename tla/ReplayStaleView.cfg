SPECIFICATION Spec
CONSTANTS
    p1 = p1
    p2 = p2
    p3 = p3
    Requesters = {p1, p2}
    MaxAttempts = 2
    Nobody = Nobody
PROPERTY SettledIsFinal
