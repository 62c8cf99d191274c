SPECIFICATION Spec
CONSTANTS
    p1 = p1
    p2 = p2
    p3 = p3
    Requesters = {p1, p2, p3}
    MaxAttempts = 2
    Nobody = Nobody
SYMMETRY Symmetry
INVARIANTS ReplayTypeOK ReplayedWasDelivered ClaimSeparatesSenders RecoveryReusesKey RecoveryIsFlagged
PROPERTY SettledUndoneOnlyByStaleView
