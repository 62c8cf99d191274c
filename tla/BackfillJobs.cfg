SPECIFICATION FairSpec
CONSTANTS
    Jobs = {1, 2}
    pA = pA
    pB = pB
    Processes = {pA, pB}
    MaxFault = 1
INVARIANTS BackfillTypeOK OneRunningJob CompletedJobRan
PROPERTIES SettledUndoneOnlyByOldView ActiveJobSettles
