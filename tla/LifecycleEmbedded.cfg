SPECIFICATION Spec
CONSTANTS
    sched = sched
    apiA = apiA
    apiB = apiB
    Processes = {apiA, apiB}
    Schedulers = {apiA}
    Apis = {apiA, apiB}
    LockDir <- OneHost
    Nobody = Nobody
    MaxFault = 1
INVARIANTS ConfirmedStopIsQuiet OneWorkerPolls
PROPERTIES DisagreementNeedsRace OnlyStartResumes
