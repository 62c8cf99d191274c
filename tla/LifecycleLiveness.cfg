SPECIFICATION FairSpec
CONSTANTS
    sched = sched
    apiA = apiA
    apiB = apiB
    Processes = {sched, apiA}
    Schedulers = {sched}
    Apis = {apiA}
    LockDir <- OneHost
    Nobody = Nobody
    MaxFault = 1
INVARIANTS LifecycleTypeOK 
PROPERTIES WorkerLeavesDisabledStream StartedStreamIsPolled
