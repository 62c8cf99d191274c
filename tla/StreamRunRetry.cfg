SPECIFICATION FairSpec
CONSTANTS
    worker = worker
    api = api
    backfill = backfill
    Routes = {1, 2}
    Policy <- RetryAndLog
    Standby = {1, 2}
    Runners = {worker}
    Polling = {worker}
    Backfill = {}
    Dedup = FALSE
    WithSession = {}
    RetryCount = 2
    MaxEvent = 2
    Page = 2
    NoRunner = NoRunner
INVARIANTS TypeOK CheckpointCovered FailureLeavesReplayRow DeliveredKeptOnlyByRetry
PROPERTIES EnabledRouteIsLoaded RunsEnd
