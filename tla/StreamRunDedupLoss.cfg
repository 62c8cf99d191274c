SPECIFICATION Spec
CONSTANTS
    worker = worker
    api = api
    backfill = backfill
    Routes = {1, 2}
    Policy <- PauseAndUnknown
    Standby = {}
    Runners = {worker, api}
    Polling = {worker}
    Backfill = {}
    Dedup = TRUE
    WithSession = {api}
    RetryCount = 1
    MaxEvent = 2
    Page = 2
    NoRunner = NoRunner
INVARIANT CheckpointCovered
