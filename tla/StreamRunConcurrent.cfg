SPECIFICATION Spec
CONSTANTS
    worker = worker
    api = api
    backfill = backfill
    Routes = {1}
    Policy <- OneDisable
    Standby = {}
    Runners = {worker, api, backfill}
    Polling = {worker}
    Backfill = {backfill}
    Dedup = FALSE
    WithSession = {api, backfill}
    RetryCount = 1
    MaxEvent = 3
    Page = 2
    NoRunner = NoRunner
INVARIANTS CheckpointCovered RunsAreSerialised
PROPERTY CursorRewoundOnlyByStaleContext
