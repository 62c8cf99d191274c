SPECIFICATION Spec
CONSTANTS
    worker = worker
    api = api
    backfill = backfill
    Routes = {1, 2}
    Policy <- PauseAndUnknown
    Standby = {}
    Runners = {api, backfill}
    Polling = {}
    Backfill = {backfill}
    Dedup = TRUE
    WithSession = {api, backfill}
    RetryCount = 1
    MaxEvent = 2
    Page = 2
    NoRunner = NoRunner
PROPERTY ImplementsRelay
