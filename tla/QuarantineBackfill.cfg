SPECIFICATION Spec
CONSTANTS
    worker = worker
    api = api
    backfill = backfill
    opA = opA
    opB = opB
    Routes = {1, 2}
    Runners = {backfill}
    Backfill = {backfill}
    Session = {backfill}
    Operators = {opA}
    Rows = {1, 2}
    KeepMax = 1
    Page = 1
    MaxEvent = 2
    MaxBulk = 2
    Bulk = {}
    NoRunner = NoRunner
    NoOperator = NoOperator
INVARIANT CursorNeedsDelivery
