SPECIFICATION Spec
CONSTANTS
    worker = worker
    api = api
    backfill = backfill
    opA = opA
    opB = opB
    Routes = {1, 2}
    Runners = {worker}
    Backfill = {}
    Session = {}
    Operators = {opA, opB}
    Rows = {1, 2}
    KeepMax = 1
    Page = 2
    MaxEvent = 2
    MaxBulk = 2
    Bulk = {opA}
    NoRunner = NoRunner
    NoOperator = NoOperator
INVARIANTS QuarantineTypeOK ReleasedWasDelivered
PROPERTIES ImplementsRelay QuarantinedOnRecord DecidedRowsFinal
