SPECIFICATION FairSpec
CONSTANTS
    email = email
    webhook = webhook
    w1 = w1
    w2 = w2
    Channels = {email, webhook}
    Workers = {w1, w2}
    MaxAttempts = 2
    NoWorker = NoWorker
INVARIANTS OutboxTypeOK EventAgreesWithJobs DeadOnlyWhenSpent
PROPERTIES StaleWorkersCannotUpdate ImplementsDelivery EventSettles
CHECK_DEADLOCK FALSE
