CONSTANTS
    models_dev = models_dev
    litellm = litellm
    openrouter = openrouter
    w1 = w1
    w2 = w2
    cli = cli
    r1 = r1
    r2 = r2
    r3 = r3
    None = None
    Source = {models_dev}
    Retired = {openrouter}
    Worker = {w1, w2}
    Cli = {cli}
    Id = {r1, r2}
    Lease = 1
    Interval = 1
    MaxCrashes = 1
SPECIFICATION Spec
INVARIANTS
    TypeOK
    ReservedWhilePending
    NoDuplicateIngestion
PROPERTIES
    RequestsEnd
    SourcesKeepSyncing
    RunsAreSuperseded
