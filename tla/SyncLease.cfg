CONSTANTS
    models_dev = models_dev
    litellm = litellm
    openrouter = openrouter
    w1 = w1
    w2 = w2
    cli = cli
    r1 = r1
    r2 = r2
    r3 = r3
    None = None
    Source = {models_dev}
    Retired = {}
    Worker = {w1, w2}
    Cli = {}
    Id = {r1, r2}
    Lease = 2
    Interval = 1
    MaxCrashes = 0
SPECIFICATION Spec
PROPERTIES
    OnlyLateJobsInterrupted
