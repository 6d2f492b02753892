CONSTANTS
    input = input
    output = output
    rival = rival
    gpt = gpt
    claude = claude
    w1 = w1
    Series = {input, rival}
    Model = {gpt, claude}
    ModelOf <- MCModelOf
    Worker = {w1}
    Window = 2
    Overlap = TRUE
    MaxSyncs = 2
    MaxFaults = 1
SPECIFICATION Spec
INVARIANTS
    TypeOK
    PassedOverForCause
    LastWordTold
    NewsOnlyOnce
PROPERTIES
    WatermarkReaches
