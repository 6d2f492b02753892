CONSTANTS
    input = input
    output = output
    rival = rival
    gpt = gpt
    claude = claude
    w1 = w1
    Series = {input, output}
    Model = {gpt}
    ModelOf <- MCModelOf
    Worker = {w1}
    Window = 1
    Overlap = FALSE
    MaxSyncs = 1
    MaxFaults = 0
SPECIFICATION Spec
INVARIANTS
    AtLeastOnce
