CONSTANTS
    b1 = b1
    b2 = b2
    b3 = b3
    gpt = gpt
    claude = claude
    top = top
    second = second
    c1 = c1
    c2 = c2
    w1 = w1
    w2 = w2
    None = None
    Request = {b1, b2}
    Model = {gpt, claude}
    Result = {top, second}
    Client = {c1}
    Worker = {w1, w2}
    Overlap = FALSE
    MaxPosts = 4
    MaxFaults = 1
SPECIFICATION Spec
CHECK_DEADLOCK FALSE
INVARIANTS
    TypeOK
    OneRefresh
    ProgressAddsUp
    ResultsUnambiguous
PROPERTIES
    FinishedForGood
    RefreshEnds
