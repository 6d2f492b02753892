CONSTANTS
    b1 = b1
    b2 = b2
    b3 = b3
    gpt = gpt
    claude = claude
    top = top
    second = second
    c1 = c1
    c2 = c2
    w1 = w1
    w2 = w2
    None = None
    Request = {b1}
    Model = {gpt, claude}
    Result = {top}
    Client = {c1, c2}
    Worker = {w1}
    Overlap = TRUE
    MaxPosts = 3
    MaxFaults = 0
SPECIFICATION Spec
CHECK_DEADLOCK FALSE
PROPERTIES
    FinishedForGood
