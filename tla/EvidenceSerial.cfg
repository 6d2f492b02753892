CONSTANTS
    models_dev = models_dev
    litellm = litellm
    openrouter = openrouter
    name = name
    price = price
    a = a
    a2 = a2
    b = b
    None = None
    Source = {models_dev, litellm, openrouter}
    Key = {name, price}
    Projected = {name}
    Value = {a, a2, b}
    Rate <- MCRate
    Offer <- MCOffer
    Concurrent = FALSE
    MaxSyncs = 4
SPECIFICATION Spec
CHECK_DEADLOCK FALSE
INVARIANTS
    TypeOK
    CurrentIsSelected
    ProjectionFollowsSelection
    DisagreementsRecorded
    ConflictsAreDisagreements
    FeedReplays
    ChainsIntact
    NeverRefused
PROPERTIES
    ImplementsPromise
