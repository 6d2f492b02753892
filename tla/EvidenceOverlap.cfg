CONSTANTS
    models_dev = models_dev
    litellm = litellm
    openrouter = openrouter
    name = name
    price = price
    a = a
    a2 = a2
    b = b
    None = None
    Source = {models_dev, litellm}
    Key = {name, price}
    Projected = {name}
    Value = {a, b}
    Rate <- MCRate
    Offer <- MCOffer
    Concurrent = TRUE
    MaxSyncs = 3
SPECIFICATION Spec
CHECK_DEADLOCK FALSE
INVARIANTS
    ReferencesHold
PROPERTIES
    FreshChangeRepairs
