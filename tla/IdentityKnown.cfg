SPECIFICATION Spec
CONSTANTS
    models_dev = models_dev
    litellm = litellm
    none = none
    None = none
    Source <- MCSource
    Ext <- MCExt
    Cid <- MCCid
    Deployment <- MCDeployment
    Feed <- MCFeed
    Rank <- MCRank
    Concurrent = FALSE
    MaxSyncs = 2
    MaxCorrections = 0
PROPERTY KnownIdsResolve
CHECK_DEADLOCK FALSE
