SPECIFICATION Spec
CONSTANTS
    models_dev = models_dev
    litellm = litellm
    none = none
    None = none
    Source <- MCSource
    Ext <- MCExt
    Cid <- MCCid
    Deployment <- MCDeployment
    Feed <- MCFeed
    Rank <- MCRank
    Concurrent = TRUE
    MaxSyncs = 3
    MaxCorrections = 1
INVARIANTS TypeOK CorrectionsHold OnlyReusedKeysRefuse
PROPERTIES ResolvedForGood OnlyCorrectionsMove
CHECK_DEADLOCK FALSE
