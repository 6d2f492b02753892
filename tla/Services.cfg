SPECIFICATION Spec
CONSTANTS
    r1 = r1
    r2 = r2
    r3 = r3
    a1 = a1
    a2 = a2
    p1 = p1
    p2 = p2
    h1 = h1
    h2 = h2
    c1 = c1
    c2 = c2
    c3 = c3
    u1 = u1
    u2 = u2
    n1 = n1
    l1 = l1
    l2 = l2
    d1 = d1
    d2 = d2
    e1 = e1
    f1 = f1
    f2 = f2
    s1 = s1
    k1 = k1
    k2 = k2
    o1 = o1
    o2 = o2
    v1 = v1
    v2 = v2
    v3 = v3
    none = none
    Request = {r1, r2, r3}
    Ask = {a1, a2}
    Current <- MCCurrent
    Handler = {h1, h2}
    Thread = {h1, h2}
    Harness = {n1}
    Role = {l1, l2}
    HarnessOf <- MCHarnessOf
    Deployment = {d1, d2}
    NoDeployment = none
    RunId = {e1}
    Fingerprint = {f1, f2}
    NoReport = none
    Suite = {s1}
    ScorerOf <- MCScorerOf
    Unit = 2
    Perfect = 2
    MaxVersions = 2
    MaxScored = 1
    Page = {p1, p2}
    Usable = {p1}
    MaxEvidence = 1
    DailyLimit = 2
    Day = 1
    Patience = 0
    MaxClock = 2
    MaxCrashes = 1
    Urls <- MCUrls
    MaxRevision = 2
    Attempts = 2
    MaxPublished = 2
    MaxAccidents = 1
    Client = {c1, c2, c3}
    Capacity = 2
    Limit = 2
    Period = 2
    MaxTime = 3
    MaxPosts = 3
    Source = {o1, o2}
    Authority <- MCAuthority
    Value = {v1, v2, v3}
    None = none
    MaxKeys = 3
    MaxSyncs = 2
    Offers <- TheOffers
    Requests <- TheRequests
    Scores <- TheScores
    One = 12
    MaxStale = 1
INVARIANTS
    ResearchAccountable
    BudgetHolds
    FetchedAsServed
    SnapshotsRestorable
    DeskAgrees
    PurgeSettles
    RanksWhatQualifies
CHECK_DEADLOCK FALSE
