SPECIFICATION ViewsSpec
CONSTANTS
    Nodes <- MCNodes
    Gone <- MCGone
    Types <- MCTypes
    Acyclic <- MCAcyclic
    Conflict <- MCConflict
    Covering <- MCCovering
    Collection <- MCCollection
    System <- MCSystem
    Worlds <- MCWorlds
    Views <- MCViewed
    Cap = 2
    MaxCycles = 2
    MaxImpacted = 4
    Browsed <- MCBrowsed
    MaxTruth = 2
    Screen = {"editor", "review", "draft"}
    Text = {"a", "b"}
    Formula = {"p", "q"}
    Flagged = {"q"}
    MaxVersion = 3
    MaxSends = 2
    Workers = {w1}
    Items = {i1, i2}
    Revisions = {r1, r2}
    Symbols = {s1}
    good = good
    vague = vague
    b1 = b1
    b2 = b2
    Candidates <- MCCandidates
    Builds <- MCBuilds
    GateOf <- MCGateOf
    VocabOf <- MCVocabOf
    NoDraft = NoDraft
    NoCandidate = NoCandidate
    NoAnnotation = NoAnnotation
    MaxAttempts = 3
    MaxRequests = 3
\* A page may stay as it is once the changes are used up.
CHECK_DEADLOCK FALSE
INVARIANTS
    SearchesAreRight
    ViewsAgree
    PagesShowTheTruth
    SavesAreInformed
    TypedTextStays
PROPERTIES
    IsLedger
