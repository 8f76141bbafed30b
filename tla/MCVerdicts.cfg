SPECIFICATION VerdictsSpec
CONSTANTS
    Claims = {"sorted", "bounded", "odd", "late", "shown"}
    True = {"sorted", "shown"}
    Category <- MCCategory
    Runs = {"cli"}
    OwnGoals = TRUE
    Overlap = FALSE
    MaxStarted = 3
    MaxFaults = 2
    MaxEdits = 1
    None = None
    Strict = TRUE
    Workers = {w1}
    Items = {i1}
    Axes = {"scope", "tagged", "spec", "tool"}
    Movable = {"scope", "tagged", "spec", "tool"}
    Moving = {}
    MaxMoves = 3
    v1 = v1
    v2 = v2
    f1 = f1
    f2 = f2
    Absent = Absent
    NoFormal = NoFormal
    NoDraft = NoDraft
    NoVerdict = NoVerdict
    Versions <- MCVersions
    Formals <- MCFormals
    TestSays <- MCTestSays
    EngineSays <- MCEngineSays
    GateAccepts <- MCGateAccepts
    Subjects <- MCSubjects
    Interferes = FALSE
    Again = FALSE
    MaxCalls = 1
    MaxDrafts = 2
    MaxTouches = 1
INVARIANTS
    FreshIsAnswer
    LogFollowsStore
    VerdictIsOfTheClaim
    SubjectIsSound
    NoErosion
    NoMasquerade
PROPERTIES
    ServedIsAnswer
    GatePassIsEarned
    CorroborationNeverDemotes
