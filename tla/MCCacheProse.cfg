SPECIFICATION Spec
CONSTANTS
    Workers = {w1}
    Items = {i1}
    Axes = {"scope"}
    Movable = {}
    Moving = {}
    MaxMoves = 2
    v1 = v1
    v2 = v2
    f1 = f1
    f2 = f2
    Absent = Absent
    NoFormal = NoFormal
    NoDraft = NoDraft
    NoVerdict = NoVerdict
    Versions <- MCVersions
    Formals <- MCFormals
    TestSays <- MCTestSays
    EngineSays <- MCEngineSays
    GateAccepts <- MCGateAccepts
PROPERTY
    ServedForThisText
