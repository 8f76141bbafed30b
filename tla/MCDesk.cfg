SPECIFICATION DeskSpec
CONSTANTS
    i1 = i1
    i2 = i2
    Now = now
    Prose = prose
    Items <- TheItems
    Buckets <- TheBuckets
    Hint <- FloorHint
    RuledOut <- Ruled
    Workers = {w1, w2}
    BatchSize = 1
    MaxRounds = 3
    MaxStarted = 2
    Urls = {u1}
    ApiKeys = {k1, k2, k3}
    Absent = Absent
    FirstFile <- MCFile
    MaxSlots = 2
    MaxSaves = 2
    MaxElsewhere = 1
    Root = Root
    Nowhere = Nowhere
    Boxes = {p, c1, c2}
    ProjectsOnly = {p}
    Artifacts = {a1, a2}
    HomeOf <- MCHome
    Others = {o1}
    Threads = 1
    MaxLines = 2
    MaxChanges = 1
    u1 = u1
    k1 = k1
    k2 = k2
    p = p
    c1 = c1
    c2 = c2
    a1 = a1
    a2 = a2
INVARIANTS
    TriageOK
    NothingAskedTwice
    WhatIsSaidIsSo
PROPERTIES
    OperatorPrevails
    CoverageKept
    KeysAreKept
    WorkEnds
