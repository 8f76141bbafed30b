SPECIFICATION Spec
CONSTANTS
    Workers = {w1, w2}
    Items = {i1}
    Revisions = {r1, r2}
    good = good
    vague = vague
    old = old
    b1 = b1
    b2 = b2
    s1 = s1
    s2 = s2
    Candidates <- MCCandidates
    Builds <- MCBuilds
    Symbols <- MCSymbols
    GateOf <- MCGateOf
    VocabOf <- MCVocabOf
    NoDraft = NoDraft
    NoCandidate = NoCandidate
    NoAnnotation = NoAnnotation
    MaxAttempts = 2
    MaxRequests = 4
INVARIANTS
    TypeOK
    DraftsSound
    AnnotationsEarned
    ConsoleReadBack
PROPERTY
    NoAdmissionPastTheGate
SYMMETRY
    MCSymmetry
