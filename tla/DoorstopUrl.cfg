SPECIFICATION Spec
CONSTANTS
    a1 = a1  a2 = a2  b1 = b1  ghost = ghost
    refa1 = refa1  refa2 = refa2  refb1 = refb1  refghost = refghost  named = named
    REQ = REQ  DES = DES  reqdir = reqdir  desdir = desdir  own = own
    q1 = q1  q2 = q2
    Uids = {a1, a2, b1, ghost}
    Names = {a1, a2, b1, ghost, refa1, refa2, refb1, refghost, named}
    Collections = {REQ, DES}
    Dirs = {reqdir, desdir, own}
    Slug <- MCSlug
    Fits <- MCFits
    RefName <- MCRefName
    Suggested = {named, a2}
    Scenes <- MCScenes
    Requests = {q1, q2}
    MaxRuns = 2
    None = None
SYMMETRY Symmetric
INVARIANT CompanionsHoldTheirUrl
