SPECIFICATION SuggestionsSpec
CONSTANTS
    u1 = u1  u2 = u2  u3 = u3
    n1 = n1  n2 = n2
    d1 = d1  d2 = d2  x1 = x1  x2 = x2  t1 = t1  t2 = t2
    png = png  pdf = pdf  todo = todo  r1 = r1  r2 = r2
    Uuids = {u1, u2, u3}
    Names = {n1, n2}
    Dirs = {d1, d2}
    Prefixes = {x1, x2}
    Slug <- MCSlug
    Texts = {t1, t2}
    Exts = {png, pdf}
    Todos = {todo}
    Requests = {r1, r2}
    Scenes <- MCScenes
    MaxStarted = 3
    MaxCrashes = 1
    None = None
    Box = box  PendingName = pending  DeclinedName = declined
    Keys <- MCKeys
SYMMETRY Symmetric
INVARIANTS StoreOK LogsAreLawful FilesStand DecisionsStand
