SPECIFICATION ServedSpec
CONSTANTS
    Clients = {c1, c2}
    Watcher = watcher
    Providers = {p1}
    Broken = Broken
    Garbled = Garbled
    NoRuntime = NoRuntime
    MaxEdits = 2
    here = here
    there = there
    elsewhere = elsewhere
    Services <- MCServices
    AdapterOf <- MCAdapters
    Local = {here}
    Configs <- MCConfigs
    Prompts = {q1}
    Retests = {t1}
    Manifest <- MCManifest
    Commands = {s1}
    MaxAsked = 2
    MaxBackoff = 2
INVARIANTS
    SentIsAcknowledged
PROPERTIES
    EditsAreShown
    SlotsAreUsed
    ServiceResumes
