SPECIFICATION ScreensSpec
CONSTANTS
    Screen = {"editor"}
    Text = {"a", "b"}
    Formula = {"p", "q"}
    Flagged = {"q"}
    MaxVersion = 3
    MaxSends = 2
INVARIANT
    EveryExternalEditAsks
