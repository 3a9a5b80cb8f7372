\* Two ranks; MaxTokens = 8 stands for the 64 places of av[].
CONSTANTS
    Ranks = {0, 1}
    Threads = {main, t1}
    Main = main
    Names <- MCNames
    RegionMax = 6
    OptionLists <- MCOptionLists
    Frames = {9}
    Bounds <- MCBounds
    MaxTokens = 8
    MaxReportDepth = 3
    InternalDepth = 2
    DefaultStyle = "verbose"
SPECIFICATION Spec
INVARIANTS
    OptionsSafe
    RegionsTraced
    TraceKept
\* A program ends.
CHECK_DEADLOCK FALSE
