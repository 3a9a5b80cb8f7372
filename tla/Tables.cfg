\* MPI_Pcontrol beside the calls of another thread, in both disciplines.
CONSTANTS
    Threads = {main, t1}
    Main = main
    Keys = {1, 2, 3}
    TableSize = 2
    Disciplines = {"funneled", "reports"}
    MaxCalls = 2
    MaxControls = 2
SPECIFICATION Spec
INVARIANTS
    TypeOK
    CspNotDeleted
    TablesSound
    GatherFits
    ReportBracketed
    HistOfFirstReport
    TraceIdsDistinct
    NothingLeaked
\* The calls, reports and resets are bounded.
CHECK_DEADLOCK FALSE
