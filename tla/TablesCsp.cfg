\* MPI_Pcontrol beside the calls of another thread, in any order.
CONSTANTS
    Threads = {main, t1}
    Main = main
    Keys = {1, 2, 3}
    TableSize = 2
    Disciplines = {"free"}
    MaxCalls = 2
    MaxControls = 2
SPECIFICATION Spec
INVARIANTS
    CspNotDeleted
\* The calls, reports and resets are bounded.
CHECK_DEADLOCK FALSE
