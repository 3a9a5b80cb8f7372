\* Two reports of one MPIPI_MODE_MT process.
CONSTANTS
    Threads = {main, t1}
    Main = main
    Modes = {TRUE}
    Discipline = {"toggle", "quiet", "exit"}
    Operations = {"report"}
    MaxClock = 3
    MaxReports = 2
SPECIFICATION Spec
INVARIANT ReportIsThreadSum
\* The process stops after MPI_Finalize, and time at its bound.
CHECK_DEADLOCK FALSE
