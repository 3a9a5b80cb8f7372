\* MPIPI_MODE_MT, MPI_Pcontrol only while the other threads are outside MPI.
CONSTANTS
    Threads = {main, t1}
    Main = main
    Modes = {TRUE, FALSE}
    Discipline = {"toggle", "quiet", "exit"}
    Operations = {"off", "on", "reset", "report"}
    MaxClock = 5
    MaxReports = 2
SPECIFICATION Spec
INVARIANTS
    TypeOK
    AppWithinWindow
    AppCoversWindow
    MpiWithinApp
    FirstReportIsThreadSum
PROPERTY OnlyCallsOfWindow
\* The process stops after MPI_Finalize, and time at its bound.
CHECK_DEADLOCK FALSE
