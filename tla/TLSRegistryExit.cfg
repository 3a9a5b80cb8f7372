\* A thread that exits while MPI_Finalize frees the handles.
CONSTANTS
    Handles = {main, t1}
    Main = main
    Dummy = Dummy
    Null = Null
SPECIFICATION RegistrySpec
INVARIANT DestructorOnLiveTLS
CHECK_DEADLOCK FALSE
