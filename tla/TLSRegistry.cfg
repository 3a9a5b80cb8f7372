\* Main and three threads that register, exit and walk until MPI_Finalize.
CONSTANTS
    Handles = {main, t1, t2, t3}
    Main = main
    Dummy = Dummy
    Null = Null
SPECIFICATION FairRegistrySpec
INVARIANTS
    RegistryInv
    NoUseAfterFree
    SeenIsPrefix
    WalkCoversUnobstructed
    DrainComplete
PROPERTIES
    ImplementsQueue
    FiniCompletes
\* The process is done once the key is deleted and the threads are gone.
CHECK_DEADLOCK FALSE
