SPECIFICATION Spec
CONSTANTS
    main = main
    t1 = t1
    Main = main
    Threads <- MCThreads
    Location <- MCLocation
    Kinds <- MCKinds
    Setups <- MCSetups
    Large = 99
    FirstBinMax = 1
    HistSize = 5
    Ranks = {0, 1}
    TopLines = 1
    CollOps = {2}
    Operations = {1, 2}
    CommSize = 2
    MaxCalls <- MCMaxCalls
    MaxReports = 2
    MaxResets = 1
INVARIANT HostnamesGathered
CHECK_DEADLOCK FALSE
