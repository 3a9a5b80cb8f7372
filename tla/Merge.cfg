\* Three ranks, two reports; memory may run out on the collector and one other.
CONSTANTS
    Ranks = {r0, r1, r2}
    Collector = r0
    MayFail = {r0, r1}
    MaxAmount = 1
    MaxReports = 2
SPECIFICATION FairSpec
INVARIANTS
    TypeOK
    CollectivesAgree
    PublishedIsSum
    ChannelsDrained
PROPERTY ReportsReturn
\* The program ends after its last report.
CHECK_DEADLOCK FALSE
