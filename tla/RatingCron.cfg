SPECIFICATION FairSpec
CONSTANTS
    Product <- Ids
    Review = {v1}
    Star = {4}
    Run = {j1}
    Time <- Clock
    PerMs = 2
    Take = 2
    HowMany = 1
    MaxFaults = 1
INVARIANTS
    IInv
PROPERTIES
    RatingsReflectTheRun
    NonePassedOver
    RatingsSettle
CHECK_DEADLOCK FALSE
