CONSTANT
    Tasks = {t1, t2, t3, t4, t5}
SPECIFICATION FairSpec
INVARIANTS
    TypeOK
    CountersExact
    Exclusion
    NoLostWakeup
PROPERTIES
    RefinesContract
    RefinesFairContract
