SPECIFICATION FairSpec
CONSTANTS
    t1 = t1
    t2 = t2
    t3 = t3
    r1 = r1
    r2 = r2
    NoRequest = NoRequest
    Txns <- MCTxns
    Rids <- MCRids
INVARIANTS
    TypeOK
    ExclusiveIsSole
    HeldConsistent
    NoLostWakeup
PROPERTIES
    NoSilentDowngrade
    EveryWaitEnds
