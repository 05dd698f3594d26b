CONSTANTS
    c1 = c1
    c2 = c2
    Connection = {c1, c2}
    None = None
    MaxMac = 2
    MaxTx = 2
SPECIFICATION FairSpec
INVARIANTS
    TypeOK
    DeniedNeverCommitted
    AckedIsCommitted
    SyncedNeverSilentlyLost
    NoFalseAlarm
PROPERTIES
    AnchorNeverRegresses
    EvidenceKept
    EveryCallReturns
