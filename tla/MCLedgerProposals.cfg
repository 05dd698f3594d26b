CONSTANTS
    a1 = a1
    a2 = a2
    s1 = s1
    b1 = b1
    k1 = k1
    Agent = {a1}
    Subject = {s1}
    Body = {b1}
    k2 = k2
    Key = {k1, k2}
    Disclosure <- OneAudience
    Forever = Forever
    Retention = {Forever, 2}
    GrantTTL = 1
    MaxTime = 2
    MaxSeq = 3
    MaxNonce = 3
    MaxRecall = 0
SPECIFICATION Spec
INVARIANTS
    TypeOK
    OneLiveDelivery
    ReviewedOnce
    OncePerApproval
CHECK_DEADLOCK FALSE
