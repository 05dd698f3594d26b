CONSTANTS
    a1 = a1
    a2 = a2
    s1 = s1
    b1 = b1
    b2 = b2
    Agent = {a1, a2}
    Subject = {s1}
    Body = {b1, b2}
    Key = {}
    Disclosure <- TwoAudiences
    Forever = Forever
    Retention = {Forever, 1}
    GrantTTL = 1
    MaxTime = 1
    MaxSeq = 4
    MaxNonce = 3
    MaxRecall = 1
SPECIFICATION Spec
SYMMETRY BodySymmetry
INVARIANTS
    CorrectionsDoNotFork
    NothingNamesTheForgotten
    TimelineComplete
    RecallReproducible
PROPERTIES
    ForgetsWhatWasReviewed
CHECK_DEADLOCK FALSE
