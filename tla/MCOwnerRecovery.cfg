CONSTANTS
    c1 = c1
    c2 = c2
    Cli = {c1, c2}
    Forgets = {c1}
    None = None
SPECIFICATION FairSpec
INVARIANTS
    TypeOK
    JournaledBeforeEffect
PROPERTIES
    KeepsPromise
    EffectBecomesKnown
