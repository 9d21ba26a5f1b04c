SPECIFICATION Spec
CONSTANTS
    Groups = {g1, g2}
    Items = {i1, i2}
    Callers = {c1}
    ReadThrough = FALSE
    MaxVersion = 3
    All = All
    Nil = Nil
SYMMETRY Symmetric
INVARIANT StaleIsPending
PROPERTY CacheMovesForward
