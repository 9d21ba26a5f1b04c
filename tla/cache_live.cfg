SPECIFICATION FairSpec
CONSTANTS
    Groups = {g1, g2}
    Items = {i1}
    Callers = {c1}
    ReadThrough = TRUE
    MaxVersion = 2
    All = All
    Nil = Nil
PROPERTY Converges
