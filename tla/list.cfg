\* Three nodes, two values, so that a list has a first, a last and a middle.
CONSTANTS
    Nodes = {n1, n2, n3}
    Vals = {u, v}
    NULL = NULL
SPECIFICATION Spec
INVARIANTS
    WellLinked
    LookupsMatch
    IterationIsWhole
PROPERTY ImplementsDeque
