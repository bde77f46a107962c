SPECIFICATION Spec
CONSTANTS
    Chains = {1, 2}
    n1 = n1
    n2 = n2
    n3 = n3
    Nodes = {n1, n2, n3}
    Tags = {1, 2, 3}
    Hash <- MCHash
    Configs <- Sound
    MapHead = MapHead
    NULL = NULL
SYMMETRY NodeSymmetry
INVARIANTS WellFormed NoWildAccess TraversalIsComplete
PROPERTIES ImplementsItems
