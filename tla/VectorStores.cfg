CONSTANTS
    Clients = {c1, c2}
    Ids = {d1, d2}
    First = d1
    MaxVersion = 2
    MaxCuts = 1
SPECIFICATION Spec
SYMMETRY Symmetry
INVARIANTS
    TypeOK
    SearchFindsDocuments
    RestartChangesNothing
PROPERTIES
    KeepsContract
