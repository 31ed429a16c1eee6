\* A decline counted for a client that has left.
CONSTANTS
    c1 = c1
    c2 = c2
    c3 = c3
    NoClient = NoClient
    Clients = {c1, c2, c3}
    MaxAsks = 1
SPECIFICATION Spec
SYMMETRY Symmetry
PROPERTIES
    DeclinedMeansEveryone
CHECK_DEADLOCK FALSE
