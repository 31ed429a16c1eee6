\* An edit while the connection is being opened.
CONSTANTS
    a1 = a1
    a2 = a2
    a3 = a3
    Users = {a1, a2, a3}
    Forwards = {"bastion"}
    MaxTunnels = 2
    Keys = {"prod", "local"}
    ForwardOf <- Shared
    Direct = Direct
    NoAttempt = NoAttempt
    c1 = c1
    c2 = c2
    Callers = {c1, c2}
    Reloads = {1}
    MaxEdits = 1
SPECIFICATION Spec
SYMMETRY Symmetry
INVARIANTS
    RunsOnWhatWasResolved
CHECK_DEADLOCK FALSE
