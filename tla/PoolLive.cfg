\* One connection through a bastion, one addressed directly.
CONSTANTS
    a1 = a1
    a2 = a2
    a3 = a3
    Users = {a1, a2}
    Forwards = {"bastion"}
    MaxTunnels = 2
    Keys = {"prod", "local"}
    ForwardOf <- Mixed
    Direct = Direct
    NoAttempt = NoAttempt
    c1 = c1
    c2 = c2
    Callers = {c1, c2}
    Reloads = {1}
    MaxEdits = 1
SPECIFICATION FairSpec
PROPERTIES
    PoolSettles
CHECK_DEADLOCK FALSE
