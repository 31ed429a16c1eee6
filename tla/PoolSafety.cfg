\* Two connections through one bastion, three connects in all, two
\* callers, edits and a reload at any time.
CONSTANTS
    a1 = a1
    a2 = a2
    a3 = a3
    Users = {a1, a2, a3}
    Forwards = {"bastion"}
    MaxTunnels = 2
    Keys = {"prod", "local"}
    ForwardOf <- Shared
    Direct = Direct
    NoAttempt = NoAttempt
    c1 = c1
    c2 = c2
    Callers = {c1, c2}
    Reloads = {1}
    MaxEdits = 1
SPECIFICATION Spec
INVARIANTS
    NoOrphanSession
    TunnelOutlivesSession
SYMMETRY Symmetry
CHECK_DEADLOCK FALSE
