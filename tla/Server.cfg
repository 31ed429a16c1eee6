\* Two clients, one workspace, one query, two sessions in use at once.
CONSTANTS
    c1 = c1
    c2 = c2
    w1 = w1
    q1 = q1
    Clients = {c1, c2}
    Workspaces = {w1}
    Requests = {q1}
    Humans = {c2}
    Failures = {"network", "query", "cancelled"}
    Texts = {"t"}
    Nothing = Nothing
    MaxSessions = 2
SPECIFICATION FairSpec
INVARIANTS
    
    NobodyRunsUnheard
PROPERTIES
    BrokenSessionsGo
    
    CancelEnds
CHECK_DEADLOCK FALSE
