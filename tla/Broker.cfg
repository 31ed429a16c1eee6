\* Two connections and two questions open at once: a departure settles
\* several, a reply may be for either, and the timers alone are fair.
CONSTANTS
    c1 = c1
    c2 = c2
    NoClient = NoClient
    Clients = {c1, c2}
    MaxAsks = 2
SPECIFICATION FairSpec
INVARIANTS
    SecretsStayWithHumans
    NoPromptOutlivesItsQuestion
PROPERTIES
    PromiseKept
    EveryQuestionSettles
CHECK_DEADLOCK FALSE
