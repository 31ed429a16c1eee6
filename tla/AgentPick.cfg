\* An agent that picks a workspace and runs a query; its daemon may be
\* replaced in between.
CONSTANTS
    Sides = {"bridge"}
    Spaces = {home, other}
    Home = home
    Commands = {q1}
    Picker = picker
    MaxClients = 1
SPECIFICATION WindowSpec
INVARIANTS
    AgentsPickHolds
CHECK_DEADLOCK FALSE
