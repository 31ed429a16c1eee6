\* Four connections of which two share a name, one setSecret at a time, one
\* change to a passphrase, any crashes.
CONSTANTS
    Conns = {"global", "local", "sql", "ops"}
    Scope <- MCScope
    Name <- MCName
    Source <- MCSource
    Inline = {"sql"}
    OwnPassword = {"sql"}
    Purpose <- MCPurpose
    Texts = {"a"}
    Setters = {1}
    Nothing = Nothing
    MaxKeys = 2
SPECIFICATION FairSpec
INVARIANTS
    NoInheritedSecret
    VaultOpens
PROPERTIES
    ConnectEnds
CHECK_DEADLOCK FALSE
