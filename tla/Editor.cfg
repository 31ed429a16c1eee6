\* Per part: two runs of the person and two of an agent; two documents of two
\* versions; two windows over two files of one connection at most; every text
\* of four tokens; two tables of two names and the columns of each.
CONSTANTS
    Mine = {x1, x2}
    Agents = {a1, a2}
    NoRun = none
    MaxQueued = 2
    Docs = {d1, d2}
    MaxVersion = 2
    MaxStatements = 2
    Entries = {n1, n2}
    Editors = {w1, w2}
    NoName = noname
    MaxEntries = 1
    Edited = {"workspace"}
    Tokens = {"select", "limit", "union", "semicolon", "'", "--", "nl", "@a", "@kind", "/*", "*/", "("}
    Directives <- MCDirectives
    MaxLen = 4
    Idents = {1, 2}
    MaxTables = 2
SPECIFICATION EditorSpec
INVARIANTS
    
    AssistSafe
    
    StatementsAreSound
    ConnectionsAreKept
    
PROPERTIES
    NeverOlderSquiggles
CHECK_DEADLOCK FALSE
