\* Per part: three daemons, one of them writing a result, and two clients that
\* start one; two calls over three sockets and two questions; two files and
\* three edits; three lines of a log and two files of earlier days; four lines
\* of two statements at most; a form opened twice and saved once; two clients of
\* one window, two commands and two workspaces.
CONSTANTS
    Daemons = {d1, d2, d3}
    Writers = {d1}
    Users = {u1, u2}
    Nobody = nobody
    Requests = {r1, r2}
    MaxLife = 3
    MaxQuestion = 2
    Configs = {f1, f2}
    Quiet = quiet
    MaxEdit = 3
    MaxLines = 4
    MaxPerLine = 2
    LogLevels = {"info", "error"}
    MaxLogged = 3
    OldFiles = 2
    FileBytes = {1, 2}
    LogMaxBytes = 3
    FormNames = {n1}
    MaxOpens = 2
    Submissions = {s1}
    Sides = {"window", "bridge"}
    Spaces = {home, other}
    Home = home
    Commands = {q1, q2}
    Picker = picker
    MaxClients = 2
SPECIFICATION ProcessesSpec
INVARIANTS
    SocketLostOnlyInARace
    ClientSafe
    WindowSafe
    HandedOverSafe
PROPERTIES
    OnlyOpenQuestionsAreShown
    
CHECK_DEADLOCK FALSE
