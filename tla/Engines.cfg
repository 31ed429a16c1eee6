\* Per part: three acquires over two forwards and three ssh processes; two
\* queries of up to four rows, limited to two, on a session of each driver;
\* two queries, two browses and two DuckDB instances; two partitions of up to
\* two messages; two queries of a topic; two paged queries of two pages.
CONSTANTS
    Users = {u1, u2, u3}
    Forwards = {"f", "g"}
    MaxTunnels = 3
    Kinds = {"postgres", "mysql", "mssql", "clickhouse"}
    Asks = {a1, a2}
    Nobody = nobody
    MaxRows = 4
    ChunkRows = 2
    Limits = {2}
    StoreKinds = {"dir", "s3", "kafka"}
    Queries = {q1, q2}
    Browses = {b1, b2}
    MaxHandles = 2
    Files = {f1, marker}
    Marker = marker
    MaxFiles = 1
    PageSize = 1
    Partitions = {1, 2}
    MaxOffset = 2
    Samples = {1, 3}
    Readers = {r1, r2}
    Nil = nil
    MaxMade = 3
    Engines = {"trino", "elastic"}
    Walks = {w1, w2}
    NoWalk = none
    MaxPages = 2
    PageRows = 2
    RowLimits = {1}
SPECIFICATION EnginesSpec
INVARIANTS
    TunnelsSound
    
    
    KafkaSafe
    TablesSafe
    
    LoginsAreShared
PROPERTIES
    RowsUpToTheLimit
    StopsTakeEffect
CHECK_DEADLOCK FALSE
