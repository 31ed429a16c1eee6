------------------------------ MODULE Drivers ------------------------------
(***************************************************************************)
(* One session of a relational provider (daemon/src/providers/postgres.ts, *)
(* mysql.ts, mssql.ts, clickhouse.ts) and the queries that share it: rows  *)
(* read in chunks, one past the limit; a deadline or a cancel that stops   *)
(* the query by breaking what it runs on; what the finally blocks leave    *)
(* behind.  The server (daemon/src/server.ts) iterates each generator to   *)
(* its end and writes every chunk before it asks for the next.  Which      *)
(* provider it is, is chosen in Init.                                      *)
(***************************************************************************)
EXTENDS Naturals, FiniteSets

CONSTANTS Kinds,      \* providers: "postgres", "mysql", "mssql", "clickhouse"
          Asks,       \* queries on the session
          Nobody,     \* no query
          MaxRows,    \* bound: rows of a result
          ChunkRows,  \* CHUNK_ROWS
          Limits      \* row limits asked for; one no result reaches stands for none

ASSUME DriversAssumption ==
    /\ Kinds \subseteq {"postgres", "mysql", "mssql", "clickhouse"}
    /\ Nobody \notin Asks /\ MaxRows \in Nat /\ ChunkRows \in Nat \ {0}
    /\ Limits \subseteq Nat \ {0}

VARIABLES
    kind,     \* which provider this session is of
    life,     \* the Session object
    socket,   \* its transport: "up", "destroyed" by an interrupt, "lost" or "ended"
    holder,   \* the query the connection is busy with (not for ClickHouse)
    ask,      \* ask[a]: the generator of query a
    backend    \* backend[a]: what the database does about a; "deaf" once a KILL has failed

driverVars == <<kind, life, socket, holder, ask, backend>>

Reasons == {"none", "cancelled", "timeout"}
DriverCodes == Reasons \cup {"ok", "sql", "network", "internal"}
CheckCodes == {"clean", "refused", "squiggle", "thrown"}   \* what a check of a statement came to
Unasked == [stage |-> "idle", rows |-> 0, limit |-> 1, read |-> 0, kept |-> 0, told |-> FALSE,
            cut |-> FALSE, last |-> FALSE, armed |-> FALSE, why |-> "none", code |-> "none"]

DriversTypeOK ==
    /\ kind \in Kinds
    /\ life \in {"open", "closing", "closed"}
    /\ socket \in {"up", "destroyed", "lost", "ended"}
    /\ holder \in Asks \cup {Nobody}
    /\ backend \in [Asks -> {"none", "working", "deaf", "over"}]
    /\ ask \in [Asks -> [stage : {"idle", "sent", "reading", "given", "winding", "checking", "done"},
                         rows : 0..MaxRows, limit : Limits \cup {1}, read : 0..MaxRows,
                         kept : 0..MaxRows, told : BOOLEAN, cut : BOOLEAN, last : BOOLEAN,
                         armed : BOOLEAN, why : Reasons, code : DriverCodes \cup CheckCodes]]

DriversInit ==
    /\ kind \in Kinds
    /\ life = "open" /\ socket = "up" /\ holder = Nobody
    /\ ask = [a \in Asks |-> Unasked]
    /\ backend = [a \in Asks |-> "none"]

Lesser(x, y) == IF x < y THEN x ELSE y
Stage(a, stage) == ask[a].stage = stage
Room(a) == ask[a].limit - ask[a].kept
Avail(a) == ask[a].rows - ask[a].read
OneWire == kind # "clickhouse"       \* one statement at a time on the connection
Turn(a) == OneWire => holder \in {Nobody, a}

(* Mutant of postgresBatch: it never asks for the row past the limit.      *)
postgresBatchToLimit(a) ==
    LET want == Lesser(ChunkRows, Room(a))
        n == Lesser(want, Avail(a))
    IN  [read |-> n, kept |-> n, cut |-> FALSE, last |-> n < want \/ n = Room(a)]

(* What one turn of a query's loop takes off the wire: rows read, rows     *)
(* kept, whether the limit cut some off, and whether it is the last.       *)
postgresBatch(a) ==
    LET want == Lesser(ChunkRows, Room(a) + 1)
        n == Lesser(want, Avail(a))
    IN  [read |-> n, kept |-> Lesser(n, Room(a)), cut |-> n > Room(a), last |-> n > Room(a) \/ n < want]

(* Row by row until the chunk is full, the limit is passed or the result   *)
(* ends; the row past the limit is read and dropped.                       *)
mysqlBatch(a) ==
    LET past == Room(a) < ChunkRows /\ Avail(a) > Room(a)
        n == IF past THEN Room(a) ELSE Lesser(ChunkRows, Avail(a))
    IN  [read |-> IF past THEN n + 1 ELSE n, kept |-> n, cut |-> past, last |-> past \/ n < ChunkRows]

clickhouseBatch(a) == mysqlBatch(a)

(* Batches come as the request pushes them, whatever the limit.            *)
mssqlBatch(a) ==
    LET n == Lesser(ChunkRows, Avail(a))
        kept == Lesser(n, Room(a))
    IN  [read |-> n, kept |-> kept, cut |-> kept = Room(a), last |-> kept = Room(a) \/ n < ChunkRows]

BatchOf(a) == CASE kind = "postgres" -> postgresBatch(a) [] kind = "mysql" -> mysqlBatch(a)
                [] kind = "clickhouse" -> clickhouseBatch(a) [] kind = "mssql" -> mssqlBatch(a)

(* The callback of a tedious request disarms the interrupt.                *)
Complete(a) == kind = "mssql" /\ Avail(a) < ChunkRows

(* armInterrupt, and the statement goes out.  tedious refuses a second     *)
(* request on a busy connection, with a code that is read as an SQL error. *)
Begin(a, rows, limit) ==
    /\ life = "open" /\ Stage(a, "idle")
    /\ LET refused == kind = "mssql" /\ (holder # Nobody \/ socket # "up")
           asked == [Unasked EXCEPT !.rows = rows, !.limit = limit, !.armed = ~refused,
                     !.stage = IF refused THEN "done" ELSE IF kind = "clickhouse" THEN "sent" ELSE "reading",
                     !.code = IF refused THEN "sql" ELSE "none"]
       IN  /\ ask' = [ask EXCEPT ![a] = asked]
           /\ backend' = [backend EXCEPT ![a] = IF refused \/ socket # "up" THEN "over" ELSE "working"]
           /\ holder' = IF kind = "mssql" /\ ~refused THEN a ELSE holder
    /\ UNCHANGED <<kind, life, socket>>

(* What the driver says of a query whose connection went away under it.    *)
LossCode == CASE kind = "mssql" /\ socket # "lost" -> "sql" [] OTHER -> "network"

(* Only what the database says of the statement is a squiggle; the rest is *)
(* thrown, or passed over by SQL Server's.                                 *)
Marked(said) == IF said = "sql" THEN "squiggle" ELSE IF kind = "mssql" THEN "clean" ELSE "thrown"

(* validate: EXPLAIN, DESCRIBE or PARSEONLY, on the connection the queries *)
(* use.  tedious refuses it too while another request runs.                *)
Validate(a) ==
    /\ life = "open" /\ Stage(a, "idle")
    /\ LET refused == kind = "mssql" /\ (holder # Nobody \/ socket # "up")
       IN  /\ ask' = [ask EXCEPT ![a].stage = IF refused THEN "done" ELSE "checking",
                                 ![a].code = IF refused THEN Marked("sql") ELSE "none"]
           /\ holder' = IF kind = "mssql" /\ ~refused THEN a ELSE holder
    /\ UNCHANGED <<kind, life, socket, backend>>

ValidateEnds(a, code) ==
    /\ Stage(a, "checking")
    /\ ask' = [ask EXCEPT ![a].stage = "done", ![a].code = code]
    /\ holder' = IF holder = a THEN Nobody ELSE holder
    /\ UNCHANGED <<kind, life, socket, backend>>

(* The database has planned or parsed the statement, or found it wrong.    *)
Validated(a, code) ==
    socket = "up" /\ Turn(a) /\ code \in {"clean", "refused"} /\ ValidateEnds(a, code)

(* The connection went, closed by the pool or broken by another's stop.    *)
ValidateFails(a, said) ==
    /\ socket # "up" /\ said \in {LossCode} \cup (IF kind = "postgres" THEN {"internal"} ELSE {})
    /\ ValidateEnds(a, Marked(said))

(* ClickHouse: the head of the response, which comes with the first rows.  *)
Responds(a) ==
    /\ Stage(a, "sent") /\ ask[a].why = "none"
    /\ ask' = [ask EXCEPT ![a].stage = "reading"]
    /\ UNCHANGED <<kind, life, socket, holder, backend>>

(* The finally blocks: the cursor is closed unless the socket is gone, a   *)
(* ClickHouse response that was not drained is closed and its query killed.*)
MustWind(a, code, cut) ==
    CASE kind = "postgres" -> socket # "destroyed"
      [] kind = "clickhouse" -> ask[a].stage # "sent" /\ (code # "ok" \/ cut)
      [] OTHER -> FALSE

Leave(a, code, cut) ==
    ask' = [ask EXCEPT ![a] = [Unasked EXCEPT
                !.code = code, !.cut = cut, !.told = ask[a].told, !.why = ask[a].why,
                !.stage = IF MustWind(a, code, cut) THEN "winding" ELSE "done"]]

(* The next batch is read and yielded: an empty one only to announce the   *)
(* columns, else the generator runs to its end.                            *)
Reads(a) ==
    /\ Stage(a, "reading") /\ socket = "up" /\ Turn(a)
    /\ kind = "clickhouse" => ask[a].why = "none"
    /\ kind = "mssql" => backend[a] = "working"
    /\ LET b == BatchOf(a)
           over == IF kind = "mssql" THEN Complete(a) ELSE b.last /\ b.read = Avail(a)
       IN  /\ IF b.kept = 0 /\ ask[a].told
              THEN Leave(a, "ok", b.cut)
              ELSE ask' = [ask EXCEPT ![a].read = @ + b.read, ![a].kept = @ + b.kept, ![a].cut = b.cut,
                                      ![a].last = b.last, ![a].told = TRUE, ![a].stage = "given",
                                      ![a].armed = @ /\ ~Complete(a)]
           /\ backend' = [backend EXCEPT ![a] = IF over THEN "over" ELSE @]
           /\ holder' = CASE over /\ kind \in {"mssql", "mysql"} -> Nobody
                          [] OTHER -> IF OneWire THEN a ELSE Nobody
    /\ UNCHANGED <<kind, life, socket>>

(* The server has written the chunk and asks for the next; after the last, *)
(* or the one that met the limit, the generator runs to its end.           *)
Consumed(a) ==
    /\ Stage(a, "given")
    /\ IF ask[a].last THEN Leave(a, "ok", ask[a].cut) ELSE ask' = [ask EXCEPT ![a].stage = "reading"]
    /\ UNCHANGED <<kind, life, socket, backend, holder>>

(* Mutant of CodeAfter: what the driver said.                              *)
CodeAfterDriver(a, said) == said

(* guard.reason() is asked first, except on SQL Server, where the request  *)
(* that failed by being cancelled hides it (mssqlError of ECANCEL).        *)
CodeAfter(a, said) == IF ask[a].why # "none" /\ kind # "mssql" THEN ask[a].why ELSE said

(* What a database may say of its own: SQLSTATE 57014, ClickHouse's 394    *)
(* and 159.                                                                *)
OwnCodes == CASE kind = "postgres" -> {"cancelled"} [] kind = "clickhouse" -> {"cancelled", "timeout"}
              [] OTHER -> {}

(* The driver rejects: the database did, the socket is gone, or the        *)
(* interrupt of this very query got through.                               *)
Fails(a, said) ==
    /\ ask[a].stage \in {"sent", "reading"}
    /\ \/ said \in {"sql"} \cup OwnCodes /\ socket = "up" /\ Turn(a)
       \/ said = LossCode /\ socket # "up"
       \/ said = "internal" /\ kind = "postgres" /\ socket # "up"
       \/ said = "sql" /\ kind = "mssql" /\ backend[a] = "over"
       \/ said = "cancelled" /\ kind = "clickhouse" /\ ask[a].why # "none"
    /\ Leave(a, CodeAfter(a, said), FALSE)
    /\ backend' = [backend EXCEPT ![a] = IF ask[a].why = "none" \/ kind # "clickhouse" THEN "over" ELSE @]
    /\ holder' = IF holder = a /\ ~MustWind(a, said, FALSE) THEN Nobody ELSE holder
    /\ UNCHANGED <<kind, life, socket>>

SocketAfter == IF kind \in {"postgres", "mysql"} /\ socket = "up" THEN "destroyed" ELSE socket

(* The deadline or the cancel: the first one wins, and breaks the socket   *)
(* (PostgreSQL, MySQL), sends the attention signal (SQL Server) or drops   *)
(* the HTTP request, which by itself does not stop the backend (ClickHouse).*)
Interrupt(a, why) ==
    /\ ask[a].armed /\ ask[a].why = "none" /\ why # "none"
    /\ ask' = [ask EXCEPT ![a].why = why]
    /\ socket' = SocketAfter
    /\ backend' = [backend EXCEPT ![a] = IF kind = "mssql" THEN "over" ELSE @]
    /\ holder' = IF kind = "mssql" /\ holder = a THEN Nobody ELSE holder
    /\ UNCHANGED <<kind, life>>

(* cursor.close or KILL QUERY has been answered, or has failed, which is   *)
(* ignored.                                                                *)
Wound(a, heard) ==
    /\ Stage(a, "winding")
    /\ ask' = [ask EXCEPT ![a].stage = "done"]
    /\ backend' = [backend EXCEPT ![a] = IF heard THEN "over" ELSE "deaf"]
    /\ holder' = IF holder = a THEN Nobody ELSE holder
    /\ UNCHANGED <<kind, life, socket>>

(* mysql2 reads the rest of an abandoned result off the wire.              *)
Drained(a) ==
    /\ kind = "mysql" /\ holder = a /\ Stage(a, "done")
    /\ holder' = Nobody
    /\ backend' = [backend EXCEPT ![a] = "over"]
    /\ UNCHANGED <<kind, life, socket, ask>>

(* The database or the network drops the connection.                       *)
HangsUp ==
    /\ OneWire /\ socket = "up" /\ life # "closed"
    /\ socket' = "lost"
    /\ backend' = [a \in Asks |-> IF backend[a] = "working" THEN "over" ELSE backend[a]]
    /\ UNCHANGED <<kind, life, holder, ask>>

Close ==
    /\ life = "open"
    /\ life' = "closing"
    /\ UNCHANGED <<kind, socket, holder, ask, backend>>

(* tedious says "end" once: a close that comes after it is never answered. *)
Closes ==
    /\ life = "closing"
    /\ kind = "mssql" => socket # "lost"
    /\ life' = "closed"
    /\ socket' = IF socket = "up" THEN "ended" ELSE socket
    /\ backend' = [a \in Asks |-> IF OneWire /\ backend[a] = "working" THEN "over" ELSE backend[a]]
    /\ UNCHANGED <<kind, holder, ask>>

DriversNext ==
    \/ \E a \in Asks, rows \in 0..MaxRows, limit \in Limits : Begin(a, rows, limit)
    \/ \E a \in Asks : Validate(a) \/ (\E code \in CheckCodes : Validated(a, code))
    \/ \E a \in Asks, said \in DriverCodes : ValidateFails(a, said)
    \/ \E a \in Asks : Responds(a) \/ Reads(a) \/ Consumed(a) \/ Drained(a)
    \/ \E a \in Asks, said \in DriverCodes \ {"none", "ok"} : Fails(a, said)
    \/ \E a \in Asks, why \in Reasons : Interrupt(a, why)
    \/ \E a \in Asks, heard \in BOOLEAN : Wound(a, heard)
    \/ HangsUp \/ Close \/ Closes

(* Node runs what is ready: a rejection is delivered, a chunk is written.  *)
(* Nothing obliges a database to answer.                                   *)
Moves(a) ==
    /\ ask[a].stage \notin {"idle", "done"}
    /\ \/ Consumed(a)
       \/ \E heard \in BOOLEAN : Wound(a, heard)
       \/ socket # "up" /\ Fails(a, LossCode)
       \/ ask[a].why # "none" /\ \E said \in {"sql", "cancelled"} : Fails(a, said)

DriversFair == \A a \in Asks : WF_driverVars(Moves(a))

DriversSpec == DriversInit /\ [][DriversNext]_driverVars /\ DriversFair

(*************************** safety ****************************************)
Ended(a) == Stage(a, "done")

(* A query that succeeds has handed over exactly the rows of its result up *)
(* to the limit, and says whether there were more.  SQL Server guesses: a  *)
(* result of exactly the limit is called truncated (mssql.ts:328).         *)
RowsUpToTheLimit ==
    [][\A a \in Asks : ask[a].code = "none" /\ ask'[a].code = "ok" =>
           LET rows == ask[a].rows
               limit == ask[a].limit
               more == IF kind = "mssql" THEN rows >= limit ELSE rows > limit
           IN  ask[a].kept = Lesser(rows, limit) /\ ask'[a].cut = more]_driverVars

(* Once the socket is gone the driver reports a lost connection; the       *)
(* reason it went is what the caller hears (interrupt.ts:5-10), except     *)
(* from SQL Server, where a stopped query is reported as bad SQL.  A query *)
(* nobody stopped is "cancelled" only where the database can say so.       *)
ReasonOutlivesTheSocket ==
    \A a \in Asks : Ended(a) /\ ask[a].code # "ok" =>
        IF ask[a].why # "none" /\ kind # "mssql" THEN ask[a].code = ask[a].why
        ELSE ask[a].code \notin {"cancelled", "timeout"} \ OwnCodes

(* The server drops a session after "cancelled", "timeout" and "network"   *)
(* only (server.ts:463).  So a session that can serve nobody is one some   *)
(* query gets that code from - but for two ways the code has of leaving it *)
(* in the pool: the interrupt of a query whose last chunk was already      *)
(* being written, and a SQL Server request abandoned at its limit.         *)
Dropped == {"cancelled", "timeout", "network"}
LateStop(a) == ask[a].why # "none" /\ ask[a].code = "ok"
AbandonedRequest(a) == kind = "mssql" /\ holder = a /\ ask[a].cut
SpoiledSessionsAreKnown ==
    /\ socket = "destroyed" /\ (\A a \in Asks : ask[a].stage \in {"idle", "done"}) =>
           \E a \in Asks : ask[a].code \in Dropped \/ LateStop(a)
    /\ \A a \in Asks : holder = a /\ Ended(a) /\ socket = "up" => kind = "mysql" \/ AbandonedRequest(a)

(* postgres.ts:451-456, mysql.ts:316-319: what the database did not say of *)
(* the statement "must not become a squiggle in the editor".  On SQL Server*)
(* a busy or closed connection does (mssql.ts:443-446).                    *)
SquigglesAreTheStatements == \A a \in Asks : ask[a].code = "squiggle" => kind = "mssql"

(* A ClickHouse query that has ended is not still executing, unless its    *)
(* KILL failed or was never sent, which happens only to a query stopped    *)
(* before its response began (clickhouse.ts:361-366).                      *)
NothingLeftExecuting ==
    \A a \in Asks : kind = "clickhouse" /\ Ended(a) /\ backend[a] = "working" =>
        ask[a].why # "none" /\ ~ask[a].told

(* clickhouse.ts:10-13: every query carries a query_id, and an interrupted *)
(* one is followed by KILL QUERY.                                          *)
InterruptedIsKilled ==
    [][\A a \in Asks : kind = "clickhouse" /\ ask[a].why # "none" /\ ~Ended(a) /\ Ended(a)' =>
           Stage(a, "winding") \/ ask'[a].code = "ok"]_driverVars

(* An interrupted query ends: breaking the socket, the request or the      *)
(* response unblocks whatever it waited for (interrupt.ts:30-41).          *)
InterruptEnds == \A a \in Asks : ask[a].why # "none" ~> Ended(a)

(* Whatever stops a query and whenever, its caller hears why, and what it  *)
(* leaves on the connection and on the server is known (interrupt.ts:5-12).*)
DriversSafe ==
    /\ DriversTypeOK
    /\ ReasonOutlivesTheSocket /\ SpoiledSessionsAreKnown
    /\ NothingLeftExecuting /\ SquigglesAreTheStatements
=============================================================================
