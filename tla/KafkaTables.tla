---------------------------- MODULE KafkaTables ----------------------------
(***************************************************************************)
(* The queries of one Kafka session that name the same topic               *)
(* (daemon/src/providers/kafka.ts): each lists the topics through the      *)
(* session's admin client, reads the topic unless it is a table already,   *)
(* spools what it read to the topic's file, has DuckDB load it and runs.   *)
(* Nothing of it is coalesced.  DuckDB executes one statement at a time.   *)
(***************************************************************************)
EXTENDS Naturals, FiniteSets

CONSTANTS Readers,   \* queries that name the topic
          Nil,       \* no reader's
          MaxMade    \* bound: admin clients and spool directories ever made

ASSUME KafkaTablesAssumption == Nil \notin Readers /\ MaxMade \in Nat

VARIABLES
    live,          \* close has not been called
    reader,        \* reader[r]: where query r is, and what it has read
    admin,         \* the admin client the session holds, 0 for none
    admins,        \* admin[i]: client i
    spool,         \* the spool directory the session holds, 0 for none
    spools,        \* directories on disk
    made,          \* directories ever made
    file,          \* whose lines are in the topic's file
    table,         \* whose lines are the topic's table
    materialized,  \* the topic is in `materialized`
    fielded        \* whose lines the cached schema was inferred from

tablesVars == <<live, reader, admin, admins, spool, spools, made, file, table, materialized, fielded>>

Steps == {"idle", "connecting", "listed", "reading", "loading", "loaded", "running", "done", "failed"}
Made == 1..MaxMade
Is(r, step) == reader[r].step = step
To(r, step) == reader' = [reader EXCEPT ![r].step = step]

TablesTypeOK ==
    /\ live \in BOOLEAN /\ materialized \in BOOLEAN
    /\ reader \in [Readers -> [step : Steps, on : 0..MaxMade, rows : BOOLEAN, found : BOOLEAN]]
    /\ {admin, spool, made} \subseteq 0..MaxMade /\ spools \subseteq Made
    /\ admins \in [Made -> {"none", "connecting", "up", "down", "late"}]
    /\ {file, table, fielded} \subseteq Readers \cup {Nil}

TablesInit ==
    /\ live = TRUE /\ materialized = FALSE
    /\ reader = [r \in Readers |-> [step |-> "idle", on |-> 0, rows |-> FALSE, found |-> FALSE]]
    /\ admin = 0 /\ spool = 0 /\ spools = {} /\ made = 0
    /\ admins = [i \in Made |-> "none"]
    /\ file = Nil /\ table = Nil /\ fielded = Nil

(* connectedAdmin: the one there is, or a new one; two at once make two.   *)
Lists(r) ==
    /\ live /\ Is(r, "idle")
    /\ IF admin # 0
       THEN To(r, "listed") /\ UNCHANGED admins
       ELSE \E i \in Made : /\ admins[i] = "none" /\ \A j \in 1..(i - 1) : admins[j] # "none"
                            /\ admins' = [admins EXCEPT ![i] = "connecting"]
                            /\ reader' = [reader EXCEPT ![r].step = "connecting", ![r].on = i]
    /\ UNCHANGED <<live, admin, spool, spools, made, file, table, materialized, fielded>>

Connected(r, up) ==
    /\ Is(r, "connecting")
    /\ admins' = [admins EXCEPT ![reader[r].on] = IF ~up THEN "down" ELSE IF live THEN "up" ELSE "late"]
    /\ admin' = IF up THEN reader[r].on ELSE admin
    /\ To(r, IF up THEN "listed" ELSE "failed")
    /\ UNCHANGED <<live, spool, spools, made, file, table, materialized, fielded>>

(* Mutant of MarkedAt: a topic is marked as soon as somebody reads it.     *)
MarkedAtRead(step) == step = "reading"

(* When a topic enters `materialized`.                                     *)
MarkedAt(step) == step = "running"

(* A topic that has been read is left alone; else it is read.              *)
Looks(r) ==
    /\ Is(r, "listed")
    /\ LET step == IF materialized THEN "running" ELSE "reading"
       IN  To(r, step) /\ materialized' = (materialized \/ MarkedAt(step))
    /\ UNCHANGED <<live, admin, admins, spool, spools, made, file, table, fielded>>

ReadFails(r) ==
    /\ Is(r, "reading")
    /\ To(r, "failed")
    /\ UNCHANGED <<live, admin, admins, spool, spools, made, file, table, materialized, fielded>>

(* The window has been read: its lines go to the topic's file, whatever is *)
(* in it, in a directory made when there is none.                          *)
Spools(r) ==
    /\ Is(r, "reading")
    /\ spool = 0 => made < MaxMade
    /\ reader' = [reader EXCEPT ![r].step = "loading", ![r].rows = TRUE]
    /\ made' = IF spool = 0 THEN made + 1 ELSE made
    /\ spool' = made'
    /\ spools' = spools \cup {made'}
    /\ file' = r
    /\ UNCHANGED <<live, admin, admins, table, materialized, fielded>>

(* Nothing was read: the table is made empty.                              *)
Empty(r) ==
    /\ Is(r, "reading")
    /\ reader' = [reader EXCEPT ![r].step = "loaded", ![r].found = TRUE]
    /\ table' = r
    /\ UNCHANGED <<live, admin, admins, spool, spools, made, file, materialized, fielded>>

(* DuckDB comes to the statement: it finds the file, or it does not.       *)
Loads(r) ==
    /\ Is(r, "loading")
    /\ reader' = [reader EXCEPT ![r].step = "loaded", ![r].found = (file # Nil)]
    /\ table' = IF file # Nil THEN file ELSE table
    /\ UNCHANGED <<live, admin, admins, spool, spools, made, file, materialized, fielded>>

(* finally: the file goes, and with it what another query has just spooled.*)
FileAfter(r) == IF reader[r].rows THEN Nil ELSE file

Continues(r) ==
    /\ Is(r, "loaded")
    /\ file' = FileAfter(r)
    /\ LET step == IF reader[r].found THEN "running" ELSE "failed"
       IN  To(r, step) /\ materialized' = (materialized \/ MarkedAt(step))
    /\ fielded' = IF reader[r].found /\ reader[r].rows THEN r ELSE fielded
    /\ UNCHANGED <<live, admin, admins, spool, spools, made, table>>

Answers(r) ==
    /\ Is(r, "running")
    /\ To(r, "done")
    /\ UNCHANGED <<live, admin, admins, spool, spools, made, file, table, materialized, fielded>>

CloseTables ==
    /\ live
    /\ live' = FALSE
    /\ admins' = IF admin = 0 THEN admins ELSE [admins EXCEPT ![admin] = "down"]
    /\ admin' = 0
    /\ spools' = spools \ {spool}
    /\ spool' = 0
    /\ file' = IF spool = 0 THEN file ELSE Nil
    /\ UNCHANGED <<reader, made, table, materialized, fielded>>

TablesNext ==
    \/ \E r \in Readers : \/ Lists(r) \/ Looks(r) \/ ReadFails(r) \/ Spools(r) \/ Empty(r)
                          \/ Loads(r) \/ Continues(r) \/ Answers(r)
                          \/ \E up \in BOOLEAN : Connected(r, up)
    \/ CloseTables

TablesSpec == TablesInit /\ [][TablesNext]_tablesVars

(* A statement runs only once the topic it names is a table                *)
(* (kafka.ts:619-625).                                                     *)
TopicIsATable == \A r \in Readers : Is(r, "running") => table # Nil

(* The messages, which are the user's data, do not stay on disk: when no   *)
(* query is loading them the file is gone, and a directory survives close  *)
(* only if a query made it afterwards (kafka.ts:668-681, 833).             *)
MessagesLeaveTheDisk ==
    /\ (\A r \in Readers : reader[r].step \notin {"loading", "loaded"}) => file = Nil
    /\ ~live => spools \subseteq {spool}

(* A load finds no file only because another query of the same topic, or   *)
(* close, has removed it (kafka.ts:829-837).                               *)
LoadFailsOnlyWhenShared ==
    \A r \in Readers : Is(r, "loaded") /\ ~reader[r].found =>
        ~live \/ \E x \in Readers \ {r} : reader[x].rows /\ ~(reader[x].step \in {"loading", "loaded"})

(* Queries of one topic share its file and its table without harm, but for *)
(* a load that meets the removal of another's file (kafka.ts:806-855).     *)
TablesSafe == TablesTypeOK /\ TopicIsATable /\ MessagesLeaveTheDisk /\ LoadFailsOnlyWhenShared
=============================================================================
