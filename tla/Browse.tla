------------------------------- MODULE Browse ------------------------------
(***************************************************************************)
(* The schema tree each engine answers `browse` with (the providers of     *)
(* daemon/src/providers), walked by whoever expands it, and the completion *)
(* that is read off the same tree (core/src/sql/complete.ts).  Names are   *)
(* numbers, in the order the engines list them.                            *)
(***************************************************************************)
EXTENDS Naturals, Sequences, FiniteSets, FiniteSetsExt

CONSTANTS Idents,   \* names of schemas, tables and columns
          MaxTables \* bound: tables on the server

ASSUME BrowseAssumption == Idents \subseteq Nat /\ IsFiniteSet(Idents) /\ MaxTables \in Nat

VARIABLES server, \* the engine, its tables by path, and the columns of each
          at      \* the node that is open in the tree

browseVars == <<server, at>>

Servers == {"postgres", "mysql", "mssql", "clickhouse", "trino", "kafka", "elasticsearch"}

(* Levels above the tables.                                                *)
Depth(e) == CASE e = "trino" -> 2 [] e \in {"kafka", "elasticsearch"} -> 0 [] OTHER -> 1

Node(kind, n) == [kind |-> kind, name |-> n, hasChildren |-> kind # "column"]
Below(s, path) == {t \in s.tables : Len(t) > Len(path) /\ SubSeq(t, 1, Len(path)) = path}
Names(kind, s, path) == {Node(kind, t[Len(path) + 1]) : t \in Below(s, path)}
Columns(s, path) == IF path \in s.tables THEN {Node("column", c) : c \in s.columns[path]} ELSE {}

(* DbRexError not_found.                                                   *)
NotFound == {Node("error", 0)}

postgresBrowse(s, path) ==
    CASE Len(path) = 0 -> Names("schema", s, path)
      [] Len(path) = 1 -> Names("table", s, path)
      [] Len(path) = 2 -> Columns(s, path)
      [] OTHER -> NotFound

mysqlBrowse(s, path) ==
    CASE Len(path) = 0 -> Names("database", s, path)
      [] Len(path) = 1 -> Names("table", s, path)
      [] Len(path) = 2 -> Columns(s, path)
      [] OTHER -> NotFound

clickhouseBrowse(s, path) ==
    CASE Len(path) = 0 -> Names("database", s, path)
      [] Len(path) = 1 -> Names("table", s, path)
      [] Len(path) = 2 -> Columns(s, path)
      [] OTHER -> NotFound

(* Whatever is below a column is the columns again.                        *)
mssqlBrowse(s, path) ==
    CASE Len(path) = 0 -> Names("schema", s, path)
      [] Len(path) = 1 -> Names("table", s, path)
      [] OTHER -> Columns(s, SubSeq(path, 1, 2))

trinoBrowse(s, path) ==
    CASE Len(path) = 0 -> Names("database", s, path)
      [] Len(path) = 1 -> Names("schema", s, path)
      [] Len(path) = 2 -> Names("table", s, path)
      [] Len(path) = 3 -> Columns(s, path)
      [] OTHER -> {}

kafkaBrowse(s, path) ==
    CASE Len(path) = 0 -> Names("table", s, path)
      [] Len(path) = 1 -> Columns(s, path)
      [] OTHER -> NotFound

(* Only the first of the path is looked at.                                *)
elasticBrowse(s, path) ==
    IF path = <<>> THEN Names("table", s, path) ELSE Columns(s, <<path[1]>>)

browse(s, path) ==
    CASE s.engine = "postgres" -> postgresBrowse(s, path)
      [] s.engine = "mysql" -> mysqlBrowse(s, path)
      [] s.engine = "clickhouse" -> clickhouseBrowse(s, path)
      [] s.engine = "mssql" -> mssqlBrowse(s, path)
      [] s.engine = "trino" -> trinoBrowse(s, path)
      [] s.engine = "kafka" -> kafkaBrowse(s, path)
      [] OTHER -> elasticBrowse(s, path)

(* children: a failure is swallowed into an empty list.                    *)
children(s, path) == IF browse(s, path) = NotFound THEN {} ELSE browse(s, path)

NamesIn(nodes) == {node.name : node \in nodes}

(* Mutant of unqualified: the first root is guessed.                       *)
unqualifiedGuessed(s, n) ==
    LET roots == NamesIn(children(s, <<>>)) IN
    IF roots = {} THEN {} ELSE children(s, <<Min(roots), n>>)

(* A table named without its database: the first root with one of its name.*)
unqualified(s, n) ==
    LET holding == {r \in NamesIn(children(s, <<>>)) : n \in NamesIn(children(s, <<r>>))} IN
    IF holding = {} THEN {} ELSE children(s, <<Min(holding), n>>)

(* columnsOf, for one of the tables the statement names.                   *)
columnsOf(s, path) ==
    {node \in (IF Len(path) = 1 THEN unqualified(s, path[1]) ELSE children(s, path)) : node.kind = "column"}

PathsOf(e) == [1..(Depth(e) + 1) -> Idents]

BrowseInit ==
    /\ \E e \in Servers : \E ts \in {ts \in SUBSET PathsOf(e) : Cardinality(ts) <= MaxTables} :
           \E cs \in [ts -> SUBSET Idents] : server = [engine |-> e, tables |-> ts, columns |-> cs]
    /\ at = <<>>

Expand(node) ==
    /\ node \in children(server, at) /\ node.hasChildren
    /\ at' = Append(at, node.name) /\ UNCHANGED server

Collapse == at # <<>> /\ at' = <<>> /\ UNCHANGED server

BrowseNext == Collapse \/ \E k \in {"schema", "database", "table"}, n \in Idents : Expand(Node(k, n))

BrowseSpec == BrowseInit /\ [][BrowseNext]_browseVars

BrowseTypeOK == server.engine \in Servers /\ at \in UNION {[1..l -> Idents] : l \in 0..(Depth(server.engine) + 1)}

(* hasChildren is true to the tree of every engine: what can be expanded   *)
(* leads to what the server has there, down to the columns of every table. *)
TreesAreFaithful ==
    /\ browse(server, at) # NotFound
    /\ NamesIn(children(server, at)) = IF at \in server.tables THEN server.columns[at]
                                       ELSE {t[Len(at) + 1] : t \in Below(server, at)}

(* complete.ts:128-129: the columns of another table are never offered,    *)
(* unless an Elasticsearch index has a field of the table's name.          *)
CompletionIsOfTheTable ==
    \A n \in Idents : columnsOf(server, <<n>>) # {} =>
        \/ \E t \in server.tables : t[Len(t)] = n /\ NamesIn(columnsOf(server, <<n>>)) = server.columns[t]
        \/ server.engine = "elasticsearch" /\ \E t \in server.tables : n \in server.columns[t]

(* Where tables are one level down, the columns of a table are offered,    *)
(* named with its root or without.                                         *)
TablesAreCompleted ==
    Depth(server.engine) = 1 =>
        \A t \in server.tables :
            /\ NamesIn(columnsOf(server, t)) = server.columns[t]
            /\ \E u \in server.tables : u[2] = t[2] /\ NamesIn(columnsOf(server, <<t[2]>>)) = server.columns[u]

(* The tree is the server's, and completion is the tree's (browse of every *)
(* provider, complete.ts:96-150).                                          *)
BrowseSafe == BrowseTypeOK /\ TreesAreFaithful /\ CompletionIsOfTheTable /\ TablesAreCompleted
=============================================================================
