---------------------------- MODULE EnginesProofs --------------------------
(***************************************************************************)
(* Proofs about the sessions of the engines: the tables Kafka's session    *)
(* has made of topics (KafkaTables), the walks over the pages of Trino and *)
(* Elasticsearch (Paged), the embedded DuckDBs (Embedded), the drivers     *)
(* with a socket (Drivers), the tables a schema tree shows (Browse) and    *)
(* the bounded read of a topic (Kafka), each for any number of queries,    *)
(* rows, pages, chunks, instances, files, names, partitions and messages.  *)
(* The parts share no state; each has an inductive invariant that says     *)
(* what a query's own record and what the engine, the connection or the    *)
(* disk holds for it agree on.                                             *)
(***************************************************************************)
EXTENDS Kafka, KafkaTables, Paged, Embedded, Drivers, Browse, Inductions, FiniteSetTheorems, TLAPS

(* KafkaTables.  The topic's file is the spool of the query that wrote it  *)
(* last, and is there only while that one is loading; a query that has     *)
(* lost it lost it to close, or to one that has finished loading.          *)

Loading == {"loading", "loaded"}

Past == {"running", "done", "failed"}

TakenAway(r) == ~live \/ \E x \in Readers \ {r} : reader[x].rows /\ reader[x].step \in Past

KeptInv ==
    /\ materialized => table # Nil
    /\ \A r \in Readers :
           /\ reader[r].rows => reader[r].step \in Loading \cup Past
           /\ Is(r, "loading") => reader[r].rows
           /\ Is(r, "loaded") /\ reader[r].found => table # Nil
           /\ Is(r, "running") => table # Nil
           /\ Is(r, "loading") /\ file = Nil => TakenAway(r)
           /\ Is(r, "loaded") /\ ~reader[r].found => TakenAway(r)
    /\ file # Nil => reader[file].rows /\ reader[file].step \in Loading
    /\ spools \subseteq {spool} /\ spool \in {0, made}

TablesInv == TablesTypeOK /\ KeptInv

Readings == [step : Steps, on : 0..MaxMade, rows : BOOLEAN, found : BOOLEAN]

LEMMA TablesInitInv == TablesInit => TablesInv
<1> SUFFICES ASSUME TablesInit PROVE TablesInv
  OBVIOUS
<1>1. \A r \in Readers : reader[r].step = "idle" /\ ~reader[r].rows
  BY DEF TablesInit
<1>2. TablesTypeOK
  <2>1. reader \in [Readers -> [step : Steps, on : 0..MaxMade, rows : BOOLEAN, found : BOOLEAN]]
    BY KafkaTablesAssumption DEF TablesInit, Steps
  <2>2. admins \in [Made -> {"none", "connecting", "up", "down", "late"}]
    BY DEF TablesInit
  <2>3. 0 \in 0..MaxMade
    BY KafkaTablesAssumption
  <2> QED BY <2>1, <2>2, <2>3 DEF TablesInit, TablesTypeOK
<1>3. KeptInv
  BY <1>1 DEF TablesInit, KeptInv, Is
<1> QED BY <1>2, <1>3 DEF TablesInv

(* One query moves: what it read, and whether it is past loading, does not *)
(* go back.                                                                *)
LEMMA ReaderMoves ==
    ASSUME TablesTypeOK, NEW r \in Readers, NEW q \in Readings, reader' = [reader EXCEPT ![r] = q]
    PROVE  /\ reader' \in [Readers -> Readings] /\ reader'[r] = q
           /\ \A x \in Readers : x # r => reader'[x] = reader[x]
BY DEF TablesTypeOK, Readings

(* A step of one query that leaves the file, the directories and the table *)
(* to the others.                                                          *)
LEMMA LightStep ==
    ASSUME TablesInv, NEW r \in Readers, NEW step \in Steps, NEW on \in 0..MaxMade,
           reader' = [reader EXCEPT ![r].step = step, ![r].on = on],
           reader[r].step \notin Loading, step \notin Loading,
           reader[r].step \in Past => step \in Past,
           step = "running" => table # Nil,
           UNCHANGED <<live, spool, spools, made, file, table, fielded>>,
           admin' \in 0..MaxMade, admins' \in [Made -> {"none", "connecting", "up", "down", "late"}],
           materialized' \in BOOLEAN, materialized' => table # Nil
    PROVE  TablesInv'
<1>1. PICK q \in Readings : q = reader[r]
  BY DEF TablesInv, TablesTypeOK, Readings
<1>2. PICK p : p = [q EXCEPT !.step = step, !.on = on]
  OBVIOUS
<1>3. p \in Readings /\ p.step = step /\ p.rows = q.rows /\ p.found = q.found
  BY <1>2 DEF Readings
<1>4. reader' = [reader EXCEPT ![r] = p]
  BY <1>1, <1>2
<1>5. /\ reader' \in [Readers -> Readings] /\ reader'[r] = p
      /\ \A x \in Readers : x # r => reader'[x] = reader[x]
  BY <1>3, <1>4, ReaderMoves DEF TablesInv
<1>6. TablesTypeOK'
  BY <1>5 DEF TablesInv, TablesTypeOK, Readings
<1>7. \A x \in Readers : /\ reader'[x].rows = reader[x].rows
                         /\ reader[x].step \in Past => reader'[x].step \in Past
  BY <1>1, <1>3, <1>5
<1>8. \A x \in Readers : TakenAway(x) => TakenAway(x)'
  BY <1>7 DEF TakenAway
<1>9. reader[r].rows => reader'[r].step \in Past
  BY <1>1, <1>3, <1>5, <1>7 DEF TablesInv, KeptInv
<1>10. file # Nil => file \in Readers /\ file # r
  BY DEF TablesInv, TablesTypeOK, KeptInv
<1>11. KeptInv'
  <2>1. ASSUME NEW x \in Readers
        PROVE  /\ reader'[x].rows => reader'[x].step \in Loading \cup Past
               /\ Is(x, "loading")' => reader'[x].rows
               /\ Is(x, "loaded")' /\ reader'[x].found => table # Nil
               /\ Is(x, "running")' => table # Nil
               /\ Is(x, "loading")' /\ file = Nil => TakenAway(x)'
               /\ Is(x, "loaded")' /\ ~reader'[x].found => TakenAway(x)'
    <3>1. CASE x = r
      BY <1>3, <1>5, <1>7, <1>9, <3>1 DEF Is, Loading
    <3>2. CASE x # r
      BY <1>5, <1>8, <3>2 DEF TablesInv, KeptInv, Is
    <3> QED BY <3>1, <3>2
  <2> QED BY <1>5, <1>10, <2>1 DEF TablesInv, KeptInv
<1> QED BY <1>6, <1>11 DEF TablesInv

LEMMA ListsInv == ASSUME TablesInv, NEW r \in Readers, Lists(r) PROVE TablesInv'
<1>1. /\ reader[r].on \in 0..MaxMade /\ reader[r].step = "idle"
      /\ materialized => table # Nil
      /\ UNCHANGED <<live, admin, spool, spools, made, file, table, materialized, fielded>>
      /\ admin \in 0..MaxMade /\ materialized \in BOOLEAN
  BY DEF TablesInv, TablesTypeOK, KeptInv, Lists, Is
<1>2. CASE admin # 0
  <2>1. reader' = [reader EXCEPT ![r].step = "listed", ![r].on = reader[r].on] /\ admins' = admins
    BY <1>2 DEF Lists, To, TablesInv, TablesTypeOK
  <2> QED BY <1>1, <2>1, LightStep DEF Steps, Loading, Past, TablesInv, TablesTypeOK
<1>3. CASE admin = 0
  <2>1. PICK i \in Made : /\ admins' = [admins EXCEPT ![i] = "connecting"]
                          /\ reader' = [reader EXCEPT ![r].step = "connecting", ![r].on = i]
    BY <1>3 DEF Lists
  <2>2. i \in 0..MaxMade /\ admins' \in [Made -> {"none", "connecting", "up", "down", "late"}]
    BY <2>1, KafkaTablesAssumption DEF Made, TablesInv, TablesTypeOK
  <2> QED BY <1>1, <2>1, <2>2, LightStep DEF Steps, Loading, Past
<1> QED BY <1>2, <1>3

(* The light steps that keep the client a query is on.                     *)
LEMMA PlainStep ==
    ASSUME TablesInv, NEW r \in Readers, NEW step \in Steps,
           reader' = [reader EXCEPT ![r].step = step],
           reader[r].step \notin Loading, step \notin Loading,
           reader[r].step \in Past => step \in Past,
           step = "running" => table # Nil,
           UNCHANGED <<live, spool, spools, made, file, table, fielded>>,
           admin' \in 0..MaxMade, admins' \in [Made -> {"none", "connecting", "up", "down", "late"}],
           materialized' \in BOOLEAN, materialized' => table # Nil
    PROVE  TablesInv'
<1>1. reader[r].on \in 0..MaxMade
  BY DEF TablesInv, TablesTypeOK
<1>2. reader' = [reader EXCEPT ![r].step = step, ![r].on = reader[r].on]
  BY DEF TablesInv, TablesTypeOK
<1> QED BY <1>1, <1>2, LightStep

LEMMA ConnectedInv == ASSUME TablesInv, NEW r \in Readers, NEW up \in BOOLEAN, Connected(r, up) PROVE TablesInv'
<1>1. PICK step \in {"listed", "failed"} : To(r, step)
  BY DEF Connected
<1>2. /\ reader[r].step = "connecting" /\ (materialized => table # Nil)
      /\ UNCHANGED <<live, spool, spools, made, file, table, materialized, fielded>> /\ materialized \in BOOLEAN
      /\ admin' \in 0..MaxMade /\ admins' \in [Made -> {"none", "connecting", "up", "down", "late"}]
  BY DEF TablesInv, TablesTypeOK, KeptInv, Connected, Is
<1> QED BY <1>1, <1>2, PlainStep DEF Steps, Loading, Past, To

LEMMA LooksInv == ASSUME TablesInv, NEW r \in Readers, Looks(r) PROVE TablesInv'
<1>1. PICK step : step = IF materialized THEN "running" ELSE "reading"
  OBVIOUS
<1>2. /\ reader[r].step = "listed" /\ To(r, step) /\ (materialized => table # Nil)
      /\ materialized' = (materialized \/ step = "running") /\ materialized \in BOOLEAN
      /\ UNCHANGED <<live, admin, admins, spool, spools, made, file, table, fielded>>
  BY <1>1 DEF TablesInv, TablesTypeOK, KeptInv, Looks, Is, MarkedAt
<1>3. materialized' = materialized /\ (step = "running" => table # Nil) /\ step \in {"running", "reading"}
  BY <1>1, <1>2
<1> QED BY <1>2, <1>3, PlainStep DEF Steps, Loading, Past, To, TablesInv, TablesTypeOK

LEMMA EndsInv == ASSUME TablesInv, NEW r \in Readers, ReadFails(r) \/ Answers(r) PROVE TablesInv'
<1>1. PICK step \in {"failed", "done"} : To(r, step)
  BY DEF ReadFails, Answers
<1>2. /\ reader[r].step \in {"reading", "running"} /\ (materialized => table # Nil)
      /\ UNCHANGED <<live, admin, admins, spool, spools, made, file, table, materialized, fielded>>
  BY DEF TablesInv, KeptInv, ReadFails, Answers, Is
<1> QED BY <1>1, <1>2, PlainStep DEF Steps, Loading, Past, To, TablesInv, TablesTypeOK

LEMMA SpoolsInv == ASSUME TablesInv, NEW r \in Readers, Spools(r) PROVE TablesInv'
<1> USE KafkaTablesAssumption
<1>1. PICK q \in Readings : q = reader[r]
  BY DEF TablesInv, TablesTypeOK, Readings
<1>2. PICK p : p = [q EXCEPT !.step = "loading", !.rows = TRUE]
  OBVIOUS
<1>3. p \in Readings /\ p.step = "loading" /\ p.rows
  BY <1>2 DEF Readings, Steps
<1>4. reader' = [reader EXCEPT ![r] = p]
  BY <1>1, <1>2 DEF Spools
<1>5. /\ reader' \in [Readers -> Readings] /\ reader'[r] = p
      /\ \A x \in Readers : x # r => reader'[x] = reader[x]
  BY <1>3, <1>4, ReaderMoves DEF TablesInv
<1>6. /\ reader[r].step = "reading" /\ ~reader[r].rows /\ r # Nil /\ file' = r
      /\ UNCHANGED <<live, admin, admins, table, materialized, fielded>>
  BY DEF TablesInv, KeptInv, Spools, Is, Loading, Past
<1>7. made' \in 0..MaxMade /\ spool' \in 0..MaxMade /\ spools' \subseteq Made /\ spools' \subseteq {spool'} /\ spool' = made'
  <2>1. CASE spool = 0
    <3>1. made' = made + 1 /\ made' \in Made /\ spool' = made' /\ spools' = spools \cup {made'}
      BY <2>1 DEF Spools, TablesInv, TablesTypeOK, Made
    <3>2. spools = {}
      BY <2>1 DEF TablesInv, TablesTypeOK, KeptInv, Made
    <3> QED BY <3>1, <3>2 DEF Made
  <2>2. CASE spool # 0
    <3>1. made' = made /\ spool' = made /\ spools' = spools \cup {made}
      BY <2>2 DEF Spools
    <3>2. made \in 0..MaxMade /\ spool = made /\ spools \subseteq {spool}
      BY <2>2 DEF TablesInv, TablesTypeOK, KeptInv
    <3>3. made \in Made
      BY <2>2, <3>2 DEF Made
    <3> QED BY <3>1, <3>2, <3>3
  <2> QED BY <2>1, <2>2
<1>8. TablesTypeOK'
  BY <1>5, <1>6, <1>7 DEF TablesInv, TablesTypeOK, Readings
<1>9. \A x \in Readers : TakenAway(x) => TakenAway(x)'
  BY <1>5, <1>6 DEF TakenAway
<1>10. KeptInv'
  <2>1. ASSUME NEW x \in Readers
        PROVE  /\ reader'[x].rows => reader'[x].step \in Loading \cup Past
               /\ Is(x, "loading")' => reader'[x].rows
               /\ Is(x, "loaded")' /\ reader'[x].found => table # Nil
               /\ Is(x, "running")' => table # Nil
               /\ Is(x, "loaded")' /\ ~reader'[x].found => TakenAway(x)'
    <3>1. CASE x = r
      BY <1>3, <1>5, <3>1 DEF Is, Loading
    <3>2. CASE x # r
      BY <1>5, <1>9, <3>2 DEF TablesInv, KeptInv, Is
    <3> QED BY <3>1, <3>2
  <2> QED BY <1>3, <1>5, <1>6, <1>7, <2>1 DEF TablesInv, KeptInv, Loading
<1> QED BY <1>8, <1>10 DEF TablesInv

LEMMA EmptyInv == ASSUME TablesInv, NEW r \in Readers, Empty(r) PROVE TablesInv'
<1> USE KafkaTablesAssumption
<1>1. PICK q \in Readings : q = reader[r]
  BY DEF TablesInv, TablesTypeOK, Readings
<1>2. PICK p : p = [q EXCEPT !.step = "loaded", !.found = TRUE]
  OBVIOUS
<1>3. p \in Readings /\ p.step = "loaded" /\ p.rows = q.rows /\ p.found
  BY <1>2 DEF Readings, Steps
<1>4. reader' = [reader EXCEPT ![r] = p]
  BY <1>1, <1>2 DEF Empty
<1>5. /\ reader' \in [Readers -> Readings] /\ reader'[r] = p
      /\ \A x \in Readers : x # r => reader'[x] = reader[x]
  BY <1>3, <1>4, ReaderMoves DEF TablesInv
<1>6. /\ reader[r].step = "reading" /\ ~reader[r].rows /\ r # Nil /\ table' = r
      /\ UNCHANGED <<live, admin, admins, spool, spools, made, file, materialized, fielded>>
  BY DEF TablesInv, KeptInv, Empty, Is, Loading, Past
<1>7. TablesTypeOK'
  BY <1>5, <1>6 DEF TablesInv, TablesTypeOK, Readings
<1>8. \A x \in Readers : TakenAway(x) => TakenAway(x)'
  BY <1>5, <1>6 DEF TakenAway
<1>9. file # Nil => file \in Readers /\ file # r
  BY <1>6 DEF TablesInv, TablesTypeOK, KeptInv
<1>10. KeptInv'
  <2>1. ASSUME NEW x \in Readers
        PROVE  /\ reader'[x].rows => reader'[x].step \in Loading \cup Past
               /\ Is(x, "loading")' => reader'[x].rows
               /\ Is(x, "loading")' /\ file = Nil => TakenAway(x)'
               /\ Is(x, "loaded")' /\ ~reader'[x].found => TakenAway(x)'
    <3>1. CASE x = r
      BY <1>1, <1>3, <1>5, <1>6, <3>1 DEF Is
    <3>2. CASE x # r
      BY <1>5, <1>8, <3>2 DEF TablesInv, KeptInv, Is
    <3> QED BY <3>1, <3>2
  <2> QED BY <1>5, <1>6, <1>9, <2>1 DEF TablesInv, KeptInv
<1> QED BY <1>7, <1>10 DEF TablesInv

LEMMA LoadsInv == ASSUME TablesInv, NEW r \in Readers, Loads(r) PROVE TablesInv'
<1> USE KafkaTablesAssumption
<1>1. PICK q \in Readings : q = reader[r]
  BY DEF TablesInv, TablesTypeOK, Readings
<1>2. PICK p : p = [q EXCEPT !.step = "loaded", !.found = (file # Nil)]
  OBVIOUS
<1>3. p \in Readings /\ p.step = "loaded" /\ p.rows = q.rows /\ p.found = (file # Nil)
  BY <1>2 DEF Readings, Steps
<1>4. reader' = [reader EXCEPT ![r] = p]
  BY <1>1, <1>2 DEF Loads
<1>5. /\ reader' \in [Readers -> Readings] /\ reader'[r] = p
      /\ \A x \in Readers : x # r => reader'[x] = reader[x]
  BY <1>3, <1>4, ReaderMoves DEF TablesInv
<1>6. /\ reader[r].step = "loading" /\ table' = (IF file # Nil THEN file ELSE table)
      /\ UNCHANGED <<live, admin, admins, spool, spools, made, file, materialized, fielded>>
  BY DEF Loads, Is
<1>7. TablesTypeOK'
  BY <1>5, <1>6 DEF TablesInv, TablesTypeOK, Readings
<1>8. \A x \in Readers : TakenAway(x) => TakenAway(x)'
  <2>1. \A x \in Readers : reader'[x].rows = reader[x].rows /\ (reader[x].step \in Past => reader'[x].step = reader[x].step)
    BY <1>1, <1>3, <1>5, <1>6 DEF Past
  <2> QED BY <1>6, <2>1 DEF TakenAway
<1>9. table # Nil => table' # Nil
  BY <1>6
<1>10. KeptInv'
  <2>1. ASSUME NEW x \in Readers
        PROVE  /\ reader'[x].rows => reader'[x].step \in Loading \cup Past
               /\ Is(x, "loading")' => reader'[x].rows
               /\ Is(x, "loaded")' /\ reader'[x].found => table' # Nil
               /\ Is(x, "running")' => table' # Nil
               /\ Is(x, "loading")' /\ file = Nil => TakenAway(x)'
               /\ Is(x, "loaded")' /\ ~reader'[x].found => TakenAway(x)'
    <3>1. CASE x = r
      <4>1. file = Nil => TakenAway(r)
        BY <1>6 DEF TablesInv, KeptInv, Is
      <4> QED BY <1>3, <1>5, <1>6, <1>8, <3>1, <4>1 DEF Is, Loading
    <3>2. CASE x # r
      BY <1>5, <1>8, <1>9, <3>2 DEF TablesInv, KeptInv, Is
    <3> QED BY <3>1, <3>2
  <2>2. file # Nil => reader'[file].rows /\ reader'[file].step \in Loading
    <3>1. file # Nil => file \in Readers /\ reader[file].rows /\ reader[file].step \in Loading
      BY DEF TablesInv, TablesTypeOK, KeptInv
    <3> QED BY <1>1, <1>3, <1>5, <3>1 DEF Loading
  <2> QED BY <1>6, <1>9, <2>1, <2>2 DEF TablesInv, KeptInv
<1> QED BY <1>7, <1>10 DEF TablesInv

(* The reader is done with loading, and its file is gone with it: whoever  *)
(* else was loading has lost it to this one.                               *)
LEMMA ContinuesInv == ASSUME TablesInv, NEW r \in Readers, Continues(r) PROVE TablesInv'
<1> USE KafkaTablesAssumption
<1>1. PICK q \in Readings : q = reader[r]
  BY DEF TablesInv, TablesTypeOK, Readings
<1>2. PICK step : step = IF q.found THEN "running" ELSE "failed"
  OBVIOUS
<1>3. PICK p : p = [q EXCEPT !.step = step]
  OBVIOUS
<1>4. p \in Readings /\ p.step = step /\ p.rows = q.rows /\ step \in Past /\ step \notin Loading
  BY <1>2, <1>3 DEF Readings, Steps, Past, Loading
<1>5. /\ reader[r].step = "loaded" /\ file' = FileAfter(r) /\ To(r, step)
      /\ materialized' = (materialized \/ step = "running")
      /\ fielded' = (IF q.found /\ q.rows THEN r ELSE fielded)
      /\ UNCHANGED <<live, admin, admins, spool, spools, made, table>>
  BY <1>1, <1>2 DEF Continues, Is, MarkedAt
<1>6. /\ reader' \in [Readers -> Readings] /\ reader'[r] = p
      /\ \A x \in Readers : x # r => reader'[x] = reader[x]
  <2>1. reader' = [reader EXCEPT ![r] = p]
    BY <1>1, <1>3, <1>5 DEF To
  <2> QED BY <1>4, <2>1, ReaderMoves DEF TablesInv
<1>7. /\ file \in Readers \cup {Nil} /\ file' \in {file, Nil} /\ (q.rows => file' = Nil)
      /\ (step = "running" => table # Nil) /\ materialized' \in BOOLEAN
      /\ (file' # Nil => file \in Readers \ {r} /\ reader[file].rows /\ reader[file].step \in Loading)
  <2>1. file' = (IF q.rows THEN Nil ELSE file)
    BY <1>1, <1>5 DEF FileAfter
  <2>2. file # Nil => reader[file].rows /\ reader[file].step \in Loading
    BY DEF TablesInv, KeptInv
  <2>3. file \in Readers \cup {Nil} /\ materialized \in BOOLEAN
    BY DEF TablesInv, TablesTypeOK
  <2>4. step = "running" => table # Nil
    BY <1>1, <1>2, <1>5 DEF TablesInv, KeptInv, Is
  <2> QED BY <1>1, <1>5, <2>1, <2>2, <2>3, <2>4
<1>8. TablesTypeOK'
  BY <1>5, <1>6, <1>7 DEF TablesInv, TablesTypeOK, Readings
<1>9. \A x \in Readers : TakenAway(x) => TakenAway(x)'
  <2>1. \A x \in Readers : reader'[x].rows = reader[x].rows /\ (reader[x].step \in Past => reader'[x].step \in Past)
    BY <1>1, <1>4, <1>6
  <2> QED BY <1>5, <2>1 DEF TakenAway
<1>10. KeptInv'
  <2>1. ASSUME NEW x \in Readers
        PROVE  /\ reader'[x].rows => reader'[x].step \in Loading \cup Past
               /\ Is(x, "loading")' => reader'[x].rows
               /\ Is(x, "loaded")' /\ reader'[x].found => table # Nil
               /\ Is(x, "running")' => table # Nil
               /\ Is(x, "loading")' /\ file' = Nil => TakenAway(x)'
               /\ Is(x, "loaded")' /\ ~reader'[x].found => TakenAway(x)'
    <3>1. CASE x = r
      BY <1>4, <1>6, <1>7, <3>1 DEF Is, Loading
    <3>2. CASE x # r
      <4>1. Is(x, "loading") /\ file' = Nil => TakenAway(x)'
        <5>1. CASE q.rows
          BY <1>1, <1>4, <1>6, <3>2, <5>1 DEF TakenAway
        <5>2. CASE ~q.rows
          <6>1. file' = file
            BY <1>1, <1>5, <5>2 DEF FileAfter
          <6> QED BY <1>9, <6>1 DEF TablesInv, KeptInv
        <5> QED BY <5>1, <5>2
      <4>2. reader'[x] = reader[x]
        BY <1>6, <3>2
      <4> QED BY <1>9, <4>1, <4>2 DEF TablesInv, KeptInv, Is
    <3> QED BY <3>1, <3>2
  <2>2. file' # Nil => reader'[file'].rows /\ reader'[file'].step \in Loading
    BY <1>6, <1>7
  <2>3. materialized' => table # Nil
    BY <1>5, <1>7 DEF TablesInv, KeptInv
  <2> QED BY <1>5, <2>1, <2>2, <2>3 DEF TablesInv, KeptInv
<1> QED BY <1>8, <1>10 DEF TablesInv

LEMMA CloseTablesInv == ASSUME TablesInv, CloseTables PROVE TablesInv'
<1>1. /\ ~live' /\ live' \in BOOLEAN /\ admin' = 0 /\ spool' = 0 /\ spools' = spools \ {spool} /\ file' \in {file, Nil}
      /\ UNCHANGED <<reader, made, table, materialized, fielded>>
      /\ admins' = (IF admin = 0 THEN admins ELSE [admins EXCEPT ![admin] = "down"])
  BY DEF CloseTables
<1>2. TablesTypeOK'
  <2>1. admins' \in [Made -> {"none", "connecting", "up", "down", "late"}]
    BY <1>1 DEF TablesInv, TablesTypeOK
  <2>2. 0 \in 0..MaxMade /\ spools' \subseteq Made
    BY <1>1, KafkaTablesAssumption DEF TablesInv, TablesTypeOK
  <2> QED BY <1>1, <2>1, <2>2 DEF TablesInv, TablesTypeOK
<1>3. KeptInv'
  BY <1>1 DEF TablesInv, KeptInv, TakenAway, Is
<1> QED BY <1>2, <1>3 DEF TablesInv

LEMMA TablesNextInv == TablesInv /\ [TablesNext]_tablesVars => TablesInv'
<1>1. ASSUME TablesInv, UNCHANGED tablesVars PROVE TablesInv'
  BY <1>1 DEF TablesInv, tablesVars, TablesTypeOK, KeptInv, TakenAway, Is
<1> QED BY <1>1, ListsInv, ConnectedInv, LooksInv, EndsInv, SpoolsInv, EmptyInv, LoadsInv, ContinuesInv,
           CloseTablesInv DEF TablesNext

(* What the queries of one topic rely on, however they interleave          *)
(* (kafka.ts:806-855).                                                     *)
THEOREM TablesInductive == TablesSpec => []TablesInv
BY TablesInitInv, TablesNextInv, PTL DEF TablesSpec

(* For any number of queries of one topic: none runs before the topic is a *)
(* table, no message stays on disk, and a load fails only when another has *)
(* taken the file (kafka.ts:619-625, 668-681, 806-855).                    *)
THEOREM TopicsAreShared == TablesSpec => []TablesSafe
<1>1. ASSUME TablesInv PROVE TablesSafe
  <2>1. TopicIsATable
    BY <1>1 DEF TablesInv, KeptInv, TopicIsATable
  <2>2. MessagesLeaveTheDisk
    BY <1>1 DEF TablesInv, TablesTypeOK, KeptInv, MessagesLeaveTheDisk, Loading
  <2>3. LoadFailsOnlyWhenShared
    <3>1. \A x \in Readers : reader[x].step \in Past => reader[x].step \notin {"loading", "loaded"}
      BY DEF Past
    <3> QED BY <1>1, <3>1 DEF TablesInv, KeptInv, LoadFailsOnlyWhenShared, TakenAway
  <2> QED BY <1>1, <2>1, <2>2, <2>3 DEF TablesInv, TablesSafe
<1> QED BY <1>1, TablesInductive, PTL

-----------------------------------------------------------------------------
RowsIn(pages) == pages * PageRows

(* Paged.  What a walk (r) and the engine's side of it (k) agree on.       *)
WalkInv(r, k, e, up) ==
    /\ e = "elastic" => r.stop # "timer" /\ r.stage # "login"
    /\ e = "trino" => r.stage # "closing" /\ r.form = "sql"
    /\ r.taken <= r.limit /\ r.taken <= RowsIn(k.pages)
    /\ r.missed => r.truncated \/ r.form = "uncounted"
    /\ r.code # "none" <=> r.stage \in {"closing", "done"}
    /\ r.stage \in {"idle", "sent", "login"} =>
           /\ r.form # "uncounted"
           /\ r.more => r.stage # "idle" /\ r.form = "sql" /\ k.state = "open" /\ k.pages > 0
           /\ ~r.more => r.taken = 0 /\ ~r.missed /\ k.state = "none" /\ k.pages = 0
    /\ r.stage = "page" => k.state = IF r.more THEN "open" ELSE "over"
    /\ r.stage = "page" /\ r.more => r.form = "sql" /\ k.pages > 0
    /\ r.stage = "closing" => r.more /\ k.state = "open" /\ r.form = "sql"
    /\ r.stage = "done" /\ k.state = "open" => r.lost \/ (e = "elastic" /\ ~up)
    /\ r.code = "ok" => r.truncated \/ k.state = "over"

LoginInv ==
    /\ \A w \in Walks : login[w] # "none" => current = w
    /\ \A w \in Walks : walk[w].on # NoWalk => walk[w].on = current
    /\ current # NoWalk => walk[current].on = current

PagedInv ==
    /\ PagedTypeOK /\ LoginInv /\ CancelIsSomebodys
    /\ \A w \in Walks : WalkInv(walk[w], kept[w], engine, alive)

MaxTaken == RowsIn(MaxPages)

Stages == {"idle", "sent", "login", "page", "closing", "done", "forgotten"}
Tokens == {"none", "stale", "good"}
Codes == {"none", "ok", "sql", "auth", "network", "internal", "cancelled", "timeout"}
WalkRecords ==
    [stage : Stages, limit : RowLimits \cup {0}, with : Tokens, retried : BOOLEAN, on : Walks \cup {NoWalk},
     more : BOOLEAN, form : {"sql", "search", "uncounted"}, taken : 0..MaxTaken, missed : BOOLEAN,
     truncated : BOOLEAN, stop : {"no", "user", "timer"}, lost : BOOLEAN, code : Codes]

KeptRecords == [pages : 0..MaxPages, state : {"none", "open", "over", "dropped", "unheard"}]

LEMMA Bounds == MaxPages \in Nat \ {0} /\ PageRows \in Nat /\ MaxTaken \in Nat /\ RowsIn(1) = PageRows
BY PagedAssumption DEF RowsIn, MaxTaken

LEMMA RowsGrow ==
    /\ RowsIn(0) = 0
    /\ \A m, n \in Nat : RowsIn(n) \in Nat /\ RowsIn(n + 1) = RowsIn(n) + PageRows /\ (m <= n => RowsIn(m) <= RowsIn(n))
BY PagedAssumption DEF RowsIn

(* One more page still fits what all the pages hold.                       *)
LEMMA OneMorePage ==
    ASSUME NEW n \in Nat, n < MaxPages
    PROVE  RowsIn(n) + PageRows = RowsIn(n + 1) /\ RowsIn(n) \in Nat /\ RowsIn(n + 1) \in Nat /\ RowsIn(n + 1) <= MaxTaken
<1>1. n + 1 \in Nat /\ n + 1 <= MaxPages /\ MaxPages \in Nat
  BY Bounds
<1> QED BY <1>1, RowsGrow DEF MaxTaken

LEMMA RowsAreCounted ==
    ASSUME NEW r \in WalkRecords
    PROVE  r.limit \in Nat /\ r.taken \in Nat /\ r.taken \in 0..MaxTaken
<1>1. RowLimits \cup {0} \subseteq Nat
  BY PagedAssumption
<1>2. r.limit \in RowLimits \cup {0} /\ r.taken \in 0..MaxTaken
  BY DEF WalkRecords
<1> QED BY <1>1, <1>2

LEMMA PagedInitInv == PagedInit => PagedInv
<1> SUFFICES ASSUME PagedInit PROVE PagedInv
  OBVIOUS
<1>1. /\ engine \in Engines /\ alive = TRUE /\ current = NoWalk /\ token \in Tokens
      /\ walk = [w \in Walks |-> Fresh] /\ login = [w \in Walks |-> "none"]
      /\ kept = [w \in Walks |-> [pages |-> 0, state |-> "none"]]
  BY DEF PagedInit, Tokens
<1>2. PagedTypeOK
  <2>1. 0 \in 0..MaxTaken /\ 0 \in 0..MaxPages
    BY RowsGrow, PagedAssumption DEF MaxTaken
  <2>2. Fresh \in WalkRecords
    BY <2>1 DEF Fresh, WalkRecords, Stages, Tokens, Codes
  <2>3. walk \in [Walks -> WalkRecords] /\ kept \in [Walks -> KeptRecords]
    BY <1>1, <2>1, <2>2 DEF KeptRecords
  <2>4. \A w \in Walks : walk[w].stage = "idle" /\ walk[w].on = NoWalk
    BY <1>1 DEF Fresh
  <2> QED BY <1>1, <2>3, <2>4 DEF PagedTypeOK, WalkRecords, KeptRecords, MaxTaken, RowsIn, Stages, Tokens, Codes
<1>3. LoginInv /\ CancelIsSomebodys
  BY <1>1 DEF LoginInv, CancelIsSomebodys, Fresh
<1>4. ASSUME NEW w \in Walks PROVE WalkInv(walk[w], kept[w], engine, alive)
  <2>1. walk[w] = Fresh /\ kept[w].pages = 0 /\ kept[w].state = "none"
    BY <1>1
  <2> QED BY <2>1, RowsGrow DEF WalkInv, Fresh
<1> QED BY <1>2, <1>3, <1>4 DEF PagedInv

(* A query moves that neither was in a login nor is in one after.          *)
LEMMA WalkMoves ==
    ASSUME PagedInv, NEW w \in Walks, NEW q \in WalkRecords, Becomes(w, q),
           kept' \in [Walks -> KeptRecords], \A v \in Walks \ {w} : kept'[v] = kept[v],
           UNCHANGED <<engine, alive, token, login, current>>,
           walk[w].stage # "login", q.stage # "login", q.on = NoWalk,
           walk[w].stop # "no" => q.stop # "no",
           q.code = "cancelled" => q.stop = "user" \/ (walk[w].code = "cancelled" /\ q.stop = walk[w].stop),
           WalkInv(q, kept'[w], engine, alive)
    PROVE  PagedInv'
<1> USE PagedAssumption DEF PagedInv, Becomes
<1>1. /\ walk' \in [Walks -> WalkRecords] /\ walk'[w] = q
      /\ \A v \in Walks \ {w} : walk'[v] = walk[v]
  BY DEF PagedTypeOK, WalkRecords, MaxTaken, RowsIn, Stages, Tokens, Codes
<1>2. PagedTypeOK'
  BY <1>1 DEF PagedTypeOK, WalkRecords, KeptRecords, MaxTaken, RowsIn, Stages, Tokens, Codes
<1>3. LoginInv'
  BY <1>1 DEF LoginInv, PagedTypeOK
<1>4. CancelIsSomebodys'
  BY <1>1 DEF CancelIsSomebodys
<1>5. \A v \in Walks : WalkInv(walk'[v], kept'[v], engine', alive')
  BY <1>1
<1> QED BY <1>2, <1>3, <1>4, <1>5

LEMMA WalkTyped ==
    ASSUME PagedInv, NEW w \in Walks
    PROVE  /\ walk[w] \in WalkRecords /\ kept[w] \in KeptRecords /\ kept \in [Walks -> KeptRecords]
           /\ walk \in [Walks -> WalkRecords]
           /\ token \in {"none", "stale", "good"} /\ engine \in {"trino", "elastic"}
           /\ walk[w].stage # "login" => walk[w].on = NoWalk
           /\ WalkInv(walk[w], kept[w], engine, alive) /\ Stopped(w) \in {"timeout", "cancelled"}
BY PagedAssumption DEF PagedInv, PagedTypeOK, WalkRecords, KeptRecords, MaxTaken, RowsIn, Stages, Tokens, Codes, Stopped

(* A field takes another value of its kind.                                *)
LEMMA FieldSet ==
    ASSUME NEW r \in WalkRecords
    PROVE  /\ \A x \in Stages : [r EXCEPT !.stage = x] \in WalkRecords
           /\ \A x \in RowLimits : [r EXCEPT !.limit = x] \in WalkRecords
           /\ \A x \in Tokens : [r EXCEPT !.with = x] \in WalkRecords
           /\ \A x \in BOOLEAN : [r EXCEPT !.retried = x] \in WalkRecords
           /\ \A x \in BOOLEAN : [r EXCEPT !.more = x] \in WalkRecords
           /\ \A x \in BOOLEAN : [r EXCEPT !.missed = x] \in WalkRecords
           /\ \A x \in BOOLEAN : [r EXCEPT !.lost = x] \in WalkRecords
           /\ \A x \in BOOLEAN : [r EXCEPT !.truncated = x] \in WalkRecords
           /\ \A x \in Walks \cup {NoWalk} : [r EXCEPT !.on = x] \in WalkRecords
           /\ \A x \in {"sql", "search", "uncounted"} : [r EXCEPT !.form = x] \in WalkRecords
           /\ \A x \in 0..MaxTaken : [r EXCEPT !.taken = x] \in WalkRecords
           /\ \A x \in {"no", "user", "timer"} : [r EXCEPT !.stop = x] \in WalkRecords
           /\ \A x \in Codes : [r EXCEPT !.code = x] \in WalkRecords
<1>1. /\ \A x \in Stages : [r EXCEPT !.stage = x] \in WalkRecords
      /\ \A x \in RowLimits : [r EXCEPT !.limit = x] \in WalkRecords
      /\ \A x \in Tokens : [r EXCEPT !.with = x] \in WalkRecords
  BY DEF WalkRecords
<1>2. /\ \A x \in BOOLEAN : [r EXCEPT !.retried = x] \in WalkRecords
      /\ \A x \in BOOLEAN : [r EXCEPT !.more = x] \in WalkRecords
  BY DEF WalkRecords
<1>3. /\ \A x \in BOOLEAN : [r EXCEPT !.missed = x] \in WalkRecords
      /\ \A x \in BOOLEAN : [r EXCEPT !.lost = x] \in WalkRecords
      /\ \A x \in BOOLEAN : [r EXCEPT !.truncated = x] \in WalkRecords
  BY DEF WalkRecords
<1>4. /\ \A x \in Walks \cup {NoWalk} : [r EXCEPT !.on = x] \in WalkRecords
      /\ \A x \in {"sql", "search", "uncounted"} : [r EXCEPT !.form = x] \in WalkRecords
  BY DEF WalkRecords
<1>5. /\ \A x \in 0..MaxTaken : [r EXCEPT !.taken = x] \in WalkRecords
      /\ \A x \in {"no", "user", "timer"} : [r EXCEPT !.stop = x] \in WalkRecords
      /\ \A x \in Codes : [r EXCEPT !.code = x] \in WalkRecords
  BY DEF WalkRecords
<1> QED BY <1>1, <1>2, <1>3, <1>4, <1>5

LEMMA OverIs ==
    ASSUME NEW r \in WalkRecords
    PROVE  /\ Over(r) \in WalkRecords
           /\ r.stage # "done" => Over(r) = r
           /\ r.stage = "done" => Over(r).on = NoWalk /\ ~Over(r).more
           /\ Over(r).stage = r.stage /\ Over(r).limit = r.limit /\ Over(r).taken = r.taken
           /\ Over(r).missed = r.missed /\ Over(r).truncated = r.truncated /\ Over(r).stop = r.stop
           /\ Over(r).lost = r.lost /\ Over(r).code = r.code
           /\ Over(r).form = r.form \/ (r.form = "search" /\ Over(r).form = "sql")
<1>1. CASE r.stage # "done"
  BY <1>1 DEF Over
<1>2. CASE r.stage = "done"
  <2> DEFINE f == IF r.form = "search" THEN "sql" ELSE r.form
             q == [r EXCEPT !.on = NoWalk, !.with = "none", !.retried = FALSE, !.more = FALSE, !.form = f]
  <2>1. f = r.form \/ (r.form = "search" /\ f = "sql")
    OBVIOUS
  <2>2. Over(r) = q
    BY <1>2 DEF Over, WalkRecords
  <2> HIDE DEF f
  <2>3. f \in {"sql", "search", "uncounted"}
    BY <2>1 DEF WalkRecords
  <2>4. q \in WalkRecords
    BY <2>3, FieldSet DEF Tokens
  <2>5. q.on = NoWalk /\ q.more = FALSE /\ q.stage = r.stage /\ q.limit = r.limit /\ q.taken = r.taken /\ q.form = f
    BY DEF WalkRecords
  <2>6. /\ q.stop = r.stop /\ q.missed = r.missed /\ q.truncated = r.truncated /\ q.lost = r.lost /\ q.code = r.code
    BY DEF WalkRecords
  <2> HIDE DEF q
  <2> QED BY <1>2, <2>1, <2>2, <2>4, <2>5, <2>6
<1> QED BY <1>1, <1>2

LEMMA SentIs ==
    ASSUME PagedInv, NEW w \in Walks
    PROVE  /\ Sent(w) \in WalkRecords
           /\ LET r == Sent(w)
              IN  /\ r.stage = "sent" /\ r.on = NoWalk /\ r.limit = walk[w].limit /\ r.more = walk[w].more
                  /\ r.taken = walk[w].taken /\ r.missed = walk[w].missed /\ r.truncated = walk[w].truncated
                  /\ r.stop = walk[w].stop /\ r.lost = walk[w].lost /\ r.form = walk[w].form /\ r.code = walk[w].code
<1>1. walk[w] \in WalkRecords /\ token \in Tokens
  BY WalkTyped DEF Tokens
<1>2. Sent(w) \in WalkRecords
  BY <1>1, FieldSet DEF Sent, Stages
<1> QED BY <1>1, <1>2 DEF Sent, WalkRecords

LEMMA EndsWithIs ==
    ASSUME PagedInv, NEW w \in Walks, NEW code \in Codes \ {"none"}
    PROVE  /\ EndsWith(w, code) \in WalkRecords
           /\ LET r == EndsWith(w, code)
              IN  /\ r.stage = "done" /\ r.code = code /\ r.on = NoWalk /\ ~r.more /\ r.limit = walk[w].limit
                  /\ r.taken = walk[w].taken /\ r.missed = walk[w].missed /\ r.truncated = walk[w].truncated
                  /\ r.stop = walk[w].stop /\ r.lost = walk[w].lost
                  /\ r.form = walk[w].form \/ (walk[w].form = "search" /\ r.form = "sql")
<1> DEFINE q == [walk[w] EXCEPT !.stage = "done", !.code = code]
<1>1. walk[w] \in WalkRecords
  BY WalkTyped
<1>4. q \in WalkRecords
  BY <1>1, FieldSet DEF Stages, Codes
<1>2. /\ q.stage = "done" /\ q.code = code /\ q.limit = walk[w].limit
      /\ q.taken = walk[w].taken /\ q.missed = walk[w].missed /\ q.truncated = walk[w].truncated
      /\ q.stop = walk[w].stop /\ q.lost = walk[w].lost /\ q.form = walk[w].form
  BY <1>1 DEF WalkRecords
<1>3. EndsWith(w, code) = Over(q)
  BY DEF EndsWith
<1> HIDE DEF q
<1> QED BY <1>2, <1>3, <1>4, OverIs

(* A walk begins: nothing was asked of the engine before.                  *)
LEMMA StartsFresh ==
    ASSUME PagedInv, NEW w \in Walks, walk[w].stage = "idle", NEW q \in WalkRecords, q.stage = "sent", q.on = NoWalk,
           q.more = walk[w].more, q.taken = walk[w].taken, q.missed = walk[w].missed, q.code = walk[w].code,
           q.stop = walk[w].stop, q.form # "uncounted", engine = "trino" => q.form = "sql", Becomes(w, q),
           UNCHANGED <<engine, alive, token, login, current, kept>>
    PROVE  PagedInv'
<1>1. /\ walk[w] \in WalkRecords /\ kept[w] \in KeptRecords /\ kept \in [Walks -> KeptRecords]
      /\ WalkInv(walk[w], kept[w], engine, alive)
  BY WalkTyped
<1>2. /\ ~walk[w].more /\ walk[w].taken = 0 /\ ~walk[w].missed /\ walk[w].code = "none"
      /\ kept[w].state = "none" /\ kept[w].pages = 0 /\ (engine = "elastic" => walk[w].stop # "timer")
  BY <1>1 DEF WalkInv
<1>3. q.limit \in Nat /\ ~q.more /\ q.taken = 0 /\ ~q.missed /\ q.code = "none"
  BY <1>2, RowsAreCounted
<1>4. WalkInv(q, kept[w], engine, alive)
  BY <1>2, <1>3, RowsGrow DEF WalkInv
<1> QED BY <1>1, <1>2, <1>4, WalkMoves

LEMMA StartWalkInv == ASSUME PagedInv, NEW w \in Walks, NEW limit \in RowLimits, StartWalk(w, limit) PROVE PagedInv'
<1> DEFINE s == Sent(w)
           q == [s EXCEPT !.limit = limit]
<1>0. /\ s \in WalkRecords /\ s.stage = "sent" /\ s.on = NoWalk /\ s.more = walk[w].more /\ s.taken = walk[w].taken
      /\ s.missed = walk[w].missed /\ s.code = walk[w].code /\ s.stop = walk[w].stop /\ s.form = walk[w].form
  BY SentIs
<1>1. /\ walk[w].stage = "idle" /\ Becomes(w, q) /\ UNCHANGED <<engine, alive, token, login, current, kept>>
      /\ walk[w].form # "uncounted" /\ (engine = "trino" => walk[w].form = "sql")
  BY WalkTyped DEF StartWalk, WalkInv
<1> HIDE DEF s
<1>2. /\ q \in WalkRecords /\ q.stage = s.stage /\ q.on = s.on /\ q.more = s.more /\ q.taken = s.taken
      /\ q.missed = s.missed /\ q.code = s.code /\ q.stop = s.stop /\ q.form = s.form
  BY <1>0 DEF WalkRecords
<1> HIDE DEF q
<1> QED BY <1>0, <1>1, <1>2, StartsFresh

LEMMA SearchInv ==
    ASSUME PagedInv, NEW w \in Walks, NEW limit \in RowLimits, NEW parses \in BOOLEAN, Search(w, limit, parses)
    PROVE  PagedInv'
<1>0. /\ walk[w].stage = "idle" /\ engine = "elastic" /\ UNCHANGED <<engine, alive, token, login, current, kept>>
  BY DEF Search
<1>1. CASE parses
  <2> DEFINE s == Sent(w)
             q == [s EXCEPT !.limit = limit, !.form = "search"]
  <2>0. /\ s \in WalkRecords /\ s.stage = "sent" /\ s.on = NoWalk /\ s.more = walk[w].more /\ s.taken = walk[w].taken
        /\ s.missed = walk[w].missed /\ s.code = walk[w].code /\ s.stop = walk[w].stop
    BY SentIs
  <2>1. Becomes(w, q)
    BY <1>1 DEF Search
  <2> HIDE DEF s
  <2>2. /\ q \in WalkRecords /\ q.stage = s.stage /\ q.on = s.on /\ q.more = s.more /\ q.taken = s.taken
        /\ q.missed = s.missed /\ q.code = s.code /\ q.stop = s.stop /\ q.form = "search"
    BY <2>0 DEF WalkRecords
  <2> HIDE DEF q
  <2> QED BY <1>0, <2>0, <2>1, <2>2, StartsFresh
<1>2. CASE ~parses
  <2> DEFINE q == EndsWith(w, "sql")
  <2>1. Becomes(w, q)
    BY <1>2 DEF Search
  <2>2. /\ q \in WalkRecords /\ q.stage = "done" /\ q.code = "sql" /\ q.on = NoWalk /\ q.limit = walk[w].limit
        /\ q.taken = walk[w].taken /\ q.missed = walk[w].missed /\ q.stop = walk[w].stop
    BY EndsWithIs DEF Codes
  <2>3. /\ walk[w] \in WalkRecords /\ kept[w] \in KeptRecords /\ kept \in [Walks -> KeptRecords]
        /\ WalkInv(walk[w], kept[w], engine, alive)
    BY WalkTyped
  <2> HIDE DEF q
  <2>4. WalkInv(q, kept[w], engine, alive)
    BY <1>0, <2>2, <2>3, RowsAreCounted, RowsGrow DEF WalkInv, WalkRecords, KeptRecords
  <2> QED BY <1>0, <2>1, <2>2, <2>3, <2>4, WalkMoves
<1> QED BY <1>1, <1>2

(* What an error, or an abort in a request, leaves of a walk.              *)
LEMMA UnwoundIs ==
    ASSUME PagedInv, NEW w \in Walks, walk[w].stage = "sent", NEW code \in {"sql", "auth", "network", "cancelled", "timeout"},
           NEW lost \in BOOLEAN
    PROVE  LET r == Unwound(w, code, lost)
           IN  /\ r \in WalkRecords
               /\ r.stage = IF engine = "elastic" /\ walk[w].more THEN "closing" ELSE "done"
               /\ r.on = NoWalk /\ r.stop = walk[w].stop /\ r.code = code /\ r.limit = walk[w].limit
               /\ r.lost = (walk[w].lost \/ lost) /\ r.taken = walk[w].taken
               /\ r.missed = walk[w].missed /\ r.truncated = walk[w].truncated
               /\ r.form = walk[w].form \/ (walk[w].form = "search" /\ r.form = "sql")
               /\ r.stage = "closing" => r.more
<1> DEFINE q == [walk[w] EXCEPT !.code = code, !.lost = @ \/ lost,
                                !.stage = IF engine = "elastic" /\ walk[w].more THEN "closing" ELSE "done"]
<1>1. walk[w] \in WalkRecords /\ walk[w].on = NoWalk
  BY WalkTyped
<1>4. q \in WalkRecords
  BY <1>1, FieldSet DEF Stages, Codes
<1>2. /\ q.stage = (IF engine = "elastic" /\ walk[w].more THEN "closing" ELSE "done")
      /\ q.code = code /\ q.limit = walk[w].limit /\ q.on = NoWalk /\ q.more = walk[w].more
      /\ q.taken = walk[w].taken /\ q.missed = walk[w].missed /\ q.truncated = walk[w].truncated
      /\ q.stop = walk[w].stop /\ q.lost = (walk[w].lost \/ lost) /\ q.form = walk[w].form
  BY <1>1 DEF WalkRecords
<1>3. Unwound(w, code, lost) = Over(q)
  BY DEF Unwound
<1> HIDE DEF q
<1> QED BY <1>2, <1>3, <1>4, OverIs

LEMMA UnwoundInv ==
    ASSUME PagedInv, NEW w \in Walks, walk[w].stage = "sent", NEW code \in {"sql", "auth", "network", "cancelled", "timeout"},
           NEW lost \in BOOLEAN, NEW k \in KeptRecords, k.pages = kept[w].pages,
           IF walk[w].more THEN k.state = "open" \/ engine = "trino" ELSE lost \/ k.state # "open",
           lost \/ k.state # "open" \/ engine = "elastic"
    PROVE  WalkInv(Unwound(w, code, lost), k, engine, alive)
<1>1. walk[w] \in WalkRecords /\ WalkInv(walk[w], kept[w], engine, alive) /\ kept[w] \in KeptRecords /\ engine \in {"trino", "elastic"}
  BY WalkTyped
<1> DEFINE r == Unwound(w, code, lost)
<1>2. /\ r \in WalkRecords
      /\ r.stage = IF engine = "elastic" /\ walk[w].more THEN "closing" ELSE "done"
      /\ r.on = NoWalk /\ r.stop = walk[w].stop /\ r.code = code /\ r.limit = walk[w].limit
      /\ r.lost = (walk[w].lost \/ lost) /\ r.taken = walk[w].taken
      /\ r.missed = walk[w].missed /\ r.truncated = walk[w].truncated
      /\ r.form = walk[w].form \/ (walk[w].form = "search" /\ r.form = "sql")
      /\ r.stage = "closing" => r.more
  BY UnwoundIs
<1> HIDE DEF r
<1>3. WalkInv(r, k, engine, alive)
  BY <1>1, <1>2, RowsAreCounted, RowsGrow DEF WalkInv, WalkRecords, KeptRecords
<1> QED BY <1>3 DEF r

LEMMA ErrorsInv ==
    ASSUME PagedInv, NEW w \in Walks, NEW code \in {"sql", "auth", "network", "timeout"}, NEW started \in BOOLEAN,
           PageFailed(w) \/ ClusterRefuses(w, code) \/ RequestLost(w, started) \/ SendFails(w, started)
    PROVE  PagedInv'
<1>0. /\ walk[w].stage = "sent" /\ walk[w] \in WalkRecords /\ WalkInv(walk[w], kept[w], engine, alive)
      /\ kept[w] \in KeptRecords /\ kept \in [Walks -> KeptRecords]
  BY WalkTyped DEF PageFailed, ClusterRefuses, RequestLost, SendFails, Unanswered
<1> SUFFICES ASSUME NEW c \in {"sql", "auth", "network", "timeout"}, NEW lost \in BOOLEAN,
                    Becomes(w, Unwound(w, c, lost)), UNCHANGED <<engine, alive, token, login, current>>,
                    kept' \in [Walks -> KeptRecords], \A v \in Walks \ {w} : kept'[v] = kept[v],
                    kept'[w].pages = kept[w].pages,
                    IF walk[w].more THEN kept'[w].state = "open" \/ engine = "trino" ELSE lost \/ kept'[w].state # "open",
                    lost \/ kept'[w].state # "open" \/ engine = "elastic"
             PROVE  PagedInv'
  <2>1. CASE PageFailed(w)
    <3>1. /\ kept' \in [Walks -> KeptRecords] /\ kept'[w].pages = kept[w].pages /\ kept'[w].state = "over"
          /\ \A v \in Walks \ {w} : kept'[v] = kept[v]
      BY <1>0, <2>1 DEF PageFailed, KeptRecords
    <3> QED BY <2>1, <3>1 DEF PageFailed
  <2>2. CASE ClusterRefuses(w, code)
    <3>1. /\ kept' \in [Walks -> KeptRecords] /\ kept'[w].pages = kept[w].pages
          /\ kept'[w].state = IF kept[w].pages = 0 THEN "over" ELSE kept[w].state
          /\ \A v \in Walks \ {w} : kept'[v] = kept[v]
      BY <1>0, <2>2 DEF ClusterRefuses, KeptRecords
    <3>2. IF walk[w].more THEN kept'[w].state = "open" ELSE kept'[w].state # "open"
      BY <1>0, <3>1 DEF WalkInv, KeptRecords, WalkRecords
    <3> QED BY <2>2, <3>1, <3>2 DEF ClusterRefuses
  <2>3. CASE RequestLost(w, started) \/ SendFails(w, started)
    <3>1. Unanswered(w, started)
      BY <2>3 DEF RequestLost, SendFails
    <3>2. /\ kept' \in [Walks -> KeptRecords] /\ kept'[w].pages = kept[w].pages
          /\ kept'[w].state \in {kept[w].state, "open"}
          /\ \A v \in Walks \ {w} : kept'[v] = kept[v]
      BY <1>0, <3>1 DEF Unanswered, KeptRecords
    <3>3. walk[w].more => kept'[w].state = "open"
      BY <1>0, <3>2 DEF WalkInv
    <3> QED BY <3>1, <3>2, <3>3 DEF Unanswered
  <2> QED BY <2>1, <2>2, <2>3
<1>1. kept'[w] \in KeptRecords
  OBVIOUS
<1>2. WalkInv(Unwound(w, c, lost), kept'[w], engine, alive)
  BY <1>0, <1>1, UnwoundInv
<1> QED BY <1>0, <1>1, <1>2, UnwoundIs, WalkMoves

(* Never more rows than the limit allows, nor than the page had.           *)
LEMMA TakenIs ==
    ASSUME PagedInv, NEW w \in Walks, NEW rows \in 0..PageRows
    PROVE  /\ Taken(w, rows) \in Nat /\ Taken(w, rows) <= rows /\ Taken(w, rows) <= PageRows
           /\ walk[w].taken \in Nat /\ walk[w].limit \in Nat /\ walk[w].taken + Taken(w, rows) <= walk[w].limit
<1>1. walk[w].taken \in Nat /\ walk[w].limit \in Nat /\ walk[w].taken <= walk[w].limit /\ PageRows \in Nat
  BY WalkTyped, RowsAreCounted, Bounds DEF WalkInv
<1> QED BY <1>1 DEF Taken

LEMMA PageArrivesInv ==
    ASSUME PagedInv, NEW w \in Walks, NEW rows \in 0..PageRows, NEW more \in BOOLEAN, PageArrives(w, rows, more)
    PROVE  PagedInv'
<1> DEFINE n == walk[w].taken + Taken(w, rows)
           cut == Taken(w, rows) < rows
           tr == walk[w].truncated \/ cut
           mi == walk[w].missed \/ cut
           q == [walk[w] EXCEPT !.stage = "page", !.more = more, !.taken = n, !.retried = FALSE, !.truncated = tr, !.missed = mi]
<1>0. /\ walk[w] \in WalkRecords /\ kept[w] \in KeptRecords /\ kept \in [Walks -> KeptRecords]
      /\ WalkInv(walk[w], kept[w], engine, alive) /\ walk[w].on = NoWalk /\ walk[w].stage = "sent"
      /\ walk[w].form = "sql" /\ kept[w].pages < MaxPages /\ MaxPages \in Nat /\ kept[w].pages \in Nat
  BY WalkTyped, PagedAssumption DEF PageArrives, KeptRecords
<1>1. n \in Nat /\ n <= walk[w].limit /\ n <= RowsIn(kept[w].pages) + PageRows /\ walk[w].taken \in Nat
  <2>1. /\ Taken(w, rows) \in Nat /\ Taken(w, rows) <= PageRows
        /\ walk[w].taken \in Nat /\ walk[w].limit \in Nat /\ n <= walk[w].limit
    BY TakenIs
  <2>2. walk[w].taken <= RowsIn(kept[w].pages) /\ RowsIn(kept[w].pages) \in Nat /\ PageRows \in Nat
    BY <1>0, RowsGrow, Bounds DEF WalkInv
  <2> QED BY <2>1, <2>2
<1>2. n <= RowsIn(kept[w].pages + 1) /\ n \in 0..MaxTaken
  <2>1. /\ RowsIn(kept[w].pages) + PageRows = RowsIn(kept[w].pages + 1) /\ RowsIn(kept[w].pages + 1) \in Nat
        /\ RowsIn(kept[w].pages + 1) <= MaxTaken /\ MaxTaken \in Nat
    BY <1>0, OneMorePage, Bounds
  <2> HIDE DEF n
  <2> QED BY <1>1, <2>1
<1>3. tr \in BOOLEAN /\ mi \in BOOLEAN /\ (mi => tr)
  <2>1. walk[w].missed => walk[w].truncated
    BY <1>0 DEF WalkInv
  <2> QED BY <2>1
<1>4. Becomes(w, q)
  BY <1>0 DEF PageArrives, WalkRecords, Becomes
<1>5. /\ kept' \in [Walks -> KeptRecords] /\ kept'[w].pages = kept[w].pages + 1
      /\ kept'[w].state = (IF more THEN "open" ELSE "over")
      /\ \A v \in Walks \ {w} : kept'[v] = kept[v]
  BY <1>0 DEF PageArrives, KeptRecords
<1> HIDE DEF n, tr, mi
<1>6. q \in WalkRecords
  BY <1>0, <1>2, <1>3, FieldSet DEF Stages
<1>7. /\ q.stage = "page" /\ q.more = more /\ q.taken = n /\ q.truncated = tr /\ q.missed = mi /\ q.on = walk[w].on
      /\ q.limit = walk[w].limit /\ q.form = walk[w].form /\ q.stop = walk[w].stop /\ q.code = walk[w].code
  BY <1>0 DEF WalkRecords
<1>8. walk[w].code = "none" /\ (engine = "elastic" => walk[w].stop # "timer")
  BY <1>0 DEF WalkInv
<1> HIDE DEF q
<1>9. WalkInv(q, kept'[w], engine, alive)
  BY <1>0, <1>1, <1>2, <1>3, <1>5, <1>7, <1>8 DEF WalkInv
<1>10. UNCHANGED <<engine, alive, token, login, current>>
  BY DEF PageArrives
<1> QED BY <1>0, <1>4, <1>5, <1>6, <1>7, <1>8, <1>9, <1>10, WalkMoves

LEMMA HitsArriveInv ==
    ASSUME PagedInv, NEW w \in Walks, NEW hits \in 0..PageRows, NEW matching \in 0..PageRows, NEW counted \in BOOLEAN,
           HitsArrive(w, hits, matching, counted)
    PROVE  PagedInv'
<1> DEFINE n == Taken(w, hits)
           fo == IF counted THEN walk[w].form ELSE "uncounted"
           tr == n < TotalOf(hits, matching, counted)
           mi == n < matching
           q == [walk[w] EXCEPT !.stage = "page", !.taken = n, !.form = fo, !.truncated = tr, !.missed = mi]
<1>0. /\ walk[w] \in WalkRecords /\ kept[w] \in KeptRecords /\ kept \in [Walks -> KeptRecords]
      /\ WalkInv(walk[w], kept[w], engine, alive) /\ walk[w].on = NoWalk /\ walk[w].stage = "sent"
      /\ walk[w].form = "search" /\ MaxPages \in Nat \ {0} /\ engine \in {"trino", "elastic"}
  BY WalkTyped, Bounds DEF HitsArrive, KeptRecords
<1>1. n \in Nat /\ n <= walk[w].limit /\ n <= RowsIn(1) /\ n \in 0..MaxTaken
  <2>1. n \in Nat /\ n <= PageRows /\ n <= walk[w].limit
    BY TakenIs
  <2>2. RowsIn(1) = PageRows /\ PageRows <= MaxTaken /\ MaxTaken \in Nat /\ PageRows \in Nat
    <3>1. 0 \in Nat /\ 0 < MaxPages /\ 0 + 1 = 1
      BY <1>0
    <3> QED BY <3>1, OneMorePage, Bounds
  <2> HIDE DEF n
  <2> QED BY <2>1, <2>2
<1>2. tr \in BOOLEAN /\ mi \in BOOLEAN /\ (mi => tr \/ fo = "uncounted") /\ fo \in {"search", "uncounted"}
  BY <1>0 DEF TotalOf
<1>3. Becomes(w, q)
  BY <1>0 DEF HitsArrive, WalkRecords, Becomes
<1>4. /\ kept' \in [Walks -> KeptRecords] /\ kept'[w].pages = 1 /\ kept'[w].state = "over"
      /\ \A v \in Walks \ {w} : kept'[v] = kept[v]
  BY <1>0 DEF HitsArrive, KeptRecords
<1> HIDE DEF n, tr, mi, fo
<1>5. q \in WalkRecords
  BY <1>0, <1>1, <1>2, FieldSet DEF Stages
<1>6. /\ q.stage = "page" /\ q.more = walk[w].more /\ q.taken = n /\ q.truncated = tr /\ q.missed = mi /\ q.on = walk[w].on
      /\ q.limit = walk[w].limit /\ q.form = fo /\ q.stop = walk[w].stop /\ q.code = walk[w].code
  BY <1>0 DEF WalkRecords
<1>7. walk[w].code = "none" /\ ~walk[w].more /\ engine = "elastic" /\ walk[w].stop # "timer"
  BY <1>0 DEF WalkInv
<1> HIDE DEF q
<1>8. WalkInv(q, kept'[w], engine, alive)
  BY <1>0, <1>1, <1>2, <1>4, <1>6, <1>7 DEF WalkInv
<1>9. UNCHANGED <<engine, alive, token, login, current>>
  BY DEF HitsArrive
<1> QED BY <1>0, <1>3, <1>4, <1>5, <1>6, <1>7, <1>8, <1>9, WalkMoves

LEMMA AbandonedInv == ASSUME PagedInv, NEW w \in Walks, Abandoned(w) PROVE PagedInv'
<1> DEFINE q == [walk[w] EXCEPT !.stage = "forgotten"]
<1>0. /\ walk[w] \in WalkRecords /\ kept[w] \in KeptRecords /\ kept \in [Walks -> KeptRecords]
      /\ WalkInv(walk[w], kept[w], engine, alive) /\ walk[w].on = NoWalk /\ walk[w].stage = "page"
      /\ Becomes(w, q) /\ UNCHANGED <<engine, alive, token, login, current, kept>>
  BY WalkTyped DEF Abandoned
<1>1. q \in WalkRecords
  BY <1>0, FieldSet DEF Stages
<1>2. /\ q.stage = "forgotten" /\ q.more = walk[w].more /\ q.taken = walk[w].taken /\ q.truncated = walk[w].truncated
      /\ q.missed = walk[w].missed /\ q.on = walk[w].on /\ q.limit = walk[w].limit /\ q.form = walk[w].form
      /\ q.stop = walk[w].stop /\ q.code = walk[w].code
  BY <1>0 DEF WalkRecords
<1> HIDE DEF q
<1>3. WalkInv(q, kept[w], engine, alive)
  BY <1>0, <1>2 DEF WalkInv
<1> QED BY <1>0, <1>1, <1>2, <1>3, WalkMoves

(* The walk goes on to the next request.                                   *)
LEMMA SendsOn ==
    ASSUME PagedInv, NEW w \in Walks, walk[w].stage = "page", walk[w].more, Becomes(w, Sent(w)),
           UNCHANGED <<engine, alive, token, login, current, kept>>
    PROVE  PagedInv'
<1> DEFINE q == Sent(w)
<1>0. /\ walk[w] \in WalkRecords /\ kept[w] \in KeptRecords /\ kept \in [Walks -> KeptRecords]
      /\ WalkInv(walk[w], kept[w], engine, alive)
  BY WalkTyped
<1>1. /\ q \in WalkRecords /\ q.stage = "sent" /\ q.on = NoWalk /\ q.more = walk[w].more
      /\ q.taken = walk[w].taken /\ q.missed = walk[w].missed /\ q.truncated = walk[w].truncated /\ q.limit = walk[w].limit
      /\ q.form = walk[w].form /\ q.stop = walk[w].stop /\ q.code = walk[w].code
  BY SentIs
<1> HIDE DEF q
<1>2. q.more
  BY <1>1
<1>3. WalkInv(q, kept[w], engine, alive)
  BY <1>0, <1>1, <1>2 DEF WalkInv
<1>4. Becomes(w, q)
  BY DEF q
<1> QED BY <1>0, <1>1, <1>3, <1>4, WalkMoves

(* A walk ends, or turns to closing its cursor, between two pages.         *)
LEMMA StopsHere ==
    ASSUME PagedInv, NEW w \in Walks, walk[w].stage = "page", NEW q \in WalkRecords, Becomes(w, q),
           q.on = NoWalk, q.limit = walk[w].limit, q.taken = walk[w].taken, q.missed = walk[w].missed, q.stop = walk[w].stop,
           walk[w].truncated => q.truncated, q.form = walk[w].form \/ (walk[w].form = "search" /\ q.form = "sql"),
           q.code # "none", q.code = "cancelled" => walk[w].stop = "user",
           kept' \in [Walks -> KeptRecords], \A v \in Walks \ {w} : kept'[v] = kept[v], kept'[w].pages = kept[w].pages,
           UNCHANGED <<engine, alive, token, login, current>>,
           \/ q.stage = "done" /\ kept'[w].state # "open"
           \/ q.stage = "closing" /\ q.more /\ walk[w].more /\ engine = "elastic" /\ kept' = kept,
           q.code = "ok" => q.truncated \/ kept'[w].state = "over"
    PROVE  PagedInv'
<1>0. /\ walk[w] \in WalkRecords /\ kept[w] \in KeptRecords
      /\ WalkInv(walk[w], kept[w], engine, alive)
  BY WalkTyped
<1>1. q.form = "sql" \/ (engine # "trino" /\ q.form # "search" /\ ~walk[w].more) \/ (q.form = "search" /\ engine # "trino" /\ ~walk[w].more)
  BY <1>0 DEF WalkInv, WalkRecords
<1>2. q.missed => q.truncated \/ q.form = "uncounted"
  BY <1>0 DEF WalkInv
<1>3. WalkInv(q, kept'[w], engine, alive)
  BY <1>0, <1>1, <1>2 DEF WalkInv
<1> QED BY <1>0, <1>3, WalkMoves

LEMMA NextTrinoInv == ASSUME PagedInv, NEW w \in Walks, NEW reached \in BOOLEAN, NextTrino(w, reached) PROVE PagedInv'
<1> DEFINE stopped == walk[w].more /\ walk[w].stop # "no"
           full == walk[w].more /\ ~stopped /\ walk[w].taken >= walk[w].limit
           code == IF stopped THEN Stopped(w) ELSE "ok"
           e == EndsWith(w, code)
           tr == e.truncated \/ full
           q == [e EXCEPT !.truncated = tr]
<1>0. /\ walk[w] \in WalkRecords /\ kept[w] \in KeptRecords /\ kept \in [Walks -> KeptRecords]
      /\ WalkInv(walk[w], kept[w], engine, alive) /\ walk[w].on = NoWalk /\ walk[w].stage = "page"
      /\ engine = "trino" /\ UNCHANGED <<engine, alive, token, login, current>>
      /\ kept' = IF Owed(w) THEN [kept EXCEPT ![w].state = IF reached THEN "dropped" ELSE "unheard"] ELSE kept
  BY WalkTyped DEF NextTrino
<1>1. CASE walk[w].more /\ ~stopped /\ ~full
  <2>1. Becomes(w, Sent(w)) /\ ~Owed(w)
    BY <1>1 DEF NextTrino, Owed
  <2> QED BY <1>0, <1>1, <2>1, SendsOn
<1>2. CASE ~(walk[w].more /\ ~stopped /\ ~full)
  <2>1. code \in Codes \ {"none"} /\ (code = "cancelled" => walk[w].stop = "user") /\ (code = "ok" => ~stopped)
    <3>1. stopped => walk[w].stop \in {"user", "timer"}
      BY <1>0 DEF WalkRecords
    <3> QED BY <3>1 DEF Stopped, Codes
  <2>2. Becomes(w, q)
    BY <1>2 DEF NextTrino
  <2>3. Owed(w) <=> walk[w].more
    BY <1>2 DEF Owed
  <2>4. /\ kept' \in [Walks -> KeptRecords] /\ \A v \in Walks \ {w} : kept'[v] = kept[v]
        /\ kept'[w].pages = kept[w].pages
        /\ walk[w].more => kept'[w].state # "open"
        /\ ~walk[w].more => kept'[w].state = kept[w].state
    BY <1>0, <2>3 DEF KeptRecords
  <2>5. kept'[w].state # "open" /\ (~walk[w].more => kept'[w].state = "over")
    BY <1>0, <2>4 DEF WalkInv
  <2> HIDE DEF code
  <2>6. /\ e \in WalkRecords /\ e.stage = "done" /\ e.code = code /\ e.on = NoWalk /\ e.limit = walk[w].limit
        /\ e.taken = walk[w].taken /\ e.missed = walk[w].missed /\ e.truncated = walk[w].truncated /\ e.stop = walk[w].stop
        /\ e.form = walk[w].form \/ (walk[w].form = "search" /\ e.form = "sql")
    BY <2>1, EndsWithIs
  <2> HIDE DEF e
  <2>7. tr \in BOOLEAN /\ (walk[w].truncated => tr) /\ (code = "ok" /\ walk[w].more => tr)
    BY <1>2, <2>1, <2>6
  <2> HIDE DEF tr
  <2>8. q \in WalkRecords
    BY <2>6, <2>7, FieldSet
  <2>9. /\ q.stage = "done" /\ q.code = code /\ q.on = NoWalk /\ q.limit = walk[w].limit
        /\ q.taken = walk[w].taken /\ q.missed = walk[w].missed /\ q.truncated = tr /\ q.stop = walk[w].stop
        /\ q.form = walk[w].form \/ (walk[w].form = "search" /\ q.form = "sql")
    BY <2>6 DEF WalkRecords
  <2> HIDE DEF q
  <2>10. code # "none"
    BY <2>1
  <2> QED BY <1>0, <2>1, <2>2, <2>4, <2>5, <2>7, <2>8, <2>9, <2>10, StopsHere
<1> QED BY <1>1, <1>2

LEMMA NextElasticInv == ASSUME PagedInv, NEW w \in Walks, NextElastic(w) PROVE PagedInv'
<1> DEFINE full == walk[w].taken >= walk[w].limit
           ended == ~walk[w].more \/ full
           code == IF ended THEN "ok" ELSE IF ~alive THEN "internal" ELSE "cancelled"
           st == IF ClosesAfter(w) THEN "closing" ELSE "done"
           tr == walk[w].truncated \/ (full /\ walk[w].more)
           e == [walk[w] EXCEPT !.stage = st, !.code = code, !.truncated = tr]
           q == Over(e)
<1>0. /\ walk[w] \in WalkRecords /\ kept[w] \in KeptRecords /\ kept \in [Walks -> KeptRecords]
      /\ WalkInv(walk[w], kept[w], engine, alive) /\ walk[w].on = NoWalk /\ walk[w].stage = "page"
      /\ engine = "elastic" /\ UNCHANGED <<engine, alive, token, login, current, kept>>
  BY WalkTyped DEF NextElastic
<1>1. CASE ~(ended \/ ~alive \/ walk[w].stop # "no")
  <2>1. Becomes(w, Sent(w)) /\ walk[w].more
    BY <1>1 DEF NextElastic
  <2> QED BY <1>0, <2>1, SendsOn
<1>2. CASE ended \/ ~alive \/ walk[w].stop # "no"
  <2>1. /\ code \in {"ok", "internal", "cancelled"} /\ (code = "ok" => ended)
        /\ (code = "cancelled" => walk[w].stop # "no")
    BY <1>2
  <2>2. code = "cancelled" => walk[w].stop = "user"
    <3>1. walk[w].stop \in {"no", "user"}
      BY <1>0 DEF WalkInv, WalkRecords
    <3> QED BY <2>1, <3>1
  <2>3. Becomes(w, q)
    BY <1>2, <1>0 DEF NextElastic, WalkRecords, Becomes
  <2>4. st = (IF walk[w].more THEN "closing" ELSE "done") /\ st \in {"closing", "done"}
    BY DEF ClosesAfter
  <2>5. tr \in BOOLEAN /\ (walk[w].truncated => tr) /\ (code = "ok" /\ walk[w].more => tr)
    BY <2>1
  <2> HIDE DEF code, tr, st
  <2>6. e \in WalkRecords
    BY <1>0, <2>1, <2>4, <2>5, FieldSet DEF Stages, Codes
  <2>7. /\ e.stage = st /\ e.code = code /\ e.on = NoWalk /\ e.limit = walk[w].limit /\ e.more = walk[w].more
        /\ e.taken = walk[w].taken /\ e.missed = walk[w].missed /\ e.truncated = tr /\ e.stop = walk[w].stop
        /\ e.form = walk[w].form
    BY <1>0 DEF WalkRecords
  <2> HIDE DEF e
  <2>8. /\ q \in WalkRecords /\ q.stage = e.stage /\ q.limit = e.limit /\ q.taken = e.taken /\ q.missed = e.missed
        /\ q.truncated = e.truncated /\ q.stop = e.stop /\ q.code = e.code
        /\ q.form = e.form \/ (e.form = "search" /\ q.form = "sql")
    BY <2>6, OverIs
  <2>9. q.on = NoWalk /\ (q.stage = "closing" => q.more = e.more)
    BY <2>4, <2>6, <2>7, OverIs
  <2> HIDE DEF q
  <2>10. /\ \/ q.stage = "done" /\ kept[w].state # "open"
            \/ q.stage = "closing" /\ q.more /\ walk[w].more
         /\ q.code = "ok" => q.truncated \/ kept[w].state = "over"
    <3>1. CASE walk[w].more
      BY <2>4, <2>5, <2>7, <2>8, <2>9, <3>1
    <3>2. CASE ~walk[w].more
      <4>1. kept[w].state = "over"
        BY <1>0, <3>2 DEF WalkInv
      <4> QED BY <2>4, <2>7, <2>8, <3>2, <4>1
    <3> QED BY <3>1, <3>2
  <2> QED BY <1>0, <2>1, <2>2, <2>3, <2>5, <2>7, <2>8, <2>9, <2>10, StopsHere
<1> QED BY <1>1, <1>2

LEMMA CursorClosedInv == ASSUME PagedInv, NEW w \in Walks, NEW reached \in BOOLEAN, CursorClosed(w, reached) PROVE PagedInv'
<1> DEFINE q == EndsWith(w, walk[w].code)
           s == IF reached THEN "dropped" ELSE IF alive THEN "unheard" ELSE kept[w].state
<1>0. /\ walk[w] \in WalkRecords /\ kept[w] \in KeptRecords /\ kept \in [Walks -> KeptRecords]
      /\ WalkInv(walk[w], kept[w], engine, alive) /\ walk[w].stage = "closing" /\ engine \in {"trino", "elastic"}
      /\ UNCHANGED <<engine, alive, token, login, current>> /\ Becomes(w, q)
  BY WalkTyped DEF CursorClosed
<1>1. /\ kept' \in [Walks -> KeptRecords] /\ \A v \in Walks \ {w} : kept'[v] = kept[v]
      /\ kept'[w].pages = kept[w].pages /\ kept'[w].state = s
  BY <1>0 DEF CursorClosed, KeptRecords
<1>2. s = "open" => ~alive
  OBVIOUS
<1>3. /\ engine = "elastic" /\ walk[w].code # "none" /\ (walk[w].code = "ok" => walk[w].truncated)
      /\ walk[w].stop # "timer" /\ walk[w].form = "sql"
  BY <1>0 DEF WalkInv
<1>4. walk[w].code \in Codes \ {"none"}
  BY <1>0, <1>3 DEF WalkRecords
<1>5. /\ q \in WalkRecords /\ q.stage = "done" /\ q.code = walk[w].code /\ q.on = NoWalk /\ q.limit = walk[w].limit
      /\ q.taken = walk[w].taken /\ q.missed = walk[w].missed /\ q.truncated = walk[w].truncated /\ q.stop = walk[w].stop
      /\ q.form = walk[w].form \/ (walk[w].form = "search" /\ q.form = "sql")
  BY <1>4, EndsWithIs
<1> HIDE DEF q, s
<1>6. WalkInv(q, kept'[w], engine, alive)
  BY <1>0, <1>1, <1>2, <1>3, <1>5 DEF WalkInv
<1> QED BY <1>0, <1>1, <1>5, <1>6, WalkMoves

(* What ends on a hop that was refused.                                    *)
LEMMA RefusedIs ==
    ASSUME PagedInv, NEW w \in Walks, walk[w].stage \in {"sent", "login"}, engine = "trino",
           NEW code \in {"auth", "cancelled", "timeout"}
    PROVE  LET r == Refused(w, code)
           IN  /\ r \in WalkRecords /\ r.stage = "done" /\ r.on = NoWalk /\ r.stop = walk[w].stop /\ r.code = code
               /\ WalkInv(r, kept[w], engine, alive)
<1> DEFINE e == EndsWith(w, code)
           r == Refused(w, code)
<1>0. walk[w] \in WalkRecords /\ WalkInv(walk[w], kept[w], engine, alive)
  BY WalkTyped
<1>1. code \in Codes \ {"none"}
  BY DEF Codes
<1>2. /\ e \in WalkRecords /\ e.stage = "done" /\ e.code = code /\ e.on = NoWalk /\ e.limit = walk[w].limit
      /\ e.taken = walk[w].taken /\ e.missed = walk[w].missed /\ e.truncated = walk[w].truncated /\ e.stop = walk[w].stop
      /\ e.form = walk[w].form \/ (walk[w].form = "search" /\ e.form = "sql")
  BY <1>1, EndsWithIs
<1>3. r = [e EXCEPT !.lost = TRUE]
  BY DEF Refused
<1> HIDE DEF e, r
<1>4. r \in WalkRecords
  BY <1>2, <1>3, FieldSet
<1>5. /\ r.stage = "done" /\ r.code = code /\ r.on = NoWalk /\ r.limit = walk[w].limit /\ r.lost = TRUE
      /\ r.taken = walk[w].taken /\ r.missed = walk[w].missed /\ r.truncated = walk[w].truncated /\ r.stop = walk[w].stop
      /\ r.form = walk[w].form \/ (walk[w].form = "search" /\ r.form = "sql")
  BY <1>2, <1>3 DEF WalkRecords
<1>6. walk[w].form = "sql"
  BY <1>0 DEF WalkInv
<1>7. WalkInv(r, kept[w], engine, alive)
  BY <1>0, <1>5, <1>6 DEF WalkInv
<1> QED BY <1>4, <1>5, <1>7 DEF r

(* The one login there is, and who waits for it.                           *)
LEMMA TheLogin ==
    ASSUME PagedInv, NEW w \in Walks, login[w] # "none"
    PROVE  /\ current = w /\ engine = "trino" /\ walk[w].stage = "login" /\ walk[w].on = w
           /\ \A v \in Walks : walk[v].on \in {NoWalk, w} /\ (walk[v].on = w <=> walk[v].stage = "login")
           /\ \A v \in Walks \ {w} : login[v] = "none"
<1>1. current = w /\ w # NoWalk
  BY PagedAssumption DEF PagedInv, LoginInv
<1>2. walk[w].stage = "login" /\ walk[w].on = w
  BY <1>1 DEF PagedInv, PagedTypeOK, LoginInv
<1>3. engine = "trino"
  BY <1>2, WalkTyped DEF WalkInv
<1>4. \A v \in Walks : walk[v].on \in {NoWalk, w} /\ (walk[v].on = w <=> walk[v].stage = "login")
  BY <1>1, PagedAssumption DEF PagedInv, PagedTypeOK, LoginInv
<1>5. \A v \in Walks \ {w} : login[v] = "none"
  BY <1>1 DEF PagedInv, LoginInv
<1> QED BY <1>1, <1>2, <1>3, <1>4, <1>5

(* The login is over: nobody waits for one any more, and whoever is told   *)
(* it was cancelled either was stopped, or shared it with one that was.    *)
LEMMA LoginEnds ==
    ASSUME PagedInv, NEW w \in Walks, login[w] # "none", LoginOver(w), walk' \in [Walks -> WalkRecords],
           token' \in Tokens, UNCHANGED <<engine, alive, kept>>,
           \A v \in Walks : walk[v].on # w => walk'[v] = walk[v],
           \A v \in Walks : walk[v].on = w =>
               /\ walk'[v].on = NoWalk /\ walk'[v].stage # "login" /\ WalkInv(walk'[v], kept[v], engine, alive)
               /\ walk[v].stop # "no" => walk'[v].stop # "no"
               /\ walk'[v].code = "cancelled" /\ walk'[v].stop # "user" => v # w /\ walk'[w].stop # "no"
    PROVE  PagedInv'
<1>1. /\ current = w /\ engine = "trino" /\ walk[w].on = w /\ w # NoWalk
      /\ \A v \in Walks : walk[v].on \in {NoWalk, w} /\ (walk[v].on = w <=> walk[v].stage = "login")
      /\ \A v \in Walks \ {w} : login[v] = "none"
  BY TheLogin, PagedAssumption
<1>2. current' = NoWalk /\ login' \in [Walks -> {"none", "asking", "polling"}] /\ \A v \in Walks : login'[v] = "none"
  BY <1>1 DEF LoginOver, PagedInv, PagedTypeOK
<1>3. \A v \in Walks : walk'[v].on = NoWalk /\ walk'[v].stage # "login"
  BY <1>1
<1>4. PagedTypeOK'
  BY <1>2, <1>3 DEF PagedInv, PagedTypeOK, WalkRecords, MaxTaken, RowsIn, Stages, Tokens, Codes
<1>5. LoginInv'
  BY <1>2, <1>3 DEF LoginInv
<1>6. CancelIsSomebodys'
  <2> SUFFICES ASSUME NEW v \in Walks, walk'[v].code = "cancelled", walk'[v].stop # "user"
               PROVE  \E u \in Walks \ {v} : walk'[u].stop # "no"
    BY <1>1 DEF CancelIsSomebodys
  <2>1. CASE walk[v].on = w
    BY <2>1
  <2>2. CASE walk[v].on # w
    <3>1. PICK u \in Walks \ {v} : walk[u].stop # "no"
      BY <2>2 DEF PagedInv, CancelIsSomebodys
    <3>2. walk'[u].stop # "no"
      BY <3>1
    <3> QED BY <3>1, <3>2
  <2> QED BY <2>1, <2>2
<1>7. \A v \in Walks : WalkInv(walk'[v], kept'[v], engine', alive')
  BY DEF PagedInv
<1> QED BY <1>4, <1>5, <1>6, <1>7 DEF PagedInv

(* Everyone who waits for the login fails.                                 *)
LEMMA AllRefused ==
    ASSUME PagedInv, NEW w \in Walks, login[w] # "none", LoginOver(w), token' = token, UNCHANGED <<engine, alive, kept>>,
           NEW code \in [Walks -> {"auth", "cancelled", "timeout"}],
           Resumed(w, [v \in Walks |-> Refused(v, code[v])]),
           \A v \in Walks : code[v] = "cancelled" /\ walk[v].stop # "user" => v # w /\ walk[w].stop # "no"
    PROVE  PagedInv'
<1>1. /\ walk \in [Walks -> WalkRecords] /\ token' \in Tokens /\ engine = "trino" /\ walk[w].on = w
      /\ \A v \in Walks : walk[v].on = w => walk[v].stage = "login"
  BY TheLogin, WalkTyped DEF PagedInv, PagedTypeOK, WalkRecords, MaxTaken, RowsIn, Stages, Tokens, Codes
<1>2. walk' = [v \in Walks |-> IF walk[v].on = w THEN Refused(v, code[v]) ELSE walk[v]]
  BY DEF Resumed, Waiters
<1>3. \A v \in Walks : walk[v].on = w =>
          LET r == Refused(v, code[v])
          IN  /\ r \in WalkRecords /\ r.stage = "done" /\ r.on = NoWalk /\ r.stop = walk[v].stop /\ r.code = code[v]
              /\ WalkInv(r, kept[v], engine, alive)
  BY <1>1, RefusedIs
<1>4. walk' \in [Walks -> WalkRecords]
  BY <1>1, <1>2, <1>3
<1>5. \A v \in Walks : walk[v].on = w =>
          /\ walk'[v].on = NoWalk /\ walk'[v].stage # "login" /\ WalkInv(walk'[v], kept[v], engine, alive)
          /\ walk'[v].stop = walk[v].stop /\ walk'[v].code = code[v]
  BY <1>2, <1>3
<1> QED BY <1>1, <1>2, <1>4, <1>5, LoginEnds

LEMMA AskedInv == ASSUME PagedInv, NEW w \in Walks, NEW opened \in BOOLEAN, Asked(w, opened) PROVE PagedInv'
<1>0. login[w] = "asking" /\ UNCHANGED <<engine, alive, token, kept>>
  BY DEF Asked
<1>1. CASE opened /\ walk[w].stop = "no"
  <2>1. login' = [login EXCEPT ![w] = "polling"] /\ UNCHANGED <<current, walk>>
    BY <1>1 DEF Asked
  <2>2. PagedTypeOK' /\ LoginInv'
    BY <1>0, <2>1 DEF PagedInv, PagedTypeOK, LoginInv
  <2>3. CancelIsSomebodys' /\ \A v \in Walks : WalkInv(walk'[v], kept'[v], engine', alive')
    BY <1>0, <2>1 DEF PagedInv, CancelIsSomebodys
  <2> QED BY <2>2, <2>3 DEF PagedInv
<1>2. CASE opened /\ walk[w].stop # "no"
  <2> DEFINE code == [v \in Walks |-> Stopped(v)]
  <2>1. LoginOver(w) /\ Resumed(w, [v \in Walks |-> Refused(v, code[v])])
    BY <1>2 DEF Asked, LoginAborted, Resumed
  <2>2. code \in [Walks -> {"auth", "cancelled", "timeout"}]
    BY DEF Stopped
  <2>3. \A v \in Walks : code[v] = "cancelled" /\ walk[v].stop # "user" => v # w /\ walk[w].stop # "no"
    BY <1>2, WalkTyped DEF Stopped, WalkRecords
  <2> HIDE DEF code
  <2> QED BY <1>0, <2>1, <2>2, <2>3, AllRefused
<1>3. CASE ~opened
  <2> DEFINE code == [v \in Walks |-> "auth"]
  <2>1. LoginOver(w) /\ Resumed(w, [v \in Walks |-> Refused(v, code[v])])
    BY <1>3 DEF Asked, Resumed
  <2>2. code \in [Walks -> {"auth", "cancelled", "timeout"}] /\ \A v \in Walks : code[v] # "cancelled"
    OBVIOUS
  <2> HIDE DEF code
  <2> QED BY <1>0, <2>1, <2>2, AllRefused
<1> QED BY <1>1, <1>2, <1>3

LEMMA PolledInv == ASSUME PagedInv, NEW w \in Walks, NEW granted \in BOOLEAN, Polled(w, granted) PROVE PagedInv'
<1>0. login[w] = "polling" /\ LoginOver(w) /\ UNCHANGED <<engine, alive, kept>>
  BY DEF Polled
<1>1. CASE ~granted
  <2> DEFINE code == [v \in Walks |-> "auth"]
  <2>1. Resumed(w, [v \in Walks |-> Refused(v, code[v])]) /\ token' = token
    BY <1>1 DEF Polled, Resumed
  <2>2. code \in [Walks -> {"auth", "cancelled", "timeout"}] /\ \A v \in Walks : code[v] # "cancelled"
    OBVIOUS
  <2> HIDE DEF code
  <2> QED BY <1>0, <2>1, <2>2, AllRefused
<1>2. CASE granted
  <2> DEFINE sent(v) == [walk[v] EXCEPT !.stage = "sent", !.with = "good", !.on = NoWalk, !.retried = TRUE]
  <2>1. /\ walk \in [Walks -> WalkRecords] /\ engine = "trino" /\ walk[w].on = w
        /\ \A v \in Walks : walk[v].on = w => walk[v].stage = "login"
    BY <1>0, TheLogin DEF PagedInv, PagedTypeOK, WalkRecords, MaxTaken, RowsIn, Stages, Tokens, Codes
  <2>2. token' \in Tokens
    BY <1>2 DEF Polled, Tokens
  <2>3. walk' = [v \in Walks |-> IF walk[v].on = w THEN IF walk[v].stop = "no" THEN sent(v) ELSE Refused(v, Stopped(v))
                                                   ELSE walk[v]]
    BY <1>2 DEF Polled, Resumed, Waiters
  <2>4. ASSUME NEW v \in Walks, walk[v].on = w, walk[v].stop = "no"
        PROVE  /\ sent(v) \in WalkRecords /\ sent(v).on = NoWalk /\ sent(v).stage = "sent"
               /\ WalkInv(sent(v), kept[v], engine, alive) /\ sent(v).code = "none"
    <3>1. walk[v] \in WalkRecords /\ walk[v].stage = "login" /\ WalkInv(walk[v], kept[v], engine, alive)
      BY <2>1, <2>4, WalkTyped
    <3>2. sent(v) \in WalkRecords
      BY <3>1, FieldSet DEF Stages, Tokens
    <3>3. /\ sent(v).stage = "sent" /\ sent(v).on = NoWalk /\ sent(v).more = walk[v].more /\ sent(v).taken = walk[v].taken
          /\ sent(v).missed = walk[v].missed /\ sent(v).truncated = walk[v].truncated /\ sent(v).limit = walk[v].limit
          /\ sent(v).form = walk[v].form /\ sent(v).stop = walk[v].stop /\ sent(v).code = walk[v].code
      BY <3>1 DEF WalkRecords
    <3> HIDE DEF sent
    <3>4. WalkInv(sent(v), kept[v], engine, alive) /\ sent(v).code = "none"
      BY <2>1, <3>1, <3>3 DEF WalkInv
    <3> QED BY <3>2, <3>3, <3>4
  <2>5. ASSUME NEW v \in Walks, walk[v].on = w, walk[v].stop # "no"
        PROVE  LET r == Refused(v, Stopped(v))
               IN  /\ r \in WalkRecords /\ r.stage = "done" /\ r.on = NoWalk /\ r.stop = walk[v].stop
                   /\ WalkInv(r, kept[v], engine, alive) /\ (r.code = "cancelled" => r.stop = "user")
    <3>1. Stopped(v) \in {"auth", "cancelled", "timeout"} /\ (Stopped(v) = "cancelled" => walk[v].stop = "user")
      BY <2>5, WalkTyped DEF Stopped, WalkRecords
    <3> QED BY <2>1, <2>5, <3>1, RefusedIs
  <2> HIDE DEF sent
  <2>6. walk' \in [Walks -> WalkRecords]
    BY <2>1, <2>3, <2>4, <2>5
  <2>7. ASSUME NEW v \in Walks, walk[v].on = w
        PROVE  /\ walk'[v].on = NoWalk /\ walk'[v].stage # "login" /\ WalkInv(walk'[v], kept[v], engine, alive)
               /\ walk[v].stop # "no" => walk'[v].stop # "no"
               /\ walk'[v].code = "cancelled" => walk'[v].stop = "user"
    <3>1. CASE walk[v].stop = "no"
      <4>1. walk'[v] = sent(v)
        BY <2>3, <2>7, <3>1
      <4> QED BY <2>4, <2>7, <3>1, <4>1
    <3>2. CASE walk[v].stop # "no"
      <4>1. walk'[v] = Refused(v, Stopped(v))
        BY <2>3, <2>7, <3>2
      <4> QED BY <2>5, <2>7, <3>2, <4>1
    <3> QED BY <3>1, <3>2
  <2>8. \A v \in Walks : walk[v].on # w => walk'[v] = walk[v]
    BY <2>3
  <2> QED BY <1>0, <2>1, <2>2, <2>6, <2>7, <2>8, LoginEnds
<1> QED BY <1>1, <1>2

LEMMA UnauthorisedInv == ASSUME PagedInv, NEW w \in Walks, Unauthorised(w) PROVE PagedInv'
<1>0. /\ engine = "trino" /\ walk[w].stage = "sent" /\ UNCHANGED <<engine, alive, token, kept>>
      /\ walk[w] \in WalkRecords /\ kept[w] \in KeptRecords /\ kept \in [Walks -> KeptRecords]
      /\ WalkInv(walk[w], kept[w], engine, alive)
  BY WalkTyped DEF Unauthorised
<1>1. CASE walk[w].retried
  <2>1. Becomes(w, Refused(w, "auth")) /\ UNCHANGED <<login, current>>
    BY <1>1 DEF Unauthorised
  <2>2. LET r == Refused(w, "auth")
        IN  /\ r \in WalkRecords /\ r.stage = "done" /\ r.on = NoWalk /\ r.stop = walk[w].stop /\ r.code = "auth"
            /\ WalkInv(r, kept[w], engine, alive)
    BY <1>0, RefusedIs
  <2> QED BY <1>0, <2>1, <2>2, WalkMoves
<1>2. CASE ~walk[w].retried
  <2> DEFINE j == Joined(w)
             q == [walk[w] EXCEPT !.stage = "login", !.on = j]
  <2>1. /\ walk' = [walk EXCEPT ![w] = q] /\ current' = j
        /\ login' = IF j = w THEN [login EXCEPT ![w] = "asking"] ELSE login
    BY <1>2 DEF Unauthorised, Becomes
  <2>2. /\ walk \in [Walks -> WalkRecords] /\ current \in Walks \cup {NoWalk} /\ login \in [Walks -> {"none", "asking", "polling"}]
        /\ w # NoWalk
    BY PagedAssumption DEF PagedInv, PagedTypeOK, WalkRecords, MaxTaken, RowsIn, Stages, Tokens, Codes
  <2>3. /\ j \in Walks /\ j # NoWalk
        /\ j = w => current = NoWalk
        /\ j # w => current = j /\ login[j] # "none" /\ walk[j].on = j /\ walk[j].stage = "login"
    <3>1. CASE current = NoWalk
      BY <2>2, <3>1 DEF Joined
    <3>2. CASE current # NoWalk
      BY <1>0, <2>2, <3>2 DEF Joined, PagedInv, PagedTypeOK, LoginInv
    <3> QED BY <3>1, <3>2
  <2> HIDE DEF j
  <2>4. q \in WalkRecords
    BY <1>0, <2>3, FieldSet DEF Stages
  <2>5. /\ q.stage = "login" /\ q.on = j /\ q.more = walk[w].more /\ q.taken = walk[w].taken
        /\ q.missed = walk[w].missed /\ q.truncated = walk[w].truncated /\ q.limit = walk[w].limit
        /\ q.form = walk[w].form /\ q.stop = walk[w].stop /\ q.code = walk[w].code
    BY <1>0 DEF WalkRecords
  <2> HIDE DEF q
  <2>6. WalkInv(q, kept[w], engine, alive)
    BY <1>0, <2>5 DEF WalkInv
  <2>7. /\ walk' \in [Walks -> WalkRecords] /\ walk'[w] = q /\ \A v \in Walks \ {w} : walk'[v] = walk[v]
    BY <2>1, <2>2, <2>4
  <2>8. /\ login' \in [Walks -> {"none", "asking", "polling"}] /\ login'[j] # "none"
        /\ \A v \in Walks \ {j} : login'[v] = "none"
    <3>1. \A v \in Walks : login[v] # "none" => current = v
      BY DEF PagedInv, LoginInv
    <3>2. CASE j = w
      <4>1. login' = [login EXCEPT ![w] = "asking"] /\ current = NoWalk
        BY <2>1, <2>3, <3>2
      <4>2. \A v \in Walks : login[v] = "none"
        BY <2>2, <3>1, <4>1, PagedAssumption
      <4> QED BY <2>2, <3>2, <4>1, <4>2
    <3>3. CASE j # w
      BY <2>1, <2>2, <2>3, <3>1, <3>3
    <3> QED BY <3>2, <3>3
  <2>9. walk'[j].on = j /\ walk'[j].stage = "login"
    BY <2>3, <2>5, <2>7
  <2>10. \A v \in Walks : /\ walk'[v].on \in {NoWalk, j}
                          /\ walk'[v].stage = "login" <=> walk'[v].on # NoWalk
    <3>1. \A v \in Walks : walk[v].on \in {NoWalk, current} /\ (walk[v].stage = "login" <=> walk[v].on # NoWalk)
      BY DEF PagedInv, PagedTypeOK, LoginInv
    <3> QED BY <2>3, <2>5, <2>7, <3>1
  <2>11. PagedTypeOK'
    BY <1>0, <2>1, <2>3, <2>7, <2>8, <2>9, <2>10 DEF PagedInv, PagedTypeOK, WalkRecords, MaxTaken, RowsIn, Stages, Tokens, Codes
  <2>12. LoginInv'
    BY <2>1, <2>3, <2>8, <2>9, <2>10 DEF LoginInv
  <2>13. CancelIsSomebodys'
    BY <1>0, <2>5, <2>7 DEF PagedInv, CancelIsSomebodys
  <2>14. \A v \in Walks : WalkInv(walk'[v], kept'[v], engine', alive')
    BY <1>0, <2>6, <2>7 DEF PagedInv
  <2> QED BY <2>11, <2>12, <2>13, <2>14 DEF PagedInv
<1> QED BY <1>1, <1>2

(* Aborted in a request: whatever is left to do, it was stopped.           *)
LEMMA AbortSent ==
    ASSUME PagedInv, NEW w \in Walks, NEW why \in {"user", "timer"}, walk[w].stage = "sent", walk[w].stop = "no",
           engine = "elastic" => why = "user",
           Becomes(w, [Unwound(w, IF why = "timer" THEN "timeout" ELSE "cancelled", TRUE) EXCEPT !.stop = why]),
           UNCHANGED <<engine, alive, token, login, current, kept>>
    PROVE  PagedInv'
<1> DEFINE code == IF why = "timer" THEN "timeout" ELSE "cancelled"
           r == Unwound(w, code, TRUE)
           q == [r EXCEPT !.stop = why]
<1>0. /\ walk[w] \in WalkRecords /\ kept[w] \in KeptRecords /\ kept \in [Walks -> KeptRecords]
      /\ WalkInv(walk[w], kept[w], engine, alive) /\ engine \in {"trino", "elastic"}
  BY WalkTyped
<1>1. code \in {"cancelled", "timeout"} /\ (code = "cancelled" => why = "user") /\ Becomes(w, q)
  OBVIOUS
<1> HIDE DEF code
<1>2. IF walk[w].more THEN kept[w].state = "open" \/ engine = "trino" ELSE TRUE
  BY <1>0 DEF WalkInv
<1>3. /\ r \in WalkRecords /\ r.on = NoWalk /\ r.stop = walk[w].stop /\ r.code = code /\ r.stage \in {"closing", "done"}
      /\ WalkInv(r, kept[w], engine, alive)
  <2>1. code \in {"sql", "auth", "network", "cancelled", "timeout"} /\ TRUE \in BOOLEAN
    BY <1>1
  <2>2. r \in WalkRecords /\ r.on = NoWalk /\ r.stop = walk[w].stop /\ r.code = code /\ r.stage \in {"closing", "done"}
    <3>1. \A l \in BOOLEAN :
              LET u == Unwound(w, code, l)
              IN  /\ u \in WalkRecords /\ u.on = NoWalk /\ u.stop = walk[w].stop /\ u.code = code
                  /\ u.stage \in {"closing", "done"}
      BY <2>1, UnwoundIs
    <3> QED BY <3>1
  <2>3. WalkInv(r, kept[w], engine, alive)
    BY <1>0, <1>2, <2>1, UnwoundInv
  <2> QED BY <2>2, <2>3
<1> HIDE DEF r
<1>4. q \in WalkRecords
  BY <1>3, FieldSet
<1>5. /\ q.stop = why /\ q.on = NoWalk /\ q.stage = r.stage /\ q.code = r.code /\ q.limit = r.limit /\ q.taken = r.taken
      /\ q.missed = r.missed /\ q.truncated = r.truncated /\ q.form = r.form /\ q.more = r.more /\ q.lost = r.lost
  BY <1>3 DEF WalkRecords
<1> HIDE DEF q
<1>6. WalkInv(q, kept[w], engine, alive)
  BY <1>3, <1>5 DEF WalkInv
<1> QED BY <1>0, <1>1, <1>3, <1>4, <1>5, <1>6, WalkMoves

(* Aborted between two pages, or while somebody else runs its login: only  *)
(* noted.                                                                  *)
LEMMA AbortNoted ==
    ASSUME PagedInv, NEW w \in Walks, NEW why \in {"user", "timer"}, walk[w].stage \in {"login", "page"}, walk[w].stop = "no",
           engine = "elastic" => why = "user", Becomes(w, [walk[w] EXCEPT !.stop = why]),
           UNCHANGED <<engine, alive, token, login, current, kept>>
    PROVE  PagedInv'
<1> DEFINE q == [walk[w] EXCEPT !.stop = why]
<1>0. walk[w] \in WalkRecords /\ WalkInv(walk[w], kept[w], engine, alive)
  BY WalkTyped
<1>1. q \in WalkRecords
  BY <1>0, FieldSet
<1>2. /\ q.stop = why /\ q.on = walk[w].on /\ q.stage = walk[w].stage /\ q.code = walk[w].code /\ q.limit = walk[w].limit
      /\ q.taken = walk[w].taken /\ q.missed = walk[w].missed /\ q.truncated = walk[w].truncated /\ q.form = walk[w].form
      /\ q.more = walk[w].more /\ q.lost = walk[w].lost
  BY <1>0 DEF WalkRecords
<1>3. Becomes(w, q)
  OBVIOUS
<1> HIDE DEF q
<1>4. WalkInv(q, kept[w], engine, alive) /\ q.code = "none"
  BY <1>0, <1>2 DEF WalkInv
<1>5. /\ walk' \in [Walks -> WalkRecords] /\ walk'[w] = q /\ \A v \in Walks \ {w} : walk'[v] = walk[v]
  BY <1>1, <1>3, WalkTyped DEF Becomes
<1>6. PagedTypeOK'
  <2>1. \A v \in Walks : walk'[v].stage = walk[v].stage /\ walk'[v].on = walk[v].on
    BY <1>2, <1>5
  <2> QED BY <1>5, <2>1 DEF PagedInv, PagedTypeOK, WalkRecords, MaxTaken, RowsIn, Stages, Tokens, Codes
<1>7. LoginInv'
  <2>1. current # NoWalk => current \in Walks
    BY DEF PagedInv, PagedTypeOK
  <2> QED BY <1>2, <1>5, <2>1 DEF PagedInv, LoginInv
<1>8. CancelIsSomebodys'
  BY <1>2, <1>4, <1>5 DEF PagedInv, CancelIsSomebodys
<1>9. \A v \in Walks : WalkInv(walk'[v], kept'[v], engine', alive')
  BY <1>4, <1>5 DEF PagedInv
<1> QED BY <1>6, <1>7, <1>8, <1>9 DEF PagedInv

(* The one that runs the login is aborted in its poll: all who wait fail.  *)
LEMMA AbortPoll ==
    ASSUME PagedInv, NEW w \in Walks, NEW why \in {"user", "timer"}, login[w] = "polling", LoginOver(w),
           walk' = [v \in Walks |-> IF v = w THEN [Refused(w, IF why = "timer" THEN "timeout" ELSE "cancelled") EXCEPT !.stop = why]
                                    ELSE IF walk[v].on = w THEN Refused(v, Stopped(v)) ELSE walk[v]],
           UNCHANGED <<engine, alive, token, kept>>
    PROVE  PagedInv'
<1> DEFINE code == IF why = "timer" THEN "timeout" ELSE "cancelled"
           r == Refused(w, code)
           q == [r EXCEPT !.stop = why]
<1>0. /\ walk \in [Walks -> WalkRecords] /\ token' \in Tokens /\ engine = "trino" /\ walk[w].on = w /\ walk[w].stage = "login"
      /\ \A v \in Walks : walk[v].on = w => walk[v].stage = "login"
  BY TheLogin, WalkTyped DEF PagedInv, PagedTypeOK, WalkRecords, MaxTaken, RowsIn, Stages, Tokens, Codes
<1>1. code \in {"cancelled", "timeout"} /\ (code = "cancelled" => why = "user")
  OBVIOUS
<1>2. walk' = [v \in Walks |-> IF v = w THEN q ELSE IF walk[v].on = w THEN Refused(v, Stopped(v)) ELSE walk[v]]
  OBVIOUS
<1> HIDE DEF code
<1>3. r \in WalkRecords /\ r.stage = "done" /\ r.on = NoWalk /\ r.code = code /\ WalkInv(r, kept[w], engine, alive)
  BY <1>0, <1>1, RefusedIs
<1> HIDE DEF r
<1>4. q \in WalkRecords
  BY <1>3, FieldSet
<1>5. /\ q.stop = why /\ q.on = NoWalk /\ q.stage = r.stage /\ q.code = r.code /\ q.limit = r.limit /\ q.taken = r.taken
      /\ q.missed = r.missed /\ q.truncated = r.truncated /\ q.form = r.form /\ q.more = r.more /\ q.lost = r.lost
  BY <1>3 DEF WalkRecords
<1> HIDE DEF q
<1>6. WalkInv(q, kept[w], engine, alive)
  BY <1>0, <1>3, <1>5 DEF WalkInv
<1>7. ASSUME NEW v \in Walks, v # w, walk[v].on = w
      PROVE  LET p == Refused(v, Stopped(v))
             IN  /\ p \in WalkRecords /\ p.stage = "done" /\ p.on = NoWalk /\ p.stop = walk[v].stop
                 /\ WalkInv(p, kept[v], engine, alive)
  BY <1>0, <1>7, WalkTyped, RefusedIs
<1>8. walk' \in [Walks -> WalkRecords]
  BY <1>0, <1>2, <1>4, <1>7
<1>9. walk'[w] = q /\ \A v \in Walks : walk[v].on # w => walk'[v] = walk[v]
  BY <1>0, <1>2
<1>10. ASSUME NEW v \in Walks, walk[v].on = w
       PROVE  /\ walk'[v].on = NoWalk /\ walk'[v].stage # "login" /\ WalkInv(walk'[v], kept[v], engine, alive)
              /\ walk[v].stop # "no" => walk'[v].stop # "no"
              /\ walk'[v].code = "cancelled" /\ walk'[v].stop # "user" => v # w /\ walk'[w].stop # "no"
  <2>1. CASE v = w
    BY <1>1, <1>3, <1>5, <1>6, <1>9, <2>1
  <2>2. CASE v # w
    <3>1. walk'[v] = Refused(v, Stopped(v)) /\ walk'[w].stop # "no"
      BY <1>2, <1>5, <1>9, <1>10, <2>2
    <3> QED BY <1>7, <1>10, <2>2, <3>1
  <2> QED BY <2>1, <2>2
<1> QED BY <1>0, <1>8, <1>9, <1>10, LoginEnds

LEMMA AbortWalkInv == ASSUME PagedInv, NEW w \in Walks, NEW why \in {"user", "timer"}, AbortWalk(w, why) PROVE PagedInv'
<1> USE DEF AbortWalk
<1>0. /\ walk[w].stage \in {"sent", "login", "page"} /\ walk[w].stop = "no" /\ UNCHANGED <<engine, alive, token, kept>>
      /\ engine = "elastic" => why = "user"
  OBVIOUS
<1>1. CASE walk[w].stage = "sent"
  BY <1>0, <1>1, AbortSent
<1>2. CASE walk[w].stage \in {"login", "page"} /\ Becomes(w, [walk[w] EXCEPT !.stop = why]) /\ UNCHANGED <<login, current>>
  BY <1>0, <1>2, AbortNoted
<1>3. CASE login[w] = "polling" /\ LoginOver(w) /\ ~(walk[w].stage = "sent")
           /\ walk' = [v \in Walks |-> IF v = w THEN [Refused(w, IF why = "timer" THEN "timeout" ELSE "cancelled") EXCEPT !.stop = why]
                                        ELSE IF walk[v].on = w THEN Refused(v, Stopped(v)) ELSE walk[v]]
  BY <1>0, <1>3, AbortPoll
<1> QED BY <1>0, <1>1, <1>2, <1>3

LEMMA RestInv == ASSUME PagedInv, TokenExpires \/ CloseFeed PROVE PagedInv'
<1>1. /\ UNCHANGED <<engine, login, current, walk, kept>> /\ token' \in Tokens /\ alive' \in BOOLEAN /\ (alive' => alive)
  <2>1. alive \in BOOLEAN /\ token \in Tokens
    BY DEF PagedInv, PagedTypeOK, Tokens
  <2>2. CASE TokenExpires
    BY <2>1, <2>2 DEF TokenExpires, Tokens
  <2>3. CASE CloseFeed
    BY <2>1, <2>3 DEF CloseFeed, Tokens
  <2> QED BY <2>2, <2>3
<1>2. PagedTypeOK' /\ LoginInv' /\ CancelIsSomebodys'
  BY <1>1 DEF PagedInv, PagedTypeOK, LoginInv, CancelIsSomebodys, Tokens
<1>3. ASSUME NEW w \in Walks PROVE WalkInv(walk'[w], kept'[w], engine', alive')
  <2>1. WalkInv(walk[w], kept[w], engine, alive)
    BY DEF PagedInv
  <2> QED BY <1>1, <2>1 DEF WalkInv
<1> QED BY <1>2, <1>3 DEF PagedInv

LEMMA PagedNextInv == PagedInv /\ [PagedNext]_pagedVars => PagedInv'
<1> SUFFICES ASSUME PagedInv, [PagedNext]_pagedVars PROVE PagedInv'
  OBVIOUS
<1>1. CASE UNCHANGED pagedVars
  BY <1>1 DEF pagedVars, PagedInv, PagedTypeOK, LoginInv, CancelIsSomebodys
<1>2. ASSUME NEW w \in Walks, NEW limit \in RowLimits, StartWalk(w, limit) \/ \E parses \in BOOLEAN : Search(w, limit, parses)
      PROVE  PagedInv'
  BY <1>2, StartWalkInv, SearchInv
<1>3. ASSUME NEW w \in Walks, NEW why \in {"user", "timer"}, AbortWalk(w, why) PROVE PagedInv'
  BY <1>3, AbortWalkInv
<1>4. ASSUME NEW w \in Walks, Answered(w) PROVE PagedInv'
  <2>1. CASE Unauthorised(w)
    BY <2>1, UnauthorisedInv
  <2>2. CASE \E rows \in 0..PageRows, more \in BOOLEAN : PageArrives(w, rows, more)
    BY <2>2, PageArrivesInv
  <2>3. CASE \E hits, matching \in 0..PageRows, counted \in BOOLEAN : HitsArrive(w, hits, matching, counted)
    BY <2>3, HitsArriveInv
  <2>4. CASE PageFailed(w) \/ \E code \in {"sql", "auth", "network", "timeout"} : ClusterRefuses(w, code)
    BY <2>4, ErrorsInv
  <2>5. CASE \E started \in BOOLEAN : RequestLost(w, started) \/ SendFails(w, started)
    BY <2>5, ErrorsInv
  <2> QED BY <1>4, <2>1, <2>2, <2>3, <2>4, <2>5 DEF Answered
<1>5. ASSUME NEW w \in Walks, LoginMoves(w) \/ Pulled(w) \/ Abandoned(w) PROVE PagedInv'
  BY <1>5, AskedInv, PolledInv, NextElasticInv, NextTrinoInv, CursorClosedInv, AbandonedInv DEF LoginMoves, Pulled
<1>6. CASE TokenExpires \/ CloseFeed
  BY <1>6, RestInv
<1> QED BY <1>1, <1>2, <1>3, <1>4, <1>5, <1>6 DEF PagedNext

THEOREM PagedInductive == PagedSpec => []PagedInv
<1>1. PagedInit => PagedInv
  BY PagedInitInv
<1>2. PagedInv /\ [PagedNext]_pagedVars => PagedInv'
  BY PagedNextInv
<1> QED BY <1>1, <1>2, PTL DEF PagedSpec

(* trino.ts:284-352, elasticsearch.ts:371-420: a walk never yields more    *)
(* rows than were asked for, says when it was cut, and leaves neither a    *)
(* query nor a cursor open but where a request was lost or the session     *)
(* closed.                                                                 *)
THEOREM WalksLeaveNothingOpen == PagedSpec => []PagedSafe
<1>1. PagedInv => PagedSafe
  <2> SUFFICES ASSUME PagedInv PROVE PagedSafe
    OBVIOUS
  <2>1. ASSUME NEW w \in Walks
        PROVE  /\ walk[w].taken <= walk[w].limit
               /\ walk[w].code = "ok" /\ ~walk[w].truncated =>
                      ~(walk[w].missed /\ walk[w].form # "uncounted") /\ kept[w].state = "over"
               /\ walk[w].stage = "done" /\ kept[w].state = "open" => walk[w].lost \/ (engine = "elastic" /\ ~alive)
    BY WalkTyped DEF WalkInv
  <2> QED BY <2>1 DEF PagedInv, PagedSafe, RowsAreAccountedFor, CoordinatorIsTold, CursorsAreClosed
<1> QED BY <1>1, PagedInductive, PTL

(* trino.ts:658-668, 687: however many queries meet a 401, one browser is  *)
(* open; and a query that nobody stopped reports cancelled only when it    *)
(* shared the login of one that was.                                       *)
THEOREM OneLoginAtATime == PagedSpec => []LoginsAreShared
<1>1. PagedInv => LoginsAreShared
  <2> SUFFICES ASSUME PagedInv PROVE LoginsAreShared
    OBVIOUS
  <2>1. {w \in Walks : login[w] # "none"} \subseteq {current}
    BY DEF PagedInv, LoginInv
  <2>2. IsFiniteSet({current}) /\ Cardinality({current}) = 1
    BY FS_Singleton
  <2>3. /\ IsFiniteSet({w \in Walks : login[w] # "none"})
        /\ Cardinality({w \in Walks : login[w] # "none"}) <= Cardinality({current})
    BY <2>1, <2>2, FS_Subset
  <2> QED BY <2>2, <2>3 DEF PagedInv, LoginsAreShared, OneBrowser
<1> QED BY <1>1, PagedInductive, PTL

-----------------------------------------------------------------------------
(* Embedded.  The instance that is being made is the one `opening` names,  *)
(* a live one is the one the session holds - in a directory session, or    *)
(* one that a later one has replaced - and what outlives close was late.   *)
Replaced(h) == store = "dir" /\ \E g \in Handles \ {h} : instances[g].state # "none"

DuckInv ==
    /\ usable /\ store # "dir" => \A h \in Handles :
           /\ instances[h].state = "loading" => opening = h /\ duck = 0
           /\ instances[h].state = "live" => duck = h
    /\ usable => \A h \in Handles : instances[h].state = "live" => duck = h \/ Replaced(h)
    /\ ~usable => \A h \in Handles : /\ instances[h].state = "loading" => instances[h].late
                                     /\ instances[h].state = "live" => instances[h].late \/ Replaced(h)

(* A client has a number no request has failed on; a level has of its pages*)
(* what is no marker.                                                      *)
TreeInv ==
    /\ client <= clients /\ rejected \subseteq 1..clients /\ client \notin rejected
    /\ \A b \in Browses :
           /\ listing[b].stage = "listing" => listing[b].on \in 1..clients /\ ~listing[b].broken
           /\ listing[b].nodes = listing[b].seen \ {Marker}
           /\ listing[b].stage = "listed" /\ ~listing[b].broken => listing[b].seen = Files

EmbeddedInv == EmbeddedTypeOK /\ DuckInv /\ TreeInv

Instances == [state : {"none", "loading", "live", "orphan", "gone"}, files : SUBSET Files, late : BOOLEAN]
Runs == [stage : {"idle", "waiting", "running", "done"}, on : 0..MaxHandles,
         code : {"none", "ok", "sql", "config", "cancelled", "timeout"}]
Listings == [stage : {"idle", "listing", "listed", "failed"}, on : 0..MaxHandles,
             seen : SUBSET Files, nodes : SUBSET Files, broken : BOOLEAN]

(* A walk of the directory returns files of it, and maxFiles at most.      *)
LEMMA WalksAreBounded ==
    ASSUME NEW found \in SUBSET Files, NEW taken \in WalkOutcomes(found)
    PROVE  taken \subseteq Files /\ Cardinality(taken) <= MaxFiles
<1>1. IsFiniteSet(found)
  BY EmbeddedAssumption, FS_Subset
<1>2. Cardinality(found) \in Nat
  BY <1>1, FS_CardinalityType
<1>3. MaxFiles \in Nat
  BY EmbeddedAssumption
<1>4. taken \subseteq found /\ Cardinality(taken) = (IF Cardinality(found) < MaxFiles THEN Cardinality(found) ELSE MaxFiles)
  BY DEF WalkOutcomes
<1> QED BY <1>2, <1>3, <1>4

LEMMA EmbeddedTyped ==
    ASSUME EmbeddedTypeOK
    PROVE  /\ store \in StoreKinds /\ usable \in BOOLEAN /\ duck \in 0..MaxHandles /\ opening \in 0..MaxHandles
           /\ instances \in [Handles -> Instances] /\ run \in [Queries -> Runs] /\ listing \in [Browses -> Listings]
           /\ disk \subseteq Files /\ index \subseteq Files /\ Cardinality(index) <= MaxFiles
           /\ client \in 0..MaxHandles /\ clients \in 0..MaxHandles /\ rejected \subseteq Handles
           /\ MaxHandles \in Nat /\ Marker \in Files
BY EmbeddedAssumption DEF EmbeddedTypeOK, Instances, Runs, Listings

LEMMA TypedEmbedded ==
    ASSUME store' \in StoreKinds, usable' \in BOOLEAN, duck' \in 0..MaxHandles, opening' \in 0..MaxHandles,
           instances' \in [Handles -> Instances], run' \in [Queries -> Runs], listing' \in [Browses -> Listings],
           disk' \subseteq Files, index' \subseteq Files, Cardinality(index') <= MaxFiles,
           client' \in 0..MaxHandles, clients' \in 0..MaxHandles, rejected' \subseteq Handles
    PROVE  EmbeddedTypeOK'
BY DEF EmbeddedTypeOK, Instances, Runs, Listings

LEMMA EnteredRun ==
    ASSUME NEW q \in Queries, NEW h \in 0..MaxHandles, NEW stage \in {"idle", "waiting", "running", "done"},
           NEW code \in {"none", "ok", "sql", "config", "cancelled", "timeout"}, run \in [Queries -> Runs]
    PROVE  /\ [stage |-> stage, on |-> h, code |-> code] \in Runs
           /\ [run EXCEPT ![q].stage = stage, ![q].code = code] \in [Queries -> Runs]
<1>1. [stage |-> stage, on |-> h, code |-> code] \in Runs
  BY DEF Runs
<1>2. [run[q] EXCEPT !.stage = stage, !.code = code] \in Runs
  BY DEF Runs
<1> QED BY <1>1, <1>2

LEMMA AwakeTyped ==
    ASSUME NEW h \in Handles, NEW stage \in {"running", "done"}, NEW code \in {"none", "config"},
           run \in [Queries -> Runs], MaxHandles \in Nat, Awake(h, stage, code)
    PROVE  run' \in [Queries -> Runs]
<1>1. [stage |-> stage, on |-> h, code |-> code] \in Runs
  BY DEF Runs, Handles
<1> QED BY <1>1 DEF Awake

LEMMA EmbeddedInitial == EmbeddedInit => EmbeddedInv
<1> SUFFICES ASSUME EmbeddedInit PROVE EmbeddedInv
  OBVIOUS
<1>0. MaxHandles \in Nat /\ Marker \in Files
  BY EmbeddedAssumption
<1>1. index \subseteq Files /\ Cardinality(index) <= MaxFiles /\ disk \subseteq Files
  BY WalksAreBounded DEF EmbeddedInit
<1>2. EmbeddedTypeOK
  BY <1>0, <1>1 DEF EmbeddedInit, EmbeddedTypeOK, NoHandle, Unlisted, Handles
<1>3. DuckInv
  BY DEF EmbeddedInit, DuckInv, NoHandle
<1>4. TreeInv
  BY <1>0 DEF EmbeddedInit, TreeInv, Unlisted
<1> QED BY <1>2, <1>3, <1>4 DEF EmbeddedInv

(* Queries take the instance there is, wait for the one being made, or make*)
(* the first: DuckInv is kept as nobody else is making one.                *)
LEMMA RunQueryKeepsEmbedded ==
    ASSUME EmbeddedInv, NEW q \in Queries, RunQuery(q)
    PROVE  EmbeddedInv'
<1>0. EmbeddedTypeOK /\ DuckInv /\ TreeInv
  BY DEF EmbeddedInv
<1>1. /\ store \in StoreKinds /\ usable \in BOOLEAN /\ duck \in 0..MaxHandles /\ opening \in 0..MaxHandles
      /\ instances \in [Handles -> Instances] /\ run \in [Queries -> Runs] /\ MaxHandles \in Nat
  BY <1>0, EmbeddedTyped
<1>2. UNCHANGED <<store, usable, duck, disk, index, client, clients, rejected, listing>> /\ usable
  BY DEF RunQuery, treeVars
<1>3. TreeInv'
  BY <1>0, <1>2 DEF TreeInv
<1>4. CASE UNCHANGED <<opening, instances>> /\ \E h \in 0..MaxHandles, stage \in {"waiting", "running"} : Enter(q, h, stage)
  <2>0. \A h \in 0..MaxHandles, stage \in {"waiting", "running"} : [stage |-> stage, on |-> h, code |-> "none"] \in Runs
    BY <1>1, EnteredRun
  <2>1. run' \in [Queries -> Runs]
    BY <1>1, <1>4, <2>0 DEF Enter
  <2>2. EmbeddedTypeOK'
    BY <1>0, <1>2, <1>4, <2>1, EmbeddedTyped, TypedEmbedded
  <2>3. DuckInv'
    BY <1>0, <1>2, <1>4 DEF DuckInv, Replaced
  <2> QED BY <1>3, <2>2, <2>3 DEF EmbeddedInv
<1>5. CASE duck = 0 /\ ~Coalesced /\ \E h \in Handles :
                 /\ instances[h].state = "none"
                 /\ instances' = [instances EXCEPT ![h].state = "loading"]
                 /\ opening' = IF store = "dir" THEN 0 ELSE h
                 /\ Enter(q, h, "waiting")
  <2> PICK h \in Handles :
                 /\ instances[h].state = "none"
                 /\ instances' = [instances EXCEPT ![h].state = "loading"]
                 /\ opening' = IF store = "dir" THEN 0 ELSE h
                 /\ Enter(q, h, "waiting")
    BY <1>5
  <2>0. h \in 0..MaxHandles /\ opening' \in 0..MaxHandles
    BY <1>1 DEF Handles
  <2>1. run' \in [Queries -> Runs]
    BY <1>1, <2>0, EnteredRun DEF Enter
  <2>2. [instances[h] EXCEPT !.state = "loading"] \in Instances
    BY <1>1 DEF Instances
  <2>3. instances' \in [Handles -> Instances]
    BY <1>1, <2>2
  <2>4. EmbeddedTypeOK'
    BY <1>0, <1>2, <2>0, <2>1, <2>3, EmbeddedTyped, TypedEmbedded
  <2>5. \A g \in Handles : instances'[g].state = IF g = h THEN "loading" ELSE instances[g].state
    BY <1>1 DEF Instances
  <2>6. \A g \in Handles : instances'[g].late = instances[g].late
    BY <1>1 DEF Instances
  <2>7. 0 \notin Handles /\ (store # "dir" => opening = 0)
    BY <1>1, <1>5 DEF Handles, Coalesced
  <2>8. DuckInv'
    BY <1>0, <1>2, <1>5, <2>5, <2>6, <2>7 DEF DuckInv, Replaced
  <2> QED BY <1>3, <2>4, <2>8 DEF EmbeddedInv
<1> QED BY <1>1, <1>4, <1>5 DEF RunQuery

LEMMA LoadedKeepsEmbedded ==
    ASSUME EmbeddedInv, NEW h \in Handles, Loaded(h)
    PROVE  EmbeddedInv'
<1>0. EmbeddedTypeOK /\ DuckInv /\ TreeInv
  BY DEF EmbeddedInv
<1>1. /\ store \in StoreKinds /\ usable \in BOOLEAN /\ duck \in 0..MaxHandles /\ opening \in 0..MaxHandles
      /\ instances \in [Handles -> Instances] /\ run \in [Queries -> Runs] /\ MaxHandles \in Nat /\ index \subseteq Files
  BY <1>0, EmbeddedTyped
<1>2. /\ UNCHANGED <<store, usable, disk, index, client, clients, rejected, listing>>
      /\ instances' = [instances EXCEPT ![h].state = "live", ![h].files = index]
      /\ instances[h].state = "loading" /\ duck' = h /\ opening' \in {0, opening}
      /\ Awake(h, "running", "none")
  BY DEF Loaded, treeVars
<1>3. TreeInv'
  BY <1>0, <1>2 DEF TreeInv
<1>4. run' \in [Queries -> Runs]
  BY <1>1, <1>2, AwakeTyped
<1>5. [instances[h] EXCEPT !.state = "live", !.files = index] \in Instances
  BY <1>1 DEF Instances
<1>6. instances' \in [Handles -> Instances]
  BY <1>1, <1>2, <1>5
<1>7. duck' \in 0..MaxHandles /\ opening' \in 0..MaxHandles
  BY <1>1, <1>2 DEF Handles
<1>8. EmbeddedTypeOK'
  BY <1>0, <1>2, <1>4, <1>6, <1>7, EmbeddedTyped, TypedEmbedded
<1>9. \A g \in Handles : /\ instances'[g].state = IF g = h THEN "live" ELSE instances[g].state
                         /\ instances'[g].late = instances[g].late
  BY <1>1, <1>2 DEF Instances
<1>10. 0 \notin Handles
  BY DEF Handles
<1>11. DuckInv'
  <2>1. ASSUME usable, store # "dir", NEW g \in Handles
        PROVE  instances'[g].state # "loading" /\ (instances'[g].state = "live" => g = h)
    BY <1>0, <1>2, <1>9, <1>10, <2>1 DEF DuckInv
  <2>0. /\ \A g \in Handles : instances[g].state # "none" => instances'[g].state # "none"
        /\ instances'[h].state # "none"
    BY <1>9
  <2>a. store' = store
    BY <1>2
  <2>2. \A g \in Handles : Replaced(g) => Replaced(g)'
    BY <2>0, <2>a DEF Replaced
  <2>3. store = "dir" => \A g \in Handles \ {h} : Replaced(g)'
    BY <2>0, <2>a DEF Replaced
  <2>4. usable => \A g \in Handles : instances'[g].state = "live" => h = g \/ Replaced(g)'
    BY <2>1, <2>3
  <2>5. ~usable => \A g \in Handles : /\ instances'[g].state = "loading" => instances'[g].late
                                      /\ instances'[g].state = "live" => instances'[g].late \/ Replaced(g)'
    BY <1>0, <1>2, <1>9, <2>2 DEF DuckInv
  <2> QED BY <1>2, <2>1, <2>4, <2>5 DEF DuckInv
<1> QED BY <1>3, <1>8, <1>11 DEF EmbeddedInv

LEMMA LoadFailsKeepsEmbedded ==
    ASSUME EmbeddedInv, NEW h \in Handles, NEW connected \in BOOLEAN, LoadFails(h, connected)
    PROVE  EmbeddedInv'
<1>0. EmbeddedTypeOK /\ DuckInv /\ TreeInv
  BY DEF EmbeddedInv
<1>1. /\ store \in StoreKinds /\ usable \in BOOLEAN /\ duck \in 0..MaxHandles /\ opening \in 0..MaxHandles
      /\ instances \in [Handles -> Instances] /\ run \in [Queries -> Runs] /\ MaxHandles \in Nat
  BY <1>0, EmbeddedTyped
<1>2. /\ UNCHANGED <<store, usable, duck, disk, index, client, clients, rejected, listing>>
      /\ instances[h].state = "loading" /\ opening' = (IF store = "dir" THEN opening ELSE 0)
      /\ Awake(h, "done", "config")
  BY DEF LoadFails, treeVars
<1> PICK end \in {"orphan", "gone"} : instances' = [instances EXCEPT ![h].state = end]
  BY DEF LoadFails
<1>3. TreeInv'
  BY <1>0, <1>2 DEF TreeInv
<1>4. run' \in [Queries -> Runs]
  BY <1>1, <1>2, AwakeTyped
<1>5. [instances[h] EXCEPT !.state = end] \in Instances
  BY <1>1 DEF Instances
<1>6. instances' \in [Handles -> Instances]
  BY <1>1, <1>5
<1>7. opening' \in 0..MaxHandles
  BY <1>1, <1>2
<1>8. EmbeddedTypeOK'
  BY <1>0, <1>2, <1>4, <1>6, <1>7, EmbeddedTyped, TypedEmbedded
<1>9. \A g \in Handles : /\ instances'[g].state = IF g = h THEN end ELSE instances[g].state
                         /\ instances'[g].late = instances[g].late
  BY <1>1 DEF Instances
<1>11. DuckInv'
  BY <1>0, <1>2, <1>9 DEF DuckInv, Replaced
<1> QED BY <1>3, <1>8, <1>11 DEF EmbeddedInv

(* close ends the instance the session holds and marks as late the one that*)
(* is still being made.                                                    *)
LEMMA CloseKeepsEmbedded ==
    ASSUME EmbeddedInv, CloseStore
    PROVE  EmbeddedInv'
<1>0. EmbeddedTypeOK /\ DuckInv /\ TreeInv
  BY DEF EmbeddedInv
<1>1. /\ store \in StoreKinds /\ usable \in BOOLEAN /\ duck \in 0..MaxHandles
      /\ instances \in [Handles -> Instances] /\ MaxHandles \in Nat /\ clients \in 0..MaxHandles
  BY <1>0, EmbeddedTyped
<1>2. /\ UNCHANGED <<store, run, disk, index, clients, rejected, listing>> /\ instances' = Closing
      /\ usable /\ ~usable' /\ usable' \in BOOLEAN /\ duck' = 0 /\ client' = 0 /\ opening' = 0
  BY DEF CloseStore
<1>3. TreeInv'
  <2>1. 0 <= clients' /\ rejected' \subseteq 1..clients' /\ 0 \notin rejected'
    BY <1>0, <1>1, <1>2 DEF TreeInv
  <2> QED BY <1>0, <1>2, <2>1 DEF TreeInv
<1>5. \A h \in Handles : /\ [instances[h] EXCEPT !.state = "gone"] \in Instances
                         /\ [instances[h] EXCEPT !.late = @ \/ instances[h].state = "loading"] \in Instances
  BY <1>1 DEF Instances
<1>6. instances' \in [Handles -> Instances]
  BY <1>1, <1>2, <1>5 DEF Closing
<1>8. EmbeddedTypeOK'
  BY <1>0, <1>1, <1>2, <1>6, EmbeddedTyped, TypedEmbedded
<1>9. \A g \in Handles : /\ instances'[g].state = IF g = duck THEN "gone" ELSE instances[g].state
                         /\ g # duck => (instances'[g].late <=> (instances[g].late \/ instances[g].state = "loading"))
  BY <1>1, <1>2 DEF Closing, Instances
<1>11. DuckInv'
  BY <1>0, <1>2, <1>9 DEF DuckInv, Replaced
<1> QED BY <1>3, <1>8, <1>11 DEF EmbeddedInv

(* A query ends, a file appears or goes, the directory is walked again.    *)
LEMMA QuietKeepsEmbedded ==
    ASSUME EmbeddedInv,
           \/ \E q \in Queries, code \in {"ok", "sql"} : Ran(q, code)
           \/ \E q \in Queries, why \in {"cancelled", "timeout"} : StopWaiting(q, why)
           \/ \E f \in Files : FileChanges(f)
           \/ BrowseRoot
    PROVE  EmbeddedInv'
<1>0. EmbeddedTypeOK /\ DuckInv /\ TreeInv
  BY DEF EmbeddedInv
<1>1. /\ run \in [Queries -> Runs] /\ MaxHandles \in Nat /\ disk \subseteq Files /\ index \subseteq Files
      /\ Cardinality(index) <= MaxFiles
  BY <1>0, EmbeddedTyped
<1>2. UNCHANGED <<store, usable, duck, opening, instances, client, clients, rejected, listing>>
  BY DEF Ran, StopWaiting, FileChanges, BrowseRoot, treeVars, duckVars
<1>3. DuckInv' /\ TreeInv'
  BY <1>0, <1>2 DEF DuckInv, Replaced, TreeInv
<1>4. run' \in [Queries -> Runs]
  <2>1. \A q \in Queries : \A code \in {"ok", "sql", "cancelled", "timeout"} :
            [run EXCEPT ![q].stage = "done", ![q].code = code] \in [Queries -> Runs]
    <3> SUFFICES ASSUME NEW q \in Queries, NEW code \in {"ok", "sql", "cancelled", "timeout"}
                 PROVE  [run[q] EXCEPT !.stage = "done", !.code = code] \in Runs
      BY <1>1
    <3> QED BY <1>1 DEF Runs
  <2>2. CASE UNCHANGED run
    BY <1>1, <2>2
  <2>3. CASE \E q \in Queries, code \in {"ok", "sql", "cancelled", "timeout"} :
                 run' = [run EXCEPT ![q].stage = "done", ![q].code = code]
    <3> PICK q \in Queries, code \in {"ok", "sql", "cancelled", "timeout"} :
                 run' = [run EXCEPT ![q].stage = "done", ![q].code = code]
      BY <2>3
    <3> QED BY <2>1
  <2> QED BY <2>2, <2>3 DEF Ran, StopWaiting, FileChanges, BrowseRoot, duckVars
<1>5. disk' \subseteq Files
  BY <1>1 DEF Ran, StopWaiting, FileChanges, BrowseRoot
<1>6. index' \subseteq Files /\ Cardinality(index') <= MaxFiles
  BY <1>1, WalksAreBounded DEF Ran, StopWaiting, FileChanges, BrowseRoot
<1>7. EmbeddedTypeOK'
  BY <1>0, <1>2, <1>4, <1>5, <1>6, EmbeddedTyped, TypedEmbedded
<1> QED BY <1>3, <1>7 DEF EmbeddedInv

(* An expand starts on a client that has not failed.                       *)
LEMMA ExpandKeepsEmbedded ==
    ASSUME EmbeddedInv, NEW b \in Browses, ExpandLevel(b)
    PROVE  EmbeddedInv'
<1>0. EmbeddedTypeOK /\ DuckInv /\ TreeInv
  BY DEF EmbeddedInv
<1>1. /\ client \in 0..MaxHandles /\ clients \in 0..MaxHandles /\ rejected \subseteq Handles
      /\ MaxHandles \in Nat /\ listing \in [Browses -> Listings]
  BY <1>0, EmbeddedTyped
<1>2. /\ UNCHANGED <<store, usable, duck, opening, instances, run, disk, index, rejected>>
      /\ listing' = [listing EXCEPT ![b] = [Unlisted EXCEPT !.stage = "listing", !.on = client']]
      /\ (client = 0 => clients < MaxHandles)
      /\ clients' = (IF client = 0 THEN clients + 1 ELSE clients)
      /\ client' = (IF client = 0 THEN clients + 1 ELSE client)
  BY DEF ExpandLevel, duckVars
<1>3. DuckInv'
  BY <1>0, <1>2 DEF DuckInv, Replaced
<1>4. /\ client <= clients /\ rejected \subseteq 1..clients /\ client \notin rejected
  BY <1>0 DEF TreeInv
<1>5. /\ client' \in 1..clients' /\ clients' \in 0..MaxHandles /\ clients <= clients'
      /\ rejected' \subseteq 1..clients' /\ client' \notin rejected'
  BY <1>1, <1>2, <1>4
<1>6. client' \in 0..MaxHandles /\ client' <= clients'
  BY <1>1, <1>5
<1>7. [Unlisted EXCEPT !.stage = "listing", !.on = client'] \in Listings
  BY <1>6 DEF Unlisted, Listings
<1>8. listing' \in [Browses -> Listings]
  BY <1>1, <1>2, <1>7
<1>9. EmbeddedTypeOK'
  BY <1>0, <1>1, <1>2, <1>5, <1>6, <1>8, EmbeddedTyped, TypedEmbedded
<1>10. TreeInv'
  <2> DEFINE l == [Unlisted EXCEPT !.stage = "listing", !.on = client']
  <2>0. l.stage = "listing" /\ l.on = client' /\ l.seen = {} /\ l.nodes = {} /\ l.broken = FALSE
    BY DEF Unlisted
  <2>1. listing' = [listing EXCEPT ![b] = l]
    BY <1>2
  <2> HIDE DEF l
  <2>3. \A a \in Browses : listing'[a] = IF a = b THEN l ELSE listing[a]
    BY <1>1, <2>1
  <2>2. \A a \in Browses : listing[a].stage = "listing" => listing[a].on \in 1..clients'
    BY <1>0, <1>1, <1>5 DEF TreeInv
  <2> QED BY <1>0, <1>5, <1>6, <2>0, <2>3, <2>2 DEF TreeInv
<1> QED BY <1>3, <1>9, <1>10 DEF EmbeddedInv

(* A page adds to what has been seen and, its marker apart, to the nodes.  *)
LEMMA PageKeepsEmbedded ==
    ASSUME EmbeddedInv, NEW b \in Browses, NEW truncated \in BOOLEAN, NEW marked \in BOOLEAN, Page(b, truncated, marked)
    PROVE  EmbeddedInv'
<1>0. EmbeddedTypeOK /\ DuckInv /\ TreeInv
  BY DEF EmbeddedInv
<1>1. listing \in [Browses -> Listings] /\ Marker \in Files
  BY <1>0, EmbeddedTyped
<1>2. UNCHANGED <<store, usable, duck, opening, instances, run, disk, index, client, clients, rejected>>
  BY DEF Page, duckVars
<1>3. DuckInv'
  BY <1>0, <1>2 DEF DuckInv, Replaced
<1> PICK page \in SUBSET (Files \ listing[b].seen) :
        /\ truncated <=> listing[b].seen \cup page # Files
        /\ listing' = [listing EXCEPT ![b].seen = listing[b].seen \cup page, ![b].nodes = @ \cup NodesOf(page),
                                      ![b].broken = truncated /\ ~marked,
                                      ![b].stage = IF truncated /\ marked THEN "listing" ELSE "listed"]
  BY DEF Page
<1> DEFINE l == [listing[b] EXCEPT !.seen = listing[b].seen \cup page, !.nodes = @ \cup NodesOf(page),
                                   !.broken = truncated /\ ~marked,
                                   !.stage = IF truncated /\ marked THEN "listing" ELSE "listed"]
<1>4. l \in Listings
  BY <1>1 DEF Listings, NodesOf
<1>5. listing' = [listing EXCEPT ![b] = l] /\ listing[b].stage = "listing"
  BY <1>1 DEF Page
<1>6. /\ l.seen = listing[b].seen \cup page /\ l.nodes = listing[b].nodes \cup NodesOf(page) /\ l.on = listing[b].on
      /\ (l.broken <=> truncated /\ ~marked) /\ l.stage = (IF truncated /\ marked THEN "listing" ELSE "listed")
  BY <1>1 DEF Listings
<1> HIDE DEF l
<1>7. listing' \in [Browses -> Listings]
  BY <1>1, <1>4, <1>5
<1>8. EmbeddedTypeOK'
  BY <1>0, <1>2, <1>7, EmbeddedTyped, TypedEmbedded
<1>9. \A a \in Browses : listing'[a] = IF a = b THEN l ELSE listing[a]
  BY <1>1, <1>5
<1>10. /\ l.stage = "listing" => l.on \in 1..clients /\ ~l.broken
       /\ l.nodes = l.seen \ {Marker}
       /\ l.stage = "listed" /\ ~l.broken => l.seen = Files
  BY <1>0, <1>5, <1>6 DEF TreeInv, NodesOf
<1>11. TreeInv'
  BY <1>0, <1>2, <1>9, <1>10 DEF TreeInv
<1> QED BY <1>3, <1>8, <1>11 DEF EmbeddedInv

LEMMA PageFailsKeepsEmbedded ==
    ASSUME EmbeddedInv, NEW b \in Browses, PageFails(b)
    PROVE  EmbeddedInv'
<1>0. EmbeddedTypeOK /\ DuckInv /\ TreeInv
  BY DEF EmbeddedInv
<1>1. /\ client \in 0..MaxHandles /\ clients \in 0..MaxHandles /\ rejected \subseteq Handles
      /\ MaxHandles \in Nat /\ listing \in [Browses -> Listings]
  BY <1>0, EmbeddedTyped
<1>2. /\ UNCHANGED <<store, usable, duck, opening, instances, run, disk, index, clients>>
      /\ listing[b].stage = "listing" /\ listing' = [listing EXCEPT ![b].stage = "failed"]
      /\ rejected' = rejected \cup {listing[b].on} /\ client' = 0
  BY DEF PageFails, ClientAfterFailure, duckVars
<1>3. DuckInv'
  BY <1>0, <1>2 DEF DuckInv, Replaced
<1>4. /\ listing[b].on \in 1..clients /\ rejected \subseteq 1..clients
  BY <1>0, <1>2 DEF TreeInv
<1>5. rejected' \subseteq 1..clients' /\ rejected' \subseteq Handles /\ client' <= clients' /\ client' \notin rejected'
      /\ client' \in 0..MaxHandles
  BY <1>1, <1>2, <1>4 DEF Handles
<1>6. [listing[b] EXCEPT !.stage = "failed"] \in Listings
  BY <1>1 DEF Listings
<1>7. listing' \in [Browses -> Listings]
  BY <1>1, <1>2, <1>6
<1>8. EmbeddedTypeOK'
  BY <1>0, <1>2, <1>5, <1>7, EmbeddedTyped, TypedEmbedded
<1>9. \A a \in Browses : /\ listing'[a].stage = IF a = b THEN "failed" ELSE listing[a].stage
                         /\ listing'[a].on = listing[a].on /\ listing'[a].seen = listing[a].seen
                         /\ listing'[a].nodes = listing[a].nodes /\ listing'[a].broken = listing[a].broken
  BY <1>1, <1>2 DEF Listings
<1>10. TreeInv'
  BY <1>0, <1>2, <1>5, <1>9 DEF TreeInv
<1> QED BY <1>3, <1>8, <1>10 DEF EmbeddedInv

(* Every step of an embedded session keeps its invariant.                  *)
LEMMA EmbeddedStep == EmbeddedInv /\ [EmbeddedNext]_embeddedVars => EmbeddedInv'
<1> SUFFICES ASSUME EmbeddedInv, [EmbeddedNext]_embeddedVars PROVE EmbeddedInv'
  OBVIOUS
<1>1. ASSUME NEW q \in Queries, RunQuery(q) PROVE EmbeddedInv'
  BY <1>1, RunQueryKeepsEmbedded
<1>2. ASSUME NEW h \in Handles, Loaded(h) PROVE EmbeddedInv'
  BY <1>2, LoadedKeepsEmbedded
<1>3. ASSUME NEW h \in Handles, NEW connected \in BOOLEAN, LoadFails(h, connected) PROVE EmbeddedInv'
  BY <1>3, LoadFailsKeepsEmbedded
<1>4. CASE CloseStore
  BY <1>4, CloseKeepsEmbedded
<1>5. CASE \/ \E q \in Queries, code \in {"ok", "sql"} : Ran(q, code)
           \/ \E q \in Queries, why \in {"cancelled", "timeout"} : StopWaiting(q, why)
           \/ \E f \in Files : FileChanges(f)
           \/ BrowseRoot
  BY <1>5, QuietKeepsEmbedded
<1>6. ASSUME NEW b \in Browses, ExpandLevel(b) PROVE EmbeddedInv'
  BY <1>6, ExpandKeepsEmbedded
<1>7. ASSUME NEW b \in Browses, NEW truncated \in BOOLEAN, NEW marked \in BOOLEAN, Page(b, truncated, marked) PROVE EmbeddedInv'
  BY <1>7, PageKeepsEmbedded
<1>8. ASSUME NEW b \in Browses, PageFails(b) PROVE EmbeddedInv'
  BY <1>8, PageFailsKeepsEmbedded
<1>9. CASE UNCHANGED embeddedVars
  BY <1>9 DEF EmbeddedInv, EmbeddedTypeOK, DuckInv, Replaced, TreeInv, embeddedVars
<1> QED BY <1>1, <1>2, <1>3, <1>4, <1>5, <1>6, <1>7, <1>8, <1>9 DEF EmbeddedNext

(* The instance an open session is making is the one its promise names,    *)
(* what close left alive was late or replaced, and a level's nodes are what*)
(* its pages have brought: the invariant the claims below rest on.         *)
THEOREM EmbeddedInductive == EmbeddedSpec => []EmbeddedInv
BY EmbeddedInitial, EmbeddedStep, PTL DEF EmbeddedSpec

(* At most one instance is being made or is open: those that are, all are  *)
(* the one that `opening` or `duck` names.                                 *)
LEMMA OneInstanceFollows == EmbeddedInv => OneInstance
<1> SUFFICES ASSUME EmbeddedInv, usable, store # "dir"
             PROVE  Cardinality({h \in Handles : instances[h].state \in {"loading", "live"}}) <= 1
  BY DEF OneInstance
<1> DEFINE Up == {h \in Handles : instances[h].state \in {"loading", "live"}}
<1>1. \A g, h \in Up : g = h
  BY DEF EmbeddedInv, DuckInv, Handles
<1>2. CASE Up = {}
  BY <1>2, FS_EmptySet
<1>3. ASSUME NEW h \in Up PROVE Cardinality(Up) <= 1
  <2>1. Up = {h}
    BY <1>1, <1>3
  <2> QED BY <2>1, FS_Singleton
<1> QED BY <1>2, <1>3

(* For any number of queries, expands and files: an open object-store or   *)
(* Kafka session never has two DuckDB instances, close leaves open only one*)
(* that was still being made or had been replaced, an expand never starts  *)
(* on a client a request failed on, and a listed level has each key once   *)
(* and not its marker (s3.ts, kafka.ts, dir.ts).                           *)
THEOREM OneInstanceAndWholeLevels == EmbeddedSpec => []EmbeddedSafe
<1>1. EmbeddedInv => NothingLeftOpen
  BY DEF EmbeddedInv, DuckInv, Replaced, NothingLeftOpen
<1>2. EmbeddedInv => FreshClientAfterFailure
  BY DEF EmbeddedInv, TreeInv, FreshClientAfterFailure
<1>3. EmbeddedInv => LevelIsWhole
  BY DEF EmbeddedInv, TreeInv, LevelIsWhole
<1>4. EmbeddedInv => EmbeddedSafe
  BY <1>1, <1>2, <1>3, OneInstanceFollows DEF EmbeddedInv, EmbeddedSafe
<1> QED BY <1>4, EmbeddedInductive, PTL

-----------------------------------------------------------------------------
(* Drivers.  What the record r of a query, what the database does about it *)
(* (b), the holder of the connection (h) and the socket (s) agree on.      *)
Whole(k, r) ==
    /\ r.kept = Lesser(r.rows, r.limit)
    /\ r.cut <=> IF k = "mssql" THEN r.rows >= r.limit ELSE r.rows > r.limit

LoopInv(k, r, b) ==
    /\ r.stage \in {"idle", "checking"} => b = "none" /\ r.why = "none" /\ ~r.told
    /\ r.stage = "sent" => r.read = 0 /\ ~r.told
    /\ r.stage \in {"sent", "reading", "given"} => r.read <= r.rows /\ r.kept <= r.read /\ r.kept <= r.limit
    /\ (r.stage \in {"sent", "reading"} \/ (r.stage = "given" /\ ~r.last)) => r.kept = r.read
    /\ r.stage = "given" /\ r.last => Whole(k, r) /\ (k = "clickhouse" /\ ~r.cut => b # "working")
    /\ r.armed => r.stage \in {"sent", "reading", "given"}

EndInv(k, r, b) ==
    /\ r.code # "none" <=> r.stage \in {"winding", "done"}
    /\ r.code \notin {"none", "ok"} =>
           IF r.why # "none" /\ k # "mssql" THEN r.code = r.why
           ELSE r.code \notin {"cancelled", "timeout"} \ OwnCodes
    /\ r.code = "squiggle" => k = "mssql"
    /\ r.stage = "winding" => k \in {"postgres", "clickhouse"}
    /\ k = "clickhouse" /\ r.stage = "done" /\ b = "working" => r.why # "none" /\ ~r.told

WireInv(k, a, r, h, s) ==
    h = a =>
        /\ k # "clickhouse" /\ r.stage # "idle"
        /\ r.stage = "done" /\ s = "up" => k = "mysql" \/ (k = "mssql" /\ r.cut)
        /\ k = "mssql" /\ r.stage = "given" /\ r.last => r.cut

AskInv(a) ==
    LoopInv(kind, ask[a], backend[a]) /\ EndInv(kind, ask[a], backend[a]) /\ WireInv(kind, a, ask[a], holder, socket)

DriversInv ==
    /\ DriversTypeOK
    /\ socket = "destroyed" => kind \in {"postgres", "mysql"} /\ \E a \in Asks : ask[a].why # "none"
    /\ \A a \in Asks : AskInv(a)

AskStages == {"idle", "sent", "reading", "given", "winding", "checking", "done"}
AskCodes == DriverCodes \cup CheckCodes
Backends == {"none", "working", "deaf", "over"}
Sockets == {"up", "destroyed", "lost", "ended"}
AskRecords ==
    [stage : AskStages, rows : 0..MaxRows, limit : Limits \cup {1}, read : 0..MaxRows, kept : 0..MaxRows,
     told : BOOLEAN, cut : BOOLEAN, last : BOOLEAN, armed : BOOLEAN, why : Reasons, code : AskCodes]

LEMMA AskTyped ==
    ASSUME DriversTypeOK
    PROVE  /\ ask \in [Asks -> AskRecords] /\ backend \in [Asks -> Backends] /\ socket \in Sockets
           /\ kind \in Kinds /\ kind \in {"postgres", "mysql", "mssql", "clickhouse"}
           /\ holder \in Asks \cup {Nobody} /\ Nobody \notin Asks
           /\ life \in {"open", "closing", "closed"}
BY DriversAssumption DEF DriversTypeOK, AskRecords, AskStages, AskCodes, Backends, Sockets

LEMMA TypedAsk ==
    ASSUME kind' \in Kinds, life' \in {"open", "closing", "closed"}, socket' \in Sockets, holder' \in Asks \cup {Nobody},
           backend' \in [Asks -> Backends], ask' \in [Asks -> AskRecords]
    PROVE  DriversTypeOK'
BY DEF DriversTypeOK, AskRecords, AskStages, AskCodes, Backends, Sockets

LEMMA AskCounts ==
    ASSUME NEW r \in AskRecords
    PROVE  /\ r.rows \in Nat /\ r.limit \in Nat /\ r.limit >= 1 /\ r.read \in Nat /\ r.kept \in Nat
           /\ r.rows <= MaxRows /\ MaxRows \in Nat /\ ChunkRows \in Nat /\ ChunkRows >= 1
<1>1. Limits \subseteq Nat \ {0} /\ MaxRows \in Nat /\ ChunkRows \in Nat /\ ChunkRows >= 1
  BY DriversAssumption
<1>2. r.limit \in Limits \cup {1} /\ r.rows \in 0..MaxRows /\ r.read \in 0..MaxRows /\ r.kept \in 0..MaxRows
  BY DEF AskRecords
<1>3. r.limit \in Nat /\ r.limit >= 1
  <2>1. CASE r.limit = 1
    BY <2>1
  <2>2. CASE r.limit \in Limits
    <3>1. r.limit \in Nat /\ r.limit # 0
      BY <1>1, <2>2
    <3>2. \A n \in Nat : n # 0 => n >= 1
      OBVIOUS
    <3> QED BY <3>1, <3>2
  <2> QED BY <1>2, <2>1, <2>2
<1>4. r.rows \in Nat /\ r.read \in Nat /\ r.kept \in Nat /\ r.rows <= MaxRows
  BY <1>1, <1>2
<1> QED BY <1>1, <1>3, <1>4

LEMMA AskFieldSet ==
    ASSUME NEW r \in AskRecords
    PROVE  /\ \A x \in AskStages : [r EXCEPT !.stage = x] \in AskRecords
           /\ \A x \in 0..MaxRows : [r EXCEPT !.rows = x] \in AskRecords
           /\ \A x \in Limits : [r EXCEPT !.limit = x] \in AskRecords
           /\ \A x \in 0..MaxRows : [r EXCEPT !.read = x] \in AskRecords
           /\ \A x \in 0..MaxRows : [r EXCEPT !.kept = x] \in AskRecords
           /\ \A x \in BOOLEAN : [r EXCEPT !.told = x] \in AskRecords
           /\ \A x \in BOOLEAN : [r EXCEPT !.cut = x] \in AskRecords
           /\ \A x \in BOOLEAN : [r EXCEPT !.last = x] \in AskRecords
           /\ \A x \in BOOLEAN : [r EXCEPT !.armed = x] \in AskRecords
           /\ \A x \in Reasons : [r EXCEPT !.why = x] \in AskRecords
           /\ \A x \in AskCodes : [r EXCEPT !.code = x] \in AskRecords
<1>1. /\ \A x \in AskStages : [r EXCEPT !.stage = x] \in AskRecords
      /\ \A x \in 0..MaxRows : [r EXCEPT !.rows = x] \in AskRecords
      /\ \A x \in Limits : [r EXCEPT !.limit = x] \in AskRecords
  BY DEF AskRecords
<1>2. /\ \A x \in 0..MaxRows : [r EXCEPT !.read = x] \in AskRecords
      /\ \A x \in 0..MaxRows : [r EXCEPT !.kept = x] \in AskRecords
  BY DEF AskRecords
<1>3. /\ \A x \in BOOLEAN : [r EXCEPT !.told = x] \in AskRecords
      /\ \A x \in BOOLEAN : [r EXCEPT !.cut = x] \in AskRecords
  BY DEF AskRecords
<1>4. /\ \A x \in BOOLEAN : [r EXCEPT !.last = x] \in AskRecords
      /\ \A x \in BOOLEAN : [r EXCEPT !.armed = x] \in AskRecords
  BY DEF AskRecords
<1>5. /\ \A x \in Reasons : [r EXCEPT !.why = x] \in AskRecords
      /\ \A x \in AskCodes : [r EXCEPT !.code = x] \in AskRecords
  BY DEF AskRecords
<1> QED BY <1>1, <1>2, <1>3, <1>4, <1>5

LEMMA UnaskedIs == Unasked \in AskRecords
<1>1. 0 \in 0..MaxRows
  BY DriversAssumption
<1> QED BY <1>1 DEF Unasked, AskRecords, AskStages, AskCodes, DriverCodes, Reasons

LEMMA DriversInitial == DriversInit => DriversInv
<1> SUFFICES ASSUME DriversInit PROVE DriversInv
  OBVIOUS
<1>1. ask \in [Asks -> AskRecords] /\ backend \in [Asks -> Backends]
  BY UnaskedIs DEF DriversInit, Backends
<1>2. DriversTypeOK
  BY <1>1 DEF DriversInit, DriversTypeOK, AskRecords, AskStages, AskCodes, Backends, Sockets
<1>3. ASSUME NEW a \in Asks PROVE AskInv(a)
  <2>1. holder # a
    BY DriversAssumption DEF DriversInit
  <2> QED BY <2>1 DEF DriversInit, AskInv, LoopInv, EndInv, WireInv, Unasked
<1> QED BY <1>2, <1>3 DEF DriversInv, DriversInit

(* Other queries notice of a step only that the socket or the connection   *)
(* may be gone.                                                            *)
LEMMA WireKept ==
    ASSUME NEW k, NEW a, NEW r, NEW h, NEW s, NEW h2, NEW s2, WireInv(k, a, r, h, s), h2 = a => h = a, s2 = "up" => s = "up"
    PROVE  WireInv(k, a, r, h2, s2)
BY DEF WireInv

(* Only one query's record moves.                                          *)
LEMMA AskMoves ==
    ASSUME DriversInv, NEW a \in Asks, NEW q \in AskRecords, ask' = [ask EXCEPT ![a] = q], kind' = kind, life' = life,
           socket' \in Sockets, socket' = "up" => socket = "up",
           socket' = "destroyed" => socket = "destroyed" \/ (kind \in {"postgres", "mysql"} /\ q.why # "none"),
           ask[a].why # "none" => q.why # "none",
           holder' \in {holder, a, Nobody}, NEW b \in Backends, backend' = [backend EXCEPT ![a] = b],
           LoopInv(kind, q, b), EndInv(kind, q, b), WireInv(kind, a, q, holder', socket')
    PROVE  DriversInv'
<1>1. DriversTypeOK /\ (\A c \in Asks : AskInv(c))
      /\ (socket = "destroyed" => kind \in {"postgres", "mysql"} /\ \E c \in Asks : ask[c].why # "none")
  BY DEF DriversInv
<1>2. /\ ask \in [Asks -> AskRecords] /\ backend \in [Asks -> Backends] /\ socket \in Sockets /\ kind \in Kinds
      /\ holder \in Asks \cup {Nobody} /\ Nobody \notin Asks /\ life \in {"open", "closing", "closed"}
  BY <1>1, AskTyped
<1>3. \A c \in Asks : /\ ask'[c] = IF c = a THEN q ELSE ask[c]
                      /\ backend'[c] = IF c = a THEN b ELSE backend[c]
  BY <1>2
<1>4. ask' \in [Asks -> AskRecords] /\ backend' \in [Asks -> Backends]
  BY <1>2
<1>5. holder' \in Asks \cup {Nobody}
  BY <1>2
<1>6. DriversTypeOK'
  BY <1>2, <1>4, <1>5, TypedAsk
<1>7. socket' = "destroyed" => kind' \in {"postgres", "mysql"} /\ \E c \in Asks : ask'[c].why # "none"
  <2>1. CASE q.why # "none"
    BY <1>1, <1>3, <2>1
  <2>2. CASE q.why = "none"
    BY <1>1, <1>3, <2>2
  <2> QED BY <2>1, <2>2
<1>8. ASSUME NEW c \in Asks PROVE AskInv(c)'
  <2>1. CASE c = a
    BY <1>3, <2>1 DEF AskInv, LoopInv, EndInv, WireInv, Whole, OwnCodes
  <2>2. CASE c # a
    <3>1. LoopInv(kind, ask[c], backend[c]) /\ EndInv(kind, ask[c], backend[c]) /\ WireInv(kind, c, ask[c], holder, socket)
      BY <1>1 DEF AskInv
    <3>2. (holder' = c => holder = c) /\ ask'[c] = ask[c] /\ backend'[c] = backend[c]
      BY <1>2, <1>3, <2>2
    <3>3. WireInv(kind, c, ask[c], holder', socket')
      BY <3>1, <3>2, WireKept
    <3> QED BY <3>1, <3>2, <3>3 DEF AskInv, LoopInv, EndInv, WireInv, Whole, OwnCodes
  <2> QED BY <2>1, <2>2
<1> QED BY <1>6, <1>7, <1>8 DEF DriversInv

(* What a batch b of a loop with this much room and this many rows left    *)
(* is, whatever the provider: the last one takes what the limit leaves of  *)
(* the result and says whether that was all.                               *)
SoundBatch(k, b, room, avail) ==
    /\ b.read \in Nat /\ b.kept \in Nat /\ b.cut \in BOOLEAN /\ b.last \in BOOLEAN
    /\ b.kept <= b.read /\ b.read <= avail /\ b.kept <= room
    /\ ~b.last => b.kept = b.read
    /\ b.kept = 0 => b.last
    /\ b.last => b.kept = Lesser(avail, room) /\ (b.cut <=> IF k = "mssql" THEN avail >= room ELSE avail > room)
    /\ b.last /\ ~b.cut => (k = "mssql" => avail < ChunkRows) /\ (k = "clickhouse" => b.read = avail)

LEMMA BatchesAreSound ==
    ASSUME NEW a, Room(a) \in Nat, Avail(a) \in Nat, kind \in {"postgres", "mysql", "mssql", "clickhouse"},
           ChunkRows \in Nat, ChunkRows >= 1
    PROVE  SoundBatch(kind, BatchOf(a), Room(a), Avail(a))
<1>1. CASE kind = "postgres"
  <2>1. BatchOf(a) = postgresBatch(a)
    BY <1>1 DEF BatchOf
  <2> DEFINE want == Lesser(ChunkRows, Room(a) + 1)
             n == Lesser(want, Avail(a))
  <2>2. want \in Nat /\ want >= 1 /\ want <= Room(a) + 1 /\ want <= ChunkRows /\ want \in {ChunkRows, Room(a) + 1}
    BY DEF Lesser
  <2> DEFINE b == postgresBatch(a)
  <2>0. b = [read |-> n, kept |-> Lesser(n, Room(a)), cut |-> n > Room(a), last |-> n > Room(a) \/ n < want]
    BY DEF postgresBatch
  <2>b. BatchOf(a) = b
    BY <1>1 DEF BatchOf
  <2> HIDE DEF b
  <2> HIDE DEF want
  <2>4. n \in Nat /\ n <= want /\ n <= Avail(a) /\ n \in {want, Avail(a)}
    BY <2>2 DEF Lesser
  <2> HIDE DEF n
  <2>3. b.read = n /\ b.kept = Lesser(n, Room(a)) /\ b.cut \in BOOLEAN /\ b.last \in BOOLEAN
        /\ (b.cut <=> n > Room(a)) /\ (b.last <=> (n > Room(a) \/ n < want))
    <3>1. b.read = n /\ b.kept = Lesser(n, Room(a))
      BY <2>0
    <3>2. b.cut = (n > Room(a))
      BY <2>0
    <3>3. b.last = (n > Room(a) \/ n < want)
      BY <2>0
    <3>4. (n > Room(a)) \in BOOLEAN /\ (n > Room(a) \/ n < want) \in BOOLEAN
      BY <2>2, <2>4
    <3> QED BY <3>1, <3>2, <3>3, <3>4
  <2>5. n > Room(a) => Avail(a) > Room(a)
    BY <2>4
  <2>6. n <= Room(a) /\ n < want => n = Avail(a)
    BY <2>4
  <2>7. n <= Room(a) /\ ~(n < want) => n = want /\ n >= 1
    BY <2>2, <2>4
  <2>8. n > Room(a) \/ n <= Room(a)
    BY <2>4
  <2>9. b.kept \in Nat /\ b.kept <= n /\ b.kept <= Room(a) /\ (n <= Room(a) => b.kept = n) /\ (n > Room(a) => b.kept = Room(a))
    BY <2>3, <2>4 DEF Lesser
  <2>10. n > Room(a) => Lesser(Avail(a), Room(a)) = Room(a) /\ b.kept = Room(a) /\ b.cut /\ b.last
    BY <2>3, <2>5, <2>9 DEF Lesser
  <2>11. n <= Room(a) => ~b.cut /\ b.kept = n /\ (b.last <=> n < want) /\ (n = 0 => n < want)
    BY <2>3, <2>4, <2>7, <2>9
  <2>12. n <= Room(a) /\ n < want => Lesser(Avail(a), Room(a)) = n /\ ~(Avail(a) > Room(a))
    BY <2>4, <2>6 DEF Lesser
  <2> QED BY <1>1, <2>b, <2>1, <2>3, <2>4, <2>5, <2>8, <2>9, <2>10, <2>11, <2>12 DEF SoundBatch
<1>2. CASE kind \in {"mysql", "clickhouse"}
  <2> DEFINE past == Room(a) < ChunkRows /\ Avail(a) > Room(a)
             n == IF past THEN Room(a) ELSE Lesser(ChunkRows, Avail(a))
             b == BatchOf(a)
  <2>1. b.read = (IF past THEN n + 1 ELSE n) /\ b.kept = n /\ b.cut \in BOOLEAN /\ b.last \in BOOLEAN
        /\ (b.cut <=> past) /\ (b.last <=> (past \/ n < ChunkRows))
    BY <1>2 DEF BatchOf, mysqlBatch, clickhouseBatch
  <2>b. BatchOf(a) = b
    OBVIOUS
  <2> HIDE DEF b
  <2>2. CASE past
    <3>1. n = Room(a) /\ n + 1 \in Nat /\ n + 1 <= Avail(a) /\ Lesser(Avail(a), Room(a)) = n /\ Avail(a) > Room(a)
      BY <2>2 DEF Lesser
    <3>2. b.read = n + 1 /\ b.kept = n /\ b.cut /\ b.last
      BY <2>1, <2>2
    <3> HIDE DEF n
    <3> QED BY <1>2, <2>b, <2>1, <3>1, <3>2 DEF SoundBatch
  <2>3. CASE ~past
    <3>1. n \in Nat /\ n <= ChunkRows /\ n <= Avail(a) /\ n <= Room(a) /\ (n < ChunkRows => n = Avail(a)) /\ (n = 0 => n < ChunkRows)
      BY <2>3 DEF Lesser
    <3>2. b.read = n /\ b.kept = n /\ ~b.cut /\ (b.last <=> n < ChunkRows)
      BY <2>1, <2>3
    <3> HIDE DEF n, past
    <3>3. n < ChunkRows => Lesser(Avail(a), Room(a)) = n /\ ~(Avail(a) > Room(a))
      BY <3>1 DEF Lesser
    <3> QED BY <1>2, <2>b, <2>1, <3>1, <3>2, <3>3 DEF SoundBatch
  <2> QED BY <2>2, <2>3
<1>3. CASE kind = "mssql"
  <2> DEFINE n == Lesser(ChunkRows, Avail(a))
             within == Lesser(n, Room(a))
             b == BatchOf(a)
  <2>1. b.read = n /\ b.kept = within /\ b.cut \in BOOLEAN /\ b.last \in BOOLEAN
        /\ (b.cut <=> within = Room(a)) /\ (b.last <=> (within = Room(a) \/ n < ChunkRows))
    BY <1>3 DEF BatchOf, mssqlBatch
  <2>b. BatchOf(a) = b
    OBVIOUS
  <2> HIDE DEF b
  <2>2. n \in Nat /\ n <= ChunkRows /\ n <= Avail(a) /\ (n < ChunkRows => n = Avail(a) /\ Avail(a) < ChunkRows) /\ (n = 0 => n < ChunkRows)
    BY DEF Lesser
  <2> HIDE DEF n
  <2>3. within \in Nat /\ within <= n /\ within <= Room(a) /\ within \in {n, Room(a)}
    BY <2>2 DEF Lesser
  <2> HIDE DEF within
  <2>4. CASE within = Room(a)
    <3>1. Lesser(Avail(a), Room(a)) = Room(a) /\ Avail(a) >= Room(a)
      BY <2>2, <2>3, <2>4 DEF Lesser
    <3> QED BY <1>3, <2>b, <2>1, <2>2, <2>3, <2>4, <3>1 DEF SoundBatch
  <2>5. CASE within # Room(a)
    <3>1. within = n /\ n < Room(a)
      BY <2>2, <2>3, <2>5
    <3>2. n < ChunkRows => Lesser(Avail(a), Room(a)) = n /\ ~(Avail(a) >= Room(a))
      BY <2>2, <3>1 DEF Lesser
    <3> QED BY <1>3, <2>b, <2>1, <2>2, <2>3, <2>5, <3>1, <3>2 DEF SoundBatch
  <2> QED BY <2>4, <2>5
<1> QED BY <1>1, <1>2, <1>3

(* What the record of a query whose generator ends is, and when it winds.  *)
LEMMA LeavesAs ==
    ASSUME NEW a \in Asks, DriversInv, NEW code \in DriverCodes \ {"none"}, NEW cut \in BOOLEAN, Leave(a, code, cut)
    PROVE  \E q \in AskRecords :
               /\ ask' = [ask EXCEPT ![a] = q]
               /\ q.code = code /\ q.cut = cut /\ q.told = ask[a].told /\ q.why = ask[a].why /\ ~q.armed
               /\ q.stage = IF MustWind(a, code, cut) THEN "winding" ELSE "done"
<1> DEFINE q == [Unasked EXCEPT
                    !.code = code, !.cut = cut, !.told = ask[a].told, !.why = ask[a].why,
                    !.stage = IF MustWind(a, code, cut) THEN "winding" ELSE "done"]
<1>1. ask[a] \in AskRecords
  BY AskTyped DEF DriversInv
<1>2. ask[a].told \in BOOLEAN /\ ask[a].why \in Reasons
  BY <1>1 DEF AskRecords
<1>3. (IF MustWind(a, code, cut) THEN "winding" ELSE "done") \in AskStages
  BY DEF AskStages
<1>4. code \in AskCodes
  BY DEF AskCodes
<1>5. q \in AskRecords
  BY <1>2, <1>3, <1>4, UnaskedIs, AskFieldSet
<1>6. /\ q.code = code /\ q.cut = cut /\ q.told = ask[a].told /\ q.why = ask[a].why /\ q.armed = FALSE
      /\ q.stage = IF MustWind(a, code, cut) THEN "winding" ELSE "done"
  BY DEF Unasked
<1>7. ask' = [ask EXCEPT ![a] = q]
  BY DEF Leave
<1> QED BY <1>5, <1>6, <1>7

LEMMA AskFacts ==
    ASSUME DriversInv, NEW a \in Asks
    PROVE  /\ ask \in [Asks -> AskRecords] /\ ask[a] \in AskRecords
           /\ backend \in [Asks -> Backends] /\ backend[a] \in Backends
           /\ socket \in Sockets /\ kind \in {"postgres", "mysql", "mssql", "clickhouse"}
           /\ holder \in Asks \cup {Nobody} /\ Nobody # a
           /\ LoopInv(kind, ask[a], backend[a]) /\ EndInv(kind, ask[a], backend[a])
           /\ WireInv(kind, a, ask[a], holder, socket)
<1>1. DriversTypeOK /\ AskInv(a)
  BY DEF DriversInv
<1> QED BY <1>1, AskTyped DEF AskInv

(* A query begins, or tedious refuses it.                                  *)
LEMMA BeginKeeps ==
    ASSUME DriversInv, NEW a \in Asks, NEW rows \in 0..MaxRows, NEW limit \in Limits, Begin(a, rows, limit)
    PROVE  DriversInv'
<1> DEFINE refused == kind = "mssql" /\ (holder # Nobody \/ socket # "up")
           stage == IF refused THEN "done" ELSE IF kind = "clickhouse" THEN "sent" ELSE "reading"
           code == IF refused THEN "sql" ELSE "none"
           b == IF refused \/ socket # "up" THEN "over" ELSE "working"
           q == [Unasked EXCEPT !.rows = rows, !.limit = limit, !.armed = ~refused, !.stage = stage, !.code = code]
<1>1. /\ ask' = [ask EXCEPT ![a] = q] /\ backend' = [backend EXCEPT ![a] = b]
      /\ holder' = (IF kind = "mssql" /\ ~refused THEN a ELSE holder)
      /\ kind' = kind /\ life' = life /\ socket' = socket /\ ask[a].stage = "idle"
  BY DEF Begin, Stage
<1>2. b \in {"over", "working"} /\ b \in Backends
  BY DEF Backends
<1>3. /\ stage \in AskStages /\ code \in AskCodes /\ code \in {"sql", "none"}
      /\ (refused => stage = "done" /\ code = "sql" /\ kind = "mssql")
      /\ (~refused => stage \in {"sent", "reading"} /\ code = "none")
  <2>1. CASE refused
    BY <2>1 DEF AskStages, AskCodes, DriverCodes
  <2>2. CASE ~refused
    <3>1. stage \in {"sent", "reading"} /\ code = "none"
      BY <2>2
    <3> HIDE DEF stage, code, refused
    <3> QED BY <2>2, <3>1 DEF AskStages, AskCodes, DriverCodes, Reasons
  <2> QED BY <2>1, <2>2
<1>4. (kind # "clickhouse" => stage # "sent")
  OBVIOUS
<1>5. (~refused) \in BOOLEAN
  OBVIOUS
<1>6. q \in AskRecords
  BY <1>3, <1>5, UnaskedIs, AskFieldSet
<1>7. /\ q.stage = stage /\ q.rows = rows /\ q.limit = limit /\ q.read = 0 /\ q.kept = 0 /\ ~q.told /\ ~q.cut /\ ~q.last
      /\ (q.armed <=> ~refused) /\ q.why = "none" /\ q.code = code
  BY DEF Unasked
<1>8. holder' \in {holder, a, Nobody} /\ (holder' = a => (~refused /\ kind = "mssql") \/ holder = a)
  BY <1>1
<1> HIDE DEF stage, code, b, q, refused
<1>9. /\ LoopInv(kind, ask[a], backend[a]) /\ WireInv(kind, a, ask[a], holder, socket) /\ socket \in Sockets
      /\ kind \in {"postgres", "mysql", "mssql", "clickhouse"}
  BY AskFacts
<1>10. ask[a].why = "none" /\ holder # a
  BY <1>1, <1>9 DEF LoopInv, WireInv
<1>11. rows \in Nat /\ limit \in Nat
  BY DriversAssumption
<1>12. LoopInv(kind, q, b)
  BY <1>3, <1>7, <1>11 DEF LoopInv
<1>13. EndInv(kind, q, b)
  BY <1>3, <1>7 DEF EndInv
<1>14. WireInv(kind, a, q, holder', socket')
  BY <1>3, <1>7, <1>8, <1>10 DEF WireInv
<1>15. socket' = "destroyed" => socket = "destroyed"
  BY <1>1
<1> QED BY <1>1, <1>2, <1>6, <1>8, <1>9, <1>10, <1>12, <1>13, <1>14, <1>15, AskMoves

(* A check of a statement begins.                                          *)
LEMMA ValidateKeeps ==
    ASSUME DriversInv, NEW a \in Asks, Validate(a)
    PROVE  DriversInv'
<1> DEFINE refused == kind = "mssql" /\ (holder # Nobody \/ socket # "up")
           stage == IF refused THEN "done" ELSE "checking"
           code == IF refused THEN Marked("sql") ELSE "none"
           q == [ask[a] EXCEPT !.stage = stage, !.code = code]
<1>0. /\ ask \in [Asks -> AskRecords] /\ ask[a] \in AskRecords
      /\ backend \in [Asks -> Backends] /\ backend[a] \in Backends /\ socket \in Sockets
      /\ LoopInv(kind, ask[a], backend[a]) /\ WireInv(kind, a, ask[a], holder, socket)
  BY AskFacts
<1>1. /\ ask' = [ask EXCEPT ![a] = q] /\ UNCHANGED <<kind, life, socket, backend>>
      /\ holder' = (IF kind = "mssql" /\ ~refused THEN a ELSE holder) /\ ask[a].stage = "idle"
  BY <1>0 DEF Validate, Stage
<1>2. /\ stage \in AskStages /\ code \in AskCodes /\ code \in {"squiggle", "none"}
      /\ (refused => stage = "done" /\ code = "squiggle" /\ kind = "mssql") /\ (~refused => stage = "checking" /\ code = "none")
  BY DEF AskStages, AskCodes, CheckCodes, DriverCodes, Reasons, Marked
<1>3. q \in AskRecords
  BY <1>0, <1>2, AskFieldSet
<1>4. q.stage = stage /\ q.code = code /\ q.why = ask[a].why /\ q.told = ask[a].told /\ q.armed = ask[a].armed
  BY <1>0 DEF AskRecords
<1>5. holder' \in {holder, a, Nobody} /\ (holder' = a => (~refused /\ kind = "mssql") \/ holder = a)
  BY <1>1
<1> HIDE DEF stage, code, q, refused
<1>6. ask[a].why = "none" /\ ~ask[a].told /\ ~ask[a].armed /\ backend[a] = "none" /\ holder # a
  BY <1>0, <1>1 DEF LoopInv, WireInv
<1>7. LoopInv(kind, q, backend[a])
  BY <1>2, <1>4, <1>6 DEF LoopInv
<1>8. EndInv(kind, q, backend[a])
  BY <1>2, <1>4, <1>6 DEF EndInv
<1>9. WireInv(kind, a, q, holder', socket')
  BY <1>2, <1>4, <1>5, <1>6 DEF WireInv
<1>10. backend' = [backend EXCEPT ![a] = backend[a]] /\ socket' = socket /\ kind' = kind /\ life' = life
  BY <1>0, <1>1
<1> QED BY <1>0, <1>1, <1>3, <1>5, <1>6, <1>7, <1>8, <1>9, <1>10, AskMoves

LEMMA CheckEnds ==
    ASSUME DriversInv, NEW a \in Asks, NEW code \in {"clean", "refused", "squiggle", "thrown"},
           code = "squiggle" => kind = "mssql", ValidateEnds(a, code)
    PROVE  DriversInv'
<1> DEFINE q == [ask[a] EXCEPT !.stage = "done", !.code = code]
<1>0. /\ ask \in [Asks -> AskRecords] /\ ask[a] \in AskRecords /\ socket \in Sockets /\ Nobody # a
      /\ backend \in [Asks -> Backends] /\ backend[a] \in Backends
      /\ LoopInv(kind, ask[a], backend[a]) /\ WireInv(kind, a, ask[a], holder, socket)
  BY AskFacts
<1>1. /\ ask' = [ask EXCEPT ![a] = q] /\ UNCHANGED <<kind, life, socket, backend>>
      /\ holder' = (IF holder = a THEN Nobody ELSE holder) /\ ask[a].stage = "checking"
  BY <1>0 DEF ValidateEnds, Stage
<1>2. q \in AskRecords
  BY <1>0, AskFieldSet DEF AskStages, AskCodes, CheckCodes
<1>3. q.stage = "done" /\ q.code = code /\ q.why = ask[a].why /\ q.told = ask[a].told /\ q.armed = ask[a].armed
  BY <1>0 DEF AskRecords
<1> HIDE DEF q
<1>4. ask[a].why = "none" /\ ~ask[a].told /\ ~ask[a].armed /\ backend[a] = "none"
  BY <1>0, <1>1 DEF LoopInv
<1>5. holder' \in {holder, a, Nobody} /\ holder' # a
  BY <1>0, <1>1
<1>6. LoopInv(kind, q, backend[a])
  BY <1>3, <1>4 DEF LoopInv
<1>7. EndInv(kind, q, backend[a])
  BY <1>3, <1>4 DEF EndInv
<1>8. WireInv(kind, a, q, holder', socket')
  BY <1>5 DEF WireInv
<1>9. backend' = [backend EXCEPT ![a] = backend[a]] /\ socket' = socket /\ kind' = kind /\ life' = life
  BY <1>0, <1>1
<1> QED BY <1>0, <1>1, <1>2, <1>4, <1>5, <1>6, <1>7, <1>8, <1>9, AskMoves

(* A check ends: what the connection said is no squiggle but on SQL Server.*)
LEMMA ValidatedKeeps ==
    ASSUME DriversInv, NEW a \in Asks, (\E code \in CheckCodes : Validated(a, code)) \/ (\E said \in DriverCodes : ValidateFails(a, said))
    PROVE  DriversInv'
<1>1. ASSUME NEW code \in CheckCodes, Validated(a, code) PROVE DriversInv'
  <2>1. code \in {"clean", "refused"} /\ ValidateEnds(a, code)
    BY <1>1 DEF Validated
  <2> QED BY <2>1, CheckEnds
<1>2. ASSUME NEW said \in DriverCodes, ValidateFails(a, said) PROVE DriversInv'
  <2>1. ValidateEnds(a, Marked(said)) /\ said \in {LossCode} \cup (IF kind = "postgres" THEN {"internal"} ELSE {}) /\ socket # "up"
    BY <1>2 DEF ValidateFails
  <2>2. said = "sql" => kind = "mssql"
    BY <2>1 DEF LossCode
  <2>3. Marked(said) \in {"clean", "refused", "squiggle", "thrown"} /\ (Marked(said) = "squiggle" => kind = "mssql")
    BY <2>2 DEF Marked
  <2> QED BY <2>1, <2>3, CheckEnds
<1> QED BY <1>1, <1>2

(* A generator ends: with what it owes to the connection and the server.   *)
LEMMA LeaveKeeps ==
    ASSUME DriversInv, NEW a \in Asks, NEW code \in DriverCodes \ {"none"}, NEW cut \in BOOLEAN, Leave(a, code, cut),
           UNCHANGED <<kind, life, socket>>, NEW b \in Backends, backend' = [backend EXCEPT ![a] = b],
           holder' \in {holder, a, Nobody},
           code # "ok" => IF ask[a].why # "none" /\ kind # "mssql" THEN code = ask[a].why
                          ELSE code \notin {"cancelled", "timeout"} \ OwnCodes,
           holder' = a => kind # "clickhouse",
           holder' = a /\ socket = "up" /\ ~MustWind(a, code, cut) => kind = "mysql" \/ (kind = "mssql" /\ cut),
           kind = "clickhouse" /\ ~MustWind(a, code, cut) /\ b = "working" => ask[a].why # "none" /\ ~ask[a].told
    PROVE  DriversInv'
<1> PICK q \in AskRecords :
               /\ ask' = [ask EXCEPT ![a] = q]
               /\ q.code = code /\ q.cut = cut /\ q.told = ask[a].told /\ q.why = ask[a].why /\ ~q.armed
               /\ q.stage = IF MustWind(a, code, cut) THEN "winding" ELSE "done"
  BY LeavesAs
<1>0. socket \in Sockets
  BY AskFacts
<1>1. LoopInv(kind, q, b)
  BY DEF LoopInv
<1>2. MustWind(a, code, cut) => kind \in {"postgres", "clickhouse"}
  BY DEF MustWind
<1>3. code # "squiggle" /\ code # "none"
  BY DEF DriverCodes, Reasons
<1>4. EndInv(kind, q, b)
  BY <1>2, <1>3 DEF EndInv
<1>5. WireInv(kind, a, q, holder', socket')
  BY DEF WireInv
<1>6. socket' = socket /\ kind' = kind /\ life' = life
  OBVIOUS
<1> QED BY <1>0, <1>1, <1>4, <1>5, <1>6, AskMoves

LEMMA RespondsKeeps ==
    ASSUME DriversInv, NEW a \in Asks, Responds(a)
    PROVE  DriversInv'
<1> DEFINE q == [ask[a] EXCEPT !.stage = "reading"]
<1>0. /\ ask \in [Asks -> AskRecords] /\ ask[a] \in AskRecords /\ socket \in Sockets
      /\ backend \in [Asks -> Backends] /\ backend[a] \in Backends
      /\ LoopInv(kind, ask[a], backend[a]) /\ EndInv(kind, ask[a], backend[a]) /\ WireInv(kind, a, ask[a], holder, socket)
  BY AskFacts
<1>1. ask' = [ask EXCEPT ![a] = q] /\ UNCHANGED <<kind, life, socket, backend, holder>> /\ ask[a].stage = "sent"
  BY <1>0 DEF Responds, Stage
<1>2. q \in AskRecords
  BY <1>0, AskFieldSet DEF AskStages
<1>3. /\ q.stage = "reading" /\ q.code = ask[a].code /\ q.why = ask[a].why /\ q.told = ask[a].told /\ q.armed = ask[a].armed
      /\ q.rows = ask[a].rows /\ q.limit = ask[a].limit /\ q.read = ask[a].read /\ q.kept = ask[a].kept
  BY <1>0 DEF AskRecords
<1> HIDE DEF q
<1>4. LoopInv(kind, q, backend[a])
  BY <1>0, <1>1, <1>3 DEF LoopInv
<1>5. EndInv(kind, q, backend[a])
  BY <1>0, <1>1, <1>3 DEF EndInv
<1>6. WireInv(kind, a, q, holder', socket')
  BY <1>0, <1>1, <1>3 DEF WireInv
<1>7. backend' = [backend EXCEPT ![a] = backend[a]] /\ socket' = socket /\ kind' = kind /\ life' = life /\ holder' = holder
  BY <1>0, <1>1
<1> QED BY <1>0, <1>1, <1>2, <1>3, <1>4, <1>5, <1>6, <1>7, AskMoves

(* What a query that reads has room for and has left, and its next batch.  *)
LEMMA ReadingIs ==
    ASSUME DriversInv, NEW a \in Asks, ask[a].stage = "reading"
    PROVE  /\ ask[a].rows \in Nat /\ ask[a].limit \in Nat /\ ask[a].kept \in Nat /\ ask[a].read = ask[a].kept
           /\ ask[a].rows <= MaxRows /\ MaxRows \in Nat
           /\ Room(a) \in Nat /\ Avail(a) \in Nat /\ ask[a].kept + Room(a) = ask[a].limit /\ ask[a].kept + Avail(a) = ask[a].rows
           /\ SoundBatch(kind, BatchOf(a), Room(a), Avail(a)) /\ ChunkRows \in Nat /\ ChunkRows >= 1
<1>0. ask[a] \in AskRecords /\ LoopInv(kind, ask[a], backend[a]) /\ kind \in {"postgres", "mysql", "mssql", "clickhouse"}
  BY AskFacts
<1>1. /\ ask[a].rows \in Nat /\ ask[a].limit \in Nat /\ ask[a].read \in Nat /\ ask[a].kept \in Nat
      /\ ask[a].rows <= MaxRows /\ MaxRows \in Nat /\ ChunkRows \in Nat /\ ChunkRows >= 1
  BY <1>0, AskCounts
<1>2. ask[a].read <= ask[a].rows /\ ask[a].kept <= ask[a].limit /\ ask[a].kept = ask[a].read
  BY <1>0 DEF LoopInv
<1>3. Room(a) \in Nat /\ Avail(a) \in Nat /\ ask[a].kept + Room(a) = ask[a].limit /\ ask[a].kept + Avail(a) = ask[a].rows
  BY <1>1, <1>2 DEF Room, Avail
<1>4. SoundBatch(kind, BatchOf(a), Room(a), Avail(a))
  BY <1>0, <1>1, <1>3, BatchesAreSound
<1> QED BY <1>1, <1>2, <1>3, <1>4

(* The last batch completes what the limit leaves of the result.           *)
LEMMA LastIsWhole ==
    ASSUME DriversInv, NEW a \in Asks, ask[a].stage = "reading", BatchOf(a).last
    PROVE  /\ ask[a].kept + BatchOf(a).kept = Lesser(ask[a].rows, ask[a].limit)
           /\ BatchOf(a).cut <=> IF kind = "mssql" THEN ask[a].rows >= ask[a].limit ELSE ask[a].rows > ask[a].limit
<1> DEFINE b == BatchOf(a)
           rows == ask[a].rows
           limit == ask[a].limit
           got == ask[a].kept
<1>1. /\ rows \in Nat /\ limit \in Nat /\ got \in Nat
      /\ Room(a) \in Nat /\ Avail(a) \in Nat /\ got + Room(a) = limit /\ got + Avail(a) = rows
      /\ SoundBatch(kind, b, Room(a), Avail(a))
  BY ReadingIs
<1>2. b.kept = Lesser(Avail(a), Room(a)) /\ (b.cut <=> IF kind = "mssql" THEN Avail(a) >= Room(a) ELSE Avail(a) > Room(a))
  BY <1>1 DEF SoundBatch
<1> HIDE DEF b, rows, limit, got
<1>3. got + b.kept = Lesser(rows, limit)
  BY <1>1, <1>2 DEF Lesser
<1>4. (Avail(a) >= Room(a) <=> rows >= limit) /\ (Avail(a) > Room(a) <=> rows > limit)
  BY <1>1
<1>5. b.cut <=> IF kind = "mssql" THEN rows >= limit ELSE rows > limit
  BY <1>2, <1>4
<1> QED BY <1>3, <1>5 DEF b, rows, limit, got

(* A batch is read: what is given is sound, and a loop that ends on it has *)
(* all of the result or, on SQL Server, what the limit let through.        *)
LEMMA ReadsKeeps ==
    ASSUME DriversInv, NEW a \in Asks, Reads(a)
    PROVE  DriversInv'
<1> DEFINE b == BatchOf(a)
           over == IF kind = "mssql" THEN Complete(a) ELSE b.last /\ b.read = Avail(a)
           e == IF over THEN "over" ELSE backend[a]
           q == [ask[a] EXCEPT !.read = @ + b.read, !.kept = @ + b.kept, !.cut = b.cut, !.last = b.last,
                               !.told = TRUE, !.stage = "given", !.armed = @ /\ ~Complete(a)]
<1>0. /\ ask \in [Asks -> AskRecords] /\ ask[a] \in AskRecords /\ socket \in Sockets
      /\ backend \in [Asks -> Backends] /\ backend[a] \in Backends /\ kind \in {"postgres", "mysql", "mssql", "clickhouse"}
      /\ LoopInv(kind, ask[a], backend[a]) /\ EndInv(kind, ask[a], backend[a]) /\ WireInv(kind, a, ask[a], holder, socket)
  BY AskFacts
<1>1. ask[a].stage = "reading" /\ socket = "up" /\ UNCHANGED <<kind, life, socket>>
  BY DEF Reads, Stage
<1>2. /\ ask[a].rows \in Nat /\ ask[a].limit \in Nat /\ ask[a].kept \in Nat /\ ask[a].read = ask[a].kept
      /\ ask[a].rows <= MaxRows /\ MaxRows \in Nat
      /\ Room(a) \in Nat /\ Avail(a) \in Nat /\ ask[a].kept + Room(a) = ask[a].limit /\ ask[a].kept + Avail(a) = ask[a].rows
      /\ SoundBatch(kind, b, Room(a), Avail(a)) /\ ChunkRows \in Nat
  BY <1>1, ReadingIs
<1>3. /\ b.read \in Nat /\ b.kept \in Nat /\ b.cut \in BOOLEAN /\ b.last \in BOOLEAN
      /\ b.kept <= b.read /\ b.read <= Avail(a) /\ b.kept <= Room(a)
      /\ (~b.last => b.kept = b.read) /\ (b.kept = 0 => b.last)
      /\ (b.last /\ ~b.cut => (kind = "mssql" => Avail(a) < ChunkRows) /\ (kind = "clickhouse" => b.read = Avail(a)))
  BY <1>2 DEF SoundBatch
<1>4. backend' = [backend EXCEPT ![a] = e] /\ e \in Backends
  BY <1>0 DEF Reads, Backends
<1>5. b.last /\ ~b.cut /\ kind \in {"mssql", "clickhouse"} => over
  BY <1>3 DEF Complete
<1>6. holder' \in {a, Nobody} /\ (holder' = a => kind # "clickhouse" /\ ~(over /\ kind = "mssql"))
  <2>1. holder' = CASE over /\ kind \in {"mssql", "mysql"} -> Nobody [] OTHER -> IF OneWire THEN a ELSE Nobody
    BY DEF Reads
  <2>2. Nobody # a
    BY AskFacts
  <2> HIDE DEF over
  <2> QED BY <2>1, <2>2 DEF OneWire
<1>7. over => e = "over"
  OBVIOUS
<1>8. CASE b.kept = 0 /\ ask[a].told
  <2>1. Leave(a, "ok", b.cut)
    BY <1>8 DEF Reads
  <2>2. b.last
    BY <1>3, <1>8
  <2> HIDE DEF over, e, b
  <2>3. holder' = a /\ ~MustWind(a, "ok", b.cut) => kind = "mysql" \/ (kind = "mssql" /\ b.cut)
    BY <1>0, <1>1, <1>3, <1>5, <1>6, <2>2 DEF MustWind
  <2>4. kind = "clickhouse" /\ ~MustWind(a, "ok", b.cut) => e # "working"
    BY <1>1, <1>3, <1>5, <1>7, <2>2 DEF MustWind
  <2>5. "ok" \in DriverCodes \ {"none"}
    BY DEF DriverCodes
  <2> QED BY <1>1, <1>3, <1>4, <1>6, <2>1, <2>3, <2>4, <2>5, LeaveKeeps
<1>9. CASE ~(b.kept = 0 /\ ask[a].told)
  <2>0. ask' = [ask EXCEPT ![a] = q]
    BY <1>0, <1>9 DEF Reads
  <2>1. /\ ask[a].read + b.read \in 0..MaxRows /\ ask[a].kept + b.kept \in 0..MaxRows
        /\ ask[a].read + b.read <= ask[a].rows /\ ask[a].kept + b.kept <= ask[a].limit
        /\ ask[a].kept + b.kept <= ask[a].read + b.read
        /\ (~b.last => ask[a].kept + b.kept = ask[a].read + b.read)
    BY <1>2, <1>3
  <2>2. /\ (ask[a].armed /\ ~Complete(a)) \in BOOLEAN
    OBVIOUS
  <2>3. b.last => /\ ask[a].kept + b.kept = Lesser(ask[a].rows, ask[a].limit)
                  /\ (b.cut <=> IF kind = "mssql" THEN ask[a].rows >= ask[a].limit ELSE ask[a].rows > ask[a].limit)
    BY <1>1, LastIsWhole
  <2> HIDE DEF b
  <2>4. q \in AskRecords
    <3>1. \A r \in AskRecords, x, y \in 0..MaxRows, c, l \in BOOLEAN :
              [r EXCEPT !.read = x, !.kept = y, !.cut = c, !.last = l] \in AskRecords
      BY AskFieldSet
    <3>2. \A r \in AskRecords, m \in BOOLEAN : [r EXCEPT !.told = TRUE, !.stage = "given", !.armed = m] \in AskRecords
      BY AskFieldSet DEF AskStages
    <3> DEFINE r == [ask[a] EXCEPT !.read = @ + b.read, !.kept = @ + b.kept, !.cut = b.cut, !.last = b.last]
    <3>3. r \in AskRecords
      BY <1>0, <1>3, <2>1, <3>1
    <3>4. q = [r EXCEPT !.told = TRUE, !.stage = "given", !.armed = ask[a].armed /\ ~Complete(a)]
      BY <1>0 DEF AskRecords
    <3> HIDE DEF r, q
    <3> QED BY <2>2, <3>2, <3>3, <3>4
  <2>5. /\ q.stage = "given" /\ q.code = ask[a].code /\ q.why = ask[a].why /\ q.told = TRUE
        /\ q.rows = ask[a].rows /\ q.limit = ask[a].limit /\ q.read = ask[a].read + b.read /\ q.kept = ask[a].kept + b.kept
        /\ q.cut = b.cut /\ q.last = b.last
    BY <1>0 DEF AskRecords
  <2> HIDE DEF q, e, over
  <2>6. LoopInv(kind, q, e)
    <3>1. q.last => Whole(kind, q)
      BY <2>3, <2>5 DEF Whole
    <3>2. q.last /\ kind = "clickhouse" /\ ~q.cut => e # "working"
      BY <1>5, <1>7, <2>5
    <3> QED BY <2>1, <2>5, <3>1, <3>2 DEF LoopInv
  <2>7. EndInv(kind, q, e)
    BY <1>0, <1>1, <2>5 DEF EndInv
  <2>8. WireInv(kind, a, q, holder', socket')
    BY <1>5, <1>6, <2>5 DEF WireInv
  <2>9. holder' \in {holder, a, Nobody} /\ kind' = kind /\ life' = life /\ socket' = socket
    BY <1>1, <1>6
  <2> QED BY <1>0, <1>4, <2>0, <2>4, <2>5, <2>6, <2>7, <2>8, <2>9, AskMoves
<1> QED BY <1>8, <1>9

LEMMA ConsumedKeeps ==
    ASSUME DriversInv, NEW a \in Asks, Consumed(a)
    PROVE  DriversInv'
<1>0. /\ ask \in [Asks -> AskRecords] /\ ask[a] \in AskRecords /\ socket \in Sockets
      /\ backend \in [Asks -> Backends] /\ backend[a] \in Backends /\ kind \in {"postgres", "mysql", "mssql", "clickhouse"}
      /\ LoopInv(kind, ask[a], backend[a]) /\ EndInv(kind, ask[a], backend[a]) /\ WireInv(kind, a, ask[a], holder, socket)
  BY AskFacts
<1>1. ask[a].stage = "given" /\ UNCHANGED <<kind, life, socket, backend, holder>>
  BY DEF Consumed, Stage
<1>2. backend' = [backend EXCEPT ![a] = backend[a]] /\ holder' = holder
  BY <1>0, <1>1
<1>3. CASE ask[a].last
  <2>1. Leave(a, "ok", ask[a].cut)
    BY <1>3 DEF Consumed
  <2>2. ask[a].cut \in BOOLEAN /\ "ok" \in DriverCodes \ {"none"}
    BY <1>0 DEF AskRecords, DriverCodes
  <2>3. holder' = a => kind # "clickhouse"
    BY <1>0, <1>2 DEF WireInv
  <2>4. holder' = a /\ socket = "up" /\ ~MustWind(a, "ok", ask[a].cut) => kind = "mysql" \/ (kind = "mssql" /\ ask[a].cut)
    BY <1>0, <1>1, <1>2, <1>3 DEF MustWind, WireInv
  <2>5. kind = "clickhouse" /\ ~MustWind(a, "ok", ask[a].cut) => backend[a] # "working"
    BY <1>0, <1>1, <1>3 DEF MustWind, LoopInv
  <2>6. UNCHANGED <<kind, life, socket>> /\ holder' \in {holder, a, Nobody}
    BY <1>1
  <2> QED BY <1>0, <1>2, <2>1, <2>2, <2>3, <2>4, <2>5, <2>6, LeaveKeeps
<1>4. CASE ~ask[a].last
  <2> DEFINE q == [ask[a] EXCEPT !.stage = "reading"]
  <2>1. ask' = [ask EXCEPT ![a] = q]
    BY <1>0, <1>4 DEF Consumed
  <2>2. q \in AskRecords
    BY <1>0, AskFieldSet DEF AskStages
  <2>3. /\ q.stage = "reading" /\ q.code = ask[a].code /\ q.why = ask[a].why /\ q.told = ask[a].told /\ q.armed = ask[a].armed
        /\ q.rows = ask[a].rows /\ q.limit = ask[a].limit /\ q.read = ask[a].read /\ q.kept = ask[a].kept
    BY <1>0 DEF AskRecords
  <2> HIDE DEF q
  <2>4. LoopInv(kind, q, backend[a])
    BY <1>0, <1>1, <1>4, <2>3 DEF LoopInv
  <2>5. EndInv(kind, q, backend[a])
    BY <1>0, <1>1, <2>3 DEF EndInv
  <2>6. WireInv(kind, a, q, holder', socket')
    BY <1>0, <1>1, <2>3 DEF WireInv
  <2>7. socket' = socket /\ kind' = kind /\ life' = life
    BY <1>1
  <2> QED BY <1>0, <1>2, <2>1, <2>2, <2>3, <2>4, <2>5, <2>6, <2>7, AskMoves
<1> QED BY <1>3, <1>4

(* The driver rejects: the reason it was stopped for is what is reported.  *)
LEMMA FailsKeeps ==
    ASSUME DriversInv, NEW a \in Asks, NEW said \in DriverCodes \ {"none", "ok"}, Fails(a, said)
    PROVE  DriversInv'
<1> DEFINE code == CodeAfter(a, said)
           b == IF ask[a].why = "none" \/ kind # "clickhouse" THEN "over" ELSE backend[a]
<1>0. /\ ask[a] \in AskRecords /\ socket \in Sockets /\ Nobody # a
      /\ backend \in [Asks -> Backends] /\ backend[a] \in Backends /\ kind \in {"postgres", "mysql", "mssql", "clickhouse"}
      /\ LoopInv(kind, ask[a], backend[a]) /\ WireInv(kind, a, ask[a], holder, socket)
  BY AskFacts
<1>1. /\ ask[a].stage \in {"sent", "reading"} /\ UNCHANGED <<kind, life, socket>> /\ Leave(a, code, FALSE)
      /\ backend' = [backend EXCEPT ![a] = b]
      /\ holder' = (IF holder = a /\ ~MustWind(a, said, FALSE) THEN Nobody ELSE holder)
  BY <1>0 DEF Fails
<1>2. said \in OwnCodes \cup {"sql", "network", "internal"}
  <2>1. LossCode \in {"sql", "network"}
    BY DEF LossCode
  <2>2. kind = "clickhouse" => "cancelled" \in OwnCodes
    BY DEF OwnCodes
  <2> QED BY <2>1, <2>2 DEF Fails
<1>3. code \in DriverCodes \ {"none", "ok"}
  <2>1. ask[a].why \in Reasons
    BY <1>0 DEF AskRecords
  <2> QED BY <2>1 DEF CodeAfter, DriverCodes, Reasons
<1>4. IF ask[a].why # "none" /\ kind # "mssql" THEN code = ask[a].why
      ELSE code \notin {"cancelled", "timeout"} \ OwnCodes
  BY <1>2 DEF CodeAfter
<1>5. b \in Backends /\ b \in {"over", backend[a]} /\ (ask[a].why = "none" => b = "over")
  BY <1>0 DEF Backends
<1>6. MustWind(a, said, FALSE) <=> MustWind(a, code, FALSE)
  BY <1>3 DEF MustWind
<1> HIDE DEF code, b
<1>7. holder' \in {holder, a, Nobody}
  BY <1>1
<1>8. holder' = a => kind # "clickhouse"
  BY <1>0, <1>1 DEF WireInv
<1>9. ~(holder' = a /\ socket = "up" /\ ~MustWind(a, code, FALSE))
  BY <1>0, <1>1, <1>6
<1>10. kind = "clickhouse" /\ ~MustWind(a, code, FALSE) /\ b = "working" => ask[a].why # "none" /\ ~ask[a].told
  BY <1>0, <1>1, <1>3, <1>5 DEF MustWind, LoopInv
<1> QED BY <1>1, <1>3, <1>4, <1>5, <1>7, <1>8, <1>9, <1>10, LeaveKeeps

(* The first stop wins, and finds a query that has not ended.              *)
LEMMA InterruptKeeps ==
    ASSUME DriversInv, NEW a \in Asks, NEW why \in Reasons, Interrupt(a, why)
    PROVE  DriversInv'
<1> DEFINE q == [ask[a] EXCEPT !.why = why]
           b == IF kind = "mssql" THEN "over" ELSE backend[a]
<1>0. /\ ask \in [Asks -> AskRecords] /\ ask[a] \in AskRecords /\ socket \in Sockets /\ Nobody # a
      /\ backend \in [Asks -> Backends] /\ backend[a] \in Backends /\ kind \in {"postgres", "mysql", "mssql", "clickhouse"}
      /\ LoopInv(kind, ask[a], backend[a]) /\ EndInv(kind, ask[a], backend[a]) /\ WireInv(kind, a, ask[a], holder, socket)
  BY AskFacts
<1>1. /\ ask' = [ask EXCEPT ![a] = q] /\ kind' = kind /\ life' = life /\ socket' = SocketAfter
      /\ backend' = [backend EXCEPT ![a] = b] /\ holder' \in {holder, a, Nobody} /\ (holder' = a => holder = a)
      /\ ask[a].armed /\ why # "none" /\ ask[a].why = "none"
  BY <1>0 DEF Interrupt
<1>2. ask[a].stage \in {"sent", "reading", "given"} /\ ask[a].code = "none"
  BY <1>0, <1>1 DEF LoopInv, EndInv
<1>3. b \in Backends /\ (kind = "clickhouse" => b = backend[a])
  BY <1>0 DEF Backends
<1>4. q \in AskRecords
  BY <1>0, AskFieldSet
<1>5. /\ q.stage = ask[a].stage /\ q.code = ask[a].code /\ q.why = why /\ q.told = ask[a].told /\ q.armed = ask[a].armed
      /\ q.rows = ask[a].rows /\ q.limit = ask[a].limit /\ q.read = ask[a].read /\ q.kept = ask[a].kept
      /\ q.cut = ask[a].cut /\ q.last = ask[a].last
  BY <1>0 DEF AskRecords
<1> HIDE DEF q, b
<1>6. /\ socket' \in Sockets /\ (socket' = "up" => socket = "up")
      /\ (socket' = "destroyed" => socket = "destroyed" \/ (kind \in {"postgres", "mysql"} /\ q.why # "none"))
  BY <1>0, <1>1, <1>5 DEF SocketAfter, Sockets
<1>7. LoopInv(kind, q, b)
  BY <1>0, <1>2, <1>3, <1>5 DEF LoopInv, Whole
<1>8. EndInv(kind, q, b)
  BY <1>2, <1>5 DEF EndInv
<1>9. WireInv(kind, a, q, holder', socket')
  BY <1>0, <1>1, <1>2, <1>5 DEF WireInv
<1> QED BY <1>1, <1>3, <1>4, <1>6, <1>7, <1>8, <1>9, AskMoves

LEMMA WoundKeeps ==
    ASSUME DriversInv, NEW a \in Asks, NEW heard \in BOOLEAN, Wound(a, heard)
    PROVE  DriversInv'
<1> DEFINE q == [ask[a] EXCEPT !.stage = "done"]
           b == IF heard THEN "over" ELSE "deaf"
<1>0. /\ ask \in [Asks -> AskRecords] /\ ask[a] \in AskRecords /\ socket \in Sockets /\ Nobody # a
      /\ LoopInv(kind, ask[a], backend[a]) /\ EndInv(kind, ask[a], backend[a])
  BY AskFacts
<1>1. /\ ask' = [ask EXCEPT ![a] = q] /\ UNCHANGED <<kind, life, socket>> /\ ask[a].stage = "winding"
      /\ backend' = [backend EXCEPT ![a] = b] /\ holder' \in {holder, a, Nobody} /\ holder' # a
  BY <1>0 DEF Wound, Stage
<1>2. b \in Backends /\ b # "working"
  BY DEF Backends
<1>3. q \in AskRecords
  BY <1>0, AskFieldSet DEF AskStages
<1>4. q.stage = "done" /\ q.code = ask[a].code /\ q.why = ask[a].why /\ q.armed = ask[a].armed
  BY <1>0 DEF AskRecords
<1> HIDE DEF q, b
<1>5. LoopInv(kind, q, b)
  BY <1>0, <1>1, <1>4 DEF LoopInv
<1>6. EndInv(kind, q, b)
  BY <1>0, <1>1, <1>2, <1>4 DEF EndInv
<1>7. WireInv(kind, a, q, holder', socket')
  BY <1>1 DEF WireInv
<1>8. kind' = kind /\ life' = life /\ socket' = socket
  BY <1>1
<1> QED BY <1>0, <1>1, <1>2, <1>3, <1>4, <1>5, <1>6, <1>7, <1>8, AskMoves

LEMMA DrainedKeeps ==
    ASSUME DriversInv, NEW a \in Asks, Drained(a)
    PROVE  DriversInv'
<1>0. /\ ask \in [Asks -> AskRecords] /\ ask[a] \in AskRecords /\ socket \in Sockets /\ Nobody # a
      /\ LoopInv(kind, ask[a], backend[a]) /\ EndInv(kind, ask[a], backend[a])
  BY AskFacts
<1>1. /\ ask' = [ask EXCEPT ![a] = ask[a]] /\ kind' = kind /\ life' = life /\ socket' = socket
      /\ backend' = [backend EXCEPT ![a] = "over"] /\ holder' = Nobody /\ kind = "mysql" /\ ask[a].stage = "done"
  BY <1>0 DEF Drained, Stage
<1>2. LoopInv(kind, ask[a], "over")
  BY <1>0, <1>1 DEF LoopInv
<1>3. EndInv(kind, ask[a], "over")
  BY <1>0, <1>1 DEF EndInv
<1>4. WireInv(kind, a, ask[a], holder', socket')
  BY <1>0, <1>1 DEF WireInv
<1>5. "over" \in Backends /\ holder' \in {holder, a, Nobody}
  BY <1>1 DEF Backends
<1> QED BY <1>0, <1>1, <1>2, <1>3, <1>4, <1>5, AskMoves

(* The connection goes, or the session closes: no query moves.             *)
LEMMA ConnectionGoes ==
    ASSUME DriversInv, HangsUp \/ Close \/ Closes
    PROVE  DriversInv'
<1>0. /\ DriversTypeOK /\ \A c \in Asks : AskInv(c)
      /\ socket = "destroyed" => kind \in {"postgres", "mysql"} /\ \E c \in Asks : ask[c].why # "none"
  BY DEF DriversInv
<1>1. /\ ask \in [Asks -> AskRecords] /\ backend \in [Asks -> Backends] /\ socket \in Sockets /\ kind \in Kinds
      /\ holder \in Asks \cup {Nobody} /\ life \in {"open", "closing", "closed"}
  BY <1>0, AskTyped
<1>2. /\ kind' = kind /\ ask' = ask /\ holder' = holder /\ life' \in {"open", "closing", "closed"}
      /\ socket' \in Sockets /\ (socket' = "up" => socket = "up") /\ (socket' = "destroyed" => socket = "destroyed")
  BY <1>1 DEF HangsUp, Close, Closes, Sockets
<1>3. backend' \in [Asks -> Backends]
  BY <1>1 DEF HangsUp, Close, Closes, Backends
<1>4. \A c \in Asks : backend'[c] = backend[c] \/ (backend'[c] = "over" /\ backend[c] = "working")
  BY <1>1 DEF HangsUp, Close, Closes
<1>5. DriversTypeOK'
  BY <1>1, <1>2, <1>3, TypedAsk
<1>6. ASSUME NEW c \in Asks PROVE AskInv(c)'
  <2>1. LoopInv(kind, ask[c], backend[c]) /\ EndInv(kind, ask[c], backend[c]) /\ WireInv(kind, c, ask[c], holder, socket)
    BY <1>0 DEF AskInv
  <2>2. WireInv(kind, c, ask[c], holder', socket')
    BY <1>2, <2>1 DEF WireInv
  <2>3. LoopInv(kind, ask[c], backend'[c]) /\ EndInv(kind, ask[c], backend'[c])
    BY <1>4, <2>1 DEF LoopInv, EndInv
  <2> QED BY <1>2, <2>2, <2>3 DEF AskInv, LoopInv, EndInv, WireInv, Whole, OwnCodes
<1>7. socket' = "destroyed" => kind' \in {"postgres", "mysql"} /\ \E c \in Asks : ask'[c].why # "none"
  BY <1>0, <1>2
<1> QED BY <1>5, <1>6, <1>7 DEF DriversInv

LEMMA DriversStep == DriversInv /\ [DriversNext]_driverVars => DriversInv'
<1> SUFFICES ASSUME DriversInv, [DriversNext]_driverVars PROVE DriversInv'
  OBVIOUS
<1>1. ASSUME NEW a \in Asks, NEW rows \in 0..MaxRows, NEW limit \in Limits, Begin(a, rows, limit) PROVE DriversInv'
  BY <1>1, BeginKeeps
<1>2. ASSUME NEW a \in Asks, Validate(a) PROVE DriversInv'
  BY <1>2, ValidateKeeps
<1>3. ASSUME NEW a \in Asks, (\E code \in CheckCodes : Validated(a, code)) \/ (\E said \in DriverCodes : ValidateFails(a, said))
      PROVE  DriversInv'
  BY <1>3, ValidatedKeeps
<1>4. ASSUME NEW a \in Asks, Responds(a) PROVE DriversInv'
  BY <1>4, RespondsKeeps
<1>5. ASSUME NEW a \in Asks, Reads(a) PROVE DriversInv'
  BY <1>5, ReadsKeeps
<1>6. ASSUME NEW a \in Asks, Consumed(a) PROVE DriversInv'
  BY <1>6, ConsumedKeeps
<1>7. ASSUME NEW a \in Asks, Drained(a) PROVE DriversInv'
  BY <1>7, DrainedKeeps
<1>8. ASSUME NEW a \in Asks, NEW said \in DriverCodes \ {"none", "ok"}, Fails(a, said) PROVE DriversInv'
  BY <1>8, FailsKeeps
<1>9. ASSUME NEW a \in Asks, NEW why \in Reasons, Interrupt(a, why) PROVE DriversInv'
  BY <1>9, InterruptKeeps
<1>10. ASSUME NEW a \in Asks, NEW heard \in BOOLEAN, Wound(a, heard) PROVE DriversInv'
  BY <1>10, WoundKeeps
<1>11. CASE HangsUp \/ Close \/ Closes
  BY <1>11, ConnectionGoes
<1>12. CASE UNCHANGED driverVars
  BY <1>12 DEF DriversInv, DriversTypeOK, AskInv, LoopInv, EndInv, WireInv, Whole, OwnCodes, driverVars
<1> QED BY <1>1, <1>2, <1>3, <1>4, <1>5, <1>6, <1>7, <1>8, <1>9, <1>10, <1>11, <1>12 DEF DriversNext

(* A session of a driver keeps its loops, its reasons and its connection   *)
(* in the state DriversInv describes.                                      *)
THEOREM DriversInductive == DriversSpec => []DriversInv
BY DriversInitial, DriversStep, PTL DEF DriversSpec

(* Whatever stops a query and whenever, for any number of queries, rows and*)
(* chunks: its caller hears why, a broken session is one some query was    *)
(* told of or stopped late, no ended ClickHouse query is left executing but*)
(* one stopped before its response, and only SQL Server shows a connection *)
(* error as a squiggle (interrupt.ts:5-12).                                *)
THEOREM StopsAreReported == DriversSpec => []DriversSafe
<1>1. DriversInv => ReasonOutlivesTheSocket
  BY DEF DriversInv, AskInv, EndInv, ReasonOutlivesTheSocket, Ended, Stage
<1>2. DriversInv => SquigglesAreTheStatements
  BY DEF DriversInv, AskInv, EndInv, SquigglesAreTheStatements
<1>3. DriversInv => NothingLeftExecuting
  BY DEF DriversInv, AskInv, EndInv, NothingLeftExecuting, Ended, Stage
<1>4. DriversInv => SpoiledSessionsAreKnown
  <2> SUFFICES ASSUME DriversInv PROVE SpoiledSessionsAreKnown
    OBVIOUS
  <2>1. ASSUME socket = "destroyed", \A a \in Asks : ask[a].stage \in {"idle", "done"}
        PROVE  \E a \in Asks : ask[a].code \in Dropped \/ LateStop(a)
    <3>1. PICK a \in Asks : ask[a].why # "none" /\ kind \in {"postgres", "mysql"}
      BY <2>1 DEF DriversInv
    <3>2. LoopInv(kind, ask[a], backend[a]) /\ EndInv(kind, ask[a], backend[a]) /\ ask[a] \in AskRecords
      BY AskFacts
    <3>3. ask[a].stage = "done" /\ ask[a].code # "none" /\ ask[a].why \in {"cancelled", "timeout"}
      BY <2>1, <3>1, <3>2 DEF LoopInv, EndInv, AskRecords, Reasons
    <3>4. ask[a].code # "ok" => ask[a].code \in Dropped
      BY <3>1, <3>2, <3>3 DEF EndInv, Dropped
    <3> QED BY <3>1, <3>4 DEF LateStop
  <2>2. ASSUME NEW a \in Asks, holder = a, Ended(a), socket = "up"
        PROVE  kind = "mysql" \/ AbandonedRequest(a)
    <3>1. WireInv(kind, a, ask[a], holder, socket)
      BY AskFacts
    <3> QED BY <2>2, <3>1 DEF WireInv, Ended, Stage, AbandonedRequest
  <2> QED BY <2>1, <2>2 DEF SpoiledSessionsAreKnown
<1>5. DriversInv => DriversSafe
  BY <1>1, <1>2, <1>3, <1>4 DEF DriversInv, DriversSafe
<1> QED BY <1>5, DriversInductive, PTL

(* Only a loop that runs to its end says "ok".                             *)
LEMMA OnlyLoopsSucceed ==
    ASSUME DriversInv, [DriversNext]_driverVars, NEW a \in Asks, ask[a].code = "none", ask'[a].code = "ok"
    PROVE  Reads(a) \/ Consumed(a)
<1>0. ask \in [Asks -> AskRecords]
  BY AskFacts
<1>a. ASSUME NEW c \in Asks, NEW q, ask' = [ask EXCEPT ![c] = q], q.code # "ok" PROVE FALSE
  BY <1>0, <1>a
<1>b. ASSUME NEW c \in Asks, NEW q, ask' = [ask EXCEPT ![c] = q] PROVE c = a
  BY <1>0, <1>b
<1>1. ASSUME NEW c \in Asks, NEW rows \in 0..MaxRows, NEW limit \in Limits, Begin(c, rows, limit) PROVE FALSE
  <2> DEFINE refused == kind = "mssql" /\ (holder # Nobody \/ socket # "up")
             q == [Unasked EXCEPT !.rows = rows, !.limit = limit, !.armed = ~refused,
                     !.stage = IF refused THEN "done" ELSE IF kind = "clickhouse" THEN "sent" ELSE "reading",
                     !.code = IF refused THEN "sql" ELSE "none"]
  <2>1. ask' = [ask EXCEPT ![c] = q]
    BY <1>1 DEF Begin
  <2>2. q.code # "ok"
    BY DEF Unasked
  <2> QED BY <1>a, <2>1, <2>2
<1>2. ASSUME NEW c \in Asks, Validate(c) PROVE FALSE
  <2>1. \A code \in {"none", "squiggle"} : [ask[c] EXCEPT !.stage = "checking", !.code = code].code # "ok"
    BY <1>0 DEF AskRecords
  <2>2. \A code \in {"none", "squiggle"} : [ask[c] EXCEPT !.stage = "done", !.code = code].code # "ok"
    BY <1>0 DEF AskRecords
  <2> DEFINE refused == kind = "mssql" /\ (holder # Nobody \/ socket # "up")
             q == [ask[c] EXCEPT !.stage = IF refused THEN "done" ELSE "checking",
                                 !.code = IF refused THEN Marked("sql") ELSE "none"]
  <2>3. ask' = [ask EXCEPT ![c] = q]
    BY <1>0, <1>2 DEF Validate
  <2>4. q.code # "ok"
    BY <1>0 DEF AskRecords, Marked
  <2> QED BY <1>a, <2>3, <2>4
<1>3. ASSUME NEW c \in Asks, NEW code, ValidateEnds(c, code), code # "ok" PROVE FALSE
  <2>1. ask' = [ask EXCEPT ![c] = [ask[c] EXCEPT !.stage = "done", !.code = code]]
    BY <1>0, <1>3 DEF ValidateEnds
  <2>2. [ask[c] EXCEPT !.stage = "done", !.code = code].code # "ok"
    BY <1>0, <1>3 DEF AskRecords
  <2> QED BY <1>a, <2>1, <2>2
<1>4. ASSUME NEW c \in Asks, Responds(c) \/ (\E heard \in BOOLEAN : Wound(c, heard)) \/ (\E why \in Reasons : Interrupt(c, why)) \/ Drained(c)
      PROVE  FALSE
  <2>1. ask'[a].code = ask[a].code
    BY <1>0, <1>4 DEF Responds, Wound, Interrupt, Drained, AskRecords
  <2> QED BY <2>1
<1>5. ASSUME NEW c \in Asks, NEW said \in DriverCodes \ {"none", "ok"}, Fails(c, said) PROVE FALSE
  <2> DEFINE code == CodeAfter(c, said)
             q == [Unasked EXCEPT
                     !.code = code, !.cut = FALSE, !.told = ask[c].told, !.why = ask[c].why,
                     !.stage = IF MustWind(c, code, FALSE) THEN "winding" ELSE "done"]
  <2>1. ask[c].why \in Reasons
    BY <1>0 DEF AskRecords
  <2>2. code # "ok"
    BY <2>1 DEF CodeAfter, Reasons
  <2>3. ask' = [ask EXCEPT ![c] = q]
    BY <1>5 DEF Fails, Leave
  <2> HIDE DEF code
  <2>4. q.code # "ok"
    BY <2>2 DEF Unasked
  <2> QED BY <1>a, <2>3, <2>4
<1>6. ASSUME NEW c \in Asks, Reads(c) \/ Consumed(c) PROVE c = a
  <2>1. ASSUME NEW code, NEW cut, Leave(c, code, cut) PROVE c = a
    BY <1>0, <2>1 DEF Leave
  <2>2. CASE Consumed(c) /\ ask' = [ask EXCEPT ![c].stage = "reading"]
    BY <1>0, <2>2
  <2>3. CASE \E q : ask' = [ask EXCEPT ![c] = q]
    BY <1>b, <2>3
  <2>4. CASE Reads(c) /\ ~(BatchOf(c).kept = 0 /\ ask[c].told)
    <3>1. ask' = [ask EXCEPT ![c] = [ask[c] EXCEPT !.read = @ + BatchOf(c).read, !.kept = @ + BatchOf(c).kept,
                                 !.cut = BatchOf(c).cut, !.last = BatchOf(c).last, !.told = TRUE, !.stage = "given",
                                 !.armed = @ /\ ~Complete(c)]]
      BY <1>0, <2>4 DEF Reads
    <3> QED BY <2>3, <3>1
  <2>5. Reads(c) /\ BatchOf(c).kept = 0 /\ ask[c].told => Leave(c, "ok", BatchOf(c).cut)
    BY DEF Reads
  <2>6. Consumed(c) => Leave(c, "ok", ask[c].cut) \/ ask' = [ask EXCEPT ![c].stage = "reading"]
    BY DEF Consumed
  <2> QED BY <1>6, <2>1, <2>2, <2>4, <2>5, <2>6
<1>7. ASSUME UNCHANGED driverVars \/ HangsUp \/ Close \/ Closes PROVE FALSE
  BY <1>7 DEF driverVars, HangsUp, Close, Closes
<1>8. ASSUME NEW c \in Asks, (\E code \in CheckCodes : Validated(c, code)) \/ (\E said \in DriverCodes : ValidateFails(c, said)) PROVE FALSE
  <2>1. \E code : ValidateEnds(c, code) /\ code # "ok"
    BY <1>8 DEF Validated, ValidateFails, Marked
  <2> QED BY <1>3, <2>1
<1> QED BY <1>1, <1>2, <1>4, <1>5, <1>6, <1>7, <1>8 DEF DriversNext

(* A query that succeeds has handed over exactly the rows of its result up *)
(* to the limit, and says whether there were more, whatever the provider,  *)
(* the size of a chunk and where the limit falls in one (postgres.ts,      *)
(* mysql.ts, clickhouse.ts; mssql.ts:328 calls a result of exactly the     *)
(* limit truncated).                                                       *)
THEOREM RowsAreUpToTheLimit == DriversSpec => RowsUpToTheLimit
<1> DEFINE RowsStep ==
        \A a \in Asks : ask[a].code = "none" /\ ask'[a].code = "ok" =>
           LET rows == ask[a].rows
               limit == ask[a].limit
               more == IF kind = "mssql" THEN rows >= limit ELSE rows > limit
           IN  ask[a].kept = Lesser(rows, limit) /\ ask'[a].cut = more
<1>1. DriversInv /\ [DriversNext]_driverVars => [RowsStep]_driverVars
  <2> SUFFICES ASSUME DriversInv, [DriversNext]_driverVars, NEW a \in Asks, ask[a].code = "none", ask'[a].code = "ok"
               PROVE  /\ ask[a].kept = Lesser(ask[a].rows, ask[a].limit)
                      /\ ask'[a].cut = IF kind = "mssql" THEN ask[a].rows >= ask[a].limit ELSE ask[a].rows > ask[a].limit
    OBVIOUS
  <2> DEFINE more == IF kind = "mssql" THEN ask[a].rows >= ask[a].limit ELSE ask[a].rows > ask[a].limit
  <2>0. ask \in [Asks -> AskRecords] /\ ask[a] \in AskRecords /\ LoopInv(kind, ask[a], backend[a])
    BY AskFacts
  <2>1. ask[a].rows \in Nat /\ ask[a].limit \in Nat /\ ask[a].kept \in Nat
    BY <2>0, AskCounts
  <2>2. more \in BOOLEAN
    <3>1. (ask[a].rows >= ask[a].limit) \in BOOLEAN /\ (ask[a].rows > ask[a].limit) \in BOOLEAN
      BY <2>1
    <3>2. CASE kind = "mssql"
      BY <3>1, <3>2
    <3>3. CASE kind # "mssql"
      BY <3>1, <3>3
    <3> QED BY <3>2, <3>3
  <2>3. ASSUME NEW cut \in BOOLEAN, Leave(a, "ok", cut) PROVE ask'[a].cut = cut
    <3>1. "ok" \in DriverCodes \ {"none"}
      BY DEF DriverCodes
    <3>2. \E q \in AskRecords : ask' = [ask EXCEPT ![a] = q] /\ q.cut = cut
      BY <2>3, <3>1, LeavesAs
    <3> QED BY <2>0, <3>2
  <2>4. CASE Reads(a)
    <3>1. ask[a].stage = "reading"
      BY <2>4 DEF Stage, Reads
    <3>2. SoundBatch(kind, BatchOf(a), Room(a), Avail(a)) /\ Room(a) \in Nat /\ Avail(a) \in Nat
      BY <3>1, ReadingIs
    <3>3. CASE BatchOf(a).kept = 0 /\ ask[a].told
      <4>1. BatchOf(a).last /\ BatchOf(a).cut \in BOOLEAN
        BY <3>2, <3>3 DEF SoundBatch
      <4>2. ask[a].kept + BatchOf(a).kept = Lesser(ask[a].rows, ask[a].limit) /\ (BatchOf(a).cut <=> more)
        BY <3>1, <4>1, LastIsWhole
      <4>3. ask[a].kept = Lesser(ask[a].rows, ask[a].limit)
        BY <2>1, <3>3, <4>2
      <4>4. Leave(a, "ok", BatchOf(a).cut)
        BY <2>4, <3>3 DEF Reads
      <4>5. ask'[a].cut = BatchOf(a).cut
        BY <2>3, <4>1, <4>4
      <4> HIDE DEF more
      <4>6. ask'[a].cut = more
        BY <2>2, <4>1, <4>2, <4>5
      <4> QED BY <4>3, <4>6 DEF more
    <3>4. CASE ~(BatchOf(a).kept = 0 /\ ask[a].told)
      <4>1. ask'[a].code = ask[a].code
        BY <2>0, <2>4, <3>4 DEF Reads, AskRecords
      <4> QED BY <4>1
    <3> QED BY <3>3, <3>4
  <2>5. CASE Consumed(a)
    <3>1. ask[a].stage = "given"
      BY <2>5 DEF Consumed, Stage
    <3>2. CASE ask[a].last
      <4>1. Whole(kind, ask[a]) /\ ask[a].cut \in BOOLEAN
        BY <2>0, <3>1, <3>2 DEF LoopInv, AskRecords
      <4>2. Leave(a, "ok", ask[a].cut)
        BY <2>5, <3>2 DEF Consumed
      <4>3. ask'[a].cut = ask[a].cut
        BY <2>3, <4>1, <4>2
      <4>4. ask[a].kept = Lesser(ask[a].rows, ask[a].limit) /\ (ask[a].cut <=> more)
        BY <4>1 DEF Whole
      <4> HIDE DEF more
      <4>5. ask'[a].cut = more
        BY <2>2, <4>1, <4>3, <4>4
      <4> QED BY <4>4, <4>5 DEF more
    <3>3. CASE ~ask[a].last
      <4>1. ask'[a].code = ask[a].code
        BY <2>0, <2>5, <3>3 DEF Consumed, AskRecords
      <4> QED BY <4>1
    <3> QED BY <3>2, <3>3
  <2> QED BY <2>4, <2>5, OnlyLoopsSucceed
<1>2. DriversSpec => [][DriversNext]_driverVars
  BY DEF DriversSpec
<1>3. DriversSpec => [][RowsStep]_driverVars
  BY <1>1, <1>2, DriversInductive, PTL
<1> QED BY <1>3 DEF RowsUpToTheLimit


-----------------------------------------------------------------------------
(* Browse: the tables are where the engine has them, and nothing deeper is *)
(* ever opened.                                                            *)
Serves(s) ==
    /\ s.engine \in Servers /\ s.tables \subseteq PathsOf(s.engine)
    /\ s.columns \in [s.tables -> SUBSET Idents]

BrowseInv ==
    /\ Serves(server)
    /\ at \in Seq(Idents) /\ Len(at) <= Depth(server.engine) + 1

-----------------------------------------------------------------------------
LEMMA DepthIs == \A e \in Servers : Depth(e) \in 0..2 /\ Depth(e) + 1 \in Nat
BY DEF Depth, Servers

LEMMA PathIs ==
    ASSUME NEW e \in Servers, NEW t \in PathsOf(e)
    PROVE  t \in Seq(Idents) /\ Len(t) = Depth(e) + 1
<1>1. Depth(e) + 1 \in Nat /\ t \in [1..(Depth(e) + 1) -> Idents]
  BY DepthIs DEF PathsOf
<1> QED BY <1>1

LEMMA PrefixOf ==
    ASSUME NEW t \in Seq(Idents), NEW k \in Nat, k <= Len(t)
    PROVE  /\ SubSeq(t, 1, k) \in Seq(Idents) /\ Len(SubSeq(t, 1, k)) = k
           /\ \A i \in 1..k : SubSeq(t, 1, k)[i] = t[i]
OBVIOUS

(* A node is as deep in the tree as its kind says.                         *)
NodeKinds == {"schema", "database", "table", "column"}

LEMMA NodesAre ==
    ASSUME NEW what \in NodeKinds, NEW s, NEW path
    PROVE  /\ \A node \in Names(what, s, path) : node.kind = what
           /\ \A node \in Columns(s, path) : node.kind = "column"
           /\ NamesIn(Names(what, s, path)) = {t[Len(path) + 1] : t \in Below(s, path)}
           /\ NamesIn(Columns(s, path)) = IF path \in s.tables THEN s.columns[path] ELSE {}
           /\ Names(what, s, path) # NotFound /\ Columns(s, path) # NotFound
<1>1. \A k, n : Node(k, n).kind = k /\ Node(k, n).name = n
  BY DEF Node
<1>2. \A node \in Names(what, s, path) : node.kind = what
  BY <1>1 DEF Names
<1>3. \A node \in Columns(s, path) : node.kind = "column"
  BY <1>1 DEF Columns
<1>4. \E node \in NotFound : node.kind = "error"
  BY <1>1 DEF NotFound
<1>5. Names(what, s, path) # NotFound /\ Columns(s, path) # NotFound
  BY <1>2, <1>3, <1>4 DEF NodeKinds
<1>6. NamesIn(Names(what, s, path)) = {t[Len(path) + 1] : t \in Below(s, path)}
  <2>1. ASSUME NEW t \in Below(s, path) PROVE t[Len(path) + 1] \in NamesIn(Names(what, s, path))
    <3>1. Node(what, t[Len(path) + 1]) \in Names(what, s, path)
      BY DEF Names
    <3> QED BY <1>1, <3>1, Zenon DEF NamesIn
  <2>2. ASSUME NEW x \in NamesIn(Names(what, s, path)) PROVE x \in {t[Len(path) + 1] : t \in Below(s, path)}
    <3>1. PICK node \in Names(what, s, path) : x = node.name
      BY DEF NamesIn
    <3>2. PICK t \in Below(s, path) : node = Node(what, t[Len(path) + 1])
      BY <3>1 DEF Names
    <3>3. x = t[Len(path) + 1]
      BY <1>1, <3>1, <3>2
    <3> QED BY <3>3
  <2> QED BY <2>1, <2>2
<1>7. NamesIn(Columns(s, path)) = IF path \in s.tables THEN s.columns[path] ELSE {}
  <2>1. ASSUME path \in s.tables, NEW x \in s.columns[path] PROVE x \in NamesIn(Columns(s, path))
    <3>1. Node("column", x) \in Columns(s, path)
      BY <2>1 DEF Columns
    <3> QED BY <1>1, <3>1, Zenon DEF NamesIn
  <2>2. ASSUME NEW x \in NamesIn(Columns(s, path)) PROVE path \in s.tables /\ x \in s.columns[path]
    <3>1. PICK node \in Columns(s, path) : x = node.name
      BY DEF NamesIn
    <3>2. path \in s.tables /\ \E c \in s.columns[path] : node = Node("column", c)
      BY <3>1 DEF Columns
    <3> QED BY <1>1, <3>1, <3>2
  <2> QED BY <2>1, <2>2
<1> QED BY <1>2, <1>3, <1>5, <1>6, <1>7

(* What every engine answers for a path that is not below its tables.      *)
Upper(s, path) == {Names("schema", s, path), Names("database", s, path), Names("table", s, path)}

LEMMA BrowseIs ==
    ASSUME NEW s, s.engine \in Servers, NEW path \in Seq(Idents), Len(path) <= Depth(s.engine) + 1
    PROVE  /\ Len(path) = Depth(s.engine) + 1 => children(s, path) = Columns(s, path)
           /\ Len(path) <= Depth(s.engine) => children(s, path) \in Upper(s, path)
           /\ browse(s, path) # NotFound
<1>1. PICK n \in Nat : n = Len(path)
  OBVIOUS
<1>4. n = 2 => SubSeq(path, 1, 2) = path
  <2> SUFFICES ASSUME n = 2 PROVE SubSeq(path, 1, 2) = path
    OBVIOUS
  <2>1. PICK p : p = SubSeq(path, 1, 2)
    OBVIOUS
  <2>2. 2 \in Nat /\ 2 <= Len(path)
    BY <1>1
  <2>3. p \in Seq(Idents) /\ Len(p) = 2 /\ \A i \in 1..2 : p[i] = path[i]
    BY <2>1, <2>2, PrefixOf, Zenon
  <2>4. p = path
    BY <1>1, <2>3
  <2> QED BY <2>1, <2>4
<1>5. (n = 1 => <<path[1]>> = path) /\ (n = 0 <=> path = <<>>)
  BY <1>1
<1>2. /\ Len(path) = Depth(s.engine) + 1 => browse(s, path) = Columns(s, path)
      /\ Len(path) <= Depth(s.engine) => browse(s, path) \in Upper(s, path)
  <2>1. CASE s.engine = "postgres"
    <3>1. browse(s, path) = postgresBrowse(s, path)
      BY <2>1 DEF browse
    <3>2. Depth(s.engine) = 1
      BY <2>1 DEF Depth
    <3>3. Len(path) = 2 => postgresBrowse(s, path) = Columns(s, path)
      BY <1>1 DEF postgresBrowse
    <3>4. Len(path) <= 1 => postgresBrowse(s, path) \in Upper(s, path)
      BY <1>1 DEF postgresBrowse, Upper
    <3> QED BY <3>1, <3>2, <3>3, <3>4
  <2>2. CASE s.engine = "mysql"
    <3>1. browse(s, path) = mysqlBrowse(s, path)
      BY <2>2 DEF browse
    <3>2. Depth(s.engine) = 1
      BY <2>2 DEF Depth
    <3>3. Len(path) = 2 => mysqlBrowse(s, path) = Columns(s, path)
      BY <1>1 DEF mysqlBrowse
    <3>4. Len(path) <= 1 => mysqlBrowse(s, path) \in Upper(s, path)
      BY <1>1 DEF mysqlBrowse, Upper
    <3> QED BY <3>1, <3>2, <3>3, <3>4
  <2>3. CASE s.engine = "clickhouse"
    <3>1. browse(s, path) = clickhouseBrowse(s, path)
      BY <2>3 DEF browse
    <3>2. Depth(s.engine) = 1
      BY <2>3 DEF Depth
    <3>3. Len(path) = 2 => clickhouseBrowse(s, path) = Columns(s, path)
      BY <1>1 DEF clickhouseBrowse
    <3>4. Len(path) <= 1 => clickhouseBrowse(s, path) \in Upper(s, path)
      BY <1>1 DEF clickhouseBrowse, Upper
    <3> QED BY <3>1, <3>2, <3>3, <3>4
  <2>4. CASE s.engine = "mssql"
    <3>1. browse(s, path) = mssqlBrowse(s, path)
      BY <2>4 DEF browse
    <3>2. Depth(s.engine) = 1
      BY <2>4 DEF Depth
    <3>3. Len(path) = 2 => mssqlBrowse(s, path) = Columns(s, path)
      <4> SUFFICES ASSUME n = 2 PROVE mssqlBrowse(s, path) = Columns(s, path)
        BY <1>1
      <4>1. mssqlBrowse(s, path) = Columns(s, SubSeq(path, 1, 2))
        <5>1. n # 0 /\ n # 1
          OBVIOUS
        <5> QED BY <1>1, <5>1, Zenon DEF mssqlBrowse
      <4> QED BY <1>4, <4>1
    <3>4. Len(path) <= 1 => mssqlBrowse(s, path) \in Upper(s, path)
      BY <1>1 DEF mssqlBrowse, Upper
    <3> QED BY <3>1, <3>2, <3>3, <3>4
  <2>5. CASE s.engine = "trino"
    <3>1. browse(s, path) = trinoBrowse(s, path)
      BY <2>5 DEF browse
    <3>2. Depth(s.engine) = 2
      BY <2>5 DEF Depth
    <3>3. Len(path) = 3 => trinoBrowse(s, path) = Columns(s, path)
      BY <1>1 DEF trinoBrowse
    <3>4. Len(path) <= 2 => trinoBrowse(s, path) \in Upper(s, path)
      <4>1. n <= 2 => n \in {0, 1, 2}
        OBVIOUS
      <4>2. n \in {0, 1, 2} => trinoBrowse(s, path) \in Upper(s, path)
        BY <1>1 DEF trinoBrowse, Upper
      <4> QED BY <1>1, <4>1, <4>2
    <3> QED BY <3>1, <3>2, <3>3, <3>4
  <2>6. CASE s.engine = "kafka"
    <3>1. browse(s, path) = kafkaBrowse(s, path)
      BY <2>6 DEF browse
    <3>2. Depth(s.engine) = 0
      BY <2>6 DEF Depth
    <3>3. Len(path) = 1 => kafkaBrowse(s, path) = Columns(s, path)
      BY <1>1 DEF kafkaBrowse
    <3>4. Len(path) <= 0 => kafkaBrowse(s, path) \in Upper(s, path)
      BY <1>1 DEF kafkaBrowse, Upper
    <3> QED BY <3>1, <3>2, <3>3, <3>4
  <2>7. CASE s.engine = "elasticsearch"
    <3>1. browse(s, path) = elasticBrowse(s, path)
      BY <2>7 DEF browse
    <3>2. Depth(s.engine) = 0
      BY <2>7 DEF Depth
    <3>3. Len(path) = 1 => elasticBrowse(s, path) = Columns(s, path)
      BY <1>1, <1>5 DEF elasticBrowse
    <3>4. Len(path) <= 0 => elasticBrowse(s, path) \in Upper(s, path)
      BY <1>1, <1>5 DEF elasticBrowse, Upper
    <3> QED BY <3>1, <3>2, <3>3, <3>4
  <2> QED BY <2>1, <2>2, <2>3, <2>4, <2>5, <2>6, <2>7 DEF Servers
<1>3. browse(s, path) # NotFound
  <2>1. Len(path) <= Depth(s.engine) \/ Len(path) = Depth(s.engine) + 1
    BY <1>1, DepthIs
  <2>2. Columns(s, path) # NotFound /\ NotFound \notin Upper(s, path)
    BY NodesAre DEF Upper, NodeKinds
  <2> QED BY <1>2, <2>1, <2>2
<1> QED BY <1>2, <1>3 DEF children

(* The tree is the server's.                                               *)
LEMMA TreeIs ==
    ASSUME NEW s, Serves(s), NEW path \in Seq(Idents), Len(path) <= Depth(s.engine) + 1
    PROVE  /\ NamesIn(children(s, path)) = IF path \in s.tables THEN s.columns[path]
                                           ELSE {t[Len(path) + 1] : t \in Below(s, path)}
           /\ NamesIn(children(s, path)) \subseteq Idents
           /\ \A node \in children(s, path) : node.kind = "column" <=> Len(path) = Depth(s.engine) + 1
<1>1. Len(path) \in Nat /\ Depth(s.engine) \in Nat /\ s.engine \in Servers
  BY DepthIs DEF Serves
<1>2. \A t \in s.tables : t \in Seq(Idents) /\ Len(t) = Depth(s.engine) + 1
  BY PathIs DEF Serves
<1>3. CASE Len(path) = Depth(s.engine) + 1
  <2>1. children(s, path) = Columns(s, path)
    BY <1>1, <1>3, BrowseIs
  <2>2. Below(s, path) = {}
    BY <1>1, <1>2, <1>3 DEF Below
  <2>3. /\ \A node \in Columns(s, path) : node.kind = "column"
        /\ NamesIn(Columns(s, path)) = IF path \in s.tables THEN s.columns[path] ELSE {}
    BY NodesAre DEF NodeKinds
  <2>5. {t[Len(path) + 1] : t \in Below(s, path)} = {}
    BY <2>2
  <2>6. path \in s.tables => s.columns[path] \subseteq Idents
    BY DEF Serves
  <2> QED BY <1>3, <2>1, <2>3, <2>5, <2>6
<1>4. CASE Len(path) <= Depth(s.engine)
  <2>1. PICK what \in {"schema", "database", "table"} : children(s, path) = Names(what, s, path)
    BY <1>1, <1>4, BrowseIs DEF Upper
  <2>2. path \notin s.tables
    BY <1>1, <1>2, <1>4
  <2>3. /\ \A node \in Names(what, s, path) : node.kind = what
        /\ NamesIn(Names(what, s, path)) = {t[Len(path) + 1] : t \in Below(s, path)}
    BY NodesAre DEF NodeKinds
  <2>4. \A t \in Below(s, path) : t[Len(path) + 1] \in Idents
    <3> TAKE t \in Below(s, path)
    <3>1. t \in Seq(Idents) /\ Len(path) + 1 \in 1..Len(t)
      BY <1>1, <1>2, <1>4 DEF Below
    <3> QED BY <3>1
  <2>5. Len(path) # Depth(s.engine) + 1 /\ what # "column"
    BY <1>1, <1>4
  <2> QED BY <2>1, <2>2, <2>3, <2>4, <2>5
<1> QED BY <1>1, <1>3, <1>4

(* Roots, and what is below one.                                           *)
LEMMA RootsAre ==
    ASSUME NEW s, Serves(s), NEW r \in Idents
    PROVE  /\ NamesIn(children(s, <<>>)) = {t[1] : t \in s.tables}
           /\ Depth(s.engine) > 0 => NamesIn(children(s, <<r>>)) = {t[2] : t \in {u \in s.tables : u[1] = r}}
           /\ Depth(s.engine) = 0 => NamesIn(children(s, <<r>>)) = IF <<r>> \in s.tables THEN s.columns[<<r>>] ELSE {}
<1>1. PICK d \in Nat : d = Depth(s.engine)
  BY DepthIs DEF Serves
<1>2. \A t \in s.tables : t \in Seq(Idents) /\ Len(t) = d + 1
  BY <1>1, PathIs DEF Serves
<1>3. NamesIn(children(s, <<>>)) = {t[1] : t \in s.tables}
  <2>1. PICK none : none = <<>>
    OBVIOUS
  <2>2. none \in Seq(Idents) /\ Len(none) = 0
    BY <2>1
  <2>3. Len(none) <= Depth(s.engine) + 1 /\ \A t \in s.tables : Len(t) # 0
    BY <1>1, <1>2, <2>2
  <2>4. none \notin s.tables
    BY <2>2, <2>3
  <2>5. NamesIn(children(s, none)) = {t[Len(none) + 1] : t \in Below(s, none)}
    BY <2>2, <2>3, <2>4, TreeIs, Zenon
  <2>6. Below(s, none) = s.tables
    <3>1. ASSUME NEW t \in s.tables PROVE Len(t) > 0 /\ SubSeq(t, 1, 0) = none
      BY <1>1, <1>2, <2>1
    <3> QED BY <2>2, <3>1 DEF Below
  <2> QED BY <2>1, <2>2, <2>5, <2>6
<1>4. PICK one : one = <<r>>
  OBVIOUS
<1>5. one \in Seq(Idents) /\ Len(one) = 1 /\ one[1] = r
  BY <1>4
<1>6. Len(one) <= Depth(s.engine) + 1
  BY <1>1, <1>5
<1>7. NamesIn(children(s, one)) = IF one \in s.tables THEN s.columns[one] ELSE {t[Len(one) + 1] : t \in Below(s, one)}
  BY <1>5, <1>6, TreeIs, Zenon
<1>8. ASSUME d > 0 PROVE NamesIn(children(s, one)) = {t[2] : t \in {u \in s.tables : u[1] = r}}
  <2>1. \A t \in s.tables : Len(t) > 1
    BY <1>1, <1>2, <1>8
  <2>2. one \notin s.tables
    <3>1. ASSUME NEW t \in s.tables PROVE Len(t) # 1
      <4>1. PICK l \in Nat : l = Len(t)
        BY <1>2
      <4>2. l > 1
        BY <2>1, <4>1
      <4>3. l # 1
        BY <4>2
      <4> QED BY <4>1, <4>3, Zenon
    <3> QED BY <1>5, <3>1, Zenon
  <2>3. ASSUME NEW t \in s.tables PROVE SubSeq(t, 1, 1) = one <=> t[1] = r
    <3>1. t \in Seq(Idents) /\ 1 <= Len(t)
      BY <1>2, <2>1
    <3>2. PICK p : p = SubSeq(t, 1, 1)
      OBVIOUS
    <3>3. p \in Seq(Idents) /\ Len(p) = 1 /\ p[1] = t[1]
      BY <3>1, <3>2, PrefixOf
    <3>4. p[1] = one[1] => p = one
      BY <1>5, <3>3
    <3> QED BY <1>5, <3>2, <3>3, <3>4
  <2>4. Below(s, one) = {u \in s.tables : u[1] = r}
    BY <1>5, <2>1, <2>3 DEF Below
  <2> QED BY <1>5, <1>7, <2>2, <2>4
<1>9. ASSUME d = 0 PROVE NamesIn(children(s, one)) = IF one \in s.tables THEN s.columns[one] ELSE {}
  <2>1. \A t \in s.tables : Len(t) = 1
    BY <1>1, <1>2, <1>9
  <2>2. Below(s, one) = {}
    <3>1. ASSUME NEW t \in s.tables PROVE ~(Len(t) > Len(one))
      <4>1. Len(t) = 1 /\ Len(one) = 1
        BY <1>5, <2>1
      <4> QED BY <4>1
    <3> QED BY <3>1, Zenon DEF Below
  <2>3. {t[Len(one) + 1] : t \in Below(s, one)} = {}
    BY <2>2
  <2> QED BY <1>7, <2>3
<1> QED BY <1>1, <1>3, <1>4, <1>8, <1>9

(* A table of two names is those two, and one below a root is found by it. *)
LEMMA PairIs ==
    ASSUME NEW s, Serves(s), NEW t \in s.tables, Depth(s.engine) = 1
    PROVE  t = <<t[1], t[2]>> /\ t[1] \in Idents /\ t[2] \in Idents /\ t \in Seq(Idents) /\ Len(t) = 2
<1>1. PICK d \in Nat : d = 1 /\ d = Depth(s.engine)
  OBVIOUS
<1>2. t \in Seq(Idents) /\ Len(t) = Depth(s.engine) + 1
  BY PathIs DEF Serves
<1>3. Len(t) = 2
  BY <1>1, <1>2
<1>4. \A i \in 1..Len(t) : t[i] \in Idents
  <2>1. t \in Seq(Idents)
    BY <1>2
  <2> QED BY <2>1
<1>5. t[1] \in Idents /\ t[2] \in Idents
  <2>1. 1 \in 1..2 /\ 2 \in 1..2
    OBVIOUS
  <2> QED BY <1>3, <1>4, <2>1, Zenon
<1>6. t = <<t[1], t[2]>>
  <2>1. PICK p : p = <<t[1], t[2]>>
    OBVIOUS
  <2>2. p \in Seq(Idents) /\ Len(p) = 2 /\ p[1] = t[1] /\ p[2] = t[2]
    BY <1>5, <2>1
  <2>3. \A i \in 1..2 : p[i] = t[i]
    BY <2>2
  <2>4. p = t
    BY <1>2, <1>3, <2>2, <2>3
  <2> QED BY <2>1, <2>4
<1> QED BY <1>2, <1>3, <1>5, <1>6

(* A table named without its root: the columns of one of its name.         *)
LEMMA UnqualifiedIs ==
    ASSUME NEW s, Serves(s), NEW n \in Idents, columnsOf(s, <<n>>) # {}
    PROVE  \/ /\ Depth(s.engine) = 1
              /\ \E t \in s.tables : /\ t[Len(t)] = n /\ t[2] = n
                                     /\ NamesIn(columnsOf(s, <<n>>)) = s.columns[t]
           \/ s.engine = "elasticsearch" /\ \E t \in s.tables : n \in s.columns[t]
<1> DEFINE holding == {r \in NamesIn(children(s, <<>>)) : n \in NamesIn(children(s, <<r>>))}
<1>1. PICK d \in 0..2 : d = Depth(s.engine)
  BY DepthIs DEF Serves
<1>2. \A t \in s.tables : t \in Seq(Idents) /\ Len(t) = d + 1
  BY <1>1, PathIs DEF Serves
<1>3. columnsOf(s, <<n>>) = {node \in unqualified(s, n) : node.kind = "column"}
  <2>1. Len(<<n>>) = 1 /\ <<n>>[1] = n
    OBVIOUS
  <2> QED BY <2>1 DEF columnsOf
<1>4. holding # {} /\ unqualified(s, n) = children(s, <<Min(holding), n>>)
  BY <1>3 DEF unqualified
<1>5. holding \subseteq Idents /\ holding \in SUBSET Nat
  <2>1. \A t \in s.tables : t[1] \in Idents
    BY <1>1, <1>2
  <2>2. NamesIn(children(s, <<>>)) = {t[1] : t \in s.tables}
    BY RootsAre
  <2> QED BY <2>1, <2>2, BrowseAssumption
<1>6. PICK m \in Idents : m = Min(holding) /\ m \in holding
  <2> HIDE DEF holding
  <2> QED BY <1>4, <1>5, MinIs
<1>7. PICK path : path = <<m, n>>
  OBVIOUS
<1>8. path \in Seq(Idents) /\ Len(path) = 2 /\ path[1] = m /\ path[2] = n
  BY <1>7
<1>9. unqualified(s, n) = children(s, path)
  <2> HIDE DEF holding
  <2> QED BY <1>4, <1>6, <1>7
<1>10. CASE d = 2
  <2>1. Len(path) <= Depth(s.engine) + 1 /\ Len(path) # Depth(s.engine) + 1
    BY <1>1, <1>8, <1>10
  <2>2. \A node \in children(s, path) : node.kind # "column"
    BY <1>8, <2>1, TreeIs
  <2> QED BY <1>3, <1>9, <2>2
<1>11. CASE d = 1
  <2>1. Len(path) = Depth(s.engine) + 1
    BY <1>1, <1>8, <1>11
  <2>2. Len(path) <= Depth(s.engine) + 1
    BY <1>1, <1>8, <1>11
  <2>3. columnsOf(s, <<n>>) = children(s, path)
    BY <1>3, <1>8, <1>9, <2>1, <2>2, TreeIs
  <2>4. path \in s.tables
    <3>1. m \in NamesIn(children(s, <<>>)) /\ n \in NamesIn(children(s, <<m>>))
      BY <1>6
    <3>2. NamesIn(children(s, <<m>>)) = {t[2] : t \in {u \in s.tables : u[1] = m}}
      <4>1. Depth(s.engine) > 0
        BY <1>1, <1>11
      <4> HIDE DEF holding
      <4> QED BY <4>1, RootsAre
    <3>3. PICK t \in s.tables : t[1] = m /\ t[2] = n
      BY <3>1, <3>2
    <3>4. t = <<t[1], t[2]>>
      BY <1>1, <1>11, PairIs
    <3> QED BY <1>7, <3>3, <3>4
  <2>5. NamesIn(children(s, path)) = s.columns[path]
    BY <1>8, <2>2, <2>4, TreeIs
  <2> QED BY <1>1, <1>8, <1>11, <2>3, <2>4, <2>5
<1>12. CASE d = 0
  <2>1. s.engine \in {"kafka", "elasticsearch"}
    BY <1>1, <1>12 DEF Depth, Serves, Servers
  <2>2. CASE s.engine = "kafka"
    <3>1. browse(s, path) = NotFound
      BY <1>8, <2>2 DEF browse, kafkaBrowse
    <3>2. children(s, path) = {}
      BY <3>1 DEF children
    <3> QED BY <1>3, <1>9, <3>2
  <2>3. CASE s.engine = "elasticsearch"
    <3>1. n \in NamesIn(children(s, <<m>>))
      BY <1>6
    <3>2. NamesIn(children(s, <<m>>)) = IF <<m>> \in s.tables THEN s.columns[<<m>>] ELSE {}
      BY <1>1, <1>12, RootsAre
    <3> QED BY <2>3, <3>1, <3>2
  <2> QED BY <2>1, <2>2, <2>3
<1> QED BY <1>10, <1>11, <1>12

LEMMA CompletionIs == ASSUME Serves(server) PROVE CompletionIsOfTheTable
BY UnqualifiedIs DEF CompletionIsOfTheTable

LEMMA TableIsCompleted ==
    ASSUME NEW s, Serves(s), Depth(s.engine) = 1, NEW t \in s.tables
    PROVE  NamesIn(columnsOf(s, t)) = s.columns[t]
<1>1. t \in Seq(Idents) /\ Len(t) = 2 /\ Len(t) = Depth(s.engine) + 1 /\ Len(t) <= Depth(s.engine) + 1
  BY PairIs
<1>2. NamesIn(children(s, t)) = s.columns[t] /\ \A node \in children(s, t) : node.kind = "column"
  BY <1>1, TreeIs
<1>3. columnsOf(s, t) = {node \in children(s, t) : node.kind = "column"}
  BY <1>1 DEF columnsOf
<1>4. columnsOf(s, t) = children(s, t)
  BY <1>2, <1>3
<1> QED BY <1>2, <1>4

LEMMA UnqualifiedFinds ==
    ASSUME NEW s, Serves(s), Depth(s.engine) = 1, NEW t \in s.tables
    PROVE  \E u \in s.tables : u[2] = t[2] /\ NamesIn(columnsOf(s, <<t[2]>>)) = s.columns[u]
<1> DEFINE n == t[2]
           holding == {r \in NamesIn(children(s, <<>>)) : n \in NamesIn(children(s, <<r>>))}
<1>1. t[1] \in Idents /\ n \in Idents
  BY PairIs
<1>2. t[1] \in holding
  <2>1. n \in NamesIn(children(s, <<t[1]>>))
    <3>1. PICK r \in Idents : r = t[1]
      BY <1>1
    <3>2. NamesIn(children(s, <<r>>)) = {v[2] : v \in {u \in s.tables : u[1] = r}}
      BY RootsAre
    <3> QED BY <3>1, <3>2
  <2>2. NamesIn(children(s, <<>>)) = {v[1] : v \in s.tables}
    BY <1>1, RootsAre
  <2> QED BY <2>1, <2>2
<1>3. holding \in SUBSET Idents /\ holding \in SUBSET Nat
  <2>1. \A v \in s.tables : v[1] \in Idents
    BY PairIs
  <2>2. NamesIn(children(s, <<>>)) = {v[1] : v \in s.tables}
    BY <1>1, RootsAre
  <2> QED BY <2>1, <2>2, BrowseAssumption
<1>4. PICK m \in Idents : m = Min(holding) /\ m \in holding
  <2> HIDE DEF holding
  <2> QED BY <1>2, <1>3, MinIs
<1>5. PICK u \in s.tables : u[1] = m /\ u[2] = n
  <2>1. n \in NamesIn(children(s, <<m>>))
    BY <1>4
  <2>2. NamesIn(children(s, <<m>>)) = {v[2] : v \in {w \in s.tables : w[1] = m}}
    BY RootsAre
  <2> QED BY <2>1, <2>2
<1>6. u = <<m, n>>
  BY <1>5, PairIs
<1>7. columnsOf(s, <<n>>) = {node \in unqualified(s, n) : node.kind = "column"}
  <2>1. Len(<<n>>) = 1 /\ <<n>>[1] = n
    OBVIOUS
  <2> QED BY <2>1 DEF columnsOf
<1>8. unqualified(s, n) = children(s, <<Min(holding), n>>)
  BY <1>2 DEF unqualified
<1>9. columnsOf(s, <<n>>) = {node \in children(s, u) : node.kind = "column"}
  <2> HIDE DEF holding
  <2> QED BY <1>4, <1>6, <1>7, <1>8
<1>10. columnsOf(s, u) = {node \in children(s, u) : node.kind = "column"}
  <2>1. Len(u) = 2
    BY PairIs
  <2> QED BY <2>1 DEF columnsOf
<1>11. NamesIn(columnsOf(s, u)) = s.columns[u]
  BY TableIsCompleted
<1> QED BY <1>5, <1>9, <1>10, <1>11

LEMMA TablesAre == ASSUME Serves(server) PROVE TablesAreCompleted
BY TableIsCompleted, UnqualifiedFinds DEF TablesAreCompleted

-----------------------------------------------------------------------------
LEMMA BrowseInitOK == BrowseInit => BrowseInv
<1> SUFFICES ASSUME BrowseInit PROVE BrowseInv
  OBVIOUS
<1>1. PICK e \in Servers : \E ts \in SUBSET PathsOf(e) : \E cs \in [ts -> SUBSET Idents] :
         server = [engine |-> e, tables |-> ts, columns |-> cs]
  BY DEF BrowseInit
<1>2. Serves(server)
  BY <1>1 DEF Serves
<1>3. at = <<>> /\ Depth(server.engine) + 1 \in Nat
  BY <1>1, DepthIs DEF BrowseInit
<1> QED BY <1>2, <1>3 DEF BrowseInv

LEMMA ExpandOK ==
    ASSUME BrowseInv, NEW k \in {"schema", "database", "table"}, NEW n \in Idents, Expand(Node(k, n))
    PROVE  BrowseInv'
<1>1. Serves(server) /\ at \in Seq(Idents) /\ server.engine \in Servers
  BY DEF BrowseInv, Serves
<1>2. PICK l \in Nat, d \in Nat : l = Len(at) /\ d = Depth(server.engine) /\ l <= d + 1
  BY <1>1, DepthIs DEF BrowseInv
<1>3. Node(k, n).kind = k /\ Node(k, n).name = n
  BY DEF Node
<1>4. Node(k, n) \in children(server, at) /\ at' = Append(at, n) /\ server' = server
  BY <1>3 DEF Expand
<1>5. l # d + 1
  <2>1. Len(at) <= Depth(server.engine) + 1
    BY <1>2
  <2>2. Node(k, n).kind = "column" <=> Len(at) = Depth(server.engine) + 1
    BY <1>1, <1>4, <2>1, TreeIs
  <2> QED BY <1>2, <1>3, <2>2
<1>6. at' \in Seq(Idents) /\ Len(at') = l + 1
  BY <1>1, <1>2, <1>4
<1>7. Len(at') <= Depth(server'.engine) + 1
  BY <1>2, <1>4, <1>5, <1>6
<1> QED BY <1>1, <1>4, <1>6, <1>7 DEF BrowseInv, Serves

(* The invariant is inductive.                                             *)
THEOREM BrowseInductive == BrowseSpec => []BrowseInv
<1>1. BrowseInv /\ [BrowseNext]_browseVars => BrowseInv'
  <2> SUFFICES ASSUME BrowseInv, [BrowseNext]_browseVars PROVE BrowseInv'
    OBVIOUS
  <2>1. CASE Collapse
    <3>1. at' = <<>> /\ server' = server
      BY <2>1 DEF Collapse
    <3>2. Depth(server.engine) + 1 \in Nat
      BY DepthIs DEF BrowseInv, Serves
    <3> QED BY <3>1, <3>2 DEF BrowseInv, Serves
  <2>2. CASE UNCHANGED browseVars
    BY <2>2 DEF browseVars, BrowseInv, Serves
  <2> QED BY <2>1, <2>2, ExpandOK DEF BrowseNext
<1> QED BY <1>1, BrowseInitOK, PTL DEF BrowseSpec

(* The tree every engine answers with is the server's, at every node that  *)
(* can be opened, and completion offers the columns of a table of the name *)
(* (browse of every provider, complete.ts:96-150).                         *)
THEOREM TreesAreTheServers == BrowseSpec => []BrowseSafe
<1>1. BrowseInv => BrowseSafe
  <2> SUFFICES ASSUME BrowseInv PROVE BrowseSafe
    OBVIOUS
  <2>1. Serves(server) /\ at \in Seq(Idents) /\ Len(at) <= Depth(server.engine) + 1 /\ server.engine \in Servers
    BY DEF BrowseInv, Serves
  <2>2. BrowseTypeOK
    <3>1. PICK l \in Nat, d \in Nat : l = Len(at) /\ d = Depth(server.engine)
      BY <2>1, DepthIs
    <3>2. l \in 0..(d + 1) /\ at \in [1..l -> Idents]
      BY <2>1, <3>1
    <3> QED BY <2>1, <3>1, <3>2 DEF BrowseTypeOK
  <2>3. TreesAreFaithful
    BY <2>1, TreeIs, BrowseIs DEF TreesAreFaithful
  <2> QED BY <2>1, <2>2, <2>3, CompletionIs, TablesAre DEF BrowseSafe
<1> QED BY <1>1, BrowseInductive, PTL

-----------------------------------------------------------------------------
(* Kafka.  How a sample is split among the partitions is a recursion over  *)
(* those that have something, smallest first.  After each round what is    *)
(* left is at least a share of any that has been served for each that has  *)
(* not, and less than one more of them if that one did not get all it has. *)

(* A quotient, by what it is a quotient of.                                *)
LEMMA Shares ==
    ASSUME NEW b \in Nat, NEW c \in Nat, c > 0
    PROVE  /\ b \div c \in Nat /\ b \div c <= b
           /\ c * (b \div c) <= b
           /\ b < c * (b \div c) + c
<1>1. b \div c \in Nat
  OBVIOUS
<1>2. c * (b \div c) <= b
  OBVIOUS
<1>3. b < c * (b \div c) + c
  OBVIOUS
<1>4. b \div c <= b
  OBVIOUS
<1> QED BY <1>1, <1>2, <1>3, <1>4

(* Sizes of the partitions of a topic.                                     *)
AreSizes(sizes, P) == P \subseteq Nat /\ IsFiniteSet(P) /\ sizes \in [P -> Nat]

LEMMA LiveIs ==
    ASSUME NEW P, NEW sizes, AreSizes(sizes, P)
    PROVE  /\ Live(sizes) \in SUBSET P /\ Live(sizes) \subseteq Nat
           /\ \A p \in Live(sizes) : sizes[p] \in Nat /\ sizes[p] > 0
           /\ \A s \in SUBSET Live(sizes) : IsFiniteSet(s) /\ Cardinality(s) \in Nat
           /\ IsFiniteSet(Live(sizes))
<1>1. Live(sizes) \in SUBSET P
  BY DEF Live, AreSizes
<1>2. IsFiniteSet(Live(sizes))
  BY <1>1, FS_Subset DEF AreSizes
<1>3. \A s \in SUBSET Live(sizes) : IsFiniteSet(s) /\ Cardinality(s) \in Nat
  BY <1>2, FS_Subset, FS_CardinalityType
<1>4. \A p \in Live(sizes) : sizes[p] \in Nat /\ sizes[p] > 0
  BY DEF Live, AreSizes
<1> QED BY <1>1, <1>2, <1>3, <1>4 DEF AreSizes

(* The order in which partitions are served is total.                      *)
LEMMA SmallerIsTotal ==
    ASSUME NEW P, NEW sizes, AreSizes(sizes, P)
    PROVE  \A p, q \in Live(sizes) :
               /\ p = q \/ Smaller(sizes, p, q) \/ Smaller(sizes, q, p)
               /\ ~Smaller(sizes, p, p)
               /\ Smaller(sizes, p, q) => ~Smaller(sizes, q, p) /\ sizes[p] <= sizes[q]
               /\ \A r \in Live(sizes) : Smaller(sizes, p, q) /\ Smaller(sizes, q, r) => Smaller(sizes, p, r)
<1>1. \A p \in Live(sizes) : p \in Nat /\ sizes[p] \in Nat
  BY LiveIs
<1> QED BY <1>1 DEF Smaller

LastOf(sizes, p, s) == p \in s /\ \A q \in s \ {p} : Smaller(sizes, q, p)

LEMMA LastExists ==
    ASSUME NEW P, NEW sizes, AreSizes(sizes, P), NEW s \in SUBSET Live(sizes), s # {}
    PROVE  \E p : LastOf(sizes, p, s)
<1> DEFINE L == Live(sizes)
           Q == {k \in Nat : \A t \in SUBSET L : t # {} /\ Cardinality(t) <= k => \E p : LastOf(sizes, p, t)}
<1>1. \A t \in SUBSET L : IsFiniteSet(t) /\ Cardinality(t) \in Nat
  BY LiveIs
<1> HIDE DEF L
<1>2. 0 \in Q
  BY <1>1, NoneLeft
<1>3. ASSUME NEW k \in Nat, k \in Q PROVE k + 1 \in Q
  <2> SUFFICES ASSUME NEW t \in SUBSET L, t # {}, Cardinality(t) <= k + 1 PROVE \E p : LastOf(sizes, p, t)
    OBVIOUS
  <2>1. PICK x \in t : x \in L
    OBVIOUS
  <2>2. PICK r \in SUBSET L : r = t \ {x} /\ Cardinality(r) <= k
    BY <1>1, <2>1, OneLess
  <2>3. CASE r = {}
    <3>1. LastOf(sizes, x, t)
      BY <2>1, <2>2, <2>3 DEF LastOf
    <3> QED BY <3>1
  <2>4. CASE r # {}
    <3>1. PICK y : LastOf(sizes, y, r)
      BY <1>3, <2>2, <2>4
    <3>2. y \in L /\ y # x /\ y \in t
      BY <2>2, <3>1 DEF LastOf
    <3>3. \A p, q \in L : /\ p = q \/ Smaller(sizes, p, q) \/ Smaller(sizes, q, p)
                          /\ \A z \in L : Smaller(sizes, p, q) /\ Smaller(sizes, q, z) => Smaller(sizes, p, z)
      BY SmallerIsTotal DEF L
    <3>4. CASE Smaller(sizes, x, y)
      <4>1. LastOf(sizes, y, t)
        BY <2>2, <3>1, <3>2, <3>4 DEF LastOf
      <4> QED BY <4>1
    <3>5. CASE Smaller(sizes, y, x)
      <4>1. LastOf(sizes, x, t)
        BY <2>1, <2>2, <3>1, <3>2, <3>3, <3>5 DEF LastOf
      <4> QED BY <4>1
    <3> QED BY <2>1, <3>2, <3>3, <3>4, <3>5
  <2> QED BY <2>3, <2>4
<1>4. Nat \subseteq Q
  <2> HIDE DEF Q
  <2> QED BY <1>2, <1>3, Induction
<1>5. Cardinality(s) \in Q /\ Cardinality(s) <= Cardinality(s) /\ s \in SUBSET L
  <2> HIDE DEF Q
  <2> QED BY <1>1, <1>4 DEF L
<1> QED BY <1>5

(* What one is given: all it has or its share, and never more than is left.*)
LEMMA TakeIs ==
    ASSUME NEW P, NEW sizes, AreSizes(sizes, P), NEW p \in Live(sizes), NEW b \in Nat,
           NEW c, c = Cardinality(Live(sizes) \ Before(sizes, p))
    PROVE  /\ c \in Nat /\ c > 0
           /\ Take(sizes, p, b) \in Nat /\ Take(sizes, p, b) <= sizes[p] /\ Take(sizes, p, b) <= b \div c
           /\ b \div c \in Nat /\ b \div c <= b
           /\ Take(sizes, p, b) = sizes[p] \/ Take(sizes, p, b) = b \div c
<1>1. p \in Live(sizes) \ Before(sizes, p)
  BY SmallerIsTotal DEF Before
<1>2. IsFiniteSet(Live(sizes) \ Before(sizes, p)) /\ c \in Nat
  BY LiveIs
<1>3. c > 0
  <2>1. ~(c <= 0)
    BY <1>1, <1>2, NoneLeft
  <2> QED BY <1>2, <2>1
<1>4. b \div c \in Nat /\ b \div c <= b
  BY <1>2, <1>3, Shares
<1>5. sizes[p] \in Nat
  BY LiveIs
<1>6. PICK f \in Nat, z \in Nat : f = b \div c /\ z = sizes[p]
  BY <1>4, <1>5
<1>7. Take(sizes, p, b) = IF z < f THEN z ELSE f
  BY <1>6 DEF Take
<1> QED BY <1>2, <1>3, <1>4, <1>6, <1>7

(* What is left is what was left before the last one was served, less what *)
(* that one took.                                                          *)
Unwinds(left, sizes) ==
    \A s \in SUBSET Live(sizes) : \A p \in Live(sizes) :
        LastOf(sizes, p, s) => left[s] = left[s \ {p}] - Take(sizes, p, left[s \ {p}])

LEMMA LeftIs ==
    ASSUME NEW P, NEW sizes, AreSizes(sizes, P), NEW sample \in Nat
    PROVE  /\ Left(sizes, sample) \in [SUBSET Live(sizes) -> Nat]
           /\ Left(sizes, sample)[{}] = sample
           /\ Unwinds(Left(sizes, sample), sizes)
<1> DEFINE L == Live(sizes)
           last(s) == CHOOSE p \in s : \A q \in s \ {p} : Smaller(sizes, q, p)
           pick == [s \in SUBSET L |-> last(s)]
           step == [p \in L |-> [b \in Nat |-> b - Take(sizes, p, b)]]
           Rest(left) == left = [served \in SUBSET L |->
                             IF served = {} THEN sample
                             ELSE left[served \ {last(served)}]
                                    - Take(sizes, last(served), left[served \ {last(served)}])]
           Result == CHOOSE left : Rest(left)
<1>1. \A s \in SUBSET L : s # {} => LastOf(sizes, last(s), s)
  <2> SUFFICES ASSUME NEW s \in SUBSET L, s # {} PROVE LastOf(sizes, last(s), s)
    OBVIOUS
  <2>1. \E p \in s : \A q \in s \ {p} : Smaller(sizes, q, p)
    BY LastExists DEF LastOf
  <2> QED BY <2>1 DEF LastOf
<1>2. Picks(pick, L)
  BY <1>1 DEF Picks, LastOf
<1>3. IsStep(step, L, Nat)
  <2>1. ASSUME NEW p \in L, NEW b \in Nat PROVE b - Take(sizes, p, b) \in Nat
    <3>1. PICK c : c = Cardinality(Live(sizes) \ Before(sizes, p))
      OBVIOUS
    <3>2. PICK f \in Nat : f = b \div c /\ f <= b /\ Take(sizes, p, b) \in Nat /\ Take(sizes, p, b) <= f
      BY <3>1, TakeIs
    <3> QED BY <3>2
  <2> QED BY <2>1 DEF IsStep
<1>4. IsFiniteSet(L)
  BY LiveIs
<1>5. PICK h : h \in [SUBSET L -> Nat] /\ Unfolds(h, sample, L, pick, step)
  <2> HIDE DEF L, pick, step
  <2> QED BY <1>2, <1>3, <1>4, SetFoldExists
<1>6. ASSUME NEW s \in SUBSET L
      PROVE  h[s] = IF s = {} THEN sample ELSE h[s \ {last(s)}] - Take(sizes, last(s), h[s \ {last(s)}])
  <2>1. CASE s = {}
    BY <1>5, <2>1 DEF Unfolds
  <2>2. CASE s # {}
    <3>1. last(s) \in L /\ pick[s] = last(s) /\ h[s \ {last(s)}] \in Nat
      BY <1>1, <1>5, <2>2 DEF LastOf
    <3>2. h[s] = step[pick[s]][h[s \ {pick[s]}]]
      <4> HIDE DEF pick, step
      <4> QED BY <1>5, <2>2 DEF Unfolds
    <3> HIDE DEF last
    <3> QED BY <2>2, <3>1, <3>2
  <2> QED BY <2>1, <2>2
<1>7. Rest(h)
  <2> HIDE DEF last
  <2> QED BY <1>5, <1>6
<1>8. Rest(Result)
  <2> HIDE DEF Rest
  <2> QED BY <1>7
<1>9. Left(sizes, sample) = Result
  BY Zenon DEF Left
<1>10. \A s \in SUBSET L :
          Result[s] = IF s = {} THEN sample ELSE Result[s \ {last(s)}] - Take(sizes, last(s), Result[s \ {last(s)}])
  <2> HIDE DEF Result, last
  <2> QED BY <1>8
<1>11. Result \in [SUBSET L -> Nat]
  <2> DEFINE Q == {k \in Nat : \A s \in SUBSET L : Cardinality(s) <= k => Result[s] \in Nat}
  <2> HIDE DEF Result
  <2>1. \A s \in SUBSET L : IsFiniteSet(s) /\ Cardinality(s) \in Nat
    BY LiveIs
  <2>2. 0 \in Q
    <3> HIDE DEF last
    <3> SUFFICES ASSUME NEW s \in SUBSET L, Cardinality(s) <= 0 PROVE Result[s] \in Nat
      OBVIOUS
    <3>1. s = {}
      BY <2>1, NoneLeft
    <3> QED BY <1>10, <3>1
  <2>3. ASSUME NEW k \in Nat, k \in Q PROVE k + 1 \in Q
    <3> SUFFICES ASSUME NEW s \in SUBSET L, Cardinality(s) <= k + 1 PROVE Result[s] \in Nat
      OBVIOUS
    <3>1. CASE s = {}
      <4> HIDE DEF last
      <4> QED BY <1>10, <3>1
    <3>2. CASE s # {}
      <4>1. last(s) \in s
        BY <1>1, <3>2 DEF LastOf
      <4> HIDE DEF last
      <4>2. PICK r \in SUBSET L : r = s \ {last(s)} /\ Cardinality(r) <= k
        BY <2>1, <4>1, OneLess
      <4>3. Result[r] \in Nat /\ last(s) \in L
        BY <2>3, <4>1, <4>2
      <4>4. step[last(s)][Result[r]] \in Nat /\ step[last(s)][Result[r]] = Result[r] - Take(sizes, last(s), Result[r])
        BY <1>3, <4>3 DEF IsStep
      <4> QED BY <1>10, <3>2, <4>2, <4>4
    <3> QED BY <3>1, <3>2
  <2>4. Nat \subseteq Q
    <3> HIDE DEF Q
    <3> QED BY <2>2, <2>3, Induction
  <2>5. \A s \in SUBSET L : Result[s] \in Nat
    BY <2>1, <2>4
  <2>6. Result = [s \in SUBSET L |-> IF s = {} THEN sample ELSE Result[s \ {last(s)}] - Take(sizes, last(s), Result[s \ {last(s)}])]
    <3> HIDE DEF last
    <3> QED BY <1>8
  <2> HIDE DEF last
  <2> QED BY <2>5, <2>6
<1>12. \A s \in SUBSET L : \A p : LastOf(sizes, p, s) => s # {} /\ last(s) = p
  <2> SUFFICES ASSUME NEW s \in SUBSET L, NEW p, LastOf(sizes, p, s) PROVE s # {} /\ last(s) = p
    OBVIOUS
  <2>1. s # {} /\ LastOf(sizes, last(s), s)
    BY <1>1 DEF LastOf
  <2> HIDE DEF last
  <2>2. last(s) \in L /\ p \in L /\ last(s) \in s /\ p \in s
    BY <2>1 DEF LastOf
  <2>3. last(s) # p => Smaller(sizes, last(s), p) /\ Smaller(sizes, p, last(s))
    BY <2>1, <2>2 DEF LastOf
  <2> QED BY <2>1, <2>2, <2>3, SmallerIsTotal
<1>13. {} \in SUBSET L
  OBVIOUS
<1> HIDE DEF last, Result
<1>14. ASSUME NEW s \in SUBSET L, NEW p, LastOf(sizes, p, s)
       PROVE  Result[s] = Result[s \ {p}] - Take(sizes, p, Result[s \ {p}])
  BY <1>10, <1>12, <1>14
<1>15. Unwinds(Result, sizes)
  BY <1>14 DEF Unwinds
<1> QED BY <1>9, <1>10, <1>11, <1>13, <1>15

(* What has been served after some rounds: whoever comes before one that   *)
(* has been served has been served.                                        *)
Served(sizes, D) == D \in SUBSET Live(sizes) /\ \A p \in D : Before(sizes, p) \subseteq D

LEMMA LastServed ==
    ASSUME NEW P, NEW sizes, AreSizes(sizes, P), NEW D, Served(sizes, D), NEW p, LastOf(sizes, p, D)
    PROVE  /\ D \ {p} = Before(sizes, p) /\ Served(sizes, D \ {p})
           /\ \A n \in Nat : Cardinality(Live(sizes) \ D) = n => Cardinality(Live(sizes) \ (D \ {p})) = n + 1
<1>1. D \in SUBSET Live(sizes) /\ p \in D /\ p \in Live(sizes)
  BY DEF Served, LastOf
<1>2. D \ {p} \subseteq Before(sizes, p)
  BY <1>1 DEF LastOf, Before
<1>3. Before(sizes, p) \subseteq D \ {p}
  BY <1>1, SmallerIsTotal DEF Served, Before
<1>4. Served(sizes, D \ {p})
  <2> SUFFICES ASSUME NEW q \in D \ {p}, NEW r \in Before(sizes, q) PROVE r \in D \ {p}
    BY <1>1 DEF Served
  <2>1. r \in D /\ Smaller(sizes, r, q) /\ Smaller(sizes, q, p) /\ r \in Live(sizes) /\ q \in Live(sizes)
    BY <1>1 DEF Served, LastOf, Before
  <2>2. r # p
    BY <1>1, <2>1, SmallerIsTotal
  <2> QED BY <2>1, <2>2
<1>5. ASSUME NEW n \in Nat, Cardinality(Live(sizes) \ D) = n PROVE Cardinality(Live(sizes) \ (D \ {p})) = n + 1
  <2>1. Live(sizes) \ (D \ {p}) = (Live(sizes) \ D) \cup {p} /\ p \notin Live(sizes) \ D
    BY <1>1
  <2>2. IsFiniteSet(Live(sizes) \ D)
    BY LiveIs
  <2> QED BY <1>5, <2>1, <2>2, FS_AddElement
<1> QED BY <1>2, <1>3, <1>4, <1>5

(* What the water-filling keeps true.                                      *)
Filled(sizes, quota, h, sample, D) ==
    \A b, n : b = Left(sizes, sample)[D] /\ n = Cardinality(Live(sizes) \ D) =>
        /\ b + h[D] = sample
        /\ \A q \in D : quota[q] * n <= b
        /\ \A q \in D : quota[q] < sizes[q] => b <= n * (quota[q] + 1)
        /\ \A p, q \in D : quota[p] + 1 < quota[q] => quota[p] = sizes[p]

(* One round, in numbers: b is left for n + 1 of them, the next has z and  *)
(* takes t.                                                                *)
IsRound(b, n, z, t, f) ==
    /\ b \in Nat /\ n \in Nat /\ z \in Nat /\ t \in Nat /\ f \in Nat
    /\ f = b \div (n + 1) /\ t <= z /\ t <= f /\ (t = z \/ t = f)

LEMMA RoundIsFair ==
    ASSUME NEW b, NEW n, NEW z, NEW t, NEW f, IsRound(b, n, z, t, f)
    PROVE  /\ b - t \in Nat /\ t * n <= b - t
           /\ t < z => b - t <= n * (t + 1)
           /\ \A u \in Nat, y \in Nat : u * (n + 1) <= b /\ u <= y /\ y <= z /\ (u < y => b <= (n + 1) * (u + 1)) =>
                  /\ u <= t /\ u * n <= b - t
                  /\ u < y => b - t <= n * (u + 1)
                  /\ u < y => t <= u + 1
<1> USE DEF IsRound
<1>1. f <= b /\ (n + 1) * f <= b /\ b < (n + 1) * f + (n + 1)
  BY Shares
<1>2. t * (n + 1) <= (n + 1) * f
  OBVIOUS
<1>3. b - t \in Nat /\ t * n <= b - t
  BY <1>1, <1>2
<1>4. t < z => b - t <= n * (t + 1)
  BY <1>1
<1>5. ASSUME NEW u \in Nat, NEW y \in Nat, u * (n + 1) <= b, u <= y, y <= z, u < y => b <= (n + 1) * (u + 1)
      PROVE  /\ u <= t /\ u * n <= b - t
             /\ u < y => b - t <= n * (u + 1)
             /\ u < y => t <= u + 1
  <2>1. u <= f
    <3> SUFFICES ASSUME u > f PROVE FALSE
      OBVIOUS
    <3>1. u >= f + 1
      OBVIOUS
    <3>2. u * (n + 1) >= (f + 1) * (n + 1)
      BY <3>1
    <3> QED BY <1>1, <1>5, <3>2
  <2>2. u <= t
    BY <1>5, <2>1
  <2>3. u * n <= t * n
    BY <2>2
  <2>4. ASSUME u < y PROVE b - t <= n * (u + 1)
    <3>1. CASE u < t
      BY <1>5, <2>4, <3>1
    <3>2. CASE u = t
      BY <1>4, <1>5, <2>4, <3>2
    <3> QED BY <2>2, <3>1, <3>2
  <2>5. ASSUME u < y PROVE t <= u + 1
    <3>1. b <= (n + 1) * (u + 1)
      BY <1>5, <2>5
    <3>2. f <= u + 1
      BY <3>1
    <3> QED BY <3>2
  <2> QED BY <1>3, <2>2, <2>3, <2>4, <2>5
<1> QED BY <1>3, <1>4, <1>5

LEMMA QuotasAre ==
    ASSUME NEW P, NEW sizes, AreSizes(sizes, P), NEW sample \in Nat
    PROVE  /\ Quotas(sizes, sample) \in [Live(sizes) -> Nat]
           /\ \A p \in Live(sizes) : /\ Quotas(sizes, sample)[p] <= sizes[p]
                                     /\ Quotas(sizes, sample)[p] = Take(sizes, p, Left(sizes, sample)[Before(sizes, p)])
<1>1. Quotas(sizes, sample) = [p \in Live(sizes) |-> Take(sizes, p, Left(sizes, sample)[Before(sizes, p)])]
  BY DEF Quotas
<1>2. ASSUME NEW p \in Live(sizes)
      PROVE  /\ Take(sizes, p, Left(sizes, sample)[Before(sizes, p)]) \in Nat
             /\ Take(sizes, p, Left(sizes, sample)[Before(sizes, p)]) <= sizes[p]
  <2>1. Before(sizes, p) \in SUBSET Live(sizes)
    BY DEF Before
  <2>2. PICK b \in Nat : b = Left(sizes, sample)[Before(sizes, p)]
    <3>1. Left(sizes, sample) \in [SUBSET Live(sizes) -> Nat]
      BY LeftIs
    <3> QED BY <2>1, <3>1
  <2>3. PICK c : c = Cardinality(Live(sizes) \ Before(sizes, p))
    OBVIOUS
  <2>4. Take(sizes, p, b) \in Nat /\ Take(sizes, p, b) <= sizes[p]
    BY <2>3, TakeIs
  <2> QED BY <2>2, <2>4
<1> QED BY <1>1, <1>2

LEMMA RoundKeepsFilled ==
    ASSUME NEW P, NEW sizes, AreSizes(sizes, P), NEW sample \in Nat,
           NEW quota, quota = Quotas(sizes, sample), NEW h, SumsUp(h, Live(sizes), quota),
           NEW D, Served(sizes, D), NEW p, LastOf(sizes, p, D),
           Filled(sizes, quota, h, sample, D \ {p})
    PROVE  Filled(sizes, quota, h, sample, D)
<1>1. D \in SUBSET Live(sizes) /\ p \in D /\ p \in Live(sizes)
  BY DEF Served, LastOf
<1>2. PICK R \in SUBSET Live(sizes) : R = D \ {p} /\ R = Before(sizes, p)
  BY <1>1, LastServed
<1>3. PICK n \in Nat : n = Cardinality(Live(sizes) \ D) /\ n + 1 = Cardinality(Live(sizes) \ R)
  <2>1. Cardinality(Live(sizes) \ D) \in Nat
    BY LiveIs
  <2> QED BY <1>2, <2>1, LastServed
<1>4. PICK b \in Nat : b = Left(sizes, sample)[R]
  <2>1. Left(sizes, sample) \in [SUBSET Live(sizes) -> Nat]
    BY LeftIs
  <2> QED BY <2>1
<1>5. PICK t \in Nat, z \in Nat, f \in Nat :
          /\ t = quota[p] /\ z = sizes[p] /\ f = b \div (n + 1)
          /\ t <= z /\ t <= f /\ (t = z \/ t = f)
  <2>1. quota[p] = Take(sizes, p, b)
    BY <1>1, <1>2, <1>4, QuotasAre
  <2>2. n + 1 = Cardinality(Live(sizes) \ Before(sizes, p))
    BY <1>2, <1>3
  <2>3. sizes[p] \in Nat
    BY <1>1, LiveIs
  <2>4. PICK c : c = n + 1
    OBVIOUS
  <2>5. /\ Take(sizes, p, b) \in Nat /\ Take(sizes, p, b) <= sizes[p] /\ Take(sizes, p, b) <= b \div c
        /\ b \div c \in Nat /\ (Take(sizes, p, b) = sizes[p] \/ Take(sizes, p, b) = b \div c)
    <3>1. c = Cardinality(Live(sizes) \ Before(sizes, p))
      BY <2>2, <2>4
    <3> QED BY <1>1, <3>1, TakeIs
  <2> QED BY <2>1, <2>3, <2>4, <2>5
<1>6. Left(sizes, sample)[D] = b - t
  <2>1. Left(sizes, sample)[D] = Left(sizes, sample)[D \ {p}] - Take(sizes, p, Left(sizes, sample)[D \ {p}])
    <3>1. Unwinds(Left(sizes, sample), sizes)
      BY LeftIs
    <3> QED BY <1>1, <3>1 DEF Unwinds
  <2>2. quota[p] = Take(sizes, p, b)
    BY <1>1, <1>2, <1>4, QuotasAre
  <2> QED BY <1>2, <1>4, <1>5, <2>1, <2>2
<1>7. /\ b + h[R] = sample
      /\ \A q \in R : quota[q] * (n + 1) <= b
      /\ \A q \in R : quota[q] < sizes[q] => b <= (n + 1) * (quota[q] + 1)
      /\ \A q, r \in R : quota[q] + 1 < quota[r] => quota[q] = sizes[q]
  BY <1>2, <1>3, <1>4 DEF Filled
<1>8. h[D] = t + h[R] /\ h[R] \in Nat
  BY <1>1, <1>2, <1>5 DEF SumsUp
<1>9. /\ b - t \in Nat /\ t * n <= b - t
      /\ t < z => b - t <= n * (t + 1)
      /\ \A u \in Nat, y \in Nat : u * (n + 1) <= b /\ u <= y /\ y <= z /\ (u < y => b <= (n + 1) * (u + 1)) =>
             /\ u <= t /\ u * n <= b - t
             /\ u < y => b - t <= n * (u + 1)
             /\ u < y => t <= u + 1
  <2>1. IsRound(b, n, z, t, f)
    BY <1>5 DEF IsRound
  <2> QED BY <2>1, RoundIsFair
<1>10. \A q \in R : quota[q] \in Nat /\ sizes[q] \in Nat /\ quota[q] <= sizes[q] /\ sizes[q] <= z
  <2> SUFFICES ASSUME NEW q \in R PROVE quota[q] \in Nat /\ sizes[q] \in Nat /\ quota[q] <= sizes[q] /\ sizes[q] <= z
    OBVIOUS
  <2>1. q \in Live(sizes) /\ Smaller(sizes, q, p)
    BY <1>2 DEF Before
  <2>2. sizes[q] <= sizes[p]
    BY <1>1, <2>1, SmallerIsTotal
  <2> QED BY <1>5, <2>1, <2>2, QuotasAre, LiveIs
<1>11. \A q \in R : /\ quota[q] <= t /\ quota[q] * n <= b - t
                    /\ quota[q] < sizes[q] => b - t <= n * (quota[q] + 1)
                    /\ quota[q] < sizes[q] => t <= quota[q] + 1
  BY <1>7, <1>9, <1>10
<1>12. D = R \cup {p}
  BY <1>1, <1>2
<1>13. (b - t) + h[D] = sample
  BY <1>7, <1>8
<1>14. \A q \in D : quota[q] * n <= b - t
  BY <1>5, <1>9, <1>11, <1>12
<1>15. \A q \in D : quota[q] < sizes[q] => b - t <= n * (quota[q] + 1)
  BY <1>5, <1>9, <1>11, <1>12
<1>16. ASSUME NEW q \in D, NEW r \in D, quota[q] + 1 < quota[r] PROVE quota[q] = sizes[q]
  <2>1. CASE q \in R /\ r \in R
    BY <1>7, <1>16, <2>1
  <2>2. CASE q \in R /\ r = p
    BY <1>5, <1>10, <1>11, <1>16, <2>2
  <2>3. CASE q = p
    <3>1. quota[r] <= t /\ quota[r] \in Nat
      BY <1>5, <1>10, <1>11, <1>12
    <3> QED BY <1>5, <1>16, <2>3, <3>1
  <2> QED BY <1>12, <2>1, <2>2, <2>3
<1> QED BY <1>3, <1>6, <1>13, <1>14, <1>15, <1>16 DEF Filled

LEMMA AllFilled ==
    ASSUME NEW P, NEW sizes, AreSizes(sizes, P), NEW sample \in Nat,
           NEW quota, quota = Quotas(sizes, sample), NEW h, SumsUp(h, Live(sizes), quota)
    PROVE  Filled(sizes, quota, h, sample, Live(sizes))
<1> DEFINE L == Live(sizes)
           Q == {k \in Nat : \A D \in SUBSET L : Served(sizes, D) /\ Cardinality(D) <= k =>
                                 Filled(sizes, quota, h, sample, D)}
<1>1. \A s \in SUBSET L : IsFiniteSet(s) /\ Cardinality(s) \in Nat
  BY LiveIs
<1>2. 0 \in Q
  <2> SUFFICES ASSUME NEW D \in SUBSET L, Cardinality(D) <= 0 PROVE Filled(sizes, quota, h, sample, D)
    OBVIOUS
  <2>1. D = {}
    BY <1>1, NoneLeft
  <2>2. Left(sizes, sample)[D] = sample /\ h[D] = 0
    BY <2>1, LeftIs DEF SumsUp
  <2> QED BY <2>1, <2>2 DEF Filled
<1>3. ASSUME NEW k \in Nat, k \in Q PROVE k + 1 \in Q
  <2> SUFFICES ASSUME NEW D \in SUBSET L, Served(sizes, D), Cardinality(D) <= k + 1
               PROVE  Filled(sizes, quota, h, sample, D)
    OBVIOUS
  <2>1. CASE D = {}
    <3>1. Cardinality(D) = 0 /\ Cardinality(D) <= k
      BY <2>1, FS_EmptySet
    <3> QED BY <1>3, <3>1
  <2>2. CASE D # {}
    <3>1. PICK p : LastOf(sizes, p, D)
      BY <2>2, LastExists
    <3>2. p \in D
      BY <3>1 DEF LastOf
    <3>3. Cardinality(D \ {p}) <= k /\ D \ {p} \in SUBSET L
      BY <1>1, <3>2, OneLess
    <3>4. Served(sizes, D \ {p})
      BY <3>1, LastServed
    <3>5. Filled(sizes, quota, h, sample, D \ {p})
      BY <1>3, <3>3, <3>4
    <3> QED BY <3>1, <3>5, RoundKeepsFilled
  <2> QED BY <2>1, <2>2
<1>4. Nat \subseteq Q
  <2> HIDE DEF Q
  <2> QED BY <1>2, <1>3, Induction
<1>5. Served(sizes, L) /\ L \in SUBSET L
  BY DEF Served, Before
<1>6. Cardinality(L) \in Q /\ Cardinality(L) <= Cardinality(L)
  <2> HIDE DEF Q
  <2> QED BY <1>1, <1>4, <1>5
<1> QED BY <1>5, <1>6

(* The whole of it: a sample is spent, or everything is taken, and whoever *)
(* gets two less than another has got all of its own.                      *)
LEMMA WaterFilling ==
    ASSUME NEW P, NEW sizes, AreSizes(sizes, P), NEW sample \in Nat,
           NEW quota, quota = Quotas(sizes, sample), NEW all, all = Total(sizes)
    PROVE  /\ all \in Nat
           /\ Total(quota) = IF sample < all THEN sample ELSE all
           /\ \A p, q \in DOMAIN quota : quota[p] + 1 < quota[q] => quota[p] = sizes[p]
<1>1. /\ quota \in [Live(sizes) -> Nat] /\ DOMAIN quota = Live(sizes)
      /\ \A p \in Live(sizes) : quota[p] <= sizes[p]
  BY QuotasAre
<1>2. Live(sizes) \in SUBSET P /\ IsFiniteSet(Live(sizes)) /\ IsFiniteSet(P) /\ sizes \in [P -> Nat] /\ DOMAIN sizes = P
  BY LiveIs DEF AreSizes
<1>3. PICK h : SumsUp(h, Live(sizes), quota) /\ Added(quota, Live(sizes)) = h[Live(sizes)]
  BY <1>1, <1>2, SumIs
<1>4. PICK g : SumsUp(g, P, sizes) /\ Added(sizes, P) = g[P]
  BY <1>2, SumIs
<1>5. Total(quota) = h[Live(sizes)] /\ Total(sizes) = g[P]
  BY <1>1, <1>2, <1>3, <1>4, Zenon DEF Total, Added
<1>6. g[P] = g[Live(sizes)]
  <2>1. g[P \ Live(sizes)] = 0
    <3>1. \A x \in P \ Live(sizes) : sizes[x] = 0
      BY <1>2 DEF Live
    <3> QED BY <1>2, <1>4, <3>1, SumsOfNothing
  <2>2. g[P] = g[Live(sizes)] + g[P \ Live(sizes)]
    BY <1>2, <1>4, SumSplits
  <2>3. g[Live(sizes)] \in Nat
    BY <1>2, <1>4 DEF SumsUp
  <2> QED BY <2>1, <2>2, <2>3
<1>7. /\ h[Live(sizes)] <= g[Live(sizes)]
      /\ (\A p \in Live(sizes) : quota[p] = sizes[p]) => h[Live(sizes)] = g[Live(sizes)]
  BY <1>1, <1>2, <1>3, <1>4, SumsCompare
<1>8. h[Live(sizes)] \in Nat /\ g[Live(sizes)] \in Nat
  BY <1>2, <1>3, <1>4 DEF SumsUp
<1>9. PICK b \in Nat : b = Left(sizes, sample)[Live(sizes)]
  <2>1. Left(sizes, sample) \in [SUBSET Live(sizes) -> Nat]
    BY LeftIs
  <2> QED BY <2>1
<1>10. Cardinality(Live(sizes) \ Live(sizes)) = 0
  <2>1. Live(sizes) \ Live(sizes) = {}
    OBVIOUS
  <2> QED BY <2>1, FS_EmptySet
<1>11. /\ b + h[Live(sizes)] = sample
       /\ \A q \in Live(sizes) : quota[q] < sizes[q] => b <= 0 * (quota[q] + 1)
       /\ \A p, q \in Live(sizes) : quota[p] + 1 < quota[q] => quota[p] = sizes[p]
  <2>1. Filled(sizes, quota, h, sample, Live(sizes))
    BY <1>3, AllFilled
  <2>2. PICK n : n = 0 /\ n = Cardinality(Live(sizes) \ Live(sizes))
    BY <1>10
  <2>3. /\ b + h[Live(sizes)] = sample
        /\ \A q \in Live(sizes) : quota[q] < sizes[q] => b <= n * (quota[q] + 1)
        /\ \A p, q \in Live(sizes) : quota[p] + 1 < quota[q] => quota[p] = sizes[p]
    BY <1>9, <2>1, <2>2 DEF Filled
  <2> QED BY <2>2, <2>3
<1>12. CASE \A p \in Live(sizes) : quota[p] = sizes[p]
  <2>1. h[Live(sizes)] = all /\ all <= sample
    BY <1>5, <1>6, <1>7, <1>8, <1>9, <1>11, <1>12
  <2> QED BY <1>1, <1>5, <1>8, <1>11, <2>1
<1>13. CASE \E p \in Live(sizes) : quota[p] # sizes[p]
  <2>1. PICK p \in Live(sizes) : quota[p] < sizes[p]
    <3>1. \A p \in Live(sizes) : quota[p] \in Nat /\ sizes[p] \in Nat /\ quota[p] <= sizes[p]
      BY <1>1, LiveIs
    <3> QED BY <1>13, <3>1
  <2>2. quota[p] \in Nat
    BY <1>1
  <2>3. b = 0
    BY <1>9, <1>11, <2>1, <2>2
  <2>4. h[Live(sizes)] = sample /\ sample <= all
    BY <1>5, <1>6, <1>7, <1>8, <1>11, <2>3
  <2> QED BY <1>1, <1>5, <1>6, <1>8, <1>11, <2>4
<1> QED BY <1>12, <1>13

-----------------------------------------------------------------------------
(* How far the read of a partition is: it holds every message from where   *)
(* it began to where the consumer is, until it is done with.               *)
Got(p) == {o \in Offsets : <<p, o>> \in lines}

NoneMissing(p) == \A o \in log[p] : window[p].from <= o /\ o < cursor[p] => o \in Got(p)

ReadSoFar(p) ==
    /\ Got(p) \subseteq log[p] /\ remaining[p] <= window[p].quota
    /\ \A g \in Got(p) : window[p].from <= g /\ g < cursor[p]
    /\ window[p].from <= cursor[p]
    /\ cursor[p] <= high[p] \/ cursor[p] - 1 \in log[p]
    /\ remaining[p] > 0 => /\ NoneMissing(p)
                           /\ \A g \in Got(p) : g < window[p].through
                           /\ Cardinality(Got(p)) + remaining[p] = window[p].quota
    /\ remaining[p] = 0 =>
           /\ Cardinality(Got(p)) <= window[p].quota
           /\ \A o \in log[p] : window[p].from <= o /\ (\E g \in Got(p) : o < g) => o \in Got(p)
           /\ Cardinality(Got(p)) < window[p].quota => \E g \in Got(p) : g >= window[p].through

WindowIs(p) ==
    /\ low[p] <= high[p] /\ high[p] <= MaxOffset
    /\ \/ window[p] = Unwanted
       \/ window[p].quota > 0 /\ window[p].from + window[p].quota <= high[p] /\ window[p].through + 1 = high[p]

OutcomeInv ==
    /\ outcome = "reading" => \E p \in Partitions : remaining[p] > 0
    /\ outcome = "read" => \A p \in Partitions : remaining[p] = 0

KafkaInv ==
    /\ KafkaTypeOK
    /\ \A p \in Partitions : ReadSoFar(p) /\ WindowIs(p)
    /\ OutcomeInv

LEMMA SizesAre ==
    ASSUME low \in [Partitions -> Offsets], high \in [Partitions -> 0..(MaxOffset + 1)],
           \A p \in Partitions : low[p] <= high[p]
    PROVE  AreSizes([p \in Partitions |-> Size(p)], Partitions)
<1>1. \A p \in Partitions : Size(p) \in Nat
  BY KafkaAssumption DEF Size, Offsets
<1> QED BY <1>1, KafkaAssumption DEF AreSizes

LEMMA WindowsAre ==
    ASSUME low \in [Partitions -> Offsets], high \in [Partitions -> 0..(MaxOffset + 1)],
           \A p \in Partitions : low[p] <= high[p] /\ high[p] <= MaxOffset,
           NEW sample \in Samples, NEW position \in {"latest", "earliest"},
           NEW w, w = windowFor([p \in Partitions |-> Size(p)], sample, position)
    PROVE  /\ w \in [Partitions -> [from : 0..(MaxOffset + 1), through : Offsets, quota : 0..(MaxOffset + 1)]]
           /\ \A p \in Partitions :
                  \/ w[p] = Unwanted
                  \/ w[p].quota > 0 /\ w[p].from + w[p].quota <= high[p] /\ w[p].through + 1 = high[p]
<1>1. PICK sizes : sizes = [p \in Partitions |-> Size(p)]
  OBVIOUS
<1>2. AreSizes(sizes, Partitions)
  BY <1>1, SizesAre
<1>3. PICK quota : quota = Quotas(sizes, sample)
  OBVIOUS
<1>4. /\ quota \in [Live(sizes) -> Nat]
      /\ \A p \in Live(sizes) : quota[p] <= sizes[p]
  BY <1>2, <1>3, QuotasAre, KafkaAssumption
<1>5. Live(sizes) \subseteq Partitions
  BY <1>1 DEF Live
<1>6. w = [p \in Partitions |->
             IF p \in DOMAIN quota /\ quota[p] > 0
             THEN [from |-> IF position = "latest" THEN high[p] - quota[p] ELSE low[p],
                   through |-> high[p] - 1, quota |-> quota[p]]
             ELSE Unwanted]
  BY <1>1, <1>3 DEF windowFor
<1>7. ASSUME NEW p \in Partitions
      PROVE  /\ w[p] \in [from : 0..(MaxOffset + 1), through : Offsets, quota : 0..(MaxOffset + 1)]
             /\ \/ w[p] = Unwanted
                \/ w[p].quota > 0 /\ w[p].from + w[p].quota <= high[p] /\ w[p].through + 1 = high[p]
  <2>1. CASE p \in DOMAIN quota /\ quota[p] > 0
    <3>1. PICK n \in Nat : n = quota[p] /\ n > 0 /\ n <= high[p] - low[p]
      BY <1>1, <1>4, <2>1 DEF Size
    <3>2. PICK l \in Nat, u \in Nat : l = low[p] /\ u = high[p] /\ u <= MaxOffset
      BY KafkaAssumption DEF Offsets
    <3>3. PICK f \in Nat : f = (IF position = "latest" THEN u - n ELSE l) /\ f + n <= u
      BY <3>1, <3>2
    <3>4. w[p] = [from |-> f, through |-> u - 1, quota |-> n]
      BY <1>6, <2>1, <3>1, <3>2, <3>3
    <3>5. f \in 0..(MaxOffset + 1) /\ u - 1 \in Offsets /\ n \in 0..(MaxOffset + 1)
      BY <3>1, <3>2, <3>3, KafkaAssumption DEF Offsets
    <3>6. w[p] \in [from : 0..(MaxOffset + 1), through : Offsets, quota : 0..(MaxOffset + 1)]
      BY <3>4, <3>5
    <3>7. w[p].quota = n /\ w[p].from = f /\ w[p].through = u - 1
      BY <3>4
    <3>8. w[p].quota > 0 /\ w[p].from + w[p].quota <= high[p] /\ w[p].through + 1 = high[p]
      <4>1. w[p].quota > 0 /\ w[p].from + w[p].quota <= high[p]
        BY <3>1, <3>2, <3>3, <3>7
      <4>2. w[p].through + 1 = high[p]
        BY <3>2, <3>7
      <4> QED BY <4>1, <4>2
    <3> QED BY <3>6, <3>8
  <2>2. CASE ~(p \in DOMAIN quota /\ quota[p] > 0)
    BY <1>6, <2>2, KafkaAssumption DEF Unwanted, Offsets
  <2> QED BY <2>1, <2>2
<1> QED BY <1>6, <1>7

LEMMA GotIsFinite ==
    ASSUME NEW p
    PROVE  IsFiniteSet(Got(p)) /\ Cardinality(Got(p)) \in Nat
<1>1. Got(p) \subseteq 0..MaxOffset
  BY DEF Got, Offsets
<1>2. IsFiniteSet(0..MaxOffset)
  BY FS_Interval, KafkaAssumption
<1> QED BY <1>1, <1>2, FS_Subset, FS_CardinalityType

(* Of the offsets that are still to come one is the next.                  *)
LEMMA NextExists ==
    ASSUME KafkaTypeOK, NEW p \in Partitions, NEW o \in log[p], o >= cursor[p]
    PROVE  NextOf(p) # {}
<1> DEFINE T == {x \in log[p] : x >= cursor[p]}
<1>1. T \subseteq Nat /\ T # {}
  BY KafkaAssumption DEF KafkaTypeOK, Offsets
<1>2. PICK x \in T : \A y \in T : <<y, x>> \notin NatLess
  <2> HIDE DEF T
  <2> QED BY <1>1, NatLessWF, WFMin
<1>3. ASSUME NEW y \in T PROVE x <= y
  <2>1. x \in Nat /\ y \in Nat
    BY <1>1
  <2>2. <<y, x>> \notin NatLess
    BY <1>2
  <2>3. ~(y < x)
    BY <2>1, <2>2 DEF NatLess
  <2> QED BY <2>1, <2>3
<1>4. x \in NextOf(p)
  BY <1>3 DEF NextOf
<1> QED BY <1>4

(* Everything the properties want of a state is in the invariant.          *)
LEMMA SafeFromKafkaInv ==
    ASSUME KafkaInv PROVE KafkaSafe
<1>1. KafkaTypeOK
  BY DEF KafkaInv
<1>2. BudgetIsSpent
  <2> SUFFICES ASSUME NEW sample \in Samples,
                      NEW sizes, sizes = [p \in Partitions |-> Size(p)],
                      NEW quota, quota = Quotas(sizes, sample), NEW all, all = Total(sizes)
               PROVE  /\ Total(quota) = IF sample < all THEN sample ELSE all
                      /\ \A p, q \in DOMAIN quota : quota[p] + 1 < quota[q] => quota[p] = sizes[p]
    BY DEF BudgetIsSpent
  <2>1. AreSizes(sizes, Partitions)
    BY <1>1, SizesAre DEF KafkaInv, WindowIs, KafkaTypeOK
  <2>2. sample \in Nat
    BY KafkaAssumption
  <2> QED BY <2>1, <2>2, WaterFilling
<1>3. ReadIsTheWindow
  <2> SUFFICES ASSUME outcome = "read", NEW p \in Wanted
               PROVE  /\ Cardinality(Got(p)) <= window[p].quota
                      /\ \A o \in log[p] : window[p].from <= o /\ (\E g \in Got(p) : o < g) => o \in Got(p)
                      /\ Cardinality(Got(p)) < window[p].quota => \E g \in Got(p) : g >= window[p].through
    BY DEF ReadIsTheWindow, Got
  <2>1. p \in Partitions
    BY DEF Wanted
  <2>2. remaining[p] = 0 /\ ReadSoFar(p)
    BY <2>1 DEF KafkaInv, OutcomeInv
  <2> QED BY <2>2 DEF ReadSoFar
<1>4. StuckOnlyOnAGap
  <2> SUFFICES ASSUME outcome = "reading", ~(\E p \in Wanted : remaining[p] > 0 /\ NextOf(p) # {})
               PROVE  \E p \in Wanted : remaining[p] > 0 /\ window[p].through \notin log[p]
    BY DEF StuckOnlyOnAGap
  <2>1. PICK p \in Partitions : remaining[p] > 0
    BY DEF KafkaInv, OutcomeInv
  <2>2. ReadSoFar(p) /\ WindowIs(p)
    BY DEF KafkaInv
  <2>3. /\ remaining[p] \in Nat /\ window[p].quota \in Nat /\ window[p].from \in Nat /\ window[p].through \in Nat
        /\ cursor[p] \in Nat /\ high[p] \in Nat
    BY <1>1, KafkaAssumption DEF KafkaTypeOK, Offsets
  <2>4. window[p].quota > 0
    BY <2>1, <2>2, <2>3 DEF ReadSoFar
  <2>5. p \in Wanted
    BY <2>4 DEF Wanted
  <2>6. window[p].from + window[p].quota <= high[p] /\ window[p].through + 1 = high[p]
    <3>1. window[p] # Unwanted
      BY <2>4 DEF Unwanted
    <3> QED BY <2>2, <3>1 DEF WindowIs
  <2>7. ASSUME window[p].through \in log[p] PROVE FALSE
    <3>1. window[p].from <= window[p].through
      BY <2>3, <2>4, <2>6
    <3>2. window[p].through \notin Got(p)
      BY <2>1, <2>2, <2>3 DEF ReadSoFar
    <3>3. window[p].through >= cursor[p]
      BY <2>1, <2>2, <2>3, <2>7, <3>1, <3>2 DEF ReadSoFar, NoneMissing
    <3> QED BY <1>1, <2>1, <2>5, <2>7, <3>3, NextExists
  <2> QED BY <2>1, <2>5, <2>7
<1> QED BY <1>1, <1>2, <1>3, <1>4 DEF KafkaSafe

LEMMA KafkaInvInit ==
    ASSUME KafkaInit PROVE KafkaInv
<1>1. PICK sample \in Samples, position \in {"latest", "earliest"} :
          window = windowFor([p \in Partitions |-> Size(p)], sample, position)
  BY DEF KafkaInit
<1>2. ASSUME NEW p \in Partitions
      PROVE  /\ low[p] \in Offsets /\ high[p] \in Offsets /\ high[p] >= low[p]
             /\ low[p] \in Nat /\ high[p] \in Nat /\ high[p] <= MaxOffset
  <2>1. high[p] \in Offsets /\ high[p] >= low[p] /\ low[p] \in Nat
    <3>1. low[p] \in {0, 1}
      BY DEF KafkaInit
    <3> QED BY <3>1 DEF KafkaInit
  <2> QED BY <2>1, KafkaAssumption DEF Offsets
<1>3. DOMAIN low = Partitions /\ low = [p \in Partitions |-> low[p]]
  BY DEF KafkaInit
<1>4. low \in [Partitions -> Offsets] /\ high \in [Partitions -> 0..(MaxOffset + 1)]
  <2>1. \A p \in Partitions : high[p] \in 0..(MaxOffset + 1)
    BY <1>2, KafkaAssumption
  <2>2. high = [p \in Partitions |-> high[p]]
    BY DEF KafkaInit
  <2> QED BY <1>2, <1>3, <2>1, <2>2
<1>5. /\ window \in [Partitions -> [from : 0..(MaxOffset + 1), through : Offsets, quota : 0..(MaxOffset + 1)]]
      /\ \A p \in Partitions :
             \/ window[p] = Unwanted
             \/ window[p].quota > 0 /\ window[p].from + window[p].quota <= high[p] /\ window[p].through + 1 = high[p]
  BY <1>1, <1>2, <1>4, WindowsAre
<1>6. \A p \in Partitions : window[p].from \in 0..(MaxOffset + 1) /\ window[p].quota \in 0..(MaxOffset + 1)
  BY <1>5
<1>7. /\ log \in [Partitions -> SUBSET Offsets]
      /\ remaining = [p \in Partitions |-> window[p].quota] /\ cursor = [p \in Partitions |-> window[p].from]
      /\ lines = {} /\ outcome = IF \A p \in Partitions : window[p].quota = 0 THEN "read" ELSE "reading"
  BY DEF KafkaInit
<1>8. KafkaTypeOK
  BY <1>4, <1>5, <1>6, <1>7 DEF KafkaTypeOK
<1>9. \A p \in Partitions : WindowIs(p)
  BY <1>2, <1>5 DEF WindowIs
<1>10. ASSUME NEW p \in Partitions PROVE ReadSoFar(p)
  <2>1. Got(p) = {} /\ Cardinality(Got(p)) = 0
    BY <1>7, FS_EmptySet DEF Got
  <2>2. PICK f \in Nat, k \in Nat : f = window[p].from /\ k = window[p].quota
    BY <1>6, KafkaAssumption
  <2>3. remaining[p] = k /\ cursor[p] = f
    BY <1>7, <2>2
  <2>4. cursor[p] <= high[p]
    <3>1. CASE window[p] = Unwanted
      BY <1>2, <2>2, <2>3, <3>1 DEF Unwanted
    <3>2. CASE window[p].from + window[p].quota <= high[p]
      BY <1>2, <2>2, <2>3, <3>2
    <3> QED BY <1>5, <3>1, <3>2
  <2>5. NoneMissing(p)
    <3> SUFFICES ASSUME NEW o \in log[p], window[p].from <= o, o < cursor[p] PROVE FALSE
      BY DEF NoneMissing
    <3>1. o \in Nat
      BY <1>7 DEF Offsets
    <3> QED BY <2>2, <2>3, <3>1
  <2> QED BY <2>1, <2>2, <2>3, <2>4, <2>5 DEF ReadSoFar
<1>11. OutcomeInv
  <2>1. outcome = "reading" => \E p \in Partitions : remaining[p] > 0
    <3> SUFFICES ASSUME outcome = "reading" PROVE \E p \in Partitions : remaining[p] > 0
      OBVIOUS
    <3>1. PICK p \in Partitions : window[p].quota # 0
      BY <1>7
    <3>2. remaining[p] > 0
      BY <1>6, <1>7, <3>1, KafkaAssumption
    <3> QED BY <3>2
  <2>2. outcome = "read" => \A p \in Partitions : remaining[p] = 0
    BY <1>7
  <2> QED BY <2>1, <2>2 DEF OutcomeInv
<1> QED BY <1>8, <1>9, <1>10, <1>11 DEF KafkaInv

LEMMA ProduceKeeps ==
    ASSUME KafkaInv, NEW p \in Partitions, Produce(p) PROVE KafkaInv'
<1>1. PICK o \in Offsets : /\ o >= high[p] /\ (\A x \in log[p] : x < o)
                           /\ log' = [log EXCEPT ![p] = @ \cup {o}]
  BY DEF Produce
<1>2. UNCHANGED <<low, high, window, remaining>> /\ UNCHANGED <<cursor, lines, outcome>>
  BY DEF Produce
<1>3. KafkaTypeOK
  BY DEF KafkaInv
<1>4. log' \in [Partitions -> SUBSET Offsets]
  BY <1>1, <1>3 DEF KafkaTypeOK
<1>5. KafkaTypeOK'
  BY <1>2, <1>3, <1>4 DEF KafkaTypeOK
<1>6. \A q \in Partitions : WindowIs(q)'
  BY <1>2 DEF KafkaInv, WindowIs
<1>7. OutcomeInv'
  BY <1>2 DEF KafkaInv, OutcomeInv
<1>8. \A q : Got(q)' = Got(q)
  BY <1>2 DEF Got
<1>9. ASSUME NEW q \in Partitions PROVE ReadSoFar(q)'
  <2>1. ReadSoFar(q)
    BY DEF KafkaInv
  <2>2. CASE q # p
    <3>1. log'[q] = log[q]
      BY <1>1, <1>3, <2>2 DEF KafkaTypeOK
    <3>2. NoneMissing(q)' <=> NoneMissing(q)
      BY <1>2, <1>8, <3>1 DEF NoneMissing
    <3> QED BY <1>2, <1>8, <2>1, <3>1, <3>2 DEF ReadSoFar
  <2>3. CASE q = p
    <3>1. log'[q] = log[q] \cup {o}
      BY <1>1, <1>3, <2>3 DEF KafkaTypeOK
    <3>2. \A x \in log[q] : x \in Nat
      BY <1>3 DEF KafkaTypeOK, Offsets
    <3>3. cursor[q] \in Nat /\ high[q] \in Nat /\ o \in Nat
      BY <1>3, KafkaAssumption DEF KafkaTypeOK, Offsets
    <3>4. ~(o < cursor[q])
      BY <1>1, <2>1, <2>3, <3>2, <3>3 DEF ReadSoFar
    <3>5. NoneMissing(q) => NoneMissing(q)'
      BY <1>2, <1>8, <3>1, <3>4 DEF NoneMissing
    <3>6. \A g \in Got(q) : ~(o < g)
      BY <1>1, <2>1, <2>3, <3>2, <3>3 DEF ReadSoFar
    <3>7. Got(q) \subseteq log'[q]
      BY <2>1, <3>1 DEF ReadSoFar
    <3>8. (\A x \in log[q] : window[q].from <= x /\ (\E g \in Got(q) : x < g) => x \in Got(q))
             => \A x \in log'[q] : window[q].from <= x /\ (\E g \in Got(q) : x < g) => x \in Got(q)
      BY <3>1, <3>6
    <3>9. cursor[q] <= high[q] \/ cursor[q] - 1 \in log'[q]
      BY <2>1, <3>1 DEF ReadSoFar
    <3> QED BY <1>2, <1>8, <2>1, <3>5, <3>7, <3>8, <3>9 DEF ReadSoFar
  <2> QED BY <2>2, <2>3
<1> QED BY <1>5, <1>6, <1>7, <1>9 DEF KafkaInv

(* The step of a delivery, by what it does to the partition it is of.      *)
LEMMA DeliverPassesOver ==
    ASSUME KafkaInv, NEW p \in Partitions, NEW o \in NextOf(p),
           cursor' = [cursor EXCEPT ![p] = o + 1], UNCHANGED <<remaining, lines, outcome>>,
           UNCHANGED <<log, low, high, window>>, remaining[p] = 0
    PROVE  KafkaInv'
<1>1. KafkaTypeOK
  BY DEF KafkaInv
<1>2. o \in log[p] /\ o >= cursor[p] /\ o \in Offsets /\ o \in Nat /\ o + 1 \in 0..(MaxOffset + 1)
  BY <1>1, KafkaAssumption DEF NextOf, KafkaTypeOK, Offsets
<1>3. cursor' \in [Partitions -> 0..(MaxOffset + 1)]
  BY <1>1, <1>2 DEF KafkaTypeOK
<1>4. KafkaTypeOK'
  BY <1>1, <1>3 DEF KafkaTypeOK
<1>5. \A q : Got(q)' = Got(q)
  BY DEF Got
<1>6. ASSUME NEW q \in Partitions PROVE ReadSoFar(q)'
  <2>1. ReadSoFar(q)
    BY DEF KafkaInv
  <2>2. CASE q # p
    <3>1. cursor'[q] = cursor[q]
      BY <1>1, <2>2 DEF KafkaTypeOK
    <3>2. NoneMissing(q)' <=> NoneMissing(q)
      BY <1>5, <3>1 DEF NoneMissing
    <3> QED BY <1>5, <2>1, <3>1, <3>2 DEF ReadSoFar
  <2>3. CASE q = p
    <3>1. cursor'[q] = o + 1
      BY <1>1, <2>3 DEF KafkaTypeOK
    <3>2. cursor[q] \in Nat /\ window[q].from \in Nat /\ \A g \in Got(q) : g \in Nat
      BY <1>1, KafkaAssumption DEF KafkaTypeOK, Offsets, Got
    <3>3. \A g \in Got(q) : window[q].from <= g /\ g < cursor'[q]
      BY <1>2, <2>1, <2>3, <3>1, <3>2 DEF ReadSoFar
    <3>4. window[q].from <= cursor'[q] /\ cursor'[q] - 1 \in log[q]
      BY <1>2, <2>1, <2>3, <3>1, <3>2 DEF ReadSoFar
    <3>5. ~(remaining[q] > 0)
      BY <2>3
    <3> QED BY <1>5, <2>1, <3>3, <3>4, <3>5 DEF ReadSoFar
  <2> QED BY <2>2, <2>3
<1>7. \A q \in Partitions : WindowIs(q)'
  BY DEF KafkaInv, WindowIs
<1>8. OutcomeInv'
  BY DEF KafkaInv, OutcomeInv
<1> QED BY <1>4, <1>6, <1>7, <1>8 DEF KafkaInv

LEMMA DeliverTakes ==
    ASSUME KafkaInv, NEW p \in Partitions, NEW o \in NextOf(p), remaining[p] # 0,
           cursor' = [cursor EXCEPT ![p] = o + 1], lines' = lines \cup {<<p, o>>},
           remaining' = [remaining EXCEPT ![p] = LeftAfter(p, o)],
           outcome' = IF \A x \in Partitions : remaining'[x] = 0 THEN "read" ELSE outcome,
           outcome = "reading", UNCHANGED <<log, low, high, window>>
    PROVE  KafkaInv'
<1>1. KafkaTypeOK
  BY DEF KafkaInv
<1>2. /\ o \in log[p] /\ o >= cursor[p] /\ o \in Offsets /\ o \in Nat /\ o + 1 \in 0..(MaxOffset + 1)
      /\ \A x \in log[p] : x >= cursor[p] => o <= x
  BY <1>1, KafkaAssumption DEF NextOf, KafkaTypeOK, Offsets
<1>3. PICK k \in Nat, f \in Nat, u \in Nat, c \in Nat :
          /\ k = remaining[p] /\ k > 0 /\ f = window[p].from /\ u = window[p].through /\ c = cursor[p]
          /\ k <= MaxOffset + 1
  BY <1>1, KafkaAssumption DEF KafkaTypeOK, Offsets
<1>4. PICK l \in Nat : l = (IF o >= u THEN 0 ELSE k - 1) /\ l = LeftAfter(p, o)
  BY <1>2, <1>3 DEF LeftAfter
<1>5. l <= k - 1 /\ l \in 0..(MaxOffset + 1)
  BY <1>3, <1>4, KafkaAssumption
<1>6. /\ cursor' \in [Partitions -> 0..(MaxOffset + 1)] /\ remaining' \in [Partitions -> 0..(MaxOffset + 1)]
      /\ lines' \subseteq Partitions \X Offsets
  <2>1. cursor' \in [Partitions -> 0..(MaxOffset + 1)]
    BY <1>1, <1>2 DEF KafkaTypeOK
  <2>2. remaining' \in [Partitions -> 0..(MaxOffset + 1)]
    BY <1>1, <1>4, <1>5 DEF KafkaTypeOK
  <2>3. lines' \subseteq Partitions \X Offsets
    BY <1>1, <1>2 DEF KafkaTypeOK
  <2> QED BY <2>1, <2>2, <2>3
<1>7. KafkaTypeOK'
  BY <1>1, <1>6 DEF KafkaTypeOK
<1>8. OutcomeInv'
  <2>1. \A q \in Partitions : remaining'[q] \in Nat
    BY <1>6, KafkaAssumption
  <2>2. CASE \A x \in Partitions : remaining'[x] = 0
    BY <2>2 DEF OutcomeInv
  <2>3. CASE \E x \in Partitions : remaining'[x] # 0
    <3>1. PICK x \in Partitions : remaining'[x] > 0
      BY <2>1, <2>3
    <3> QED BY <2>3, <3>1 DEF OutcomeInv
  <2> QED BY <2>2, <2>3
<1>9. \A q \in Partitions : WindowIs(q)'
  BY DEF KafkaInv, WindowIs
<1>10. ASSUME NEW q \in Partitions, q # p PROVE ReadSoFar(q)'
  <2>1. cursor'[q] = cursor[q] /\ remaining'[q] = remaining[q]
    BY <1>1, <1>10 DEF KafkaTypeOK
  <2>2. Got(q)' = Got(q)
    BY <1>10 DEF Got
  <2>3. NoneMissing(q)' <=> NoneMissing(q)
    BY <2>1, <2>2 DEF NoneMissing
  <2>4. ReadSoFar(q)
    BY DEF KafkaInv
  <2> QED BY <2>1, <2>2, <2>3, <2>4 DEF ReadSoFar
<1>11. ReadSoFar(p)'
  <2>1. ReadSoFar(p)
    BY DEF KafkaInv
  <2>2. cursor'[p] = o + 1 /\ remaining'[p] = l
    BY <1>1, <1>4 DEF KafkaTypeOK
  <2>3. Got(p)' = Got(p) \cup {o}
    BY <1>2 DEF Got
  <2>4. /\ \A g \in Got(p) : g \in Nat /\ f <= g /\ g < c /\ g < u
        /\ f <= c /\ Got(p) \subseteq log[p]
        /\ Cardinality(Got(p)) + k = window[p].quota /\ NoneMissing(p)
    BY <1>3, <2>1 DEF ReadSoFar, Got, Offsets
  <2>5. o \notin Got(p)
    BY <1>2, <1>3, <2>4
  <2>6. PICK n \in Nat : n = Cardinality(Got(p)) /\ n + 1 = Cardinality(Got(p)')
    <3>1. PICK S : S = Got(p)
      OBVIOUS
    <3>2. IsFiniteSet(S) /\ Cardinality(S) \in Nat /\ o \notin S
      BY <2>5, <3>1, GotIsFinite
    <3>3. Cardinality(S \cup {o}) = Cardinality(S) + 1
      BY <3>2, FS_AddElement
    <3> QED BY <2>3, <3>1, <3>2, <3>3
  <2>7. window[p].quota = n + k
    BY <2>4, <2>6
  <2>8. NoneMissing(p)'
    <3> SUFFICES ASSUME NEW x \in log[p], f <= x, x < o + 1 PROVE x \in Got(p)'
      BY <1>3, <2>2 DEF NoneMissing
    <3>1. x \in Nat
      BY <1>1 DEF KafkaTypeOK, Offsets
    <3>2. CASE x < c
      BY <1>3, <2>3, <2>4, <3>2 DEF NoneMissing
    <3>3. CASE x >= c
      <4>1. x = o
        BY <1>2, <1>3, <3>1, <3>3
      <4> QED BY <2>3, <4>1
    <3> QED BY <1>3, <3>1, <3>2, <3>3
  <2>9. Got(p)' \subseteq log[p] /\ l <= window[p].quota
    BY <1>2, <1>3, <1>5, <2>3, <2>4, <2>7
  <2>10. \A g \in Got(p)' : f <= g /\ g < o + 1 /\ g \in Nat
    BY <1>2, <1>3, <2>3, <2>4
  <2>11. f <= o + 1 /\ (o + 1) - 1 \in log[p]
    <3>1. (o + 1) - 1 = o
      BY <1>2
    <3> QED BY <1>2, <1>3, <2>4, <3>1
  <2>12. ASSUME l > 0 PROVE (\A g \in Got(p)' : g < u) /\ (n + 1) + l = window[p].quota
    BY <1>2, <1>3, <1>4, <2>3, <2>4, <2>7, <2>12
  <2>13. ASSUME l = 0
         PROVE  /\ n + 1 <= window[p].quota
                /\ \A x \in log[p] : f <= x /\ (\E g \in Got(p)' : x < g) => x \in Got(p)'
                /\ n + 1 < window[p].quota => \E g \in Got(p)' : g >= u
    <3>1. n + 1 <= window[p].quota
      BY <1>3, <2>7
    <3>2. ASSUME NEW x \in log[p], f <= x, NEW g \in Got(p)', x < g PROVE x \in Got(p)'
      <4>1. x \in Nat
        BY <1>1 DEF KafkaTypeOK, Offsets
      <4>2. x < o + 1
        BY <1>2, <2>10, <3>2, <4>1
      <4> QED BY <1>3, <2>2, <2>8, <3>2, <4>2 DEF NoneMissing
    <3>3. ASSUME n + 1 < window[p].quota PROVE \E g \in Got(p)' : g >= u
      <4>1. o >= u
        BY <1>2, <1>3, <1>4, <2>7, <2>13, <3>3
      <4>2. o \in Got(p)'
        BY <2>3
      <4> QED BY <4>1, <4>2
    <3> QED BY <3>1, <3>2, <3>3
  <2> QED BY <1>3, <2>2, <2>6, <2>8, <2>9, <2>10, <2>11, <2>12, <2>13 DEF ReadSoFar
<1> QED BY <1>7, <1>8, <1>9, <1>10, <1>11 DEF KafkaInv

LEMMA DeliverKeeps ==
    ASSUME KafkaInv, NEW p \in Partitions, Deliver(p) PROVE KafkaInv'
<1>1. PICK o \in NextOf(p) :
          /\ cursor' = [cursor EXCEPT ![p] = o + 1]
          /\ IF remaining[p] = 0
             THEN UNCHANGED <<remaining, lines, outcome>>
             ELSE /\ lines' = lines \cup {<<p, o>>}
                  /\ remaining' = [remaining EXCEPT ![p] = LeftAfter(p, o)]
                  /\ outcome' = IF \A x \in Partitions : remaining'[x] = 0 THEN "read" ELSE outcome
  BY DEF Deliver
<1>2. outcome = "reading" /\ UNCHANGED <<log, low, high, window>>
  BY DEF Deliver
<1>3. CASE remaining[p] = 0
  BY <1>1, <1>2, <1>3, DeliverPassesOver
<1>4. CASE remaining[p] # 0
  BY <1>1, <1>2, <1>4, DeliverTakes
<1> QED BY <1>3, <1>4

LEMMA KafkaInvNext ==
    ASSUME KafkaInv, [KafkaNext]_kafkaVars PROVE KafkaInv'
<1>1. ASSUME NEW p \in Partitions, Produce(p) PROVE KafkaInv'
  BY <1>1, ProduceKeeps
<1>2. ASSUME NEW p \in Partitions, Deliver(p) PROVE KafkaInv'
  BY <1>2, DeliverKeeps
<1>3. CASE UNCHANGED <<low, high, window, remaining>> /\ UNCHANGED <<log, cursor, lines>>
           /\ (outcome' = outcome \/ outcome' = "timeout")
  <2>1. KafkaTypeOK'
    BY <1>3 DEF KafkaInv, KafkaTypeOK
  <2>2. \A q : Got(q)' = Got(q)
    BY <1>3 DEF Got
  <2>3. \A q : NoneMissing(q)' <=> NoneMissing(q)
    BY <1>3, <2>2 DEF NoneMissing
  <2>4. \A q \in Partitions : ReadSoFar(q)'
    BY <1>3, <2>2, <2>3 DEF KafkaInv, ReadSoFar
  <2>5. \A q \in Partitions : WindowIs(q)'
    BY <1>3 DEF KafkaInv, WindowIs
  <2>6. OutcomeInv'
    BY <1>3 DEF KafkaInv, OutcomeInv
  <2> QED BY <2>1, <2>4, <2>5, <2>6 DEF KafkaInv
<1>4. CASE Deadline
  BY <1>3, <1>4 DEF Deadline
<1>5. CASE UNCHANGED kafkaVars
  BY <1>3, <1>5 DEF kafkaVars
<1> QED BY <1>1, <1>2, <1>4, <1>5 DEF KafkaNext

(* What a read of a topic takes is what was asked for: the sample is spent *)
(* whole or everything there is is taken, fairly; what is kept of a        *)
(* partition is its window, without a gap; and a read that has not ended   *)
(* waits for the cluster, or for an offset that holds no message           *)
(* (kafka.ts:60-80, 244-261).                                              *)
THEOREM AReadTakesItsWindow == KafkaSpec => []KafkaSafe
<1>1. KafkaInit => KafkaInv
  BY KafkaInvInit
<1>2. KafkaInv /\ [KafkaNext]_kafkaVars => KafkaInv'
  BY KafkaInvNext
<1>3. KafkaInv => KafkaSafe
  BY SafeFromKafkaInv
<1> QED BY <1>1, <1>2, <1>3, PTL DEF KafkaSpec
=============================================================================
