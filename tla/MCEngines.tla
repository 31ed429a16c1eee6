------------------------------ MODULE MCEngines ----------------------------
(* What a session does with its engine: the tunnel it is reached through,  *)
(* the drivers with a socket, the embedded DuckDBs, the reads and the      *)
(* tables of Kafka, the engines that page.  They share no state, so one    *)
(* run explores one after the other: `part` is the one that moves, and the *)
(* others stay in an initial state of theirs.                              *)
EXTENDS Tunnels, Drivers, Embedded, Kafka, KafkaTables, Paged

VARIABLE part

Parts == {"tunnels", "drivers", "embedded", "kafka", "tables", "paged"}

(* A part that stays still does so in one initial state.                   *)
Still(name, state) == part # name => state

EnginesInit ==
    /\ part \in Parts
    /\ TunnelsInit /\ TablesInit
    /\ DriversInit /\ Still("drivers", kind = "postgres")
    /\ EmbeddedInit /\ Still("embedded", store = "s3")
    /\ PagedInit /\ Still("paged", engine = "elastic")
    /\ KafkaInit /\ Still("kafka", \A p \in Partitions : low[p] = 0 /\ high[p] = 0)

EnginesNext ==
    \/ /\ part = "tunnels" /\ TunnelsNext
       /\ UNCHANGED <<part, driverVars, embeddedVars, kafkaVars, tablesVars, pagedVars>>
    \/ /\ part = "drivers" /\ DriversNext
       /\ UNCHANGED <<part, tvars, embeddedVars, kafkaVars, tablesVars, pagedVars>>
    \/ /\ part = "embedded" /\ EmbeddedNext
       /\ UNCHANGED <<part, tvars, driverVars, kafkaVars, tablesVars, pagedVars>>
    \/ /\ part = "kafka" /\ KafkaNext
       /\ UNCHANGED <<part, tvars, driverVars, embeddedVars, tablesVars, pagedVars>>
    \/ /\ part = "tables" /\ TablesNext
       /\ UNCHANGED <<part, tvars, driverVars, embeddedVars, kafkaVars, pagedVars>>
    \/ /\ part = "paged" /\ PagedNext
       /\ UNCHANGED <<part, tvars, driverVars, embeddedVars, kafkaVars, tablesVars>>

(* Nothing fair is enabled in a part that stays still.                     *)
EnginesSpec ==
    /\ EnginesInit /\ [][EnginesNext]_<<part, tvars, driverVars, embeddedVars, kafkaVars, tablesVars, pagedVars>>
    /\ DriversFair /\ KafkaFair /\ PagedFair

(* Whatever the engine, a query that is stopped comes to an end, and so    *)
(* does a read that aims at offsets that hold a message (interrupt.ts:30,  *)
(* kafka.ts:67-69, trino.ts:333, elasticsearch.ts:391).                    *)
StopsTakeEffect == InterruptEnds /\ AbortedWalksEnd /\ ReadEndsWithoutGaps
=============================================================================
