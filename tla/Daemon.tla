------------------------------- MODULE Daemon ------------------------------
(***************************************************************************)
(* Daemon processes and the one socket path they share                     *)
(* (daemon/src/main.ts, server.ts listen and close), and the clients that  *)
(* start one on demand (client/src/spawn.ts).  Each line of listen is a    *)
(* step of its own: other processes run in between.                        *)
(***************************************************************************)
EXTENDS Naturals, FiniteSets

CONSTANTS Daemons,   \* bound: processes ever started
          Writers,   \* bound: those of them whose queries write results
          Users,     \* clients
          Nobody     \* no daemon: nothing at the path, no connection

ASSUME DaemonAssumption == Nobody \notin Daemons /\ Writers \subseteq Daemons

VARIABLES
    path,   \* whose socket is at the path, dead or alive
    proc,   \* proc[d]: a daemon process
    user    \* user[u]: a client

daemonVars == <<path, proc, user>>

Off == [stage |-> "off", armed |-> FALSE, writing |-> FALSE, torn |-> FALSE, rivals |-> {}]

DaemonTypeOK ==
    /\ path \in Daemons \cup {Nobody}
    /\ proc \in [Daemons -> [stage : {"off", "probing", "clearing", "binding", "serving", "closing", "exited"},
                             armed : BOOLEAN, writing : BOOLEAN, torn : BOOLEAN, rivals : SUBSET Daemons]]
    /\ user \in [Users -> [stage : {"away", "waiting", "ready", "up", "failed"}, to : Daemons \cup {Nobody}]]
    /\ \A u \in Users : user[u].to # Nobody => user[u].stage = "up" /\ proc[user[u].to].stage = "serving"

DaemonInit ==
    /\ path = Nobody
    /\ proc = [d \in Daemons |-> Off]
    /\ user = [u \in Users |-> [stage |-> "away", to |-> Nobody]]

Stage(d) == proc[d].stage
Listening == path # Nobody /\ Stage(path) = "serving"
Attached(d) == {u \in Users : user[u].to = d}
Gone(d) == [Off EXCEPT !.stage = "exited", !.torn = proc[d].torn]

(* new ResultStore: everything in the tmp directory goes, whoever is       *)
(* writing it.                                                             *)
Swept == [d \in Daemons |-> IF proc[d].writing THEN [proc[d] EXCEPT !.writing = FALSE, !.torn = TRUE] ELSE proc[d]]

(* start, up to listen: the store is opened first.  A path with nothing at *)
(* it is bound straight away, otherwise whatever is there is probed.       *)
StartDaemon(d) ==
    /\ Stage(d) = "off"
    /\ proc' = [Swept EXCEPT ![d].stage = IF path = Nobody THEN "binding" ELSE "probing"]
    /\ UNCHANGED <<path, user>>

(* Mutant of Alive: the probe is left out.                                 *)
AliveNever == FALSE

Alive == Listening

Probe(d) ==
    /\ Stage(d) = "probing"
    /\ proc' = [proc EXCEPT ![d] = IF Alive THEN Gone(d) ELSE [@ EXCEPT !.stage = "clearing"]]
    /\ UNCHANGED <<path, user>>

(* unlinkSync, which throws when somebody else has unlinked it.            *)
Unlink(d) ==
    /\ Stage(d) = "clearing"
    /\ path' = Nobody
    /\ proc' = [proc EXCEPT ![d] = IF path = Nobody THEN Gone(d) ELSE [@ EXCEPT !.stage = "binding"]]
    /\ UNCHANGED user

(* Who will unlink the path without looking again: one that has probed, one*)
(* that is closing, one that serves where nobody finds it.                 *)
Careless == {e \in Daemons : Stage(e) \in {"clearing", "closing", "serving"}}

(* Binding a path that is occupied fails, and the process exits.           *)
Bind(d) ==
    /\ Stage(d) = "binding"
    /\ path' = IF path = Nobody THEN d ELSE path
    /\ proc' = [proc EXCEPT ![d] = IF path = Nobody THEN [@ EXCEPT !.stage = "serving", !.rivals = Careless] ELSE Gone(d)]
    /\ UNCHANGED user

(* fail(): the socket went away; the next request opens another.           *)
Dropped(d) == [u \in Users |-> IF u \in Attached(d) THEN [stage |-> "away", to |-> Nobody] ELSE user[u]]

(* stop, on a signal or because it is idle: clients are destroyed and the  *)
(* server is closed, which unlinks the path; when it has closed, close     *)
(* unlinks the path again, whatever is there by then.                      *)
StopDaemon(d) ==
    /\ Stage(d) = "serving"
    /\ proc' = [proc EXCEPT ![d].stage = "closing", ![d].armed = FALSE]
    /\ path' = Nobody /\ user' = Dropped(d)

IdleStop(d) == proc[d].armed /\ Attached(d) = {} /\ StopDaemon(d)

ServerClosed(d) ==
    /\ Stage(d) = "closing"
    /\ path' = Nobody
    /\ proc' = [proc EXCEPT ![d] = Gone(d)]
    /\ UNCHANGED user

(* Killed: the socket stays at the path.                                   *)
Killed(d) ==
    /\ Stage(d) \in {"serving", "closing"}
    /\ proc' = [proc EXCEPT ![d] = Gone(d)]
    /\ user' = Dropped(d) /\ UNCHANGED path

(* A query writes its rows under the tmp directory, and publishes them.    *)
WriteResult(d) ==
    /\ d \in Writers /\ Stage(d) = "serving" /\ (proc[d].writing \/ Attached(d) # {})
    /\ proc' = [proc EXCEPT ![d].writing = ~@]
    /\ UNCHANGED <<path, user>>

(* ensureDaemon: if nothing listens, a daemon is spawned and the socket is *)
(* polled until the deadline.                                              *)
Ensure(u) ==
    /\ user[u].stage = "away"
    /\ \/ Listening /\ user' = [user EXCEPT ![u].stage = "ready"] /\ UNCHANGED <<path, proc>>
       \/ /\ ~Listening /\ user' = [user EXCEPT ![u].stage = "waiting"]
          /\ \E d \in Daemons :
                 /\ Stage(d) = "off"
                 /\ proc' = [Swept EXCEPT ![d].stage = IF path = Nobody THEN "binding" ELSE "probing"]
          /\ UNCHANGED path

Poll(u) == user[u].stage = "waiting" /\ Listening /\ user' = [user EXCEPT ![u].stage = "ready"] /\ UNCHANGED <<path, proc>>

(* Ten seconds are longer than any start takes.                            *)
Starting == \E d \in Daemons : Stage(d) \in {"probing", "clearing", "binding"}
Deadline(u) ==
    /\ user[u].stage = "waiting" /\ ~Listening /\ ~Starting
    /\ user' = [user EXCEPT ![u].stage = "failed"] /\ UNCHANGED <<path, proc>>

(* open: the daemon that answered the probe may be gone by now.            *)
Connect(u) ==
    /\ user[u].stage = "ready"
    /\ user' = [user EXCEPT ![u] = IF Listening THEN [stage |-> "up", to |-> path] ELSE [stage |-> "failed", to |-> Nobody]]
    /\ UNCHANGED <<path, proc>>

(* onIdle: the last client has left.                                       *)
Armed(d, u) == Attached(d) = {u}

LeaveDaemon(u) ==
    /\ user[u].stage = "up"
    /\ proc' = [proc EXCEPT ![user[u].to].armed = @ \/ Armed(user[u].to, u)]
    /\ user' = [user EXCEPT ![u] = [stage |-> "away", to |-> Nobody]]
    /\ UNCHANGED path

DaemonMoves(d) == Probe(d) \/ Unlink(d) \/ Bind(d) \/ ServerClosed(d)
UserMoves(u) == Poll(u) \/ Deadline(u) \/ Connect(u)

DaemonNext ==
    \/ \E d \in Daemons : StartDaemon(d) \/ DaemonMoves(d) \/ StopDaemon(d) \/ IdleStop(d) \/ Killed(d) \/ WriteResult(d)
    \/ \E u \in Users : Ensure(u) \/ UserMoves(u) \/ LeaveDaemon(u)

(* Processes run, and the idle timer fires.                                *)
DaemonFair == /\ \A d \in Daemons : WF_daemonVars(DaemonMoves(d)) /\ WF_daemonVars(IdleStop(d))
              /\ \A u \in Users : WF_daemonVars(UserMoves(u))

DaemonSpec == DaemonInit /\ [][DaemonNext]_daemonVars /\ DaemonFair

(* server.ts:89-96, 114-123: a daemon that serves loses its socket only to *)
(* one that had probed, was closing or had lost its own when it bound.     *)
SocketLostOnlyInARace == \A d \in Daemons : Stage(d) = "serving" /\ path # d => proc[d].rivals # {}

(* A spawned client gets through or gives up, and does not hang (spawn.ts).*)
SpawnSettles == \A u \in Users : user[u].stage = "waiting" ~> user[u].stage # "waiting"

(* main.ts:188-197: a daemon that has served exits once it is left for     *)
(* good.                                                                   *)
AbandonedDaemonsExit ==
    \A d \in Daemons : [](Attached(d) # {} => []<>(Attached(d) # {}) \/ <>(Stage(d) # "serving"))

(* spawn.ts:6-8: "the losers connect to the winner's daemon because binding*)
(* an occupied socket fails loudly".                                       *)
OneDaemonServes == Cardinality({d \in Daemons : Stage(d) = "serving"}) <= 1

(* results.ts:284-286: what a start clears are "abandoned temporary        *)
(* directories from a crashed write".                                      *)
OnlyAbandonedWritesAreSwept == \A d \in Daemons : ~proc[d].torn
=============================================================================
