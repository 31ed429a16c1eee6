--------------------------- MODULE ProcessesProofs --------------------------
(***************************************************************************)
(* Proofs about the processes around the daemon: the watch on its files,   *)
(* its own starts and stops, a client of it, the window a client speaks    *)
(* for, the form it opens, a shell that is piped into and the daemon's log;*)
(* for any files, daemons, requests, workspaces, submissions and lines.    *)
(***************************************************************************)
EXTENDS MCProcesses, Inductions, FiniteSetTheorems, TLAPS

-----------------------------------------------------------------------------
(* Watch.  What the daemon has read is at least as new as what the watcher *)
(* has seen, so a digest that has not changed means there is nothing to    *)
(* read again.                                                             *)

WatchInv ==
    /\ WatchTypeOK
    /\ \A f \in watched : digest[f] <= known[f]
    /\ \A f \in watched : known[f] # content[f] => f \in overtaken \/ timer = f

LEMMA WatchInitInv == WatchInit => WatchInv
BY WatchAssumption DEF WatchInit, WatchInv, WatchTypeOK

LEMMA FileInv ==
    ASSUME WatchInv, NEW f \in Configs, EditFile(f) \/ Touch(f)
    PROVE  WatchInv'
<1> USE WatchAssumption DEF WatchInv, WatchTypeOK, EditFile, Touch, FileEvent, Heard, Scheduled
<1>1. WatchTypeOK'
  OBVIOUS
<1>2. \A g \in watched' : digest'[g] <= known'[g]
  OBVIOUS
<1>3. \A g \in watched' : known'[g] # content'[g] => g \in overtaken' \/ timer' = g
  OBVIOUS
<1> QED BY <1>1, <1>2, <1>3

LEMMA AddWatchInv ==
    ASSUME WatchInv, NEW f \in Configs, AddWatch(f)
    PROVE  WatchInv'
BY WatchAssumption DEF WatchInv, WatchTypeOK, AddWatch

LEMMA TimerFiresInv ==
    ASSUME WatchInv, TimerFires
    PROVE  WatchInv'
<1> USE WatchAssumption DEF WatchInv, WatchTypeOK, TimerFires
<1>1. timer \in watched /\ timer \in Configs /\ content[timer] \in Nat
  OBVIOUS
<1>2. CASE digest[timer] = content[timer]
  <2>1. known[timer] = content[timer]
    BY <1>1, <1>2
  <2> QED BY <1>2, <2>1
<1>3. CASE digest[timer] # content[timer]
  <2>1. known' = [g \in Configs |-> IF g \in watched THEN content[g] ELSE known[g]]
    BY <1>3 DEF Reloaded
  <2> QED BY <1>1, <1>3, <2>1
<1> QED BY <1>2, <1>3

LEMMA WatchNextInv == WatchInv /\ [WatchNext]_watchVars => WatchInv'
<1>1. ASSUME WatchInv, UNCHANGED watchVars PROVE WatchInv'
  BY <1>1 DEF watchVars, WatchInv, WatchTypeOK
<1> QED BY <1>1, FileInv, AddWatchInv, TimerFiresInv DEF WatchNext

THEOREM WatchInductive == WatchSpec => []WatchInv
BY WatchInitInv, WatchNextInv, PTL DEF WatchSpec

(* The state of the watcher has its type for any files.                    *)
THEOREM WatchTypeCorrect == WatchSpec => []WatchTypeOK
<1>1. WatchInv => WatchTypeOK
  BY DEF WatchInv
<1> QED BY <1>1, WatchInductive, PTL

(* With no timer pending, a watched file is stale only if its event was    *)
(* dropped for that of another file (watch.ts:72-83).                      *)
THEOREM OnlyOvertakenAreStale == WatchSpec => []StaleOnlyWhenOvertaken
<1>1. WatchInv => StaleOnlyWhenOvertaken
  BY WatchAssumption DEF WatchInv, WatchTypeOK, StaleOnlyWhenOvertaken
<1> QED BY <1>1, WatchInductive, PTL

-----------------------------------------------------------------------------
(* Daemon.  While a daemon's socket is at the path, whoever could unlink   *)
(* that path was there when it bound it: one that probes now finds it      *)
(* alive, and one that binds now fails.                                    *)

DaemonInv ==
    /\ DaemonTypeOK
    /\ \A d, e \in Daemons :
          path = d /\ Stage(d) = "serving" /\ e # d /\ Stage(e) \in {"clearing", "closing", "serving"} =>
              e \in proc[d].rivals
    /\ SocketLostOnlyInARace

LEMMA DaemonInitInv == DaemonInit => DaemonInv
BY DaemonAssumption DEF DaemonInit, DaemonInv, DaemonTypeOK, SocketLostOnlyInARace, Stage, Off

Process == [stage : {"off", "probing", "clearing", "binding", "serving", "closing", "exited"},
            armed : BOOLEAN, writing : BOOLEAN, torn : BOOLEAN, rivals : SUBSET Daemons]

(* What the store's sweep does to a process is none of its stage.          *)
LEMMA SweptKeeps ==
    ASSUME DaemonInv, NEW d \in Daemons, Stage(d) = "off",
           proc' = [Swept EXCEPT ![d].stage = IF path = Nobody THEN "binding" ELSE "probing"],
           UNCHANGED path,
           user' \in [Users -> [stage : {"away", "waiting", "ready", "up", "failed"}, to : Daemons \cup {Nobody}]],
           \A u \in Users : user'[u].to = user[u].to /\ (user[u].stage = "up" => user'[u].stage = "up")
    PROVE  DaemonInv'
<1> USE DaemonAssumption DEF DaemonInv, DaemonTypeOK
<1>1. \A e \in Daemons : /\ Swept[e] \in Process /\ Swept[e].stage = proc[e].stage
                         /\ Swept[e].rivals = proc[e].rivals
  <2> TAKE e \in Daemons
  <2>1. PICK p \in Process : p = proc[e]
    BY DEF Process
  <2>2. PICK q : q = [p EXCEPT !.writing = FALSE, !.torn = TRUE]
    OBVIOUS
  <2>3. q \in Process /\ q.stage = p.stage /\ q.rivals = p.rivals
    BY <2>2 DEF Process
  <2> QED BY <2>1, <2>2, <2>3 DEF Swept
<1>2. Swept = [e \in Daemons |-> Swept[e]]
  BY DEF Swept
<1>3. PICK stage \in {"binding", "probing"} : proc' = [Swept EXCEPT ![d].stage = stage]
  OBVIOUS
<1>4. \A e \in Daemons : e # d => proc'[e] = Swept[e]
  BY <1>2, <1>3
<1>5. proc'[d] \in Process /\ proc'[d].stage = stage
  <2>1. PICK p, q : p \in Process /\ p = Swept[d] /\ q = proc'[d]
    BY <1>1
  <2>2. q = [p EXCEPT !.stage = stage]
    BY <1>2, <1>3, <2>1
  <2>3. q \in Process /\ q.stage = stage
    BY <2>1, <2>2 DEF Process
  <2> QED BY <2>1, <2>3
<1>6. \A e \in Daemons : /\ e # d => proc'[e].stage = proc[e].stage /\ proc'[e].rivals = proc[e].rivals
                         /\ proc'[e] \in Process
  <2> TAKE e \in Daemons
  <2>1. CASE e = d
    BY <1>5, <2>1
  <2>2. CASE e # d
    BY <1>1, <1>4, <2>2
  <2> QED BY <2>1, <2>2
<1>7. proc' \in [Daemons -> Process]
  BY <1>2, <1>3, <1>6
<1>8. DaemonTypeOK'
  BY <1>6, <1>7 DEF Process, Stage
<1> QED BY <1>5, <1>6, <1>8 DEF Stage, SocketLostOnlyInARace

(* A step of one process, which becomes p: who is at the path, and what the*)
(* one that moves may do to it.                                            *)
Becomes(d, p) ==
    /\ proc' = [proc EXCEPT ![d] = p]
    /\ path' \in Daemons \cup {Nobody}
    /\ user' \in [Users -> [stage : {"away", "waiting", "ready", "up", "failed"}, to : Daemons \cup {Nobody}]]
    /\ \A u \in Users : user'[u].to # Nobody =>
           user'[u].stage = "up" /\ user[u].to = user'[u].to /\ (p.stage = "serving" \/ user'[u].to # d)
    /\ \A e \in Daemons \ {d} : /\ path' = e => path = e
                                /\ path = e /\ Stage(e) = "serving" /\ path' # e =>
                                      Stage(d) \in {"clearing", "closing", "serving"}
    /\ p.stage = "serving" => \/ path' = path /\ Stage(d) = "serving" /\ p.rivals = proc[d].rivals
                              \/ path' = d /\ p.rivals = Careless
    /\ p.stage \in {"clearing", "closing"} =>
           Stage(d) = p.stage \/ Stage(d) = "serving" \/ path = Nobody \/ Stage(path) # "serving"
    /\ Stage(d) # "serving" => Stage(d) \in {"clearing", "closing"} \/ path' = path \/ path' = d

LEMMA ProcessInv ==
    ASSUME DaemonInv, NEW d \in Daemons, NEW p \in Process, Becomes(d, p)
    PROVE  DaemonInv'
<1>1. proc'[d] = p /\ \A e \in Daemons : e # d => proc'[e] = proc[e]
  BY DEF DaemonInv, DaemonTypeOK, Becomes
<1>2. proc' \in [Daemons -> Process]
  BY DEF DaemonInv, DaemonTypeOK, Becomes, Process
<1>3. DaemonTypeOK'
  BY <1>1, <1>2, DaemonAssumption DEF DaemonInv, DaemonTypeOK, Becomes, Process
<1>4. \A e \in Daemons : e # d => (path' = e => path = e)
  BY DEF Becomes
<1>5. \A e \in Daemons : e # d /\ path = e /\ Stage(e) = "serving" /\ path' # e =>
          Stage(d) \in {"clearing", "closing", "serving"}
  BY DEF Becomes
<1>6. ASSUME p.stage = "serving"
      PROVE  \/ path' = path /\ Stage(d) = "serving" /\ p.rivals = proc[d].rivals
             \/ path' = d /\ p.rivals = Careless
  BY <1>6 DEF Becomes
<1>7. ASSUME p.stage \in {"clearing", "closing"}
      PROVE  Stage(d) = p.stage \/ Stage(d) = "serving" \/ path = Nobody \/ Stage(path) # "serving"
  BY <1>7 DEF Becomes
<1>8. \A e, f \in Daemons :
          path = e /\ Stage(e) = "serving" /\ f # e /\ Stage(f) \in {"clearing", "closing", "serving"} =>
              f \in proc[e].rivals
  BY DEF DaemonInv
<1>9. ASSUME NEW e \in Daemons, NEW f \in Daemons, path' = e, Stage(e)' = "serving", f # e,
             Stage(f)' \in {"clearing", "closing", "serving"}
      PROVE  f \in proc'[e].rivals
  <2>1. CASE e = d
    BY <1>1, <1>6, <1>8, <1>9, <2>1 DEF Stage, Careless
  <2>2. CASE e # d
    <3>1. path = e /\ Stage(e) = "serving" /\ proc'[e] = proc[e]
      BY <1>1, <1>4, <1>9, <2>2 DEF Stage
    <3>2. Stage(f) \in {"clearing", "closing", "serving"}
      <4>1. CASE f = d
        <5>1. p.stage = "serving" => Stage(d) = "serving"
          BY <1>6, <1>9, <2>2, <3>1
        <5>2. e # Nobody
          BY DaemonAssumption
        <5> QED BY <1>1, <1>7, <1>9, <3>1, <4>1, <5>1, <5>2 DEF Stage
      <4>2. CASE f # d
        BY <1>1, <1>9, <4>2 DEF Stage
      <4> QED BY <4>1, <4>2
    <3> QED BY <1>8, <1>9, <3>1, <3>2
  <2> QED BY <2>1, <2>2
<1>10. ASSUME NEW e \in Daemons, Stage(e)' = "serving", path' # e
      PROVE  proc'[e].rivals # {}
  <2>1. CASE e = d
    <3>1. path' = path /\ Stage(d) = "serving" /\ p.rivals = proc[d].rivals
      BY <1>1, <1>6, <1>10, <2>1 DEF Stage
    <3> QED BY <1>1, <1>10, <2>1, <3>1 DEF DaemonInv, SocketLostOnlyInARace
  <2>2. CASE e # d
    <3>1. Stage(e) = "serving" /\ proc'[e] = proc[e]
      BY <1>1, <1>10, <2>2 DEF Stage
    <3>2. CASE path = e
      <4>1. d \in proc[e].rivals
        BY <1>5, <1>8, <1>10, <2>2, <3>1, <3>2
      <4> QED BY <3>1, <4>1
    <3>3. CASE path # e
      BY <3>1, <3>3 DEF DaemonInv, SocketLostOnlyInARace
    <3> QED BY <3>2, <3>3
  <2> QED BY <2>1, <2>2
<1> QED BY <1>3, <1>9, <1>10 DEF DaemonInv, SocketLostOnlyInARace

(* A step of clients alone.                                                *)
LEMMA UsersInv ==
    ASSUME DaemonInv, UNCHANGED <<path, proc>>,
           user' \in [Users -> [stage : {"away", "waiting", "ready", "up", "failed"}, to : Daemons \cup {Nobody}]],
           \A u \in Users : user'[u].to # Nobody => user'[u].stage = "up" /\ proc[user'[u].to].stage = "serving"
    PROVE  DaemonInv'
BY DEF DaemonInv, DaemonTypeOK, SocketLostOnlyInARace, Stage

LEMMA GoneIsGone ==
    ASSUME DaemonTypeOK, NEW d \in Daemons
    PROVE  Gone(d) \in Process /\ Gone(d).stage = "exited"
<1>1. PICK torn \in BOOLEAN, q \in Process : torn = proc[d].torn /\ q = Off
  <2>1. Off \in Process
    BY DEF Process, Off
  <2> QED BY <2>1 DEF DaemonTypeOK
<1>2. PICK p : p = [q EXCEPT !.stage = "exited", !.torn = torn]
  OBVIOUS
<1>3. p \in Process /\ p.stage = "exited"
  BY <1>2 DEF Process
<1> QED BY <1>1, <1>2, <1>3 DEF Gone

LEMMA StageStep ==
    ASSUME DaemonTypeOK, NEW d \in Daemons, NEW stage \in {"clearing", "binding", "serving", "closing"}
    PROVE  \E p \in Process : /\ p = [proc[d] EXCEPT !.stage = stage]
                              /\ p.stage = stage /\ p.rivals = proc[d].rivals
<1>1. PICK q \in Process : q = proc[d]
  BY DEF DaemonTypeOK, Process
<1>2. PICK p : p = [q EXCEPT !.stage = stage]
  OBVIOUS
<1>3. p \in Process /\ p.stage = stage /\ p.rivals = q.rivals
  BY <1>2 DEF Process
<1> QED BY <1>1, <1>2, <1>3

LEMMA ProbeInv == ASSUME DaemonInv, NEW d \in Daemons, Probe(d) PROVE DaemonInv'
<1> USE DaemonAssumption DEF DaemonInv, DaemonTypeOK
<1>1. CASE Listening
  <2>1. proc' = [proc EXCEPT ![d] = Gone(d)] /\ Gone(d) \in Process /\ Gone(d).stage = "exited"
    BY <1>1, GoneIsGone DEF Probe, Alive
  <2>2. Becomes(d, Gone(d))
    BY <2>1 DEF Probe, Becomes, Stage
  <2> QED BY <2>1, <2>2, ProcessInv
<1>2. CASE ~Listening
  <2>1. proc' = [proc EXCEPT ![d] = [proc[d] EXCEPT !.stage = "clearing"]]
    BY <1>2 DEF Probe, Alive
  <2>2. PICK p \in Process : p = [proc[d] EXCEPT !.stage = "clearing"] /\ p.stage = "clearing"
    BY StageStep
  <2>3. Becomes(d, p)
    BY <1>2, <2>1, <2>2 DEF Probe, Becomes, Stage, Listening
  <2> QED BY <2>3, ProcessInv
<1> QED BY <1>1, <1>2

LEMMA UnlinkInv == ASSUME DaemonInv, NEW d \in Daemons, Unlink(d) PROVE DaemonInv'
<1> USE DaemonAssumption DEF DaemonInv, DaemonTypeOK
<1>1. CASE path = Nobody
  <2>1. proc' = [proc EXCEPT ![d] = Gone(d)] /\ Gone(d) \in Process /\ Gone(d).stage = "exited"
    BY <1>1, GoneIsGone DEF Unlink
  <2>2. Becomes(d, Gone(d))
    BY <2>1 DEF Unlink, Becomes, Stage
  <2> QED BY <2>1, <2>2, ProcessInv
<1>2. CASE path # Nobody
  <2>1. proc' = [proc EXCEPT ![d] = [proc[d] EXCEPT !.stage = "binding"]]
    BY <1>2 DEF Unlink
  <2>2. PICK p \in Process : p = [proc[d] EXCEPT !.stage = "binding"] /\ p.stage = "binding"
    BY StageStep
  <2>3. Becomes(d, p)
    BY <1>2, <2>1, <2>2 DEF Unlink, Becomes, Stage
  <2> QED BY <2>3, ProcessInv
<1> QED BY <1>1, <1>2

LEMMA BindInv == ASSUME DaemonInv, NEW d \in Daemons, Bind(d) PROVE DaemonInv'
<1> USE DaemonAssumption DEF DaemonInv, DaemonTypeOK
<1>1. CASE path # Nobody
  <2>1. proc' = [proc EXCEPT ![d] = Gone(d)] /\ Gone(d) \in Process /\ Gone(d).stage = "exited"
    BY <1>1, GoneIsGone DEF Bind
  <2>2. Becomes(d, Gone(d))
    BY <1>1, <2>1 DEF Bind, Becomes, Stage
  <2> QED BY <2>1, <2>2, ProcessInv
<1>2. CASE path = Nobody
  <2>1. proc' = [proc EXCEPT ![d] = [proc[d] EXCEPT !.stage = "serving", !.rivals = Careless]]
    BY <1>2 DEF Bind
  <2>2. PICK p \in Process : /\ p = [proc[d] EXCEPT !.stage = "serving", !.rivals = Careless]
                             /\ p.stage = "serving" /\ p.rivals = Careless
    <3>1. PICK q \in Process, rivals \in SUBSET Daemons : q = proc[d] /\ rivals = Careless
      BY DEF Process, Careless
    <3>2. PICK p : p = [q EXCEPT !.stage = "serving", !.rivals = rivals]
      OBVIOUS
    <3>3. p \in Process /\ p.stage = "serving" /\ p.rivals = rivals
      BY <3>2 DEF Process
    <3> QED BY <3>1, <3>2, <3>3
  <2>3. Becomes(d, p)
    BY <1>2, <2>1, <2>2 DEF Bind, Becomes, Stage
  <2> QED BY <2>3, ProcessInv
<1> QED BY <1>1, <1>2

(* Everybody who was connected to d is not any more.                       *)
LEMMA DroppedType ==
    ASSUME DaemonTypeOK, NEW d \in Daemons
    PROVE  /\ Dropped(d) \in [Users -> [stage : {"away", "waiting", "ready", "up", "failed"}, to : Daemons \cup {Nobody}]]
           /\ \A u \in Users : Dropped(d)[u].to # Nobody =>
                 Dropped(d)[u].stage = "up" /\ user[u].to = Dropped(d)[u].to /\ Dropped(d)[u].to # d
BY DEF DaemonTypeOK, Dropped, Attached

LEMMA StopInv ==
    ASSUME DaemonInv, NEW d \in Daemons, StopDaemon(d) \/ ServerClosed(d) \/ Killed(d)
    PROVE  DaemonInv'
<1> USE DaemonAssumption DEF DaemonInv
<1>1. CASE StopDaemon(d)
  <2>1. PICK p \in Process : /\ p = [proc[d] EXCEPT !.stage = "closing", !.armed = FALSE] /\ p.stage = "closing"
    <3>1. PICK q \in Process : q = proc[d]
      BY DEF Process, DaemonTypeOK
    <3>2. PICK p : p = [q EXCEPT !.stage = "closing", !.armed = FALSE]
      OBVIOUS
    <3>3. p \in Process /\ p.stage = "closing"
      BY <3>2 DEF Process
    <3> QED BY <3>1, <3>2, <3>3
  <2>2. proc' = [proc EXCEPT ![d] = p]
    BY <1>1, <2>1 DEF StopDaemon, DaemonTypeOK
  <2>3. user' = Dropped(d) /\ path' = Nobody /\ Stage(d) = "serving"
    BY <1>1 DEF StopDaemon
  <2>4. Becomes(d, p)
    <3>1. /\ user' \in [Users -> [stage : {"away", "waiting", "ready", "up", "failed"}, to : Daemons \cup {Nobody}]]
          /\ \A u \in Users : user'[u].to # Nobody =>
                user'[u].stage = "up" /\ user[u].to = user'[u].to /\ user'[u].to # d
      BY <2>3, DroppedType
    <3> QED BY <2>1, <2>2, <2>3, <3>1 DEF Becomes
  <2> QED BY <2>4, ProcessInv
<1>2. CASE ServerClosed(d) \/ Killed(d)
  <2>1. proc' = [proc EXCEPT ![d] = Gone(d)] /\ Gone(d) \in Process /\ Gone(d).stage = "exited"
    BY <1>2, GoneIsGone DEF ServerClosed, Killed
  <2>2. Becomes(d, Gone(d))
    <3>1. CASE ServerClosed(d)
      BY <2>1, <3>1 DEF ServerClosed, Becomes, Stage, DaemonTypeOK
    <3>2. CASE Killed(d)
      BY <2>1, <3>2, DroppedType DEF Killed, Becomes, Stage, DaemonTypeOK
    <3> QED BY <1>2, <3>1, <3>2
  <2> QED BY <2>1, <2>2, ProcessInv
<1> QED BY <1>1, <1>2

LEMMA WriteResultInv == ASSUME DaemonInv, NEW d \in Daemons, WriteResult(d) PROVE DaemonInv'
<1> USE DaemonAssumption DEF DaemonInv, DaemonTypeOK
<1>1. PICK p \in Process : /\ p = [proc[d] EXCEPT !.writing = ~proc[d].writing]
                           /\ p.stage = "serving" /\ p.rivals = proc[d].rivals
  <2>1. PICK q \in Process, writing \in BOOLEAN : q = proc[d] /\ writing = ~proc[d].writing
    BY DEF Process
  <2>2. PICK p : p = [q EXCEPT !.writing = writing]
    OBVIOUS
  <2>3. p \in Process /\ p.stage = q.stage /\ p.rivals = q.rivals
    BY <2>2 DEF Process
  <2> QED BY <2>1, <2>2, <2>3 DEF WriteResult, Stage
<1>2. proc' = [proc EXCEPT ![d] = p]
  BY <1>1 DEF WriteResult
<1>3. Becomes(d, p)
  BY <1>1, <1>2 DEF WriteResult, Becomes, Stage
<1> QED BY <1>3, ProcessInv

LEMMA ClientsInv ==
    ASSUME DaemonInv, NEW u \in Users, Ensure(u) \/ UserMoves(u) \/ LeaveDaemon(u)
    PROVE  DaemonInv'
<1> USE DaemonAssumption
<1> DEFINE Types == [stage : {"away", "waiting", "ready", "up", "failed"}, to : Daemons \cup {Nobody}]
<1>0. user \in [Users -> Types] /\ path \in Daemons \cup {Nobody}
  BY DEF DaemonInv, DaemonTypeOK
<1>1. CASE Ensure(u)
  <2>1. CASE Listening /\ user' = [user EXCEPT ![u].stage = "ready"] /\ UNCHANGED <<path, proc>>
    <3>1. user[u].stage = "away" /\ user[u].to = Nobody
      BY <1>1 DEF Ensure, DaemonInv, DaemonTypeOK
    <3> QED BY <1>0, <2>1, <3>1, UsersInv DEF DaemonInv, DaemonTypeOK
  <2>2. CASE ~Listening
    <3>1. PICK d \in Daemons : /\ Stage(d) = "off"
                               /\ proc' = [Swept EXCEPT ![d].stage = IF path = Nobody THEN "binding" ELSE "probing"]
      BY <1>1, <2>2 DEF Ensure
    <3>2. user' = [user EXCEPT ![u].stage = "waiting"] /\ path' = path /\ user[u].stage = "away"
      BY <1>1, <2>2 DEF Ensure
    <3>3. /\ user' \in [Users -> Types]
          /\ \A v \in Users : user'[v].to = user[v].to /\ (user[v].stage = "up" => user'[v].stage = "up")
      BY <1>0, <3>2
    <3> QED BY <3>1, <3>2, <3>3, SweptKeeps
  <2> QED BY <1>1, <2>1, <2>2 DEF Ensure
<1>2. CASE UserMoves(u)
  <2>1. UNCHANGED <<path, proc>>
    BY <1>2 DEF UserMoves, Poll, Deadline, Connect
  <2>2. CASE Connect(u)
    <3>1. user' = [user EXCEPT ![u] = IF Listening THEN [stage |-> "up", to |-> path]
                                                   ELSE [stage |-> "failed", to |-> Nobody]]
      BY <2>2 DEF Connect
    <3>2. Listening => proc[path].stage = "serving"
      BY DEF Listening, Stage
    <3>3. user' \in [Users -> Types]
      BY <1>0, <3>1
    <3> QED BY <1>0, <2>1, <3>1, <3>2, <3>3, UsersInv DEF DaemonInv, DaemonTypeOK
  <2>3. CASE Poll(u) \/ Deadline(u)
    <3>1. PICK stage \in {"ready", "failed"} : user' = [user EXCEPT ![u].stage = stage]
      BY <2>3 DEF Poll, Deadline
    <3>2. user[u].to = Nobody
      BY <2>3 DEF Poll, Deadline, DaemonInv, DaemonTypeOK
    <3> QED BY <1>0, <2>1, <3>1, <3>2, UsersInv DEF DaemonInv, DaemonTypeOK
  <2> QED BY <1>2, <2>2, <2>3 DEF UserMoves
<1>3. CASE LeaveDaemon(u)
  <2>1. /\ user' = [user EXCEPT ![u] = [stage |-> "away", to |-> Nobody]] /\ path' = path
        /\ user' \in [Users -> Types]
    BY <1>0, <1>3 DEF LeaveDaemon
  <2>2. CASE user[u].to = Nobody
    <3>1. proc' = proc
      BY <1>3, <2>2 DEF LeaveDaemon, DaemonInv, DaemonTypeOK
    <3> QED BY <2>1, <3>1, UsersInv DEF DaemonInv, DaemonTypeOK
  <2>3. CASE user[u].to # Nobody
    <3> DEFINE d == user[u].to
    <3>1. d \in Daemons /\ proc[d].stage = "serving"
      BY <1>0, <2>3 DEF DaemonInv, DaemonTypeOK
    <3>2. PICK p \in Process : /\ p = [proc[d] EXCEPT !.armed = @ \/ Armed(d, u)]
                               /\ p.stage = "serving" /\ p.rivals = proc[d].rivals
      <4>1. PICK q \in Process, armed \in BOOLEAN : q = proc[d] /\ armed = (proc[d].armed \/ Armed(d, u))
        BY <3>1 DEF Process, DaemonInv, DaemonTypeOK
      <4>2. PICK p : p = [q EXCEPT !.armed = armed]
        OBVIOUS
      <4>3. p \in Process /\ p.stage = q.stage /\ p.rivals = q.rivals
        BY <4>2 DEF Process
      <4> QED BY <3>1, <4>1, <4>2, <4>3
    <3>3. proc' = [proc EXCEPT ![d] = p]
      BY <1>3, <3>1, <3>2 DEF LeaveDaemon
    <3>4. \A v \in Users : user'[v].to # Nobody => user'[v].stage = "up" /\ user[v].to = user'[v].to
      BY <1>0, <2>1 DEF DaemonInv, DaemonTypeOK
    <3>5. Becomes(d, p)
      BY <1>0, <2>1, <3>1, <3>2, <3>3, <3>4 DEF Becomes, Stage
    <3> QED BY <3>1, <3>5, ProcessInv
  <2> QED BY <2>2, <2>3
<1> QED BY <1>1, <1>2, <1>3

LEMMA DaemonNextInv == DaemonInv /\ [DaemonNext]_daemonVars => DaemonInv'
<1>1. ASSUME DaemonInv, NEW d \in Daemons, StartDaemon(d) PROVE DaemonInv'
  BY <1>1, SweptKeeps DEF StartDaemon, DaemonInv, DaemonTypeOK
<1>2. ASSUME DaemonInv, UNCHANGED daemonVars PROVE DaemonInv'
  BY <1>2 DEF daemonVars, DaemonInv, DaemonTypeOK, SocketLostOnlyInARace, Stage
<1> QED BY <1>1, <1>2, ProbeInv, UnlinkInv, BindInv, StopInv, WriteResultInv, ClientsInv
        DEF DaemonNext, DaemonMoves, IdleStop

THEOREM DaemonInductive == DaemonSpec => []DaemonInv
BY DaemonInitInv, DaemonNextInv, PTL DEF DaemonSpec

(* Processes and clients have their types, and a client is connected only  *)
(* to a daemon that serves.                                                *)
THEOREM DaemonTypeCorrect == DaemonSpec => []DaemonTypeOK
<1>1. DaemonInv => DaemonTypeOK
  BY DEF DaemonInv
<1> QED BY <1>1, DaemonInductive, PTL

(* A daemon that serves loses its socket only to one that had probed, was  *)
(* closing or had lost its own when it bound, however many start           *)
(* (server.ts:89-96, 114-123).                                             *)
THEOREM OnlyRacesLoseSockets == DaemonSpec => []SocketLostOnlyInARace
<1>1. DaemonInv => SocketLostOnlyInARace
  BY DEF DaemonInv
<1> QED BY <1>1, DaemonInductive, PTL

-----------------------------------------------------------------------------
(* Client.  A socket that is not greeted is a closed client's, so what is  *)
(* written to one comes after its hello; and a question in the queue that  *)
(* nothing old stands before is open, or noted as closed.                  *)

LinkInv ==
    /\ phase = "opening" => sock = 0
    /\ sock # 0 /\ ~hello => shut
    /\ HelloComesFirst /\ NothingStaysPending

Fresh(q) == q.by = life

QuestionInv ==
    /\ asking.by <= life
    /\ Fresh(asking) => sock # 0 /\ asking.id <= asked
    /\ \A i \in DOMAIN queue : queue[i].by <= life
    /\ \A i \in DOMAIN queue : Fresh(queue[i]) =>
          /\ sock # 0 /\ queue[i].id <= asked
          /\ Fresh(asking) => asking.id # queue[i].id
          /\ \A j \in DOMAIN queue : Fresh(queue[j]) /\ i # j => queue[i].id # queue[j].id
          /\ ~queue[i].mixed =>
                /\ queue[i].id \in open \cup settled
                /\ asking.by \in {0, life}
                /\ \A j \in DOMAIN queue : j < i => Fresh(queue[j])

ClientInv == ClientTypeOK /\ LinkInv /\ QuestionInv

LEMMA ClientInitInv == ClientInit => ClientInv
<1> SUFFICES ASSUME ClientInit PROVE ClientInv
  OBVIOUS
<1> USE ClientAssumption DEF ClientInit
<1>1. ClientTypeOK
  <2>1. MaxLife \in Nat /\ MaxLife >= 1 /\ MaxQuestion \in Nat /\ MaxQuestion >= 1
    OBVIOUS
  <2>2. <<>> \in Seq(Question)
    OBVIOUS
  <2>3. call \in [Requests -> [stage : {"idle", "waiting", "sent", "ok", "failed"}, on : 0..MaxLife]]
    BY <2>1
  <2>4. life \in 1..MaxLife /\ sock \in {0, life} /\ asked \in 0..MaxQuestion
    BY <2>1
  <2>5. asking \in Question \cup {NoQuestion} /\ queue \in Seq(Question)
    BY <2>2
  <2>6. settled \subseteq 1..MaxQuestion /\ open \subseteq 1..MaxQuestion
    OBVIOUS
  <2>7. /\ phase \in {"idle", "opening", "greeting"} /\ hello \in BOOLEAN /\ shut \in BOOLEAN
        /\ phase = "greeting" => sock # 0
    OBVIOUS
  <2> QED BY <2>3, <2>4, <2>5, <2>6, <2>7 DEF ClientTypeOK
<1>2. LinkInv
  BY DEF LinkInv, HelloComesFirst, NothingStaysPending, Where
<1>3. QuestionInv
  BY DEF QuestionInv, Fresh, NoQuestion
<1> QED BY <1>1, <1>2, <1>3 DEF ClientInv

(* What the types say of the questions.                                    *)
LEMMA QuestionTypes ==
    ASSUME ClientTypeOK
    PROVE  /\ asking.by \in Nat /\ asking.id \in Nat
           /\ DOMAIN queue = 1..Len(queue) /\ Len(queue) \in Nat
           /\ \A i \in DOMAIN queue : /\ queue[i] \in Question
                                      /\ queue[i].by \in Nat \ {0} /\ queue[i].id \in Nat
<1>1. \A q \in Question : q.by \in Nat \ {0} /\ q.id \in Nat
  BY ClientAssumption DEF Question
<1>2. NoQuestion.by \in Nat /\ NoQuestion.id \in Nat
  BY DEF NoQuestion
<1>3. queue \in Seq(Question) /\ asking \in Question \cup {NoQuestion}
  BY DEF ClientTypeOK
<1>4. \A i \in DOMAIN queue : queue[i] \in Question
  BY <1>3
<1> QED BY <1>1, <1>2, <1>3, <1>4

Calls == [stage : {"idle", "waiting", "sent", "ok", "failed"}, on : 0..MaxLife]

LEMMA SettleType ==
    ASSUME ClientTypeOK, NEW rs, NEW stage \in {"ok", "failed"}, Settle(rs, stage)
    PROVE  /\ call' \in [Requests -> Calls]
           /\ \A r \in Requests : IF r \in rs THEN call'[r].stage = stage ELSE call'[r] = call[r]
BY ClientAssumption DEF ClientTypeOK, Settle, Calls

(* What happens on the link leaves the questions as they are, unless the   *)
(* socket is another one.                                                  *)
LEMMA LinkStep ==
    ASSUME ClientInv, UNCHANGED <<life, sock, questionVars>>,
           call' \in [Requests -> Calls], phase' \in {"idle", "opening", "greeting"}, hello' \in BOOLEAN, shut' \in BOOLEAN,
           phase' = "greeting" => sock # 0, LinkInv'
    PROVE  ClientInv'
<1>1. ClientTypeOK'
  BY DEF ClientInv, ClientTypeOK, questionVars, Calls
<1>2. QuestionInv'
  BY DEF ClientInv, QuestionInv, questionVars, Fresh
<1> QED BY <1>1, <1>2 DEF ClientInv

LEMMA SendInv == ASSUME ClientInv, NEW r \in Requests, Send(r) PROVE ClientInv'
<1> USE ClientAssumption DEF Send
<1>0. ClientTypeOK /\ LinkInv
  BY DEF ClientInv
<1>1. CASE shut /\ Settle({r}, "failed") /\ UNCHANGED phase
  <2>1. call' \in [Requests -> Calls]
        /\ \A q \in Requests : IF q = r THEN call'[q].stage = "failed" ELSE call'[q] = call[q]
    BY <1>0, <1>1, SettleType
  <2>2. LinkInv'
    BY <1>0, <1>1, <2>1 DEF LinkInv, HelloComesFirst, NothingStaysPending, Where
  <2> QED BY <1>0, <1>1, <2>1, <2>2, LinkStep DEF ClientTypeOK
<1>2. CASE ~shut /\ sock # 0 /\ call' = [call EXCEPT ![r] = [stage |-> "sent", on |-> sock]] /\ UNCHANGED phase
  <2>1. call' \in [Requests -> Calls]
    BY <1>0, <1>2 DEF ClientTypeOK, Calls
  <2>2. LinkInv'
    BY <1>0, <1>2 DEF LinkInv, HelloComesFirst, NothingStaysPending, Where, ClientTypeOK
  <2> QED BY <1>0, <1>2, <2>1, <2>2, LinkStep DEF ClientTypeOK
<1>3. CASE /\ ~shut /\ sock = 0 /\ call' = [call EXCEPT ![r].stage = "waiting"]
           /\ phase' = IF phase = "idle" THEN "opening" ELSE phase
  <2>1. call' \in [Requests -> Calls]
    BY <1>0, <1>3 DEF ClientTypeOK, Calls
  <2>2. LinkInv'
    BY <1>0, <1>3 DEF LinkInv, HelloComesFirst, NothingStaysPending, Where, ClientTypeOK
  <2> QED BY <1>0, <1>3, <2>1, <2>2, LinkStep DEF ClientTypeOK
<1> QED BY <1>1, <1>2, <1>3

LEMMA LinkOnlyInv ==
    ASSUME ClientInv, OpenFails \/ Shut \/ (\E b \in BOOLEAN : Welcomed(b)) \/ \E r \in Requests : Respond(r)
    PROVE  ClientInv'
<1> USE ClientAssumption
<1>0. ClientTypeOK /\ LinkInv
  BY DEF ClientInv
<1>1. CASE OpenFails
  <2>1. call' \in [Requests -> Calls]
        /\ \A q \in Requests : IF call[q].stage = "waiting" THEN call'[q].stage = "failed" ELSE call'[q] = call[q]
    BY <1>0, <1>1, SettleType DEF OpenFails, Where
  <2>2. LinkInv'
    BY <1>0, <1>1, <2>1 DEF OpenFails, LinkInv, HelloComesFirst, NothingStaysPending, Where
  <2> QED BY <1>0, <1>1, <2>1, <2>2, LinkStep DEF OpenFails, ClientTypeOK
<1>2. CASE Shut
  <2>1. call' \in [Requests -> Calls]
    BY <1>0, <1>2 DEF ClientTypeOK, Calls, Shut
  <2>2. LinkInv'
    BY <1>0, <1>2 DEF Shut, LinkInv, HelloComesFirst, NothingStaysPending, Where
  <2> QED BY <1>0, <1>2, <2>1, <2>2, LinkStep DEF Shut, ClientTypeOK
<1>3. ASSUME NEW r \in Requests, Respond(r) PROVE ClientInv'
  <2>1. call' \in [Requests -> Calls]
        /\ \A q \in Requests : IF q = r THEN call'[q].stage = "ok" ELSE call'[q] = call[q]
    BY <1>0, <1>3, SettleType DEF Respond
  <2>2. LinkInv'
    BY <1>0, <1>3, <2>1 DEF Respond, LinkInv, HelloComesFirst, NothingStaysPending, Where
  <2> QED BY <1>0, <1>3, <2>1, <2>2, LinkStep DEF Respond, ClientTypeOK
<1>4. ASSUME NEW b \in BOOLEAN, Welcomed(b) PROVE ClientInv'
  <2>1. /\ call' \in [Requests -> Calls]
        /\ \A q \in Requests : IF call[q].stage # "waiting" THEN call'[q] = call[q]
                               ELSE \/ call'[q].stage = "sent" /\ call'[q].on = sock /\ ~shut
                                    \/ call'[q].stage = "failed"
    BY <1>0, <1>4 DEF Welcomed, ClientTypeOK, Calls
  <2>2. sock # 0 /\ (~shut => hello)
    BY <1>0, <1>4 DEF Welcomed, ClientTypeOK, LinkInv
  <2>3. LinkInv'
    BY <1>0, <1>4, <2>1, <2>2 DEF Welcomed, LinkInv, HelloComesFirst, NothingStaysPending, Where
  <2> QED BY <1>0, <1>4, <2>1, <2>3, LinkStep DEF Welcomed, ClientTypeOK
<1> QED BY <1>1, <1>2, <1>3, <1>4

LEMMA OpenedInv == ASSUME ClientInv, Opened PROVE ClientInv'
<1> USE ClientAssumption DEF Opened
<1>0. ClientTypeOK /\ LinkInv /\ QuestionInv /\ sock = 0 /\ sock' = life /\ life \in Nat \ {0}
  BY DEF ClientInv, LinkInv, ClientTypeOK
<1>1. /\ call' \in [Requests -> Calls]
      /\ \A q \in Requests : \/ shut /\ call[q].stage = "waiting" /\ call'[q].stage = "failed"
                             \/ call'[q] = call[q] /\ (shut => call[q].stage # "waiting")
  <2>1. CASE shut
    BY <1>0, <2>1, SettleType DEF Where
  <2>2. CASE ~shut
    BY <1>0, <2>2 DEF ClientTypeOK, Calls
  <2> QED BY <2>1, <2>2
<1>2. ClientTypeOK'
  BY <1>0, <1>1 DEF ClientTypeOK, Calls, GreetedAtOnce
<1>3. LinkInv'
  BY <1>0, <1>1 DEF LinkInv, HelloComesFirst, NothingStaysPending, Where, GreetedAtOnce
<1>4. QuestionInv'
  <2>1. ~Fresh(asking) /\ \A i \in DOMAIN queue : ~Fresh(queue[i])
    BY <1>0 DEF QuestionInv
  <2> QED BY <1>0, <2>1 DEF QuestionInv, Fresh
<1> QED BY <1>2, <1>3, <1>4 DEF ClientInv

LEMMA SocketLostInv == ASSUME ClientInv, NEW replaced \in BOOLEAN, SocketLost(replaced) PROVE ClientInv'
<1> USE ClientAssumption DEF SocketLost
<1>0. /\ ClientTypeOK /\ LinkInv /\ QuestionInv /\ sock # 0 /\ sock' = 0
      /\ life \in Nat /\ life' = life + 1 /\ life' \in 1..MaxLife
  BY DEF ClientInv, ClientTypeOK
<1>1. /\ call' \in [Requests -> Calls]
      /\ \A q \in Requests : IF q \in Lost THEN call'[q].stage = "failed" ELSE call'[q] = call[q]
  BY <1>0, SettleType
<1>2. ClientTypeOK'
  <2>1. open' \subseteq 1..MaxQuestion /\ asked' \in 0..MaxQuestion
    <3>1. (open' = {} /\ asked' = 0) \/ (open' = open /\ asked' = asked)
      OBVIOUS
    <3>2. 0 \in 0..MaxQuestion /\ asked \in 0..MaxQuestion /\ open \subseteq 1..MaxQuestion
      BY <1>0 DEF ClientTypeOK
    <3> QED BY <3>1, <3>2
  <2>2. phase' \in {"idle", "opening"} /\ hello' \in BOOLEAN
    BY <1>0 DEF ClientTypeOK, PhaseAfterLoss
  <2> QED BY <1>0, <1>1, <2>1, <2>2 DEF ClientTypeOK, Calls
<1>3. LinkInv'
  BY <1>0, <1>1 DEF LinkInv, HelloComesFirst, NothingStaysPending, Where, Lost, PhaseAfterLoss, ClientTypeOK
<1>4. QuestionInv'
  <2>1. asking.by \in Nat /\ asking.by <= life /\ \A i \in DOMAIN queue : queue[i].by \in Nat /\ queue[i].by <= life
    BY <1>0, QuestionTypes DEF QuestionInv
  <2>2. ~Fresh(asking)' /\ \A i \in DOMAIN queue : ~Fresh(queue[i])'
    BY <1>0, <2>1 DEF Fresh
  <2> QED BY <1>0, <2>1, <2>2 DEF QuestionInv, Fresh
<1> QED BY <1>2, <1>3, <1>4 DEF ClientInv

(* A step of the questions: the link stays as it is.                       *)
LEMMA QuestionStep ==
    ASSUME ClientInv, UNCHANGED linkVars, QuestionInv',
           queue' \in Seq(Question), asking' \in Question \cup {NoQuestion},
           settled' \subseteq 1..MaxQuestion, open' \subseteq 1..MaxQuestion, asked' \in 0..MaxQuestion
    PROVE  ClientInv'
<1>1. ClientTypeOK'
  BY DEF ClientInv, ClientTypeOK, linkVars
<1>2. LinkInv'
  BY DEF ClientInv, LinkInv, linkVars, HelloComesFirst, NothingStaysPending, Where
<1> QED BY <1>1, <1>2 DEF ClientInv

LEMMA AskInv == ASSUME ClientInv, Ask PROVE ClientInv'
<1> USE ClientAssumption
<1>0. /\ ClientTypeOK /\ LinkInv /\ QuestionInv /\ UNCHANGED linkVars /\ UNCHANGED <<asking, settled>>
      /\ sock # 0 /\ life \in 1..MaxLife /\ asked \in Nat /\ asked' = asked + 1 /\ asked' \in 1..MaxQuestion
      /\ open' = open \cup {asked + 1}
  BY DEF ClientInv, ClientTypeOK, Ask
<1>1. PICK mixed \in BOOLEAN : mixed = (\E q \in Range(queue) \cup {asking} : q.by \notin {0, life})
  OBVIOUS
<1>2. PICK new : new = [by |-> life, id |-> asked + 1, mixed |-> mixed]
  OBVIOUS
<1>3. new \in Question /\ new.by = life /\ new.id = asked + 1 /\ new.mixed = mixed
  BY <1>0, <1>2 DEF Question
<1>4. queue' = Append(queue, new)
  BY <1>1, <1>2 DEF Ask
<1>5. /\ queue' \in Seq(Question) /\ Len(queue) \in Nat /\ DOMAIN queue = 1..Len(queue)
      /\ DOMAIN queue' = 1..(Len(queue) + 1) /\ queue'[Len(queue) + 1] = new
      /\ \A i \in DOMAIN queue : queue'[i] = queue[i]
  BY <1>0, <1>3, <1>4 DEF ClientTypeOK
<1>6. ~mixed => /\ asking.by \in {0, life}
                /\ \A i \in DOMAIN queue : queue[i].by \in {0, life}
  BY <1>1 DEF Range
<1>7. \A i \in DOMAIN queue : queue[i].by # 0 /\ queue[i].by \in Nat
  BY <1>0, QuestionTypes
<1>8. QuestionInv'
  <2>1. life' = life /\ sock' = sock
    BY <1>0 DEF linkVars
  <2>2. asking'.by <= life' /\ (Fresh(asking)' => sock' # 0 /\ asking'.id <= asked')
    BY <1>0, <2>1, QuestionTypes DEF QuestionInv, Fresh
  <2>3. ASSUME NEW i \in DOMAIN queue'
        PROVE  /\ queue'[i].by <= life'
               /\ Fresh(queue[i])' =>
                  /\ sock' # 0 /\ queue'[i].id <= asked'
                  /\ Fresh(asking)' => asking'.id # queue'[i].id
                  /\ \A j \in DOMAIN queue' : Fresh(queue[j])' /\ i # j => queue'[i].id # queue'[j].id
                  /\ ~queue'[i].mixed =>
                        /\ queue'[i].id \in open' \cup settled'
                        /\ asking'.by \in {0, life'}
                        /\ \A j \in DOMAIN queue' : j < i => Fresh(queue[j])'
    <3>1. \A j \in DOMAIN queue : Fresh(queue[j]) => queue[j].id <= asked /\ queue[j].id \in Nat
      BY <1>0, QuestionTypes DEF QuestionInv
    <3>2. Fresh(asking) => asking.id <= asked /\ asking.id \in Nat
      BY <1>0, QuestionTypes DEF QuestionInv
    <3>3. CASE i = Len(queue) + 1
      <4>1. \A j \in DOMAIN queue' : j # i => j \in DOMAIN queue /\ queue'[j] = queue[j]
        BY <1>5, <3>3
      <4>2. \A j \in DOMAIN queue' : j # i /\ Fresh(queue[j])' => queue'[j].id <= asked /\ queue'[j].id \in Nat
        BY <2>1, <3>1, <4>1 DEF Fresh
      <4>3. ~mixed => \A j \in DOMAIN queue' : j < i => Fresh(queue[j])'
        BY <1>5, <1>6, <1>7, <2>1, <4>1 DEF Fresh
      <4> QED BY <1>0, <1>3, <1>5, <1>6, <2>1, <3>2, <3>3, <4>2, <4>3 DEF Fresh
    <3>4. CASE i \in DOMAIN queue
      <4>1. queue'[i] = queue[i] /\ i < Len(queue) + 1
        BY <1>5, <3>4
      <4>2. \A j \in DOMAIN queue' : (j \in DOMAIN queue /\ queue'[j] = queue[j]) \/ (j = Len(queue) + 1 /\ queue'[j] = new)
        <5> TAKE j \in DOMAIN queue'
        <5>1. j \in DOMAIN queue \/ j = Len(queue) + 1
          BY <1>5
        <5> QED BY <1>5, <5>1
      <4>3. Fresh(queue[i]) => \A j \in DOMAIN queue' : Fresh(queue[j])' /\ i # j => queue[i].id # queue'[j].id
        BY <1>0, <1>3, <2>1, <3>1, <3>4, <4>2 DEF QuestionInv, Fresh
      <4>4. \A j \in DOMAIN queue' : j < i => j \in DOMAIN queue /\ queue'[j] = queue[j]
        BY <1>5, <4>1, <4>2
      <4> QED BY <1>0, <2>1, <3>1, <3>4, <4>1, <4>3, <4>4 DEF QuestionInv, Fresh
    <3> QED BY <1>5, <3>3, <3>4
  <2> QED BY <2>2, <2>3 DEF QuestionInv
<1> QED BY <1>0, <1>5, <1>8, QuestionStep DEF ClientTypeOK

LEMMA ClosedInv == ASSUME ClientInv, NEW id \in 1..MaxQuestion, Closed(id) PROVE ClientInv'
<1>0. ClientTypeOK /\ QuestionInv /\ UNCHANGED linkVars /\ UNCHANGED <<queue, asking, asked>>
  BY DEF ClientInv, Closed
<1>1. settled' = settled \cup {id} /\ open' = open \ {id} /\ life' = life /\ sock' = sock
  BY DEF Closed, Noted, linkVars
<1>2. QuestionInv'
  BY <1>0, <1>1 DEF QuestionInv, Fresh
<1> QED BY <1>0, <1>1, <1>2, QuestionStep DEF ClientTypeOK

LEMMA ReplyInv == ASSUME ClientInv, Reply PROVE ClientInv'
<1>0. /\ ClientTypeOK /\ QuestionInv /\ UNCHANGED linkVars /\ UNCHANGED <<queue, settled, asked>>
      /\ asking' = NoQuestion /\ life' = life /\ sock' = sock /\ life \in Nat \ {0}
      /\ open' \in {open, open \ {asking.id}}
  BY ClientAssumption DEF ClientInv, ClientTypeOK, Reply, linkVars
<1>1. asking'.by = 0
  BY <1>0 DEF NoQuestion
<1>2. QuestionInv'
  <2>1. ~Fresh(asking)' /\ asking'.by <= life'
    BY <1>0, <1>1 DEF Fresh
  <2>2. \A i \in DOMAIN queue : Fresh(queue[i]) /\ ~queue[i].mixed /\ queue[i].id = asking.id => asking.by = 0
    BY <1>0 DEF QuestionInv, Fresh
  <2>3. asking # NoQuestion => asking.by # 0
    BY <1>0, ClientAssumption DEF ClientTypeOK, Question
  <2>4. \A i \in DOMAIN queue : Fresh(queue[i]) /\ ~queue[i].mixed => queue[i].id \in open' \cup settled
    BY <1>0, <2>2, <2>3 DEF QuestionInv, Reply
  <2> QED BY <1>0, <1>1, <2>1, <2>4 DEF QuestionInv, Fresh
<1> QED BY <1>0, <1>2, QuestionStep DEF ClientTypeOK

LEMMA TakeNextInv == ASSUME ClientInv, TakeNext PROVE ClientInv'
<1>0. /\ ClientTypeOK /\ QuestionInv /\ UNCHANGED linkVars /\ UNCHANGED <<open, asked>>
      /\ asking = NoQuestion /\ queue # <<>> /\ queue' = Tail(queue) /\ queue \in Seq(Question)
      /\ life' = life /\ sock' = sock /\ life \in Nat \ {0}
  BY ClientAssumption DEF ClientInv, ClientTypeOK, TakeNext, linkVars
<1> DEFINE h == queue[1]
<1>1. /\ Head(queue) = h /\ h \in Question /\ 1 \in DOMAIN queue /\ queue' \in Seq(Question)
      /\ \A i \in DOMAIN queue' : i + 1 \in DOMAIN queue /\ queue'[i] = queue[i + 1] /\ i \in Nat \ {0}
  BY <1>0
<1>2. asking.by = 0
  BY <1>0 DEF NoQuestion
<1>3. \/ settled' = settled \ {h.id} /\ h.id \in settled /\ asking' = asking
      \/ settled' = settled /\ asking' = h
  BY <1>1 DEF TakeNext
<1>4. ASSUME NEW i \in DOMAIN queue', Fresh(queue[i])'
      PROVE  /\ sock' # 0 /\ queue'[i].id <= asked'
             /\ Fresh(h) => h.id # queue'[i].id
             /\ \A j \in DOMAIN queue' : Fresh(queue[j])' /\ i # j => queue'[i].id # queue'[j].id
             /\ ~queue'[i].mixed => /\ queue'[i].id \in open \cup settled /\ Fresh(h)
                                    /\ \A j \in DOMAIN queue' : j < i => Fresh(queue[j])'
  <2> DEFINE k == i + 1
  <2>1. k \in DOMAIN queue /\ queue'[i] = queue[k] /\ Fresh(queue[k]) /\ k # 1 /\ 1 < k
    BY <1>0, <1>1, <1>4 DEF Fresh
  <2>2. /\ sock # 0 /\ queue[k].id <= asked
        /\ \A j \in DOMAIN queue : Fresh(queue[j]) /\ k # j => queue[k].id # queue[j].id
        /\ ~queue[k].mixed => queue[k].id \in open \cup settled /\ \A j \in DOMAIN queue : j < k => Fresh(queue[j])
    BY <1>0, <2>1 DEF QuestionInv
  <2>3. \A j \in DOMAIN queue' : Fresh(queue[j])' /\ i # j => queue'[i].id # queue'[j].id
    <3> TAKE j \in DOMAIN queue'
    <3>1. j + 1 \in DOMAIN queue /\ queue'[j] = queue[j + 1] /\ (i # j => j + 1 # k)
      BY <1>1
    <3> QED BY <1>0, <2>1, <2>2, <3>1 DEF Fresh
  <2>4. ~queue'[i].mixed => \A j \in DOMAIN queue' : j < i => Fresh(queue[j])'
    <3> SUFFICES ASSUME ~queue'[i].mixed, NEW j \in DOMAIN queue', j < i PROVE Fresh(queue[j])'
      OBVIOUS
    <3>1. j + 1 \in DOMAIN queue /\ queue'[j] = queue[j + 1] /\ j + 1 < k
      BY <1>1
    <3> QED BY <1>0, <2>1, <2>2, <3>1 DEF Fresh
  <2> QED BY <1>0, <1>1, <2>1, <2>2, <2>3, <2>4
<1>5. \A i \in DOMAIN queue' : queue'[i].by <= life
  BY <1>0, <1>1 DEF QuestionInv
<1>6. asking'.by \in {0, h.by} /\ asking'.by <= life /\ (Fresh(asking)' => asking' = h /\ Fresh(h))
  BY <1>0, <1>1, <1>2, <1>3 DEF QuestionInv, Fresh
<1>7. Fresh(h) => sock # 0 /\ h.id <= asked
  BY <1>0, <1>1 DEF QuestionInv
<1>8. QuestionInv'
  <2>1. \A i \in DOMAIN queue' : Fresh(queue[i])' /\ ~queue'[i].mixed =>
            /\ queue'[i].id \in open' \cup settled' /\ asking'.by \in {0, life'}
    BY <1>0, <1>3, <1>4, <1>6 DEF Fresh
  <2>2. \A i \in DOMAIN queue' : Fresh(queue[i])' =>
            /\ sock' # 0 /\ queue'[i].id <= asked'
            /\ Fresh(asking)' => asking'.id # queue'[i].id
            /\ \A j \in DOMAIN queue' : Fresh(queue[j])' /\ i # j => queue'[i].id # queue'[j].id
            /\ ~queue'[i].mixed => \A j \in DOMAIN queue' : j < i => Fresh(queue[j])'
    BY <1>4, <1>6
  <2> QED BY <1>0, <1>5, <1>6, <1>7, <2>1, <2>2 DEF QuestionInv
<1> QED BY <1>0, <1>1, <1>3, <1>8, QuestionStep DEF ClientTypeOK

LEMMA ClientNextInv == ClientInv /\ [ClientNext]_clientVars => ClientInv'
<1>1. ASSUME ClientInv, UNCHANGED clientVars PROVE ClientInv'
  BY <1>1 DEF clientVars, ClientInv, ClientTypeOK, LinkInv, QuestionInv, Fresh, HelloComesFirst,
     NothingStaysPending, Where
<1> QED BY <1>1, SendInv, LinkOnlyInv, OpenedInv, SocketLostInv, AskInv, ClosedInv, ReplyInv, TakeNextInv
        DEF ClientNext

THEOREM ClientInductive == ClientSpec => []ClientInv
BY ClientInitInv, ClientNextInv, PTL DEF ClientSpec

(* The state of the client library has its type for any requests.          *)
THEOREM ClientTypeCorrect == ClientSpec => []ClientTypeOK
<1>1. ClientInv => ClientTypeOK
  BY DEF ClientInv
<1> QED BY <1>1, ClientInductive, PTL

(* A call is on the greeted socket of now or waits for one that is being   *)
(* opened: none is forgotten (index.ts:156-208, 301-308).                  *)
THEOREM CallsAreKept == ClientSpec => []ClientSafe
<1>1. ClientInv => ClientSafe
  BY DEF ClientInv, LinkInv, ClientSafe
<1> QED BY <1>1, ClientInductive, PTL

(* A question is put to the human only while it is open, unless it came by *)
(* a lost socket or was queued behind one that did (index.ts:261-264).     *)
THEOREM ShownAreOpen == ClientSpec => OnlyOpenQuestionsAreShown
<1> DEFINE Shown ==
        asking' # asking /\ asking' # NoQuestion /\ asking'.by = sock /\ ~asking'.mixed => asking'.id \in open
<1>1. ClientInv /\ [ClientNext]_clientVars => [Shown]_clientVars
  <2> SUFFICES ASSUME ClientInv, [ClientNext]_clientVars,
                      asking' # asking, asking' # NoQuestion, asking'.by = sock, ~asking'.mixed
               PROVE  asking'.id \in open
    OBVIOUS
  <2>1. TakeNext
    BY DEF ClientNext, clientVars, Send, Respond, Opened, OpenFails, Shut, Ask, Reply, Welcomed, SocketLost,
       Closed, questionVars
  <2>2. /\ queue \in Seq(Question) /\ queue # <<>> /\ asking' = Head(queue) /\ asking'.id \notin settled
        /\ sock \in {0, life}
    BY <2>1 DEF TakeNext, ClientInv, ClientTypeOK
  <2>3. 1 \in DOMAIN queue /\ asking' = queue[1] /\ queue[1] \in Question
    BY <2>2
  <2>4. queue[1].by # 0
    BY <2>3, ClientAssumption DEF Question
  <2>5. Fresh(queue[1])
    BY <2>2, <2>3, <2>4 DEF Fresh
  <2> QED BY <2>2, <2>3, <2>5 DEF ClientInv, QuestionInv
<1>2. ClientSpec => [][Shown]_clientVars
  BY <1>1, ClientInductive, PTL DEF ClientSpec
<1> QED BY <1>2 DEF OnlyOpenQuestionsAreShown

-----------------------------------------------------------------------------
(* Window.  As long as no client that was lost has been reopened, the one  *)
(* that is up is the one that is held, it speaks for what was chosen or,   *)
(* between the two steps of a pick, for what is being picked; and one that *)
(* is being greeted was told what is chosen now, because nobody can pick   *)
(* while there is none.                                                    *)

NoneAgain == \A i \in Links : ~link[i].again

SpokenFor == IF hand[Picker].stage = "used" THEN hand[Picker].space ELSE chosen

OpeningInv ==
    /\ side = "bridge" => held = 1 /\ opening = 0
    /\ opening # 0 => link[opening].state \in {"ensuring", "greeting"}
    /\ \A i \in Links : /\ link[i].state \in {"ensuring", "greeting"} => i = opening
                        /\ link[i].again => link[i].state \in {"up", "lost"}
    /\ held # 0 => link[held].state \in {"up", "lost"}
    /\ \A u \in Hands :
          /\ hand[u].stage = "waits" => hand[u].on = opening /\ opening # 0
          /\ hand[u].stage \in {"has", "used"} =>
                hand[u].on \in Links /\ link[hand[u].on].state \in {"up", "lost"}
          /\ hand[u].stage = "used" => u = Picker /\ link[hand[u].on].state = "up"

HeldInv ==
    NoneAgain =>
        /\ \A i \in Links : link[i].state = "up" => i = held /\ link[i].speaks = SpokenFor
        /\ \A i \in Links : link[i].state = "greeting" => link[i].told = chosen
        /\ side = "window" /\ held # 0 => link[held].state = "up"
        /\ opening # 0 => held = 0

WindowInv == WindowTypeOK /\ OpeningInv /\ HeldInv

LinkRecs == [state : {"none", "ensuring", "greeting", "up", "lost"},
             told : Spaces, speaks : Spaces, again : BOOLEAN]
HandRecs == [stage : {"idle", "waits", "has", "used"}, on : 0..MaxClients, space : Spaces]

LEMMA NoLinkIs ==
    /\ NoLink \in LinkRecs /\ NoLink.state = "none" /\ ~NoLink.again
    /\ Resting \in HandRecs /\ Resting.stage = "idle"
BY WindowAssumption DEF NoLink, LinkRecs, Resting, HandRecs

LEMMA WindowInitInv == WindowInit => WindowInv
<1> SUFFICES ASSUME WindowInit PROVE WindowInv
  OBVIOUS
<1> USE WindowAssumption DEF WindowInit
<1>1. held \in 0..MaxClients /\ Picker \in Hands /\ (held # 0 => held \in Links) /\ 1 \in Links
  BY DEF Hands, Links
<1>2. PICK up : up = [NoLink EXCEPT !.state = "up"]
  OBVIOUS
<1>3. up \in LinkRecs /\ up.state = "up" /\ ~up.again /\ up.speaks = Home
  BY <1>2 DEF NoLink, LinkRecs
<1>4. \A i \in Links : link[i] = IF i = held THEN up ELSE NoLink
  BY <1>2
<1>5. link \in [Links -> LinkRecs] /\ hand \in [Hands -> HandRecs]
  BY <1>2, <1>3, NoLinkIs
<1>6. WindowTypeOK
  BY <1>1, <1>5 DEF WindowTypeOK, LinkRecs, HandRecs
<1>7. OpeningInv
  BY <1>1, <1>3, <1>4, NoLinkIs DEF OpeningInv
<1>8. HeldInv
  <2>1. SpokenFor = Home
    BY <1>1, NoLinkIs DEF SpokenFor
  <2> QED BY <1>1, <1>3, <1>4, <2>1, NoLinkIs DEF HeldInv
<1> QED BY <1>6, <1>7, <1>8 DEF WindowInv

(* One client changes, to l.                                               *)
LEMMA OneLink ==
    ASSUME WindowTypeOK, NEW i \in Links, NEW l \in LinkRecs, link' = [link EXCEPT ![i] = l]
    PROVE  /\ link' \in [Links -> LinkRecs] /\ link'[i] = l
           /\ \A j \in Links : j # i => link'[j] = link[j]
BY DEF WindowTypeOK, LinkRecs

LEMMA ResumeEffect ==
    ASSUME WindowTypeOK, OpeningInv, NEW i \in Links, link[i].state \in {"ensuring", "greeting"},
           NEW stage \in {"idle", "has"}, Resume(i, stage)
    PROVE  /\ hand' \in [Hands -> HandRecs]
           /\ \A u \in Hands : IF hand[u].stage = "waits"
                               THEN hand'[u].stage = stage /\ (stage = "has" => hand'[u].on = i)
                               ELSE hand'[u] = hand[u]
<1> SUFFICES ASSUME NEW u \in Hands
             PROVE  /\ hand'[u] \in HandRecs
                    /\ IF hand[u].stage = "waits"
                       THEN hand'[u].stage = stage /\ (stage = "has" => hand'[u].on = i)
                       ELSE hand'[u] = hand[u]
  BY DEF Resume
<1>1. PICK h \in HandRecs : h = hand[u]
  BY DEF WindowTypeOK, HandRecs
<1>2. hand[u].stage = "waits" => hand[u].on = i
  BY DEF OpeningInv
<1>3. PICK g : g = [h EXCEPT !.stage = stage]
  OBVIOUS
<1>4. g \in HandRecs /\ g.stage = stage /\ g.on = h.on
  BY <1>3 DEF HandRecs
<1> QED BY <1>1, <1>2, <1>3, <1>4, NoLinkIs DEF Resume

LEMMA ConnectingInv == ASSUME WindowInv, NEW u \in Hands, Connecting(u) PROVE WindowInv'
<1> USE WindowAssumption
<1>0. /\ WindowTypeOK /\ OpeningInv /\ HeldInv /\ Picker \in Hands
      /\ hand \in [Hands -> HandRecs] /\ hand[u].stage = "idle" /\ SpokenFor \in Spaces
  BY DEF WindowInv, WindowTypeOK, Hands, HandRecs, SpokenFor, Connecting
<1>1. CASE held # 0
  <2>1. PICK h : h = [Resting EXCEPT !.stage = "has", !.on = held]
    OBVIOUS
  <2>2. h \in HandRecs /\ h.stage = "has" /\ h.on = held
    BY <1>0, <2>1 DEF Resting, HandRecs, WindowTypeOK
  <2>3. hand' = [hand EXCEPT ![u] = h] /\ UNCHANGED <<side, held, opening, chosen, link>>
    BY <1>1, <2>1 DEF Connecting
  <2>4. hand'[u] = h /\ (\A v \in Hands : v # u => hand'[v] = hand[v]) /\ hand' \in [Hands -> HandRecs]
    BY <1>0, <2>2, <2>3
  <2>5. WindowTypeOK'
    BY <1>0, <2>3, <2>4 DEF WindowTypeOK, HandRecs
  <2>6. OpeningInv'
    BY <1>0, <1>1, <2>2, <2>3, <2>4 DEF OpeningInv, WindowTypeOK, Links
  <2>7. SpokenFor' = SpokenFor
    BY <1>0, <2>2, <2>3, <2>4 DEF SpokenFor
  <2>8. HeldInv'
    BY <1>0, <2>3, <2>7 DEF HeldInv, NoneAgain
  <2> QED BY <2>5, <2>6, <2>8 DEF WindowInv
<1>2. CASE held = 0
  <2>1. PICK k \in Links : k = Joining /\ (opening # 0 => k = opening) /\ (opening = 0 => link[k].state = "none")
    BY <1>0, <1>2 DEF Connecting, Joining, NewClient, Unmade, WindowTypeOK, Links
  <2>2. PICK h : h = [Resting EXCEPT !.stage = "waits", !.on = k]
    OBVIOUS
  <2>3. h \in HandRecs /\ h.stage = "waits" /\ h.on = k
    <3>1. k \in 0..MaxClients
      BY DEF Links
    <3> QED BY <2>2, <3>1 DEF Resting, HandRecs
  <2>4. /\ hand' = [hand EXCEPT ![u] = h] /\ opening' = k /\ UNCHANGED <<side, held, chosen>>
    BY <1>2, <2>1, <2>2 DEF Connecting
  <2>5. hand'[u] = h /\ (\A v \in Hands : v # u => hand'[v] = hand[v]) /\ hand' \in [Hands -> HandRecs]
    BY <1>0, <2>3, <2>4
  <2>6. /\ link' \in [Links -> LinkRecs] /\ \A j \in Links : j # k => link'[j] = link[j]
        /\ link'[k].state \in {"ensuring", "greeting"} /\ ~link'[k].again
        /\ (link[k].state = "greeting" /\ link'[k] = link[k]) \/ link'[k].state = "ensuring"
        /\ ~link[k].again
    <3>1. CASE link[k].state = "none"
      <4>1. PICK q \in LinkRecs : q = link[k]
        BY <1>0 DEF WindowTypeOK, LinkRecs
      <4>2. PICK l : l = [q EXCEPT !.state = "ensuring"]
        OBVIOUS
      <4>4. l \in LinkRecs /\ l.state = "ensuring" /\ l.again = link[k].again
        BY <4>1, <4>2 DEF LinkRecs
      <4>3. link' = [link EXCEPT ![k] = l]
        BY <1>2, <2>1, <3>1, <4>1, <4>2 DEF Connecting
      <4> QED BY <1>0, <2>1, <3>1, <4>3, <4>4, OneLink DEF OpeningInv
    <3>2. CASE link[k].state # "none"
      <4>1. link' = link
        BY <1>2, <2>1, <3>2 DEF Connecting
      <4> QED BY <1>0, <2>1, <3>2, <4>1 DEF OpeningInv, WindowTypeOK, LinkRecs
    <3> QED BY <3>1, <3>2
  <2>7. WindowTypeOK'
    BY <1>0, <2>1, <2>4, <2>5, <2>6 DEF WindowTypeOK, HandRecs, LinkRecs, Links
  <2>8. OpeningInv'
    <3>1. \A v \in Hands : hand[v].stage = "waits" => hand[v].on = k
      BY <1>0, <2>1 DEF OpeningInv
    <3>2. \A v \in Hands : hand[v].stage \in {"has", "used"} => hand[v].on \in Links /\ hand[v].on # k
      BY <1>0, <2>1 DEF OpeningInv
    <3>3. k # 0 /\ side = "window"
      BY <1>0, <1>2, <2>1 DEF OpeningInv, Links, WindowTypeOK
    <3>4. \A j \in Links : link'[j].state \in {"ensuring", "greeting"} => j = k
      BY <1>0, <2>1, <2>6 DEF OpeningInv, Links
    <3>5. \A j \in Links : link'[j].again => link'[j].state \in {"up", "lost"}
      BY <1>0, <2>6 DEF OpeningInv
    <3>6. \A v \in Hands : hand'[v].stage \in {"has", "used"} =>
              /\ hand'[v] = hand[v] /\ link'[hand'[v].on] = link[hand[v].on]
      BY <2>3, <2>5, <2>6, <3>2
    <3>7. \A v \in Hands : hand'[v].stage = "waits" => hand'[v].on = k
      BY <2>3, <2>5, <3>1
    <3> QED BY <1>0, <1>2, <2>4, <2>6, <3>3, <3>4, <3>5, <3>6, <3>7 DEF OpeningInv
  <2>9. HeldInv'
    <3>1. SpokenFor' = SpokenFor
      BY <1>0, <2>3, <2>4, <2>5 DEF SpokenFor
    <3>2. NoneAgain' => NoneAgain
      BY <2>6 DEF NoneAgain
    <3>3. \A j \in Links : /\ link'[j].state = "up" => link'[j] = link[j]
                           /\ link'[j].state = "greeting" => link'[j] = link[j]
      BY <2>6
    <3>4. ASSUME NoneAgain'
          PROVE  \A j \in Links : /\ link'[j].state = "up" => j = held' /\ link'[j].speaks = SpokenFor'
                                  /\ link'[j].state = "greeting" => link'[j].told = chosen'
      BY <1>0, <2>4, <3>1, <3>2, <3>3, <3>4 DEF HeldInv
    <3>5. held' = 0
      BY <1>2, <2>4
    <3> QED BY <3>4, <3>5 DEF HeldInv
  <2> QED BY <2>7, <2>8, <2>9 DEF WindowInv
<1> QED BY <1>1, <1>2

LEMMA EnsuredInv == ASSUME WindowInv, NEW i \in Links, Ensured(i) PROVE WindowInv'
<1> USE WindowAssumption
<1>0. /\ WindowTypeOK /\ OpeningInv /\ HeldInv /\ link[i].state = "ensuring"
      /\ UNCHANGED <<side, held, opening, chosen, hand>> /\ chosen \in Spaces
  BY DEF WindowInv, WindowTypeOK, Ensured
<1>1. PICK q \in LinkRecs : q = link[i]
  BY <1>0 DEF WindowTypeOK, LinkRecs
<1>2. PICK l : l = [q EXCEPT !.state = "greeting", !.told = chosen]
  OBVIOUS
<1>3. l \in LinkRecs /\ l.state = "greeting" /\ l.again = q.again /\ l.told = chosen
  BY <1>0, <1>2 DEF LinkRecs
<1>4. link' = [link EXCEPT ![i] = l]
  BY <1>1, <1>2 DEF Ensured, Announced
<1>5. /\ link' \in [Links -> LinkRecs] /\ link'[i] = l
      /\ \A j \in Links : j # i => link'[j] = link[j]
  BY <1>0, <1>3, <1>4, OneLink
<1>6. WindowTypeOK'
  BY <1>0, <1>5 DEF WindowTypeOK, LinkRecs
<1>7. OpeningInv'
  <2>1. opening = i /\ held \in {0} \cup Links
    BY <1>0 DEF OpeningInv, WindowTypeOK, Links
  <2> QED BY <1>0, <1>1, <1>3, <1>5, <2>1 DEF OpeningInv
<1>8. HeldInv'
  <2>1. SpokenFor' = SpokenFor
    BY <1>0 DEF SpokenFor
  <2>2. NoneAgain' => NoneAgain
    BY <1>0, <1>1, <1>3, <1>5 DEF NoneAgain, OpeningInv
  <2>3. held # 0 => held \in Links
    BY <1>0 DEF WindowTypeOK, Links
  <2> QED BY <1>0, <1>3, <1>5, <2>1, <2>2, <2>3 DEF HeldInv
<1> QED BY <1>6, <1>7, <1>8 DEF WindowInv

LEMMA WelcomeInv == ASSUME WindowInv, NEW i \in Links, Welcome(i) PROVE WindowInv'
<1> USE WindowAssumption
<1>0. /\ WindowTypeOK /\ OpeningInv /\ HeldInv /\ link[i].state = "greeting" /\ opening = i /\ i # 0
      /\ UNCHANGED <<side, chosen>> /\ held' = i /\ opening' = 0 /\ Picker \in Hands
  BY DEF WindowInv, OpeningInv, Welcome, Hands, Links
<1>1. PICK q \in LinkRecs : q = link[i]
  BY <1>0 DEF WindowTypeOK, LinkRecs
<1>2. PICK l : l = [q EXCEPT !.state = "up", !.speaks = q.told]
  OBVIOUS
<1>3. l \in LinkRecs /\ l.state = "up" /\ l.again = q.again /\ l.speaks = q.told
  BY <1>2 DEF LinkRecs
<1>4. link' = [link EXCEPT ![i] = l]
  BY <1>1, <1>2 DEF Welcome
<1>5. /\ link' \in [Links -> LinkRecs] /\ link'[i] = l
      /\ \A j \in Links : j # i => link'[j] = link[j]
  BY <1>0, <1>3, <1>4, OneLink
<1>6. /\ hand' \in [Hands -> HandRecs]
      /\ \A u \in Hands : IF hand[u].stage = "waits" THEN hand'[u].stage = "has" /\ hand'[u].on = i
                          ELSE hand'[u] = hand[u]
  BY <1>0, ResumeEffect DEF Welcome
<1>7. WindowTypeOK'
  BY <1>0, <1>5, <1>6 DEF WindowTypeOK, LinkRecs, HandRecs, Links
<1>8. OpeningInv'
  <2>1. side = "window"
    BY <1>0 DEF OpeningInv, WindowTypeOK
  <2>2. \A j \in Links : j # i => link[j].state \notin {"ensuring", "greeting"}
    BY <1>0 DEF OpeningInv
  <2>3. \A u \in Hands :
           /\ hand'[u].stage # "waits"
           /\ hand'[u].stage \in {"has", "used"} => hand'[u].on \in Links /\ link'[hand'[u].on].state \in {"up", "lost"}
           /\ hand'[u].stage = "used" => u = Picker /\ link'[hand'[u].on].state = "up"
    BY <1>0, <1>3, <1>5, <1>6 DEF OpeningInv
  <2> QED BY <1>0, <1>3, <1>5, <2>1, <2>2, <2>3 DEF OpeningInv
<1>9. HeldInv'
  <2>1. NoneAgain' => NoneAgain
    BY <1>0, <1>1, <1>3, <1>5 DEF NoneAgain, OpeningInv
  <2>2. ASSUME NoneAgain
        PROVE  /\ held = 0 /\ \A j \in Links : link[j].state # "up"
               /\ q.told = chosen /\ hand[Picker].stage # "used"
    <3>1. held = 0 /\ q.told = chosen
      BY <1>0, <1>1, <2>2 DEF HeldInv
    <3>2. \A j \in Links : link[j].state # "up"
      BY <1>0, <2>2, <3>1 DEF HeldInv, Links
    <3> QED BY <1>0, <3>1, <3>2 DEF OpeningInv
  <2>3. NoneAgain => SpokenFor' = chosen
    BY <1>0, <1>6, <2>2 DEF SpokenFor
  <2>4. \A j \in Links : j # i => link'[j].state # "greeting"
    BY <1>0, <1>5 DEF OpeningInv
  <2>5. \A j \in Links : NoneAgain /\ link'[j].state = "up" => j = i
    BY <1>5, <2>2
  <2> QED BY <1>0, <1>3, <1>5, <2>1, <2>2, <2>3, <2>4, <2>5 DEF HeldInv
<1> QED BY <1>7, <1>8, <1>9 DEF WindowInv

LEMMA NotOpenedInv == ASSUME WindowInv, NEW i \in Links, NotOpened(i) PROVE WindowInv'
<1> USE WindowAssumption
<1>0. /\ WindowTypeOK /\ OpeningInv /\ HeldInv /\ link[i].state \in {"ensuring", "greeting"} /\ opening = i /\ i # 0
      /\ UNCHANGED <<side, chosen, held>> /\ opening' = 0 /\ Picker \in Hands /\ link' = [link EXCEPT ![i] = NoLink]
  BY DEF WindowInv, OpeningInv, NotOpened, Hands, Links
<1>1. /\ link' \in [Links -> LinkRecs] /\ link'[i] = NoLink
      /\ \A j \in Links : j # i => link'[j] = link[j]
  BY <1>0, OneLink, NoLinkIs
<1>2. /\ hand' \in [Hands -> HandRecs]
      /\ \A u \in Hands : IF hand[u].stage = "waits" THEN hand'[u].stage = "idle" ELSE hand'[u] = hand[u]
  BY <1>0, ResumeEffect DEF NotOpened
<1>3. WindowTypeOK'
  BY <1>0, <1>1, <1>2 DEF WindowTypeOK, LinkRecs, HandRecs
<1>4. OpeningInv'
  <2>1. side = "window" /\ held # i /\ (held # 0 => held \in Links)
    BY <1>0 DEF OpeningInv, WindowTypeOK, Links
  <2>2. \A u \in Hands :
           /\ hand'[u].stage # "waits"
           /\ hand'[u].stage \in {"has", "used"} => hand'[u].on \in Links /\ link'[hand'[u].on].state \in {"up", "lost"}
           /\ hand'[u].stage = "used" => u = Picker /\ link'[hand'[u].on].state = "up"
    BY <1>0, <1>1, <1>2 DEF OpeningInv
  <2> QED BY <1>0, <1>1, <2>1, <2>2, NoLinkIs DEF OpeningInv
<1>5. HeldInv'
  <2>1. NoneAgain' => NoneAgain
    BY <1>0, <1>1 DEF NoneAgain, OpeningInv
  <2>2. SpokenFor' = SpokenFor
    BY <1>0, <1>2 DEF SpokenFor
  <2>3. NoneAgain => held = 0
    BY <1>0 DEF HeldInv
  <2> QED BY <1>0, <1>1, <2>1, <2>2, <2>3, NoLinkIs DEF HeldInv
<1> QED BY <1>3, <1>4, <1>5 DEF WindowInv

LEMMA LinkLostInv == ASSUME WindowInv, NEW i \in Links, LinkLost(i) PROVE WindowInv'
<1> USE WindowAssumption
<1>0. /\ WindowTypeOK /\ OpeningInv /\ HeldInv /\ link[i].state = "up"
      /\ UNCHANGED <<side, chosen, opening>> /\ held' = (IF side = "window" THEN 0 ELSE held)
  BY DEF WindowInv, LinkLost
<1>1. PICK q \in LinkRecs : q = link[i]
  BY <1>0 DEF WindowTypeOK, LinkRecs
<1>2. PICK l : l = [q EXCEPT !.state = "lost"]
  OBVIOUS
<1>3. l \in LinkRecs /\ l.state = "lost" /\ l.again = q.again
  BY <1>2 DEF LinkRecs
<1>4. link' = [link EXCEPT ![i] = l]
  BY <1>1, <1>2 DEF LinkLost
<1>5. /\ link' \in [Links -> LinkRecs] /\ link'[i] = l
      /\ \A j \in Links : j # i => link'[j] = link[j]
  BY <1>0, <1>3, <1>4, OneLink
<1>6. /\ hand' \in [Hands -> HandRecs]
      /\ \A u \in Hands : \/ hand'[u] = Resting
                          \/ hand'[u] = hand[u] /\ ~(hand[u].stage = "used" /\ hand[u].on = i)
  BY <1>0, NoLinkIs DEF LinkLost, WindowTypeOK, HandRecs
<1>7. WindowTypeOK'
  BY <1>0, <1>5, <1>6 DEF WindowTypeOK, LinkRecs, HandRecs
<1>8. OpeningInv'
  <2>1. \A u \in Hands :
           /\ hand'[u].stage = "waits" => hand'[u].on = opening /\ opening # 0
           /\ hand'[u].stage \in {"has", "used"} => hand'[u].on \in Links /\ link'[hand'[u].on].state \in {"up", "lost"}
           /\ hand'[u].stage = "used" => u = Picker /\ link'[hand'[u].on].state = "up"
    BY <1>0, <1>3, <1>5, <1>6, NoLinkIs DEF OpeningInv
  <2>2. held' # 0 => held' = held /\ held \in Links
    BY <1>0 DEF WindowTypeOK, Links
  <2>3. opening # 0 => opening \in Links /\ opening # i
    BY <1>0 DEF WindowTypeOK, Links, OpeningInv
  <2>4. \A j \in Links : /\ link'[j].state \in {"ensuring", "greeting"} => j = opening
                         /\ link'[j].again => link'[j].state \in {"up", "lost"}
    BY <1>0, <1>1, <1>3, <1>5 DEF OpeningInv
  <2>5. /\ side = "bridge" => held' = 1 /\ opening = 0
        /\ opening # 0 => link'[opening].state \in {"ensuring", "greeting"}
        /\ held' # 0 => link'[held'].state \in {"up", "lost"}
    BY <1>0, <1>3, <1>5, <2>2, <2>3 DEF OpeningInv
  <2> QED BY <1>0, <2>1, <2>4, <2>5 DEF OpeningInv
<1>9. HeldInv'
  <2>1. NoneAgain' => NoneAgain
    BY <1>0, <1>1, <1>3, <1>5 DEF NoneAgain
  <2>2. NoneAgain => \A j \in Links : link'[j].state # "up"
    BY <1>0, <1>3, <1>5 DEF HeldInv
  <2>3. NoneAgain => \A j \in Links : link'[j].state = "greeting" => link'[j].told = chosen
    BY <1>0, <1>3, <1>5 DEF HeldInv
  <2>4. NoneAgain => (opening # 0 => held' = 0)
    BY <1>0 DEF HeldInv
  <2> QED BY <1>0, <2>1, <2>2, <2>3, <2>4 DEF HeldInv
<1> QED BY <1>7, <1>8, <1>9 DEF WindowInv

LEMMA ReopensItselfInv == ASSUME WindowInv, NEW i \in Links, ReopensItself(i) PROVE WindowInv'
<1> USE WindowAssumption
<1>0. /\ WindowTypeOK /\ OpeningInv /\ link[i].state = "lost"
      /\ UNCHANGED <<side, held, opening, chosen, hand>>
  BY DEF WindowInv, ReopensItself
<1>1. PICK q \in LinkRecs : q = link[i]
  BY <1>0 DEF WindowTypeOK, LinkRecs
<1>2. PICK l : l = [q EXCEPT !.state = "up", !.speaks = q.told, !.again = TRUE]
  OBVIOUS
<1>3. l \in LinkRecs /\ l.state = "up" /\ l.again
  BY <1>2 DEF LinkRecs
<1>4. link' = [link EXCEPT ![i] = l]
  BY <1>1, <1>2 DEF ReopensItself
<1>5. /\ link' \in [Links -> LinkRecs] /\ link'[i] = l
      /\ \A j \in Links : j # i => link'[j] = link[j]
  BY <1>0, <1>3, <1>4, OneLink
<1>6. WindowTypeOK'
  BY <1>0, <1>5 DEF WindowTypeOK, LinkRecs
<1>7. OpeningInv'
  <2>1. {held, opening} \subseteq {0} \cup Links
    BY <1>0 DEF WindowTypeOK, Links
  <2>2. \A j \in Links : /\ link'[j].state \in {"ensuring", "greeting"} => link'[j] = link[j]
                         /\ link[j].state \in {"up", "lost"} => link'[j].state \in {"up", "lost"}
                         /\ link[j].state = "up" => link'[j].state = "up"
                         /\ link[j].state \in {"ensuring", "greeting"} => link'[j].state \in {"ensuring", "greeting"}
                         /\ link'[j].again => link[j].again \/ link'[j].state = "up"
    BY <1>0, <1>3, <1>5
  <2>3. \A j \in Links : /\ link'[j].state \in {"ensuring", "greeting"} => j = opening
                         /\ link'[j].again => link'[j].state \in {"up", "lost"}
    BY <1>0, <2>2 DEF OpeningInv
  <2>4. \A u \in Hands : hand[u].stage \in {"has", "used"} => hand[u].on \in Links
    BY <1>0 DEF OpeningInv
  <2>5. \A u \in Hands :
           /\ hand[u].stage = "waits" => hand[u].on = opening /\ opening # 0
           /\ hand[u].stage \in {"has", "used"} => hand[u].on \in Links /\ link'[hand[u].on].state \in {"up", "lost"}
           /\ hand[u].stage = "used" => u = Picker /\ link'[hand[u].on].state = "up"
    BY <1>0, <2>2, <2>4 DEF OpeningInv
  <2>6. /\ opening # 0 => link'[opening].state \in {"ensuring", "greeting"}
        /\ held # 0 => link'[held].state \in {"up", "lost"}
    BY <1>0, <2>1, <2>2 DEF OpeningInv
  <2> QED BY <1>0, <2>3, <2>5, <2>6 DEF OpeningInv
<1>8. HeldInv'
  BY <1>3, <1>5 DEF HeldInv, NoneAgain
<1> QED BY <1>6, <1>7, <1>8 DEF WindowInv

LEMMA LetsGoInv == ASSUME WindowInv, NEW u \in Hands, LetsGo(u) PROVE WindowInv'
<1>0. /\ WindowTypeOK /\ OpeningInv /\ HeldInv /\ hand[u].stage = "has" /\ Picker \in Hands
      /\ UNCHANGED <<side, held, opening, link, chosen>> /\ hand' = [hand EXCEPT ![u] = Resting]
  BY DEF WindowInv, LetsGo, Hands
<1>1. /\ hand' \in [Hands -> HandRecs] /\ hand'[u] = Resting
      /\ \A v \in Hands : v # u => hand'[v] = hand[v]
  BY <1>0, NoLinkIs DEF WindowTypeOK, HandRecs
<1>2. WindowTypeOK'
  BY <1>0, <1>1 DEF WindowTypeOK, HandRecs
<1>3. OpeningInv'
  BY <1>0, <1>1, NoLinkIs DEF OpeningInv
<1>4. SpokenFor' = SpokenFor
  BY <1>0, <1>1, NoLinkIs DEF SpokenFor
<1>5. HeldInv'
  BY <1>0, <1>4 DEF HeldInv, NoneAgain
<1> QED BY <1>2, <1>3, <1>5 DEF WindowInv

LEMMA UsesInv == ASSUME WindowInv, NEW space \in Spaces, Uses(space) PROVE WindowInv'
<1> USE WindowAssumption
<1>0. /\ WindowTypeOK /\ OpeningInv /\ HeldInv /\ hand[Picker].stage = "has" /\ Picker \in Hands
      /\ UNCHANGED <<side, held, opening, chosen>>
  BY DEF WindowInv, Uses, Hands
<1>1. PICK k \in Links : k = hand[Picker].on /\ link[k].state = "up"
  BY <1>0 DEF OpeningInv, Uses
<1>2. PICK q \in LinkRecs : q = link[k]
  BY <1>0 DEF WindowTypeOK, LinkRecs
<1>3. PICK l : l = [q EXCEPT !.speaks = space]
  OBVIOUS
<1>4. l \in LinkRecs /\ l.state = "up" /\ l.again = q.again /\ l.speaks = space
  BY <1>1, <1>2, <1>3 DEF LinkRecs
<1>5. link' = [link EXCEPT ![k] = l]
  BY <1>1, <1>2, <1>3 DEF Uses
<1>6. /\ link' \in [Links -> LinkRecs] /\ link'[k] = l
      /\ \A j \in Links : j # k => link'[j] = link[j]
  BY <1>0, <1>4, <1>5, OneLink
<1>7. PICK h \in HandRecs : h = hand[Picker]
  BY <1>0 DEF WindowTypeOK, HandRecs
<1>8. PICK g : g = [h EXCEPT !.stage = "used", !.space = space]
  OBVIOUS
<1>9. g \in HandRecs /\ g.stage = "used" /\ g.space = space /\ g.on = k
  BY <1>1, <1>7, <1>8 DEF HandRecs
<1>10. hand' = [hand EXCEPT ![Picker] = g]
  BY <1>7, <1>8 DEF Uses
<1>11. /\ hand' \in [Hands -> HandRecs] /\ hand'[Picker] = g
       /\ \A v \in Hands : v # Picker => hand'[v] = hand[v]
  BY <1>0, <1>9, <1>10 DEF WindowTypeOK, HandRecs
<1>12. WindowTypeOK'
  BY <1>0, <1>6, <1>11 DEF WindowTypeOK, LinkRecs, HandRecs
<1>13. \A j \in Links : link'[j].state = link[j].state /\ link'[j].again = link[j].again
                        /\ link'[j].told = link[j].told
  <2>1. l.told = q.told
    BY <1>3 DEF LinkRecs
  <2> QED BY <1>1, <1>2, <1>4, <1>6, <2>1
<1>14. OpeningInv'
  <2>1. {held, opening} \subseteq {0} \cup Links
    BY <1>0 DEF WindowTypeOK, Links
  <2>2. \A v \in Hands :
           /\ hand'[v].stage = "waits" => hand'[v].on = opening /\ opening # 0
           /\ hand'[v].stage \in {"has", "used"} => hand'[v].on \in Links /\ link'[hand'[v].on].state \in {"up", "lost"}
           /\ hand'[v].stage = "used" => v = Picker /\ link'[hand'[v].on].state = "up"
    BY <1>0, <1>1, <1>9, <1>11, <1>13 DEF OpeningInv
  <2> QED BY <1>0, <1>13, <2>1, <2>2 DEF OpeningInv
<1>15. HeldInv'
  <2>1. NoneAgain' => NoneAgain
    BY <1>13 DEF NoneAgain
  <2>2. SpokenFor' = space
    BY <1>9, <1>11 DEF SpokenFor
  <2>3. NoneAgain => held = k /\ \A j \in Links : link'[j].state = "up" => j = k
    BY <1>0, <1>1, <1>13 DEF HeldInv
  <2> QED BY <1>0, <1>1, <1>4, <1>6, <1>13, <2>1, <2>2, <2>3 DEF HeldInv
<1> QED BY <1>12, <1>14, <1>15 DEF WindowInv

LEMMA SettledInv == ASSUME WindowInv, Settled PROVE WindowInv'
<1> USE WindowAssumption
<1>0. /\ WindowTypeOK /\ OpeningInv /\ HeldInv /\ hand[Picker].stage = "used" /\ Picker \in Hands
      /\ UNCHANGED <<side, held, opening, link>> /\ chosen' = hand[Picker].space
      /\ hand' = [hand EXCEPT ![Picker] = Resting]
  BY DEF WindowInv, Settled, Hands
<1>1. /\ hand' \in [Hands -> HandRecs] /\ hand'[Picker] = Resting
      /\ \A v \in Hands : v # Picker => hand'[v] = hand[v]
  BY <1>0, NoLinkIs DEF WindowTypeOK, HandRecs
<1>2. chosen' \in Spaces
  BY <1>0 DEF WindowTypeOK, HandRecs
<1>3. WindowTypeOK'
  BY <1>0, <1>1, <1>2 DEF WindowTypeOK, HandRecs
<1>4. OpeningInv'
  BY <1>0, <1>1, NoLinkIs DEF OpeningInv
<1>5. SpokenFor' = SpokenFor
  BY <1>0, <1>1, NoLinkIs DEF SpokenFor
<1>6. HeldInv'
  <2>1. PICK k \in Links : link[k].state = "up"
    BY <1>0 DEF OpeningInv
  <2>2. NoneAgain => opening = 0
    BY <1>0, <2>1 DEF HeldInv, Links
  <2>3. NoneAgain => \A j \in Links : link[j].state # "greeting"
    BY <1>0, <2>2 DEF OpeningInv, Links
  <2> QED BY <1>0, <1>5, <2>3 DEF HeldInv, NoneAgain
<1> QED BY <1>3, <1>4, <1>6 DEF WindowInv

LEMMA WindowNextInv == WindowInv /\ [WindowNext]_windowVars => WindowInv'
<1>1. ASSUME WindowInv, UNCHANGED windowVars PROVE WindowInv'
  BY <1>1 DEF WindowInv, windowVars, WindowTypeOK, OpeningInv, HeldInv, NoneAgain, SpokenFor
<1> QED BY <1>1, ConnectingInv, LetsGoInv, EnsuredInv, WelcomeInv, NotOpenedInv, LinkLostInv, ReopensItselfInv,
           UsesInv, SettledInv DEF WindowNext, Picked, Told

(* What the window says it speaks for, and what its client was told, stay  *)
(* together (extension/src/daemon.ts:64-97).                               *)
THEOREM WindowInductive == WindowSpec => []WindowInv
BY WindowInitInv, WindowNextInv, PTL DEF WindowSpec

(* The type invariant of Window.                                           *)
THEOREM WindowTypeCorrect == WindowSpec => []WindowTypeOK
<1>1. WindowInv => WindowTypeOK
  BY DEF WindowInv
<1> QED BY <1>1, WindowInductive, PTL

(* However many commands, picks and broken sockets there are, a window has *)
(* one client, and a command runs in the workspace the window shows, unless*)
(* somebody has reopened a client that was lost (daemon.ts:64-97, 200-208).*)
THEOREM OneWindowOneWorkspace == WindowSpec => []WindowSafe
<1>1. ASSUME WindowInv PROVE WindowSafe
  <2>0. WindowTypeOK /\ OpeningInv /\ HeldInv /\ Picker \in Hands
    BY <1>1 DEF WindowInv, Hands
  <2>1. ASSUME NoneAgain, NEW c \in Commands PROVE SpeaksFor(c, chosen)
    <3>1. c \in Hands
      BY DEF Hands
    <3>2. hand[c].stage = "has" => hand[c].on \in Links
      BY <2>0, <3>1 DEF OpeningInv
    <3> QED BY <2>0, <2>1, <3>2 DEF SpeaksFor, HeldInv, SpokenFor
  <2>2. ASSUME NoneAgain PROVE Cardinality(Live) <= 1 /\ (held # 0 /\ side = "window" => Live = {held})
    <3>1. Live \subseteq {held}
      BY <2>0, <2>2 DEF HeldInv, Live
    <3>2. IsFiniteSet({held}) /\ Cardinality({held}) = 1
      BY FS_Singleton
    <3>3. IsFiniteSet(Live) /\ Cardinality(Live) <= 1
      BY <3>1, <3>2, FS_Subset
    <3>4. held # 0 /\ side = "window" => held \in Live
      BY <2>0, <2>2 DEF HeldInv, Live, WindowTypeOK, Links
    <3> QED BY <3>1, <3>3, <3>4
  <2> QED BY <2>1, <2>2 DEF WindowSafe, CommandsRunWhereTheWindowSays, OneClientPerWindow, NoneAgain
<1> QED BY <1>1, WindowInductive, PTL

-----------------------------------------------------------------------------
(* Form.  A submission that was made names a panel there was, and there    *)
(* are no more panels than openings.                                       *)

Documents == [loaded : BOOLEAN, drawn : BOOLEAN, kind : {"none", "first", "other"}, banner : 0..MaxOpens]
Openings == [of : 1..MaxOpens, stage : {"asked", "sent", "failed"}]
Saves == [stage : {"none", "asked", "free", "written", "reloaded", "stored", "over"},
          name : FormNames, password : BOOLEAN, of : 0..MaxOpens]

HostInv ==
    /\ panels \in 0..MaxOpens /\ panel \in {0, panels} /\ ready \in BOOLEAN
    /\ opens \in Seq(Openings) /\ panels <= Len(opens) /\ Len(opens) <= MaxOpens
    /\ saves \in [Submissions -> Saves]
    /\ \A i \in Submissions : saves[i].stage # "none" => saves[i].of # 0

PageInv ==
    /\ queued \in Seq(Messages) /\ page \in Documents
    /\ ready => panel # 0 /\ page.loaded /\ queued = <<>>
    /\ panel = 0 => page = Blank

EntriesInv ==
    /\ entries \in Seq(FormNames) /\ listed \subseteq FormNames /\ stored \subseteq FormNames
    /\ PasswordsHaveEntries

FormInv == HostInv /\ PageInv /\ EntriesInv

LEMMA NaturalBound == MaxOpens \in Nat
BY FormAssumption

LEMMA AppliesToDocuments ==
    ASSUME NEW p \in Documents, NEW m \in Messages
    PROVE  apply(p, m) \in Documents /\ apply(p, m).loaded = p.loaded
<1>1. /\ p = [loaded |-> p.loaded, drawn |-> p.drawn, kind |-> p.kind, banner |-> p.banner]
      /\ p.loaded \in BOOLEAN /\ p.drawn \in BOOLEAN /\ p.kind \in {"none", "first", "other"} /\ p.banner \in 0..MaxOpens
  BY DEF Documents
<1>2. m.type \in {"bootstrap", "failed", "saved"} /\ m.of \in 0..MaxOpens
  BY NaturalBound DEF Messages
<1>3. CASE m.type = "bootstrap"
  <2>1. apply(p, m) = [p EXCEPT !.drawn = TRUE, !.kind = "first"]
    BY <1>3 DEF apply
  <2>2. apply(p, m) = [loaded |-> p.loaded, drawn |-> TRUE, kind |-> "first", banner |-> p.banner]
    BY <1>1, <2>1
  <2> QED BY <1>1, <2>2 DEF Documents
<1>4. CASE m.type = "failed"
  <2>1. apply(p, m) = [p EXCEPT !.banner = m.of]
    BY <1>4 DEF apply
  <2>2. apply(p, m) = [loaded |-> p.loaded, drawn |-> p.drawn, kind |-> p.kind, banner |-> m.of]
    BY <1>1, <2>1
  <2> QED BY <1>1, <1>2, <2>2 DEF Documents
<1>5. CASE m.type = "saved"
  <2>1. apply(p, m) = [p EXCEPT !.banner = 0]
    BY <1>5 DEF apply
  <2>2. apply(p, m) = [loaded |-> p.loaded, drawn |-> p.drawn, kind |-> p.kind, banner |-> 0]
    BY <1>1, <2>1
  <2>3. 0 \in 0..MaxOpens
    BY NaturalBound
  <2> QED BY <1>1, <2>2, <2>3 DEF Documents
<1> QED BY <1>2, <1>3, <1>4, <1>5

(* What waited for a document is applied to it, one message at a time.     *)
LEMMA QueueApplies ==
    ASSUME NEW w \in Documents, NEW q \in Seq(Messages)
    PROVE  FoldLeft(apply, w, q) \in Documents /\ FoldLeft(apply, w, q).loaded = w.loaded
<1> DEFINE n == Len(q)
           V == {p \in Documents : p.loaded = w.loaded}
           step == [i \in 1..n |-> [v \in V |-> apply(v, q[i])]]
           Folds(it) == it = [s \in SUBSET (1..n) |-> IF s = {} THEN w ELSE apply(it[s \ {Max(s)}], q[Max(s)])]
           It == CHOOSE it : Folds(it)
<1>1. n \in Nat /\ DOMAIN q = 1..n /\ \A i \in 1..n : q[i] \in Messages
  OBVIOUS
<1>2. \A i \in 1..n, v \in V : apply(v, q[i]) \in V /\ step[i][v] = apply(v, q[i])
  BY <1>1, AppliesToDocuments
<1>3. IsStep(step, 1..n, V)
  <2> HIDE DEF n, V
  <2> QED BY <1>2 DEF IsStep
<1>4. w \in V
  OBVIOUS
<1>5. PICK h : IsFold(h, V, w, n, step)
  <2> HIDE DEF step, n, V
  <2> QED BY <1>1, <1>3, <1>4, FoldExists
<1>6. Folds(h)
  <2> HIDE DEF V
  <2>1. ASSUME NEW s \in SUBSET (1..n), s # {} PROVE h[s] = apply(h[s \ {Max(s)}], q[Max(s)])
    <3>1. PICK m, r : m = Max(s) /\ r = s \ {Max(s)}
      OBVIOUS
    <3>2. m \in 1..n /\ r \in SUBSET (1..n)
      BY <1>1, <2>1, <3>1, MaxIs
    <3>3. h[s] = step[m][h[r]] /\ h[r] \in V
      BY <1>5, <2>1, <3>1, <3>2 DEF IsFold
    <3> QED BY <1>2, <3>1, <3>2, <3>3
  <2> HIDE DEF n, step
  <2> QED BY <1>5, <2>1 DEF IsFold
<1>7. Folds(It)
  <2> HIDE DEF Folds
  <2> QED BY <1>6, Zenon
<1>8. FoldLeft(apply, w, q) = It[1..n]
  BY <1>1, Zenon DEF FoldLeft, MapThenFoldSet
<1> HIDE DEF It
<1>9. It[{}] = w
  BY <1>7
<1>10. ASSUME NEW k \in Nat, k < n PROVE It[1..(k + 1)] = apply(It[1..k], q[k + 1])
  <2>1. PICK m, s : m = Max(1..(k + 1)) /\ s = 1..(k + 1)
    OBVIOUS
  <2>2. s \in SUBSET (1..n) /\ s # {} /\ m = Max(s) /\ m = k + 1 /\ s \ {m} = 1..k
    BY <1>1, <1>10, <2>1, PrefixIs
  <2>3. It[s] = apply(It[s \ {m}], q[m])
    BY <1>7, <2>2
  <2> QED BY <2>1, <2>2, <2>3
<1>11. PICK g : g = [k \in Nat |-> It[1..k]]
  OBVIOUS
<1>12. \A k \in Nat : k < n => g[k + 1] = apply(g[k], q[k + 1])
  BY <1>10, <1>11
<1>13. g[0] = w /\ g[n] = It[1..n]
  <2>1. 1..0 = {} /\ 0 \in Nat
    OBVIOUS
  <2> QED BY <1>1, <1>9, <1>11, <2>1
<1>14. \A k \in Nat : k <= n => g[k] \in V
  <2> DEFINE T == {k \in Nat : k <= n => g[k] \in V}
  <2>1. 0 \in T
    BY <1>4, <1>13
  <2>2. ASSUME NEW k \in Nat, k \in T PROVE k + 1 \in T
    <3> SUFFICES ASSUME k + 1 <= n PROVE g[k + 1] \in V
      OBVIOUS
    <3>1. g[k] \in V /\ k < n /\ k + 1 \in 1..n
      BY <1>1, <2>2
    <3> QED BY <1>2, <1>12, <3>1
  <2>3. Nat \subseteq T
    <3> HIDE DEF T
    <3> QED BY <2>1, <2>2, Induction
  <2> QED BY <2>3
<1>15. g[n] \in V
  <2>1. n <= n
    BY <1>1
  <2> QED BY <1>1, <1>14, <2>1
<1> QED BY <1>8, <1>13, <1>15

-----------------------------------------------------------------------------
(* A message goes to the document, or waits for it.                        *)
LEMMA PostKeeps ==
    ASSUME HostInv, PageInv, NEW m \in Messages, post(m), UNCHANGED <<panel, ready>>
    PROVE  PageInv'
<1>1. queued \in Seq(Messages) /\ page \in Documents
  BY DEF PageInv
<1>2. CASE ready
  <2>1. page.loaded /\ panel # 0 /\ queued = <<>>
    BY <1>2 DEF PageInv
  <2>2. page' = apply(page, m) /\ queued' = queued
    BY <1>2, <2>1 DEF post
  <2>3. page' \in Documents /\ page'.loaded
    BY <1>1, <2>1, <2>2, AppliesToDocuments
  <2> QED BY <1>1, <2>1, <2>2, <2>3 DEF PageInv
<1>3. CASE ~ready
  <2>1. queued' = Append(queued, m) /\ page' = page
    BY <1>3 DEF post
  <2>2. queued' \in Seq(Messages)
    BY <1>1, <2>1
  <2> QED BY <1>1, <1>3, <2>1, <2>2 DEF PageInv
<1> QED BY <1>2, <1>3 DEF HostInv

LEMMA DisposeKeeps ==
    ASSUME HostInv, PageInv, Dispose
    PROVE  PageInv' /\ panel' = 0 /\ ready' = FALSE
<1>1. panel' = 0 /\ page' = Blank /\ ready' = FALSE /\ queued' = <<>>
  BY DEF Dispose, ReadyAfter
<1>2. Blank \in Documents
  BY NaturalBound DEF Blank, Documents
<1> QED BY <1>1, <1>2 DEF PageInv

(* One submission moves on.                                                *)
LEMMA GoesKeeps ==
    ASSUME HostInv, NEW i \in Submissions, saves[i].stage # "none",
           NEW stage \in {"free", "written", "reloaded", "stored", "over"}, Goes(i, stage)
    PROVE  /\ saves' \in [Submissions -> Saves] /\ saves[i].of \in 1..MaxOpens
           /\ \A j \in Submissions : saves'[j].stage # "none" => saves'[j].of # 0
<1>1. PICK s : s = saves[i]
  OBVIOUS
<1>2. /\ s = [stage |-> s.stage, name |-> s.name, password |-> s.password, of |-> s.of]
      /\ s.name \in FormNames /\ s.password \in BOOLEAN /\ s.of \in 0..MaxOpens /\ s.of # 0
  BY <1>1 DEF HostInv, Saves
<1>3. s.of \in 1..MaxOpens
  BY <1>2, NaturalBound
<1>4. PICK t : t = [s EXCEPT !.stage = stage]
  OBVIOUS
<1>5. t = [stage |-> stage, name |-> s.name, password |-> s.password, of |-> s.of]
  BY <1>2, <1>4
<1>6. t \in Saves /\ t.of # 0
  BY <1>2, <1>5 DEF Saves
<1>7. saves' = [saves EXCEPT ![i] = t]
  BY <1>1, <1>4, Zenon DEF Goes
<1>8. saves \in [Submissions -> Saves] /\ \A j \in Submissions : saves[j].stage # "none" => saves[j].of # 0
  BY DEF HostInv
<1> QED BY <1>1, <1>3, <1>6, <1>7, <1>8

LEMMA RefusedKeeps ==
    ASSUME HostInv, PageInv, NEW i \in Submissions, saves[i].stage # "none", Refused(i), UNCHANGED <<panel, ready, panels, opens>>
    PROVE  HostInv' /\ PageInv'
<1>1. Goes(i, "over") /\ post([type |-> "failed", of |-> saves[i].of])
  BY DEF Refused
<1>2. /\ saves' \in [Submissions -> Saves] /\ saves[i].of \in 1..MaxOpens
      /\ \A j \in Submissions : saves'[j].stage # "none" => saves'[j].of # 0
  BY <1>1, GoesKeeps
<1>3. [type |-> "failed", of |-> saves[i].of] \in Messages
  BY <1>2 DEF Messages
<1>4. PageInv'
  BY <1>1, <1>3, PostKeeps
<1> QED BY <1>2, <1>4 DEF HostInv

LEMMA SaveMovesOK ==
    ASSUME FormInv, NEW i \in Submissions, SaveMoves(i)
    PROVE  FormInv'
<1> USE DEF FormInv
<1>1. CASE Validate(i)
  <2>1. saves[i].stage # "none" /\ UNCHANGED <<panel, panels, ready, opens, entries, listed, stored>>
    BY <1>1 DEF Validate, At
  <2>2. EntriesInv'
    BY <2>1 DEF EntriesInv, PasswordsHaveEntries
  <2>3. CASE Goes(i, "free") /\ UNCHANGED <<queued, page>>
    BY <2>1, <2>2, <2>3, GoesKeeps DEF HostInv, PageInv
  <2>4. CASE Refused(i)
    BY <2>1, <2>2, <2>4, RefusedKeeps
  <2> QED BY <1>1, <2>3, <2>4 DEF Validate
<1>2. CASE AppendEntry(i)
  <2>1. saves[i].stage # "none" /\ UNCHANGED <<panel, panels, ready, opens, listed, stored>>
    BY <1>2 DEF AppendEntry, At
  <2>2. CASE Goes(i, "written") /\ entries' = Append(entries, saves[i].name) /\ UNCHANGED <<queued, page>>
    <3>1. saves[i].name \in FormNames /\ entries \in Seq(FormNames)
      BY DEF HostInv, Saves, EntriesInv
    <3>2. entries' \in Seq(FormNames)
      BY <2>2, <3>1
    <3>3. ToSet(entries) \subseteq ToSet(entries')
      <4>1. \A j \in DOMAIN entries : j \in DOMAIN entries' /\ entries'[j] = entries[j]
        BY <2>2, <3>1
      <4> QED BY <4>1 DEF ToSet
    <3>4. EntriesInv'
      BY <2>1, <3>2, <3>3 DEF EntriesInv, PasswordsHaveEntries
    <3> QED BY <2>1, <2>2, <3>4, GoesKeeps DEF HostInv, PageInv
  <2>3. CASE Refused(i) /\ UNCHANGED entries
    <3>1. EntriesInv'
      BY <2>1, <2>3 DEF EntriesInv, PasswordsHaveEntries
    <3> QED BY <2>1, <2>3, <3>1, RefusedKeeps
  <2> QED BY <1>2, <2>2, <2>3 DEF AppendEntry
<1>3. CASE ReloadEntries(i)
  <2>1. saves[i].stage # "none" /\ UNCHANGED <<panel, panels, ready, opens, entries, stored>>
    BY <1>3 DEF ReloadEntries, At
  <2>2. CASE Goes(i, "reloaded") /\ listed' = ToSet(entries) /\ UNCHANGED <<queued, page>>
    <3>1. EntriesInv'
      <4>1. ToSet(entries) \subseteq FormNames
        BY DEF EntriesInv, ToSet
      <4> QED BY <2>1, <2>2, <4>1 DEF EntriesInv, PasswordsHaveEntries
    <3> QED BY <2>1, <2>2, <3>1, GoesKeeps DEF HostInv, PageInv
  <2>3. CASE Refused(i) /\ UNCHANGED listed
    <3>1. EntriesInv'
      BY <2>1, <2>3 DEF EntriesInv, PasswordsHaveEntries
    <3> QED BY <2>1, <2>3, <3>1, RefusedKeeps
  <2> QED BY <1>3, <2>2, <2>3 DEF ReloadEntries
<1>4. CASE StorePassword(i)
  <2>1. /\ saves[i].stage # "none" /\ Goes(i, "stored")
        /\ UNCHANGED <<panel, panels, ready, queued, page, opens, entries, listed>>
    BY <1>4 DEF StorePassword, At
  <2>2. stored' \subseteq listed
    BY <1>4 DEF StorePassword, EntriesInv, PasswordsHaveEntries
  <2>3. EntriesInv'
    BY <2>1, <2>2 DEF EntriesInv, PasswordsHaveEntries
  <2> QED BY <2>1, <2>3, GoesKeeps DEF HostInv, PageInv
<1>5. CASE SaveOver(i)
  <2>1. saves[i].stage # "none" /\ Goes(i, "over") /\ UNCHANGED <<panels, opens, entries, listed, stored>>
    BY <1>5 DEF SaveOver, At
  <2>2. /\ saves' \in [Submissions -> Saves] /\ saves[i].of \in 1..MaxOpens
        /\ \A j \in Submissions : saves'[j].stage # "none" => saves'[j].of # 0
    BY <2>1, GoesKeeps
  <2>3. EntriesInv'
    BY <2>1 DEF EntriesInv, PasswordsHaveEntries
  <2>4. CASE panel # 0
    <3>1. PageInv' /\ panel' = 0 /\ ready' = FALSE
      BY <1>5, <2>4, DisposeKeeps DEF SaveOver
    <3> QED BY <2>1, <2>2, <2>3, <3>1 DEF HostInv
  <2>5. CASE panel = 0
    <3>1. post([type |-> "saved", of |-> saves[i].of]) /\ UNCHANGED <<panel, ready>>
      BY <1>5, <2>5 DEF SaveOver
    <3>2. [type |-> "saved", of |-> saves[i].of] \in Messages
      BY <2>2 DEF Messages
    <3>3. PageInv'
      BY <3>1, <3>2, PostKeeps
    <3> QED BY <2>1, <2>2, <2>3, <3>1, <3>3 DEF HostInv
  <2> QED BY <2>4, <2>5
<1> QED BY <1>1, <1>2, <1>3, <1>4, <1>5 DEF SaveMoves

(* An opening moves on.                                                    *)
LEMMA AnsweredOK ==
    ASSUME FormInv, NEW k \in DOMAIN opens, Answered(k)
    PROVE  FormInv'
<1> USE DEF FormInv
<1>1. opens \in Seq(Openings) /\ Len(opens) \in Nat /\ DOMAIN opens = 1..Len(opens)
  BY DEF HostInv
<1>2. PICK o \in Openings : o = opens[k]
  BY <1>1
<1>3. o = [of |-> o.of, stage |-> o.stage] /\ o.of \in 1..MaxOpens
  BY DEF Openings
<1>4. PICK stage \in {"sent", "failed"} : opens' = [opens EXCEPT ![k].stage = stage]
  BY DEF Answered, SendBootstrap, BootstrapFails
<1>5. opens' = [opens EXCEPT ![k] = [o EXCEPT !.stage = stage]]
  BY <1>2, <1>4, Zenon
<1>6. [o EXCEPT !.stage = stage] \in Openings
  <2>1. [o EXCEPT !.stage = stage] = [of |-> o.of, stage |-> stage]
    BY <1>3
  <2> QED BY <1>3, <2>1 DEF Openings
<1>7. opens' \in Seq(Openings) /\ Len(opens') = Len(opens)
  BY <1>1, <1>5, <1>6
<1>8. UNCHANGED <<panel, panels, ready, saves, entries, listed, stored>>
  BY DEF Answered, SendBootstrap, BootstrapFails
<1>9. HostInv' /\ EntriesInv'
  BY <1>7, <1>8 DEF HostInv, EntriesInv, PasswordsHaveEntries
<1>10. CASE SendBootstrap(k)
  <2>1. post([type |-> "bootstrap", of |-> opens[k].of]) /\ [type |-> "bootstrap", of |-> opens[k].of] \in Messages
    BY <1>2, <1>3, <1>10 DEF SendBootstrap, Messages
  <2>2. PageInv'
    BY <1>8, <2>1, PostKeeps
  <2> QED BY <1>9, <2>2
<1>11. CASE BootstrapFails(k)
  <2>1. PageInv'
    BY <1>11 DEF BootstrapFails, PageInv
  <2> QED BY <1>9, <2>1
<1> QED BY <1>10, <1>11 DEF Answered

LEMMA OpenFormOK == ASSUME FormInv, OpenForm PROVE FormInv'
<1> USE DEF FormInv
<1>1. PICK l \in Nat : l = Len(opens) /\ l < MaxOpens /\ opens \in Seq(Openings) /\ panels <= l /\ panels \in Nat
  BY NaturalBound DEF OpenForm, HostInv
<1>2. PICK n : n = (IF panel = 0 THEN panels + 1 ELSE panels) /\ panels' = n /\ panel' = n
  BY DEF OpenForm
<1>3. n \in 1..MaxOpens /\ n <= l + 1
  BY <1>1, <1>2, NaturalBound DEF HostInv
<1>4. opens' = Append(opens, [of |-> n, stage |-> "asked"]) /\ [of |-> n, stage |-> "asked"] \in Openings
  BY <1>2, <1>3 DEF OpenForm, Openings
<1>5. opens' \in Seq(Openings) /\ Len(opens') = l + 1
  BY <1>1, <1>4
<1>6. UNCHANGED <<ready, queued, page, saves, entries, listed, stored>>
  BY DEF OpenForm
<1>7. HostInv'
  <2>1. n \in 0..MaxOpens /\ l + 1 <= MaxOpens
    BY <1>1, <1>3, NaturalBound
  <2> QED BY <1>1, <1>2, <1>3, <1>5, <1>6, <2>1 DEF HostInv
<1>8. PageInv'
  BY <1>2, <1>3, <1>6 DEF PageInv
<1>9. EntriesInv'
  BY <1>6 DEF EntriesInv, PasswordsHaveEntries
<1> QED BY <1>7, <1>8, <1>9

LEMMA DocumentReadyOK == ASSUME FormInv, DocumentReady PROVE FormInv'
<1> USE DEF FormInv
<1>1. /\ panel # 0 /\ ready' = TRUE /\ queued' = <<>> /\ page' = FoldLeft(apply, [page EXCEPT !.loaded = TRUE], queued)
      /\ UNCHANGED <<panel, panels, opens, saves, entries, listed, stored>>
  BY DEF DocumentReady
<1>2. PICK w : w = [page EXCEPT !.loaded = TRUE]
  OBVIOUS
<1>3. w \in Documents /\ w.loaded
  <2>1. page \in Documents
    BY DEF PageInv
  <2>2. page = [loaded |-> page.loaded, drawn |-> page.drawn, kind |-> page.kind, banner |-> page.banner]
    BY <2>1 DEF Documents
  <2>3. w = [loaded |-> TRUE, drawn |-> page.drawn, kind |-> page.kind, banner |-> page.banner]
    BY <1>2, <2>2
  <2> QED BY <2>1, <2>3 DEF Documents
<1>4. page' \in Documents /\ page'.loaded
  BY <1>1, <1>2, <1>3, QueueApplies DEF PageInv
<1>5. PageInv' /\ HostInv'
  BY <1>1, <1>4 DEF PageInv, HostInv
<1>6. EntriesInv'
  BY <1>1 DEF EntriesInv, PasswordsHaveEntries
<1> QED BY <1>5, <1>6

LEMMA SubmitOK ==
    ASSUME FormInv, NEW i \in Submissions, NEW n \in FormNames, NEW password \in BOOLEAN, Submit(i, n, password)
    PROVE  FormInv'
<1> USE DEF FormInv
<1>1. panel # 0
  BY DEF Submit, PageInv, Blank
<1>2. panel \in 0..MaxOpens
  BY NaturalBound DEF HostInv
<1>3. PICK s : s = [stage |-> "asked", name |-> n, password |-> password, of |-> panel]
  OBVIOUS
<1>4. s \in Saves /\ s.of # 0
  BY <1>1, <1>2, <1>3 DEF Saves
<1>5. saves' = [saves EXCEPT ![i] = s] /\ UNCHANGED <<panel, panels, ready, queued, page, opens, entries, listed, stored>>
  BY <1>3 DEF Submit
<1>6. HostInv'
  BY <1>4, <1>5 DEF HostInv
<1> QED BY <1>5, <1>6 DEF PageInv, EntriesInv, PasswordsHaveEntries

LEMMA FormOthersOK ==
    ASSUME FormInv, PickKind \/ CloseForm \/ WatcherReads \/ UNCHANGED formVars
    PROVE  FormInv'
<1> USE DEF FormInv
<1>1. CASE PickKind
  <2>1. page' = [page EXCEPT !.kind = "other"] /\ UNCHANGED <<panel, panels, ready, queued, opens, saves, entries, listed, stored>>
    BY <1>1 DEF PickKind
  <2>2. page \in Documents /\ page.drawn
    BY <1>1 DEF PickKind, PageInv
  <2>3. page' = [loaded |-> page.loaded, drawn |-> page.drawn, kind |-> "other", banner |-> page.banner]
    BY <2>1, <2>2 DEF Documents
  <2>4. page' \in Documents /\ page'.loaded = page.loaded
    BY <2>2, <2>3 DEF Documents
  <2>5. panel # 0
    BY <2>2 DEF PageInv, Blank
  <2>6. PageInv'
    BY <2>1, <2>4, <2>5 DEF PageInv
  <2> QED BY <2>1, <2>6 DEF HostInv, EntriesInv, PasswordsHaveEntries
<1>2. CASE CloseForm
  <2>1. PageInv' /\ panel' = 0 /\ ready' = FALSE /\ UNCHANGED <<panels, opens, saves, entries, listed, stored>>
    BY <1>2, DisposeKeeps DEF CloseForm
  <2> QED BY <2>1 DEF HostInv, EntriesInv, PasswordsHaveEntries
<1>3. CASE WatcherReads
  <2>1. listed' = ToSet(entries) /\ UNCHANGED <<panel, panels, ready, queued, page, opens, saves, entries, stored>>
    BY <1>3 DEF WatcherReads
  <2>2. ToSet(entries) \subseteq FormNames
    BY DEF EntriesInv, ToSet
  <2> QED BY <2>1, <2>2 DEF HostInv, PageInv, EntriesInv, PasswordsHaveEntries
<1>4. CASE UNCHANGED formVars
  BY <1>4 DEF formVars, HostInv, PageInv, EntriesInv, PasswordsHaveEntries
<1> QED BY <1>1, <1>2, <1>3, <1>4

LEMMA FormInitInv == FormInit => FormInv
<1> SUFFICES ASSUME FormInit PROVE FormInv
  OBVIOUS
<1>1. Blank \in Documents /\ Unsent \in Saves /\ Unsent.stage = "none"
  BY FormAssumption DEF Blank, Documents, Unsent, Saves
<1>2. HostInv
  <2>1. PICK e \in Seq(Openings) : e = <<>> /\ Len(e) = 0
    <3>1. <<>> \in Seq(Openings) /\ Len(<<>>) = 0
      OBVIOUS
    <3> QED BY <3>1, Zenon
  <2>2. opens = e /\ panel = 0 /\ panels = 0 /\ ready = FALSE /\ 0 \in 0..MaxOpens /\ 0 <= MaxOpens
    BY <2>1, NaturalBound DEF FormInit
  <2>3. saves \in [Submissions -> Saves] /\ \A i \in Submissions : saves[i].stage = "none"
    BY <1>1 DEF FormInit
  <2>4. \A i \in Submissions : saves[i].stage # "none" => saves[i].of # 0
    BY <2>3
  <2>5. Len(opens) = 0 /\ opens \in Seq(Openings)
    BY <2>1, <2>2
  <2>6. /\ panels \in 0..MaxOpens /\ panel \in {0, panels} /\ ready \in BOOLEAN
    BY <2>2
  <2>7. 0 <= 0
    OBVIOUS
  <2>8. panels <= Len(opens) /\ Len(opens) <= MaxOpens
    BY <2>2, <2>5, <2>7, Zenon
  <2> QED BY <2>3, <2>4, <2>5, <2>6, <2>8, Zenon DEF HostInv
<1>3. PageInv
  BY <1>1 DEF FormInit, PageInv
<1>4. EntriesInv
  BY DEF FormInit, EntriesInv, PasswordsHaveEntries
<1> QED BY <1>2, <1>3, <1>4 DEF FormInv

LEMMA FormStepInv == ASSUME FormInv, [FormNext]_formVars PROVE FormInv'
BY OpenFormOK, DocumentReadyOK, SubmitOK, SaveMovesOK, AnsweredOK, FormOthersOK DEF FormNext

LEMMA FormIsSafe == FormInv => FormSafe
<1> SUFFICES ASSUME FormInv PROVE FormSafe
  OBVIOUS
<1>1. opens \in BoundedSeq(Openings, MaxOpens)
  <2>1. PICK l \in Nat : l = Len(opens) /\ l <= MaxOpens
    BY DEF FormInv, HostInv
  <2>2. l \in 0..MaxOpens /\ opens \in [1..l -> Openings]
    BY <2>1, NaturalBound DEF FormInv, HostInv
  <2> QED BY <2>2 DEF BoundedSeq, SeqOf
<1>2. FormTypeOK
  BY <1>1 DEF FormInv, HostInv, PageInv, EntriesInv, Openings, Saves, Documents, FormTypeOK
<1> QED BY <1>2 DEF FormInv, EntriesInv, FormSafe

-----------------------------------------------------------------------------
(* Shell.  The lines that wait tell what the shell will be when each of    *)
(* them is handled: whether it is amid a statement, which connection it is *)
(* on, and how many statements are owed by then.  After the last of them   *)
(* it is what who types sees.                                              *)

Piped == [line : Lines, on : Connections]
Views == [amid : BOOLEAN, on : Connections]

Seen(v, l) == [amid |-> ~IsMeta(l, v.amid) /\ l # "ended", on |-> IF IsSwitch(l, v.amid) THEN l ELSE v.on]

(* What a shell amid so many lines sees, on a connection.                  *)
Here(v, lines, on) == v \in Views /\ (v.amid <=> lines > 0) /\ v.on = on

(* What the shell sees behind each of the lines.                           *)
Foresees(view, lines, now, then) ==
    /\ view \in [0..Len(lines) -> Views] /\ view[0] = now /\ view[Len(lines)] = then
    /\ \A i \in 1..Len(lines) : view[i] = Seen(view[i - 1], lines[i].line) /\ lines[i].on = view[i - 1].on

Due(l) == IF l = "ended" THEN 1 ELSE 0

(* What is owed behind each of the lines.                                  *)
Counts(due, lines, now, then) ==
    /\ due \in [0..Len(lines) -> Nat] /\ due[0] = now /\ due[Len(lines)] = then
    /\ \A i \in 1..Len(lines) : due[i] = due[i - 1] + Due(lines[i].line)
    /\ \A i, j \in 0..Len(lines) : i <= j => due[i] <= due[j] /\ due[j] <= due[i] + (j - i)

Busy == IF executing > 0 THEN 1 ELSE 0

LinesInv ==
    /\ typed \in 0..MaxLines /\ work \in Seq(Piped) /\ pending \in Nat /\ executing \in 0..MaxPerLine
    /\ Len(work) + pending + Busy <= typed
    /\ \E due : Counts(due, work, Busy, owed)

HandlingInv ==
    /\ connection \in Connections /\ meant \in Connections /\ prompting \in BOOLEAN
    /\ quit \in BOOLEAN /\ ended \in BOOLEAN /\ finished \in BOOLEAN
    /\ quit => ended
    /\ finished => ended /\ work = <<>> /\ executing = 0
    /\ executing > 0 => connection = meant /\ pending = 0

SeenInv ==
    /\ typing \in Views
    /\ ~quit => \E now, view : Here(now, pending, connection) /\ Foresees(view, work, now, typing)

ShellInv == LinesInv /\ HandlingInv /\ SeenInv

LEMMA Bounds == MaxLines \in Nat /\ MaxPerLine \in Nat
BY ShellAssumption

LEMMA LinesAre ==
    ASSUME NEW l, NEW amid \in BOOLEAN
    PROVE  /\ l = "ended" => ~IsMeta(l, amid)
           /\ IsQuit(l, amid) => l # "ended" /\ ~amid
           /\ IsSwitch(l, amid) => l # "ended" /\ ~IsQuit(l, amid) /\ l \in Connections /\ ~amid
           /\ IsMeta(l, amid) <=> IsQuit(l, amid) \/ IsSwitch(l, amid)
BY DEF IsQuit, IsSwitch, IsMeta, Connections

LEMMA SeenIsAView == ASSUME NEW v \in Views, NEW l PROVE Seen(v, l) \in Views
<1>1. v.amid \in BOOLEAN /\ v.on \in Connections
  BY DEF Views
<1>2. PICK o \in Connections : o = IF IsSwitch(l, v.amid) THEN l ELSE v.on
  BY <1>1, LinesAre
<1>3. PICK a \in BOOLEAN : a = (~IsMeta(l, v.amid) /\ l # "ended")
  BY <1>1
<1>4. Seen(v, l) = [amid |-> a, on |-> o]
  BY <1>2, <1>3 DEF Seen
<1> QED BY <1>4 DEF Views

(* One more line, and one line less.                                       *)
LEMMA AppendIs ==
    ASSUME NEW q \in Seq(Piped), NEW e \in Piped
    PROVE  /\ Append(q, e) \in Seq(Piped) /\ Len(Append(q, e)) = Len(q) + 1 /\ Len(q) \in Nat
           /\ \A i \in 1..Len(q) : Append(q, e)[i] = q[i]
           /\ Append(q, e)[Len(q) + 1] = e
OBVIOUS

LEMMA TailIs ==
    ASSUME NEW q \in Seq(Piped), q # <<>>
    PROVE  /\ Tail(q) \in Seq(Piped) /\ Len(Tail(q)) = Len(q) - 1 /\ Len(q) \in Nat \ {0}
           /\ \A i \in 1..(Len(q) - 1) : Tail(q)[i] = q[i + 1]
           /\ Head(q) = q[1] /\ Head(q) \in Piped
OBVIOUS

LEMMA ForeseesMore ==
    ASSUME NEW q \in Seq(Piped), NEW e \in Piped, NEW view, NEW now, NEW then \in Views,
           Foresees(view, q, now, then), e.on = then.on
    PROVE  \E w : Foresees(w, Append(q, e), now, Seen(then, e.line))
<1>1. PICK n \in Nat : n = Len(q)
  OBVIOUS
<1>2. PICK p \in Seq(Piped) : p = Append(q, e) /\ Len(p) = n + 1 /\ p[n + 1] = e /\ \A i \in 1..n : p[i] = q[i]
  BY <1>1, AppendIs
<1>3. PICK s \in Views : s = Seen(then, e.line)
  BY SeenIsAView
<1>4. PICK w : w = [i \in 0..(n + 1) |-> IF i <= n THEN view[i] ELSE s]
  OBVIOUS
<1>5. /\ view \in [0..n -> Views] /\ view[0] = now /\ view[n] = then
      /\ \A i \in 1..n : view[i] = Seen(view[i - 1], q[i].line) /\ q[i].on = view[i - 1].on
  BY <1>1 DEF Foresees
<1>6. w \in [0..(n + 1) -> Views]
  BY <1>4, <1>5
<1>7. w[n + 1] = s /\ \A i \in 0..n : w[i] = view[i]
  BY <1>4
<1>8. w[0] = now /\ w[n] = then
  BY <1>5, <1>7
<1>9. ASSUME NEW i \in 1..(n + 1)
      PROVE  w[i] = Seen(w[i - 1], p[i].line) /\ p[i].on = w[i - 1].on
  <2>1. CASE i = n + 1
    <3>1. i - 1 = n
      BY <2>1
    <3> QED BY <1>2, <1>3, <1>7, <1>8, <2>1, <3>1
  <2>2. CASE i \in 1..n
    <3>1. i \in 0..n /\ i - 1 \in 0..n
      BY <2>2
    <3>2. w[i] = view[i] /\ w[i - 1] = view[i - 1] /\ p[i] = q[i]
      BY <1>2, <1>7, <2>2, <3>1
    <3> QED BY <1>5, <2>2, <3>2
  <2> QED BY <2>1, <2>2
<1>10. Foresees(w, p, now, s)
  BY <1>2, <1>6, <1>7, <1>8, <1>9 DEF Foresees
<1> QED BY <1>2, <1>3, <1>10

LEMMA ForeseesLess ==
    ASSUME NEW q \in Seq(Piped), q # <<>>, NEW view, NEW now, NEW then, Foresees(view, q, now, then)
    PROVE  /\ \E w : Foresees(w, Tail(q), Seen(now, q[1].line), then)
           /\ q[1].on = now.on
<1>1. PICK n \in Nat : n + 1 = Len(q)
  <2>1. Len(q) - 1 \in Nat
    BY TailIs
  <2> QED BY <2>1
<1>2. PICK p \in Seq(Piped) : p = Tail(q) /\ Len(p) = n /\ \A i \in 1..n : p[i] = q[i + 1]
  <2>1. Len(q) - 1 = n
    BY <1>1
  <2> QED BY <2>1, TailIs
<1>3. /\ view \in [0..(n + 1) -> Views] /\ view[0] = now /\ view[n + 1] = then
      /\ \A i \in 1..(n + 1) : view[i] = Seen(view[i - 1], q[i].line) /\ q[i].on = view[i - 1].on
  BY <1>1 DEF Foresees
<1>4. PICK w : w = [i \in 0..n |-> view[i + 1]]
  OBVIOUS
<1>5. w \in [0..n -> Views] /\ w[n] = then
  BY <1>3, <1>4
<1>6. 1 \in 1..(n + 1) /\ 1 - 1 = 0 /\ 0 \in 0..n /\ 0 + 1 = 1
  OBVIOUS
<1>7. w[0] = Seen(now, q[1].line) /\ q[1].on = now.on
  <2>1. w[0] = view[1]
    BY <1>4, <1>6
  <2> QED BY <1>3, <1>6, <2>1
<1>8. ASSUME NEW i \in 1..n
      PROVE  w[i] = Seen(w[i - 1], p[i].line) /\ p[i].on = w[i - 1].on
  <2>1. i + 1 \in 1..(n + 1) /\ (i + 1) - 1 = i /\ (i - 1) + 1 = i /\ i \in 0..n /\ i - 1 \in 0..n
    OBVIOUS
  <2>2. w[i] = view[i + 1] /\ w[i - 1] = view[i] /\ p[i] = q[i + 1]
    BY <1>2, <1>4, <2>1
  <2> QED BY <1>3, <2>1, <2>2
<1>9. Foresees(w, p, Seen(now, q[1].line), then)
  BY <1>2, <1>5, <1>7, <1>8 DEF Foresees
<1> QED BY <1>2, <1>7, <1>9

LEMMA DueIs == \A l : Due(l) \in 0..1
BY DEF Due

LEMMA CountsMore ==
    ASSUME NEW q \in Seq(Piped), NEW e \in Piped, NEW due, NEW now, NEW then, Counts(due, q, now, then)
    PROVE  \E c : Counts(c, Append(q, e), now, then + Due(e.line))
<1>1. PICK n \in Nat : n = Len(q)
  OBVIOUS
<1>2. PICK p \in Seq(Piped) : p = Append(q, e) /\ Len(p) = n + 1 /\ p[n + 1] = e /\ \A i \in 1..n : p[i] = q[i]
  BY <1>1, AppendIs
<1>3. PICK d \in 0..1 : d = Due(e.line)
  BY DueIs
<1>4. /\ due \in [0..n -> Nat] /\ due[0] = now /\ due[n] = then
      /\ \A i \in 1..n : due[i] = due[i - 1] + Due(q[i].line)
      /\ \A i, j \in 0..n : i <= j => due[i] <= due[j] /\ due[j] <= due[i] + (j - i)
  BY <1>1 DEF Counts
<1>5. then \in Nat /\ n \in 0..n
  BY <1>4
<1>6. PICK c : c = [i \in 0..(n + 1) |-> IF i <= n THEN due[i] ELSE then + d]
  OBVIOUS
<1>7. c[n + 1] = then + d /\ \A i \in 0..n : c[i] = due[i]
  BY <1>6
<1>8. c \in [0..(n + 1) -> Nat] /\ c[0] = now /\ c[n] = then
  BY <1>4, <1>5, <1>6, <1>7
<1>9. ASSUME NEW i \in 1..(n + 1) PROVE c[i] = c[i - 1] + Due(p[i].line)
  <2>1. CASE i = n + 1
    <3>1. i - 1 = n
      BY <2>1
    <3> QED BY <1>2, <1>3, <1>7, <1>8, <2>1, <3>1
  <2>2. CASE i \in 1..n
    <3>1. i \in 0..n /\ i - 1 \in 0..n
      BY <2>2
    <3>2. c[i] = due[i] /\ c[i - 1] = due[i - 1] /\ p[i] = q[i]
      BY <1>2, <1>7, <2>2, <3>1
    <3> QED BY <1>4, <2>2, <3>2
  <2> QED BY <2>1, <2>2
<1>10. ASSUME NEW i \in 0..(n + 1), NEW j \in 0..(n + 1), i <= j PROVE c[i] <= c[j] /\ c[j] <= c[i] + (j - i)
  <2>1. CASE j \in 0..n
    <3>1. i \in 0..n
      BY <1>10, <2>1
    <3> QED BY <1>4, <1>7, <1>10, <2>1, <3>1
  <2>2. CASE j = n + 1 /\ i \in 0..n
    <3>1. due[i] <= due[n] /\ due[n] <= due[i] + (n - i) /\ i <= n
      BY <1>4, <1>5, <2>2
    <3>2. c[j] = then + d /\ c[i] = due[i] /\ due[n] = then /\ due[i] \in Nat
      BY <1>4, <1>7, <2>2
    <3> QED BY <1>5, <2>2, <3>1, <3>2
  <2>3. CASE j = n + 1 /\ i = n + 1
    <3>1. c[i] \in Nat
      BY <1>8
    <3> QED BY <2>3, <3>1
  <2> QED BY <2>1, <2>2, <2>3
<1>11. Counts(c, p, now, then + d)
  BY <1>2, <1>7, <1>8, <1>9, <1>10 DEF Counts
<1> QED BY <1>2, <1>3, <1>11

(* A line that is handled takes what it owed with it, or keeps it to run.  *)
LEMMA CountsLess ==
    ASSUME NEW q \in Seq(Piped), q # <<>>, NEW due, NEW then, Counts(due, q, 0, then),
           NEW k \in 0..1, k <= Due(q[1].line)
    PROVE  \E c : Counts(c, Tail(q), k, then - (Due(q[1].line) - k))
<1>1. PICK n \in Nat : n + 1 = Len(q)
  <2>1. Len(q) - 1 \in Nat
    BY TailIs
  <2> QED BY <2>1
<1>2. PICK p \in Seq(Piped) : p = Tail(q) /\ Len(p) = n /\ \A i \in 1..n : p[i] = q[i + 1]
  <2>1. Len(q) - 1 = n
    BY <1>1
  <2> QED BY <2>1, TailIs
<1>3. PICK d \in 0..1 : d = Due(q[1].line) - k
  BY DueIs
<1>4. /\ due \in [0..(n + 1) -> Nat] /\ due[0] = 0 /\ due[n + 1] = then
      /\ \A i \in 1..(n + 1) : due[i] = due[i - 1] + Due(q[i].line)
      /\ \A i, j \in 0..(n + 1) : i <= j => due[i] <= due[j] /\ due[j] <= due[i] + (j - i)
  BY <1>1 DEF Counts
<1>5. 1 \in 1..(n + 1) /\ 1 - 1 = 0 /\ 0 \in 0..n /\ 0 + 1 = 1 /\ 1 \in 0..(n + 1)
  OBVIOUS
<1>6. due[1] = d + k
  <2>1. PICK o \in 0..1 : o = Due(q[1].line)
    BY DueIs
  <2>2. due[1] = due[0] + o
    BY <1>4, <1>5, <2>1
  <2>3. due[1] = 0 + o
    BY <1>4, <2>2
  <2>4. o = d + k
    BY <1>3, <2>1
  <2> QED BY <2>3, <2>4
<1>7. PICK c : c = [i \in 0..n |-> due[i + 1] - d]
  OBVIOUS
<1>8. \A i \in 0..n : c[i] = due[i + 1] - d /\ due[i + 1] \in Nat /\ due[i + 1] >= d /\ c[i] \in Nat
  <2> TAKE i \in 0..n
  <2>1. i + 1 \in 0..(n + 1) /\ 1 <= i + 1
    OBVIOUS
  <2>2. due[1] <= due[i + 1] /\ due[i + 1] \in Nat
    BY <1>4, <1>5, <2>1
  <2>3. due[i + 1] >= d
    BY <1>6, <2>1, <2>2
  <2> QED BY <1>7, <2>2, <2>3
<1>9. c \in [0..n -> Nat] /\ c[0] = k /\ c[n] = then - d
  <2>1. c \in [0..n -> Nat]
    BY <1>7, <1>8
  <2>2. c[0] = k
    BY <1>5, <1>6, <1>8
  <2>3. n \in 0..n
    OBVIOUS
  <2> QED BY <1>4, <1>8, <2>1, <2>2, <2>3
<1>10. ASSUME NEW i \in 1..n PROVE c[i] = c[i - 1] + Due(p[i].line)
  <2>1. i + 1 \in 1..(n + 1) /\ (i + 1) - 1 = i /\ (i - 1) + 1 = i /\ i \in 0..n /\ i - 1 \in 0..n
    OBVIOUS
  <2>2. c[i] = due[i + 1] - d /\ c[i - 1] = due[i] - d /\ p[i] = q[i + 1] /\ due[i] \in Nat
    BY <1>2, <1>8, <2>1
  <2>3. due[i + 1] = due[i] + Due(p[i].line) /\ Due(p[i].line) \in 0..1
    BY <1>4, <2>1, <2>2, DueIs
  <2> QED BY <1>3, <2>2, <2>3
<1>11. ASSUME NEW i \in 0..n, NEW j \in 0..n, i <= j PROVE c[i] <= c[j] /\ c[j] <= c[i] + (j - i)
  <2>1. i + 1 \in 0..(n + 1) /\ j + 1 \in 0..(n + 1) /\ i + 1 <= j + 1 /\ (j + 1) - (i + 1) = j - i
    BY <1>11
  <2>2. due[i + 1] <= due[j + 1] /\ due[j + 1] <= due[i + 1] + ((j + 1) - (i + 1))
    BY <1>4, <2>1
  <2>3. c[j] = due[j + 1] - d /\ c[i] = due[i + 1] - d /\ due[i + 1] \in Nat /\ due[j + 1] \in Nat
    BY <1>8
  <2> QED BY <1>3, <1>11, <2>2, <2>3
<1>12. Counts(c, p, k, then - d)
  BY <1>2, <1>9, <1>10, <1>11 DEF Counts
<1> QED BY <1>2, <1>3, <1>12

(* The last statement of a line has run.                                   *)
LEMMA CountsOff ==
    ASSUME NEW q \in Seq(Piped), NEW due, NEW then, Counts(due, q, 1, then)
    PROVE  \E c : Counts(c, q, 0, then - 1)
<1>1. PICK n \in Nat : n = Len(q)
  OBVIOUS
<1>2. /\ due \in [0..n -> Nat] /\ due[0] = 1 /\ due[n] = then
      /\ \A i \in 1..n : due[i] = due[i - 1] + Due(q[i].line)
      /\ \A i, j \in 0..n : i <= j => due[i] <= due[j] /\ due[j] <= due[i] + (j - i)
  BY <1>1 DEF Counts
<1>3. PICK c : c = [i \in 0..n |-> due[i] - 1]
  OBVIOUS
<1>4. 0 \in 0..n /\ n \in 0..n
  OBVIOUS
<1>5. \A i \in 0..n : c[i] = due[i] - 1 /\ due[i] \in Nat /\ c[i] \in Nat
  <2> TAKE i \in 0..n
  <2>1. due[0] <= due[i] /\ due[i] \in Nat /\ due[0] = 1
    BY <1>2, <1>4
  <2>2. c[i] = due[i] - 1
    BY <1>3
  <2> QED BY <2>1, <2>2
<1>6. c \in [0..n -> Nat] /\ c[0] = 0 /\ c[n] = then - 1
  <2>1. c \in [0..n -> Nat]
    BY <1>3, <1>5
  <2>2. c[0] = due[0] - 1 /\ c[n] = due[n] - 1
    BY <1>4, <1>5
  <2>3. due[0] = 1 /\ due[n] = then
    BY <1>2
  <2>4. c[0] = 0 /\ c[n] = then - 1
    BY <2>2, <2>3
  <2> QED BY <2>1, <2>4
<1>7. ASSUME NEW i \in 1..n PROVE c[i] = c[i - 1] + Due(q[i].line)
  <2>1. i \in 0..n /\ i - 1 \in 0..n
    OBVIOUS
  <2>2. due[i] = due[i - 1] + Due(q[i].line) /\ Due(q[i].line) \in 0..1
    BY <1>2, DueIs
  <2> QED BY <1>5, <2>1, <2>2
<1>8. ASSUME NEW i \in 0..n, NEW j \in 0..n, i <= j PROVE c[i] <= c[j] /\ c[j] <= c[i] + (j - i)
  <2>1. due[i] <= due[j] /\ due[j] <= due[i] + (j - i)
    BY <1>2, <1>8
  <2>2. c[j] = due[j] - 1 /\ c[i] = due[i] - 1 /\ due[i] \in Nat /\ due[j] \in Nat
    BY <1>5
  <2> QED BY <1>8, <2>1, <2>2
<1>9. Counts(c, q, 0, then - 1)
  BY <1>1, <1>6, <1>7, <1>8 DEF Counts
<1> QED BY <1>9

(* No more is owed than there are lines.                                   *)
LEMMA CountsAre ==
    ASSUME NEW q \in Seq(Piped), NEW due, NEW now \in 0..1, NEW then, Counts(due, q, now, then)
    PROVE  then \in Nat /\ then <= Len(q) + now /\ (q = <<>> => then = now)
<1>1. PICK n \in Nat : n = Len(q)
  OBVIOUS
<1>2. 0 \in 0..n /\ n \in 0..n /\ 0 <= n
  OBVIOUS
<1>3. due[n] \in Nat /\ due[0] = now /\ due[n] = then /\ due[n] <= due[0] + (n - 0)
  BY <1>1, <1>2 DEF Counts
<1>4. q = <<>> => n = 0
  BY <1>1
<1> QED BY <1>1, <1>3, <1>4

-----------------------------------------------------------------------------
LEMMA ShellInitInv == ShellInit => ShellInv
<1> SUFFICES ASSUME ShellInit PROVE ShellInv
  OBVIOUS
<1>1. PICK e \in Seq(Piped) : e = <<>> /\ Len(e) = 0
  <2>1. <<>> \in Seq(Piped) /\ Len(<<>>) = 0
    OBVIOUS
  <2> QED BY <2>1, Zenon
<1>2. work = e /\ typed = 0 /\ pending = 0 /\ executing = 0 /\ owed = 0 /\ Busy = 0
  BY <1>1 DEF ShellInit, Busy
<1>3. PICK c : c = [i \in 0..0 |-> 0]
  OBVIOUS
<1>4. Counts(c, e, 0, 0)
  <2>1. c[0] = 0 /\ c \in [0..0 -> Nat]
    BY <1>3
  <2>2. \A i \in 0..0 : i = 0
    OBVIOUS
  <2>3. 1..0 = {} /\ 0 <= 0 /\ 0 <= 0 + (0 - 0)
    OBVIOUS
  <2>4. \A i, j \in 0..0 : c[i] <= c[j] /\ c[j] <= c[i] + (j - i)
    BY <2>1, <2>2
  <2> QED BY <1>1, <2>1, <2>3, <2>4 DEF Counts
<1>5. LinesInv
  <2>1. \E due : Counts(due, work, Busy, owed)
    BY <1>2, <1>4
  <2>2. 0 \in 0..MaxLines /\ 0 \in 0..MaxPerLine /\ Len(work) + 0 + 0 <= 0
    BY <1>1, <1>2, Bounds
  <2> QED BY <1>1, <1>2, <2>1, <2>2 DEF LinesInv
<1>6. HandlingInv
  BY <1>2 DEF ShellInit, HandlingInv, Connections
<1>7. PICK v \in Views : v = [amid |-> FALSE, on |-> "one"]
  BY DEF Views, Connections
<1>8. PICK w : w = [i \in 0..0 |-> v]
  OBVIOUS
<1>9. Foresees(w, e, v, v)
  BY <1>1, <1>8 DEF Foresees
<1>10. typing = v /\ Here(v, pending, connection)
  BY <1>2, <1>7 DEF ShellInit, Here
<1>11. SeenInv
  BY <1>1, <1>2, <1>9, <1>10 DEF SeenInv
<1> QED BY <1>5, <1>6, <1>11 DEF ShellInv

LEMMA TypeOK ==
    ASSUME ShellInv, NEW l \in Lines, Type(l)
    PROVE  ShellInv'
<1> USE DEF ShellInv
<1>1. PICK e : e = [line |-> l, on |-> typing.on]
  OBVIOUS
<1>2. e \in Piped /\ e.line = l /\ e.on = typing.on /\ typing \in Views
  BY <1>1 DEF SeenInv, Views, Piped
<1>3. /\ ~ended /\ typed < MaxLines /\ typed' = typed + 1 /\ work' = Append(work, e)
      /\ owed' = IF l = "ended" THEN owed + 1 ELSE owed
      /\ typing' = Seen(typing, l)
      /\ UNCHANGED <<pending, connection, executing, prompting, quit, ended, finished, meant>>
  BY <1>1 DEF Type, Seen
<1>4. work \in Seq(Piped) /\ Len(work) \in Nat
  BY DEF LinesInv
<1>5. PICK n \in Nat : n = Len(work)
  BY <1>4
<1>6. work' \in Seq(Piped) /\ Len(work') = n + 1
  BY <1>2, <1>3, <1>4, <1>5, AppendIs
<1>7. Busy' = Busy /\ Busy \in 0..1
  <2>1. executing' = executing
    BY <1>3
  <2> QED BY <2>1 DEF Busy
<1>8. LinesInv'
  <2>1. PICK due : Counts(due, work, Busy, owed)
    BY DEF LinesInv
  <2>2. \E c : Counts(c, work', Busy, owed + Due(l))
    BY <1>2, <1>3, <1>4, <2>1, CountsMore
  <2>3. owed \in Nat
    BY <1>4, <1>7, <2>1, CountsAre
  <2>4. owed' = owed + Due(l)
    <3>1. owed' = IF l = "ended" THEN owed + 1 ELSE owed
      BY <1>3
    <3> QED BY <2>3, <3>1 DEF Due
  <2>5. \E c : Counts(c, work', Busy', owed')
    BY <1>7, <2>2, <2>4
  <2>6. n + pending + Busy <= typed /\ pending \in Nat /\ typed \in 0..MaxLines
    BY <1>5 DEF LinesInv
  <2>7. typed' \in 0..MaxLines /\ Len(work') + pending' + Busy' <= typed'
    <3>1. typed < MaxLines /\ typed' = typed + 1 /\ pending' = pending
      BY <1>3
    <3> QED BY <1>6, <1>7, <2>6, <3>1, Bounds
  <2>8. pending' \in Nat /\ executing' \in 0..MaxPerLine
    BY <1>3 DEF LinesInv
  <2> QED BY <1>6, <2>5, <2>7, <2>8, Zenon DEF LinesInv
<1>9. HandlingInv'
  BY <1>3 DEF HandlingInv
<1>10. SeenInv'
  <2>1. typing' \in Views
    BY <1>2, <1>3, SeenIsAView
  <2>2. ~quit'
    BY <1>3 DEF HandlingInv
  <2>3. PICK now, view : Here(now, pending, connection) /\ Foresees(view, work, now, typing)
    BY <1>3, <2>2 DEF SeenInv
  <2>4. \E w : Foresees(w, work', now, typing')
    BY <1>2, <1>3, <1>4, <2>3, ForeseesMore
  <2>5. Here(now, pending', connection')
    BY <1>3, <2>3
  <2> QED BY <2>1, <2>4, <2>5 DEF SeenInv
<1> QED BY <1>8, <1>9, <1>10

(* The shell sees what the line makes of what it sees, and goes on.        *)
LEMMA HandledIsSeen ==
    ASSUME ShellInv, HandleLine, ~quit', NEW now, Here(now, pending, connection)
    PROVE  /\ Here(Seen(now, work[1].line), pending', connection')
           /\ pending' \in Nat /\ pending' <= pending + 1 /\ connection' \in Connections
           /\ work[1].line = "ended" => pending' = 0
           /\ ~quit
<1>1. PICK l : l = work[1].line
  OBVIOUS
<1>2. work # <<>> /\ work \in Seq(Piped)
  BY DEF HandleLine, Ready, ShellInv, LinesInv
<1>3. Head(work).line = l
  BY <1>1, <1>2, TailIs
<1>4. pending \in Nat /\ connection \in Connections /\ now \in Views
  BY DEF ShellInv, LinesInv, HandlingInv, Here
<1>5. \/ quit /\ quit' = quit
      \/ quit' = TRUE
      \/ ~quit /\ IsSwitch(l, pending > 0) /\ connection' = l /\ pending' = pending
      \/ ~quit /\ ~IsMeta(l, pending > 0) /\ l # "ended" /\ pending' = pending + 1 /\ connection' = connection
      \/ ~quit /\ l = "ended" /\ pending' = 0 /\ connection' = connection
  BY <1>3, Zenon DEF HandleLine
<1>6. PICK v \in Views : v = Seen(now, l)
  BY <1>4, SeenIsAView
<1>7. /\ v.amid <=> ~IsMeta(l, now.amid) /\ l # "ended"
      /\ v.on = IF IsSwitch(l, now.amid) THEN l ELSE now.on
  BY <1>6 DEF Seen
<1>8. now.amid \in BOOLEAN /\ (now.amid <=> pending > 0) /\ now.on = connection
  BY <1>4 DEF Here, Views
<1>9. CASE ~quit /\ IsSwitch(l, pending > 0) /\ connection' = l /\ pending' = pending
  <2>1. ~(pending > 0) /\ l \in Connections
    BY <1>9 DEF IsSwitch
  <2>2. IsSwitch(l, now.amid) /\ l # "ended" /\ IsMeta(l, now.amid) /\ l \in Connections
    BY <1>8, <2>1, Zenon DEF IsSwitch, IsMeta, Connections
  <2>3. ~v.amid /\ v.on = l
    BY <1>7, <2>2
  <2>8. pending' \in Nat /\ pending' <= pending + 1 /\ connection' \in Connections /\ (l = "ended" => pending' = 0) /\ ~quit
    BY <1>4, <1>9, <2>1, <2>2, <2>3
  <2>9. v.amid <=> pending' > 0
    BY <1>4, <2>3, <2>1, <1>9
  <2>10. v.on = connection'
    BY <2>3, <2>1, <1>9
  <2>11. Here(v, pending', connection')
    BY <2>9, <2>10, Zenon DEF Here
  <2> QED BY <1>1, <1>6, <2>8, <2>11, Zenon
<1>10. CASE ~quit /\ ~IsMeta(l, pending > 0) /\ l # "ended" /\ pending' = pending + 1 /\ connection' = connection
  <2>1. ~IsMeta(l, now.amid) /\ ~IsSwitch(l, now.amid)
    BY <1>8, <1>10 DEF IsSwitch, IsQuit, IsMeta
  <2>2. v.amid /\ v.on = connection
    BY <1>7, <1>8, <1>10, <2>1
  <2>8. pending' \in Nat /\ pending' <= pending + 1 /\ connection' \in Connections /\ (l = "ended" => pending' = 0) /\ ~quit
    BY <1>4, <1>10, <2>2
  <2>9. v.amid <=> pending' > 0
    BY <1>4, <2>2, <1>10
  <2>10. v.on = connection'
    BY <2>2, <1>10
  <2>11. Here(v, pending', connection')
    BY <2>9, <2>10, Zenon DEF Here
  <2> QED BY <1>1, <1>6, <2>8, <2>11, Zenon
<1>11. CASE ~quit /\ l = "ended" /\ pending' = 0 /\ connection' = connection
  <2>1. ~IsSwitch(l, now.amid)
    BY <1>11, Zenon DEF IsSwitch, Connections
  <2>2. ~v.amid /\ v.on = connection
    BY <1>7, <1>8, <1>11, <2>1
  <2>8. pending' \in Nat /\ pending' <= pending + 1 /\ connection' \in Connections /\ (l = "ended" => pending' = 0) /\ ~quit
    BY <1>4, <1>11, <2>2
  <2>9. v.amid <=> pending' > 0
    BY <1>4, <2>2, <1>11
  <2>10. v.on = connection'
    BY <2>2, <1>11
  <2>11. Here(v, pending', connection')
    BY <2>9, <2>10, Zenon DEF Here
  <2> QED BY <1>1, <1>6, <2>8, <2>11, Zenon
<1> QED BY <1>5, <1>9, <1>10, <1>11

LEMMA HandleLineOK == ASSUME ShellInv, HandleLine PROVE ShellInv'
<1> USE DEF ShellInv
<1>1. /\ work \in Seq(Piped) /\ work # <<>> /\ executing = 0 /\ ~finished /\ work' = Tail(work) /\ meant' = Head(work).on
      /\ UNCHANGED <<typed, prompting, finished, typing>>
  BY DEF HandleLine, Ready, LinesInv
<1>2. PICK l : l = work[1].line
  OBVIOUS
<1>3. PICK n \in Nat : n + 1 = Len(work)
  <2>1. Len(work) - 1 \in Nat
    BY <1>1, TailIs
  <2> QED BY <2>1
<1>4. Head(work).line = l /\ Head(work).on = work[1].on /\ work[1].on \in Connections
  BY <1>1, <1>2, TailIs DEF Piped
<1>5. work' \in Seq(Piped) /\ Len(work') = n
  <2>1. Len(work) - 1 = n
    BY <1>3
  <2> QED BY <1>1, <2>1, TailIs
<1>6. owed' = IF l = "ended" /\ executing' = 0 THEN owed - 1 ELSE owed
  BY <1>4, Zenon DEF HandleLine
<1>7. /\ executing' \in 0..MaxPerLine /\ (executing' > 0 => ~quit /\ l = "ended" /\ quit' = quit)
      /\ pending' \in Nat /\ pending' <= pending + 1 /\ (executing' > 0 => pending' = 0)
      /\ quit' \in BOOLEAN /\ ended' \in BOOLEAN /\ (quit' => ended')
      /\ connection' \in Connections
  <2>1. /\ pending \in Nat /\ quit \in BOOLEAN /\ ended \in BOOLEAN /\ (quit => ended) /\ connection \in Connections
        /\ 0 \in 0..MaxPerLine /\ pending <= pending + 1
    BY Bounds DEF LinesInv, HandlingInv
  <2>2. CASE quit /\ UNCHANGED <<pending, connection, executing, quit, ended>>
    BY <1>1, <2>1, <2>2
  <2>3. CASE ~quit /\ quit' = TRUE /\ ended' = TRUE /\ UNCHANGED <<pending, connection, executing>>
    BY <1>1, <2>1, <2>3
  <2>4. CASE ~quit /\ IsSwitch(l, pending > 0) /\ connection' = l /\ UNCHANGED <<pending, executing, quit, ended>>
    <3>1. l \in Connections
      BY <2>4 DEF IsSwitch
    <3> QED BY <1>1, <2>1, <2>4, <3>1
  <2>5. CASE ~quit /\ pending' = pending + 1 /\ UNCHANGED <<connection, executing, quit, ended>>
    BY <1>1, <2>1, <2>5
  <2>6. CASE ~quit /\ l = "ended" /\ pending' = 0 /\ executing' \in 0..MaxPerLine /\ UNCHANGED <<connection, quit, ended>>
    <3>1. 0 \in Nat /\ 0 <= pending + 1
      BY <2>1
    <3> QED BY <2>1, <2>6, <3>1
  <2> QED BY <1>4, <2>2, <2>3, <2>4, <2>5, <2>6, Zenon DEF HandleLine
<1>8. Busy = 0
  BY <1>1 DEF Busy
<1>9. Busy' \in 0..1 /\ Busy' <= Due(l) /\ owed' = owed - (Due(l) - Busy') /\ (executing' > 0 <=> Busy' = 1)
  <2>1. owed \in Nat
    BY <1>1, <1>8, CountsAre DEF LinesInv
  <2>2. executing' \in Nat
    BY <1>7, Bounds
  <2>3. CASE executing' > 0
    <3>1. Busy' = 1 /\ Due(l) = 1 /\ owed' = owed
      BY <1>6, <1>7, <2>3 DEF Busy, Due
    <3> QED BY <2>1, <2>3, <3>1
  <2>4. CASE executing' = 0
    <3>1. Busy' = 0 /\ ~(executing' > 0)
      BY <2>4 DEF Busy
    <3>2. owed' = owed - Due(l)
      BY <1>6, <2>1, <2>4 DEF Due
    <3>3. Due(l) \in 0..1
      BY DueIs
    <3> QED BY <2>1, <3>1, <3>2, <3>3
  <2> QED BY <2>2, <2>3, <2>4
<1>10. LinesInv'
  <2>1. PICK due : Counts(due, work, 0, owed)
    BY <1>8 DEF LinesInv
  <2>2. PICK k \in 0..1 : k = Busy'
    BY <1>9
  <2>3. \E c : Counts(c, work', k, owed - (Due(l) - k))
    BY <1>1, <1>2, <1>9, <2>1, <2>2, CountsLess
  <2>4. \E c : Counts(c, work', Busy', owed')
    BY <1>9, <2>2, <2>3
  <2>5. (n + 1) + pending + 0 <= typed /\ pending \in Nat /\ typed \in 0..MaxLines
    BY <1>3, <1>8 DEF LinesInv
  <2>6. Len(work') + pending' + Busy' <= typed'
    <3>1. typed' = typed /\ typed \in Nat
      BY <1>1, <2>5, Bounds
    <3>2. k = 1 => pending' = 0
      BY <1>7, <1>9, <2>2
    <3>3. PICK p \in Nat : p = pending' /\ p <= pending + 1
      BY <1>7
    <3>4. n + p + k <= typed
      <4>1. CASE k = 1
        BY <2>5, <3>1, <3>2, <3>3, <4>1
      <4>2. CASE k = 0
        <5>1. n + 1 + pending <= typed /\ p <= pending + 1 /\ pending \in Nat /\ typed \in Nat /\ p \in Nat
          BY <2>5, <3>1, <3>3
        <5> QED BY <4>2, <5>1
      <4> QED BY <2>2, <4>1, <4>2
    <3> QED BY <1>5, <2>2, <3>1, <3>3, <3>4
  <2>7. typed' \in 0..MaxLines
    BY <1>1, <2>5
  <2> QED BY <1>5, <1>7, <2>4, <2>6, <2>7, Zenon DEF LinesInv
<1>11. ASSUME ~quit'
       PROVE  /\ ~quit /\ connection = work[1].on /\ (l = "ended" => connection' = connection)
              /\ \E now, view : Here(now, pending', connection') /\ Foresees(view, work', now, typing')
  <2>1. ~quit
    BY <1>11 DEF HandleLine
  <2>2. PICK now, view : Here(now, pending, connection) /\ Foresees(view, work, now, typing)
    BY <2>1 DEF SeenInv
  <2>3. Here(Seen(now, l), pending', connection')
    BY <1>2, <1>11, <2>2, HandledIsSeen
  <2>4. (\E w : Foresees(w, work', Seen(now, l), typing)) /\ work[1].on = now.on
    BY <1>1, <1>2, <2>2, ForeseesLess
  <2>5. now.on = connection
    BY <2>2 DEF Here
  <2>6. l = "ended" => connection' = connection
    BY <1>4, <1>11, Zenon DEF HandleLine, IsSwitch, IsMeta, IsQuit, Connections
  <2> QED BY <1>1, <2>1, <2>3, <2>4, <2>5, <2>6
<1>12. HandlingInv'
  <2>1. meant' \in Connections /\ meant' = work[1].on
    BY <1>1, <1>4
  <2>2. executing' > 0 => connection' = meant' /\ pending' = 0
    <3> SUFFICES ASSUME executing' > 0 PROVE connection' = meant' /\ pending' = 0
      OBVIOUS
    <3>1. ~quit' /\ l = "ended" /\ pending' = 0
      BY <1>7
    <3> QED BY <1>11, <2>1, <3>1
  <2>3. ~finished' /\ finished' \in BOOLEAN /\ prompting' \in BOOLEAN
    BY <1>1 DEF HandlingInv
  <2> QED BY <1>7, <2>1, <2>2, <2>3, Zenon DEF HandlingInv
<1>13. SeenInv'
  BY <1>1, <1>11 DEF SeenInv
<1> QED BY <1>10, <1>12, <1>13

LEMMA RanOK == ASSUME ShellInv, Ran PROVE ShellInv'
<1> USE DEF ShellInv
<1>1. /\ executing > 0 /\ executing' = executing - 1 /\ owed' = IF executing = 1 THEN owed - 1 ELSE owed
      /\ UNCHANGED <<typed, work, pending, connection, prompting, quit, ended, finished, typing, meant>>
  BY DEF Ran
<1>2. executing \in Nat /\ executing' \in 0..MaxPerLine /\ Busy = 1
  BY <1>1, Bounds DEF LinesInv, Busy
<1>3. Len(work) \in Nat /\ typed \in Nat /\ pending \in Nat /\ Len(work) + pending + 1 <= typed
  BY <1>2, Bounds DEF LinesInv
<1>4. PICK due : Counts(due, work, 1, owed)
  BY <1>2 DEF LinesInv
<1>5. CASE executing = 1
  <2>1. Busy' = 0 /\ owed' = owed - 1
    BY <1>1, <1>5 DEF Busy
  <2>2. \E c : Counts(c, work, 0, owed - 1)
    BY <1>4, CountsOff DEF LinesInv
  <2>3. \E c : Counts(c, work', Busy', owed')
    BY <1>1, <2>1, <2>2
  <2>4. Len(work') + pending' + Busy' <= typed'
    BY <1>1, <1>3, <2>1
  <2>5. LinesInv'
    BY <1>1, <1>2, <2>3, <2>4 DEF LinesInv
  <2> QED BY <1>1, <1>2, <2>5 DEF HandlingInv, SeenInv
<1>6. CASE executing # 1
  <2>1. Busy' = 1 /\ owed' = owed /\ executing' > 0
    BY <1>1, <1>2, <1>6 DEF Busy
  <2>2. \E c : Counts(c, work', Busy', owed')
    BY <1>1, <1>4, <2>1
  <2>3. Len(work') + pending' + Busy' <= typed'
    BY <1>1, <1>3, <2>1
  <2>4. LinesInv'
    BY <1>1, <1>2, <2>2, <2>3 DEF LinesInv
  <2> QED BY <1>1, <1>2, <2>4 DEF HandlingInv, SeenInv
<1> QED BY <1>5, <1>6

LEMMA ShellOthersOK ==
    ASSUME ShellInv, AskPassword \/ AnswerPassword \/ InputEnds \/ Finish \/ UNCHANGED shellVars
    PROVE  ShellInv'
<1> USE DEF ShellInv
<1>1. UNCHANGED <<work, pending, connection, executing, quit, owed, typing, meant>>
  BY DEF AskPassword, AnswerPassword, InputEnds, Finish, shellVars
<1>2. typed' = typed \/ (typed < MaxLines /\ typed' = typed + 1)
  BY DEF AskPassword, AnswerPassword, InputEnds, Finish, shellVars
<1>3. Busy' = Busy /\ Busy \in 0..1
  <2>1. executing' = executing
    BY <1>1
  <2> QED BY <2>1 DEF Busy
<1>4. Len(work) \in Nat /\ typed \in 0..MaxLines /\ pending \in Nat /\ Len(work) + pending + Busy <= typed
  BY DEF LinesInv
<1>5. typed' \in 0..MaxLines /\ Len(work) + pending + Busy <= typed'
  BY <1>2, <1>3, <1>4, Bounds
<1>6. LinesInv'
  BY <1>1, <1>3, <1>5 DEF LinesInv
<1>7. SeenInv'
  BY <1>1 DEF SeenInv
<1>8. HandlingInv'
  <2>1. CASE AskPassword \/ AnswerPassword
    <3>1. prompting' \in BOOLEAN /\ UNCHANGED <<ended, finished>>
      BY <2>1 DEF AskPassword, AnswerPassword
    <3> QED BY <1>1, <3>1 DEF HandlingInv
  <2>2. CASE InputEnds
    BY <1>1, <2>2 DEF HandlingInv, InputEnds
  <2>3. CASE Finish
    BY <1>1, <2>3 DEF HandlingInv, Finish, Drained
  <2>4. CASE UNCHANGED shellVars
    BY <2>4 DEF HandlingInv, shellVars
  <2> QED BY <2>1, <2>2, <2>3, <2>4
<1> QED BY <1>6, <1>7, <1>8

LEMMA ShellStepInv == ASSUME ShellInv, [ShellNext]_shellVars PROVE ShellInv'
BY TypeOK, HandleLineOK, RanOK, ShellOthersOK DEF ShellNext

(* Of what is foreseen, this is what the checked properties are.           *)
LEMMA ShellIsSafe == ShellInv => ShellSafe
<1> SUFFICES ASSUME ShellInv PROVE ShellSafe
  OBVIOUS
<1> USE DEF ShellInv
<1>1. PICK due : Counts(due, work, Busy, owed) /\ work \in Seq(Piped) /\ Busy \in 0..1
  BY DEF LinesInv, Busy
<1>2. owed \in Nat /\ owed <= Len(work) + Busy /\ (work = <<>> => owed = Busy)
  BY <1>1, CountsAre
<1>3. Len(work) \in Nat /\ typed \in 0..MaxLines /\ pending \in Nat /\ Len(work) + pending + Busy <= typed
  BY DEF LinesInv
<1>4. Len(work) + pending <= typed /\ owed \in 0..MaxLines
  BY <1>1, <1>2, <1>3, Bounds
<1>5. executing \in Nat /\ (executing = 0 => Busy = 0)
  BY Bounds DEF LinesInv, Busy
<1>6. ShellTypeOK
  BY <1>4, <1>5 DEF ShellTypeOK, LinesInv, HandlingInv, SeenInv, Piped, Views
<1>7. NothingPipedIsLost
  BY <1>2, <1>5 DEF NothingPipedIsLost, HandlingInv
<1>8. StatementsRunWhereTyped
  BY DEF StatementsRunWhereTyped, HandlingInv
<1> QED BY <1>6, <1>7, <1>8 DEF ShellSafe

-----------------------------------------------------------------------------
(* Log.  Its lines are in three hands: each has them in order, and what is *)
(* in one comes before what is in the next.  The sweep is a fold: after so *)
(* many files it has unlinked the first few of them and kept the others.   *)

Rising(s) == \A i, j \in 1..Len(s) : i < j => s[i] < s[j]
Before(s, t) == \A i \in 1..Len(s), j \in 1..Len(t) : s[i] < t[j]
Of(s) == {s[i] : i \in 1..Len(s)}

HandsInv ==
    /\ logged \in 0..MaxLogged
    /\ onDisk \in Seq(Nat) /\ appending \in Seq(Nat) /\ backlog \in Seq(Nat)
    /\ Rising(onDisk) /\ Rising(appending) /\ Rising(backlog)
    /\ Before(onDisk, appending) /\ Before(onDisk, backlog) /\ Before(appending, backlog)
    /\ unwritten \subseteq 1..logged
    /\ Of(onDisk) \cup Of(appending) \cup Of(backlog) = (1..logged) \ unwritten

DrainInv ==
    /\ level \in LogLevels /\ draining \in {"no", "loop", "append", "sleep", "done"}
    /\ draining = "append" => flushing
    /\ DrainedLogsAreEmpty

(* What a sweep has kept of files, none of which it failed to unlink.      *)
NewestKept(files, kept) ==
    \E n \in 0..Len(files) :
        /\ kept = SubSeq(files, n + 1, Len(files)) /\ Fits(kept)
        /\ n > 0 => ~Fits(SubSeq(files, n, Len(files)))

SweptInv ==
    /\ oldLogs \in Seq(LogFiles) /\ Len(oldLogs) <= OldFiles /\ ByAge(oldLogs)
    /\ swept.open \in BOOLEAN /\ swept.kept \in Seq(LogFiles) /\ swept.stuck \subseteq DOMAIN oldLogs
    /\ swept.open /\ swept.stuck = {} => NewestKept(oldLogs, swept.kept)

LogInv == HandsInv /\ DrainInv /\ SweptInv

-----------------------------------------------------------------------------
(* The sweep.                                                              *)

LEMMA LogBounds ==
    /\ MaxLogged \in Nat /\ OldFiles \in Nat /\ LogMaxBytes \in Nat
    /\ \A f \in LogFiles : f.size \in Nat /\ f.old \in BOOLEAN
BY LogAssumption DEF LogFiles

(* Running totals of the sizes of files.                                   *)
Sums(g, q) ==
    /\ g[0] = 0 /\ \A k \in 0..Len(q) : g[k] \in Nat
    /\ \A k \in Nat : k < Len(q) => g[k + 1] = g[k] + q[k + 1].size

LEMMA BytesFolds ==
    ASSUME NEW q \in Seq(LogFiles)
    PROVE  \E g : Sums(g, q) /\ Bytes(q) = g[Len(q)]
<1> DEFINE n == Len(q)
           More(t, f) == t + f.size
           step == [i \in 1..n |-> [t \in Nat |-> More(t, q[i])]]
           Folds(it) == it = [s \in SUBSET (1..n) |-> IF s = {} THEN 0 ELSE More(it[s \ {Max(s)}], q[Max(s)])]
           It == CHOOSE it : Folds(it)
<1>1. n \in Nat /\ DOMAIN q = 1..n /\ \A i \in 1..n : q[i] \in LogFiles
  OBVIOUS
<1>2. \A i \in 1..n, t \in Nat : More(t, q[i]) \in Nat /\ step[i][t] = More(t, q[i])
  <2> TAKE i \in 1..n, t \in Nat
  <2>1. PICK z \in Nat : z = q[i].size
    BY <1>1, LogBounds
  <2>2. step[i][t] = More(t, q[i])
    BY <1>1
  <2> QED BY <2>1, <2>2
<1>3. IsStep(step, 1..n, Nat)
  <2> HIDE DEF n, More
  <2> QED BY <1>2 DEF IsStep
<1>4. 0 \in Nat
  OBVIOUS
<1>5. PICK h : IsFold(h, Nat, 0, n, step)
  <2> HIDE DEF step, n
  <2> QED BY <1>1, <1>3, <1>4, FoldExists
<1>6. Folds(h)
  <2> HIDE DEF More
  <2>1. ASSUME NEW s \in SUBSET (1..n), s # {} PROVE h[s] = More(h[s \ {Max(s)}], q[Max(s)])
    <3>1. PICK m, r : m = Max(s) /\ r = s \ {Max(s)}
      OBVIOUS
    <3>2. m \in 1..n /\ r \in SUBSET (1..n)
      BY <1>1, <2>1, <3>1, MaxIs
    <3>3. h[s] = step[m][h[r]] /\ h[r] \in Nat
      BY <1>5, <2>1, <3>1, <3>2 DEF IsFold
    <3> QED BY <1>2, <3>1, <3>2, <3>3
  <2> HIDE DEF n, step
  <2> QED BY <1>5, <2>1 DEF IsFold
<1>7. Folds(It)
  <2> HIDE DEF Folds
  <2> QED BY <1>6, Zenon
<1>8. Bytes(q) = It[1..n]
  BY <1>1, Zenon DEF Bytes, FoldLeft, MapThenFoldSet
<1> HIDE DEF It
<1>9. It[{}] = 0
  <2> HIDE DEF More
  <2> QED BY <1>7
<1>10. ASSUME NEW k \in Nat, k < n PROVE It[1..(k + 1)] = More(It[1..k], q[k + 1])
  <2> HIDE DEF More
  <2>1. PICK m, s : m = Max(1..(k + 1)) /\ s = 1..(k + 1)
    OBVIOUS
  <2>2. s \in SUBSET (1..n) /\ s # {} /\ m = Max(s) /\ m = k + 1 /\ s \ {m} = 1..k
    BY <1>1, <1>10, <2>1, PrefixIs
  <2>3. It[s] = More(It[s \ {m}], q[m])
    BY <1>7, <2>2
  <2> QED BY <2>1, <2>2, <2>3
<1>11. PICK g : g = [k \in Nat |-> It[1..k]]
  OBVIOUS
<1>12. g[0] = 0 /\ g[n] = It[1..n]
  <2>1. 1..0 = {} /\ 0 \in Nat
    OBVIOUS
  <2> QED BY <1>1, <1>9, <1>11, <2>1
<1>13. \A k \in Nat : k < n => g[k + 1] = More(g[k], q[k + 1])
  BY <1>10, <1>11
<1>14. \A k \in 0..n : g[k] \in Nat
  <2> DEFINE T == {k \in Nat : k <= n => g[k] \in Nat}
  <2>1. 0 \in T
    BY <1>12
  <2>2. ASSUME NEW k \in Nat, k \in T PROVE k + 1 \in T
    <3> SUFFICES ASSUME k + 1 <= n PROVE g[k + 1] \in Nat
      OBVIOUS
    <3>1. g[k] \in Nat /\ k < n /\ k + 1 \in 1..n
      BY <1>1, <2>2
    <3> HIDE DEF More
    <3> QED BY <1>2, <1>13, <3>1
  <2>3. Nat \subseteq T
    <3> HIDE DEF T
    <3> QED BY <2>1, <2>2, Induction
  <2> QED BY <1>1, <2>3
<1> QED BY <1>8, <1>12, <1>13, <1>14 DEF Sums

(* The files behind the first m of the first k.                            *)
Rest(s, files, m, k) == s \in Seq(LogFiles) /\ Len(s) = k - m /\ \A j \in 1..(k - m) : s[j] = files[m + j]

(* The total of the files from some point on is what they add to the total.*)
LEMMA SumsOfTheRest ==
    ASSUME NEW q \in Seq(LogFiles), NEW r, NEW m \in 0..Len(q), Rest(r, q, m, Len(q)),
           NEW g, Sums(g, q), NEW h, Sums(h, r)
    PROVE  h[Len(r)] = g[Len(q)] - g[m]
<1> r \in Seq(LogFiles) /\ Len(r) = Len(q) - m /\ \A j \in 1..Len(r) : r[j] = q[m + j]
  BY DEF Rest
<1>1. PICK n \in Nat, l \in Nat : n = Len(q) /\ l = Len(r) /\ m \in Nat /\ m + l = n
  OBVIOUS
<1>2. /\ g[0] = 0 /\ (\A k \in 0..n : g[k] \in Nat) /\ \A k \in Nat : k < n => g[k + 1] = g[k] + q[k + 1].size
      /\ h[0] = 0 /\ (\A k \in 0..l : h[k] \in Nat) /\ \A k \in Nat : k < l => h[k + 1] = h[k] + r[k + 1].size
      /\ \A j \in 1..l : r[j] = q[m + j] /\ r[j] \in LogFiles
  BY <1>1 DEF Sums
<1>3. m \in 0..n /\ g[m] \in Nat
  BY <1>1, <1>2
<1> DEFINE T == {j \in Nat : j <= l => h[j] = g[m + j] - g[m]}
<1>4. 0 \in T
  BY <1>1, <1>2, <1>3
<1>5. ASSUME NEW j \in Nat, j \in T PROVE j + 1 \in T
  <2> SUFFICES ASSUME j + 1 <= l PROVE h[j + 1] = g[m + (j + 1)] - g[m]
    OBVIOUS
  <2>1. j <= l /\ j < l /\ m + j \in Nat /\ m + j < n /\ j + 1 \in 1..l /\ m + j \in 0..n /\ (m + j) + 1 = m + (j + 1)
    BY <1>1
  <2>2. h[j] = g[m + j] - g[m] /\ g[m + j] \in Nat
    BY <1>2, <1>5, <2>1
  <2>3. PICK z \in Nat : z = r[j + 1].size
    BY <1>2, <2>1, LogBounds
  <2>4. h[j + 1] = h[j] + z
    BY <1>2, <2>1, <2>3
  <2>5. q[(m + j) + 1].size = z
    BY <1>2, <2>1, <2>3
  <2>6. g[(m + j) + 1] = g[m + j] + z
    BY <1>2, <2>1, <2>5
  <2> QED BY <1>3, <2>1, <2>2, <2>4, <2>6
<1>6. Nat \subseteq T
  <2> HIDE DEF T
  <2> QED BY <1>4, <1>5, Induction
<1>7. h[l] = g[m + l] - g[m]
  BY <1>1, <1>6
<1> QED BY <1>1, <1>7

(* A turn of the loop.                                                     *)
Turns == [stop : BOOLEAN, kept : Seq(LogFiles), total : Int]

Over(s, f) == s.stop \/ (~f.old /\ s.total <= LogMaxBytes)

LEMMA UnlinksIs ==
    ASSUME NEW s \in Turns, NEW f \in LogFiles, NEW ok \in BOOLEAN
    PROVE  /\ Unlinks(s, f, ok) \in Turns
           /\ Unlinks(s, f, ok).stop = (s.stop \/ (~f.old /\ s.total <= LogMaxBytes))
           /\ Over(s, f) \/ ~ok => Unlinks(s, f, ok).kept = Append(s.kept, f) /\ Unlinks(s, f, ok).total = s.total
           /\ ~Over(s, f) /\ ok => Unlinks(s, f, ok).kept = s.kept /\ Unlinks(s, f, ok).total = s.total - f.size
<1>1. /\ s = [stop |-> s.stop, kept |-> s.kept, total |-> s.total]
      /\ s.stop \in BOOLEAN /\ s.kept \in Seq(LogFiles) /\ s.total \in Int
  BY DEF Turns
<1>2. f.size \in Nat /\ f.old \in BOOLEAN
  BY LogBounds
<1>3. PICK k \in Seq(LogFiles), t \in Int : k = Append(s.kept, f) /\ t = s.total - f.size
  <2>1. Append(s.kept, f) \in Seq(LogFiles) /\ s.total - f.size \in Int
    BY <1>1, <1>2
  <2> QED BY <2>1, Zenon
<1>4. PICK u : u = Unlinks(s, f, ok)
  OBVIOUS
<1>5. CASE Over(s, f)
  <2>1. u = [s EXCEPT !.stop = TRUE, !.kept = k]
    BY <1>3, <1>4, <1>5, Zenon DEF Unlinks, Over
  <2>2. u = [stop |-> TRUE, kept |-> k, total |-> s.total]
    BY <1>1, <2>1
  <2>3. u \in Turns /\ u.stop = TRUE /\ u.kept = k /\ u.total = s.total
    BY <1>1, <2>2 DEF Turns
  <2> QED BY <1>3, <1>4, <1>5, <2>3 DEF Over
<1>6. CASE ~Over(s, f) /\ ok
  <2>1. u = [s EXCEPT !.total = t]
    BY <1>3, <1>4, <1>6, Zenon DEF Unlinks, Over
  <2>2. u = [stop |-> s.stop, kept |-> s.kept, total |-> t]
    BY <1>1, <2>1
  <2>3. u \in Turns /\ u.stop = s.stop /\ u.kept = s.kept /\ u.total = t
    BY <1>1, <2>2 DEF Turns
  <2> QED BY <1>1, <1>3, <1>4, <1>6, <2>3 DEF Over
<1>7. CASE ~Over(s, f) /\ ~ok
  <2>1. u = [s EXCEPT !.kept = k]
    BY <1>3, <1>4, <1>7, Zenon DEF Unlinks, Over
  <2>2. u = [stop |-> s.stop, kept |-> k, total |-> s.total]
    BY <1>1, <2>1
  <2>3. u \in Turns /\ u.stop = s.stop /\ u.kept = k /\ u.total = s.total
    BY <1>1, <2>2 DEF Turns
  <2> QED BY <1>1, <1>3, <1>4, <1>7, <2>3 DEF Over
<1> QED BY <1>5, <1>6, <1>7

(* The states of the loop, turn by turn.                                   *)
Loop(g, files, stuck) ==
    /\ g[0] = [stop |-> FALSE, kept |-> <<>>, total |-> Bytes(files)]
    /\ \A k \in 0..Len(files) : g[k] \in Turns
    /\ \A k \in Nat : k < Len(files) => g[k + 1] = Unlinks(g[k], files[k + 1], k + 1 \notin stuck)

LEMMA SweepFolds ==
    ASSUME NEW files \in Seq(LogFiles), NEW stuck
    PROVE  \E g : Loop(g, files, stuck) /\ sweep(files, stuck) = g[Len(files)].kept
<1> DEFINE n == Len(files)
           V == Turns
           base == [stop |-> FALSE, kept |-> <<>>, total |-> Bytes(files)]
           More(t, i) == Unlinks(t, files[i], i \notin stuck)
           step == [i \in 1..n |-> [t \in V |-> More(t, i)]]
<1>1. n \in Nat /\ DOMAIN files = 1..n /\ \A i \in 1..n : files[i] \in LogFiles
  OBVIOUS
<1> DEFINE q == [i \in DOMAIN files |-> i]
<1>3. DOMAIN q = 1..n /\ \A i \in 1..n : q[i] = i
  BY <1>1
<1> DEFINE Folds(it) == it = [s \in SUBSET (1..n) |-> IF s = {} THEN base ELSE More(it[s \ {Max(s)}], q[Max(s)])]
           It == CHOOSE it : Folds(it)
<1>4. \A i \in 1..n, t \in V : More(t, i) \in V /\ step[i][t] = More(t, i)
  <2> TAKE i \in 1..n, t \in V
  <2>1. PICK f \in LogFiles, ok \in BOOLEAN : f = files[i] /\ ok = (i \notin stuck)
    BY <1>1
  <2>2. Unlinks(t, f, ok) \in V
    BY UnlinksIs
  <2> QED BY <2>1, <2>2
<1>5. IsStep(step, 1..n, V)
  <2> HIDE DEF n, V, More
  <2> QED BY <1>4 DEF IsStep
<1>6. base \in V
  <2>1. PICK g : Sums(g, files) /\ Bytes(files) = g[Len(files)]
    BY BytesFolds
  <2>2. Bytes(files) \in Nat
    BY <1>1, <2>1 DEF Sums
  <2> QED BY <2>2 DEF Turns
<1>7. PICK h : IsFold(h, V, base, n, step)
  <2> HIDE DEF step, n, V, base
  <2> QED BY <1>1, <1>5, <1>6, FoldExists
<1>8. Folds(h)
  <2> HIDE DEF V, More, q
  <2>1. ASSUME NEW s \in SUBSET (1..n), s # {} PROVE h[s] = More(h[s \ {Max(s)}], q[Max(s)])
    <3>1. PICK m, r : m = Max(s) /\ r = s \ {Max(s)}
      OBVIOUS
    <3>2. m \in 1..n /\ r \in SUBSET (1..n)
      BY <1>1, <2>1, <3>1, MaxIs
    <3>3. h[s] = step[m][h[r]] /\ h[r] \in V
      <4> HIDE DEF base, step
      <4> QED BY <1>7, <2>1, <3>1, <3>2 DEF IsFold
    <3>4. q[m] = m
      BY <1>3, <3>2
    <3> QED BY <1>4, <3>1, <3>2, <3>3, <3>4
  <2> HIDE DEF n, step, base
  <2> QED BY <1>7, <2>1 DEF IsFold
<1>9. Folds(It)
  <2> HIDE DEF Folds
  <2> QED BY <1>8, Zenon
<1>10. sweep(files, stuck) = It[1..n].kept
  BY <1>3, Zenon DEF sweep, FoldLeft, MapThenFoldSet
<1> HIDE DEF It, q
<1>11. It[{}] = base
  <2> HIDE DEF More, base
  <2> QED BY <1>9
<1>12. ASSUME NEW k \in Nat, k < n PROVE It[1..(k + 1)] = More(It[1..k], k + 1)
  <2> HIDE DEF More, base
  <2>1. PICK m, s : m = Max(1..(k + 1)) /\ s = 1..(k + 1)
    OBVIOUS
  <2>2. s \in SUBSET (1..n) /\ s # {} /\ m = Max(s) /\ m = k + 1 /\ s \ {m} = 1..k
    BY <1>1, <1>12, <2>1, PrefixIs
  <2>3. It[s] = More(It[s \ {m}], q[m])
    BY <1>9, <2>2
  <2>4. q[m] = m
    BY <1>1, <1>3, <1>12, <2>2
  <2> QED BY <2>1, <2>2, <2>3, <2>4
<1>13. PICK g : g = [k \in Nat |-> It[1..k]]
  OBVIOUS
<1>14. g[0] = base /\ g[n] = It[1..n]
  <2>1. 1..0 = {} /\ 0 \in Nat
    OBVIOUS
  <2> HIDE DEF base
  <2> QED BY <1>1, <1>11, <1>13, <2>1
<1>15. \A k \in Nat : k < n => g[k + 1] = More(g[k], k + 1)
  <2> HIDE DEF More
  <2> QED BY <1>12, <1>13
<1>16. \A k \in 0..n : g[k] \in V
  <2> HIDE DEF More, base, V
  <2> DEFINE T == {k \in Nat : k <= n => g[k] \in V}
  <2>1. 0 \in T
    BY <1>6, <1>14
  <2>2. ASSUME NEW k \in Nat, k \in T PROVE k + 1 \in T
    <3> SUFFICES ASSUME k + 1 <= n PROVE g[k + 1] \in V
      OBVIOUS
    <3>1. g[k] \in V /\ k < n /\ k + 1 \in 1..n
      BY <1>1, <2>2
    <3> QED BY <1>4, <1>15, <3>1
  <2>3. Nat \subseteq T
    <3> HIDE DEF T
    <3> QED BY <2>1, <2>2, Induction
  <2> QED BY <1>1, <2>3
<1> QED BY <1>10, <1>14, <1>15, <1>16 DEF Loop

LEMMA RestGrows ==
    ASSUME NEW s, NEW files \in Seq(LogFiles), NEW m \in Nat, NEW k \in Nat, m <= k, k < Len(files), Rest(s, files, m, k)
    PROVE  Rest(Append(s, files[k + 1]), files, m, k + 1)
<1>1. PICK f \in LogFiles : f = files[k + 1]
  OBVIOUS
<1>2. PICK l \in Nat : l = k - m /\ (k + 1) - m = l + 1 /\ m + (l + 1) = k + 1
  OBVIOUS
<1>3. s \in Seq(LogFiles) /\ Len(s) = l /\ \A j \in 1..l : s[j] = files[m + j]
  BY <1>2 DEF Rest
<1>4. PICK t \in Seq(LogFiles) : t = Append(s, f) /\ Len(t) = l + 1 /\ (\A j \in 1..l : t[j] = s[j]) /\ t[l + 1] = f
  <2>1. PICK q \in Seq(LogFiles) : q = s /\ Len(q) = l
    BY <1>3
  <2>2. Append(q, f) \in Seq(LogFiles) /\ Len(Append(q, f)) = l + 1
    BY <2>1
  <2>3. (\A j \in 1..l : Append(q, f)[j] = q[j]) /\ Append(q, f)[l + 1] = f
    BY <2>1
  <2> QED BY <2>1, <2>2, <2>3, Zenon
<1>5. ASSUME NEW j \in 1..(l + 1) PROVE t[j] = files[m + j]
  <2>1. CASE j = l + 1
    BY <1>1, <1>2, <1>4, <2>1
  <2>2. CASE j \in 1..l
    BY <1>3, <1>4, <2>2
  <2> QED BY <2>1, <2>2
<1>6. Rest(t, files, m, k + 1)
  BY <1>2, <1>4, <1>5 DEF Rest
<1> QED BY <1>1, <1>4, <1>6

LEMMA RestIs ==
    ASSUME NEW s, NEW files \in Seq(LogFiles), NEW m \in 0..Len(files), Rest(s, files, m, Len(files))
    PROVE  s = SubSeq(files, m + 1, Len(files))
<1>1. PICK n \in Nat, l \in Nat : n = Len(files) /\ l = n - m /\ n - (m + 1) + 1 = l /\ m \in Nat
  OBVIOUS
<1>2. PICK t \in Seq(LogFiles) : t = SubSeq(files, m + 1, n) /\ Len(t) = l /\ \A j \in 1..l : t[j] = files[m + j]
  <2>1. SubSeq(files, m + 1, n) \in Seq(LogFiles) /\ Len(SubSeq(files, m + 1, n)) = l
    BY <1>1
  <2>2. \A j \in 1..l : SubSeq(files, m + 1, n)[j] = files[m + j]
    BY <1>1
  <2> QED BY <2>1, <2>2, Zenon
<1>3. s \in Seq(LogFiles) /\ Len(s) = l /\ \A j \in 1..l : s[j] = files[m + j]
  BY <1>1 DEF Rest
<1>4. s = t
  <2>1. s \in [1..l -> LogFiles] /\ t \in [1..l -> LogFiles]
    <3>1. \A q \in Seq(LogFiles) : q \in [1..Len(q) -> LogFiles]
      OBVIOUS
    <3> QED BY <1>2, <1>3, <3>1, Zenon
  <2>2. \A j \in 1..l : s[j] = t[j]
    BY <1>2, <1>3
  <2> QED BY <2>1, <2>2
<1> QED BY <1>1, <1>2, <1>4

LEMMA SweepIsOfFiles ==
    ASSUME NEW files \in Seq(LogFiles), NEW stuck PROVE sweep(files, stuck) \in Seq(LogFiles)
<1>1. PICK g : Loop(g, files, stuck) /\ sweep(files, stuck) = g[Len(files)].kept
  BY SweepFolds
<1>2. Len(files) \in 0..Len(files)
  OBVIOUS
<1>3. g[Len(files)] \in Turns
  BY <1>1, <1>2 DEF Loop
<1> QED BY <1>1, <1>3 DEF Turns

(* A file is worth unlinking if it is too old, or it and what is behind it *)
(* are too much.                                                           *)
Worth(files, p, m) == files[m].old \/ p[Len(files)] - p[m - 1] > LogMaxBytes

(* The loop after k turns: m files are gone.                               *)
GoneBy(s, files, p, m, k) ==
    /\ m \in 0..k /\ Rest(s.kept, files, m, k) /\ s.total = p[Len(files)] - p[m]
    /\ m > 0 => Worth(files, p, m)
    /\ s.stop => m < k /\ s.total <= LogMaxBytes /\ ~files[m + 1].old
    /\ ~s.stop => m = k

LEMMA TurnKeeps ==
    ASSUME NEW files \in Seq(LogFiles), NEW p, Sums(p, files), NEW k \in Nat, k < Len(files),
           NEW s \in Turns, NEW m, GoneBy(s, files, p, m, k)
    PROVE  \E l : GoneBy(Unlinks(s, files[k + 1], TRUE), files, p, l, k + 1)
<1>1. PICK n \in Nat : n = Len(files)
  OBVIOUS
<1>2. PICK f \in LogFiles : f = files[k + 1]
  OBVIOUS
<1>3. PICK z \in Nat : z = f.size /\ f.old \in BOOLEAN
  BY LogBounds
<1>4. PICK u : u = Unlinks(s, f, TRUE)
  OBVIOUS
<1>5. /\ u \in Turns /\ u.stop = (s.stop \/ (~f.old /\ s.total <= LogMaxBytes))
      /\ Over(s, f) => u.kept = Append(s.kept, f) /\ u.total = s.total
      /\ ~Over(s, f) => u.kept = s.kept /\ u.total = s.total - z
  BY <1>3, <1>4, UnlinksIs
<1>6. /\ m \in 0..k /\ Rest(s.kept, files, m, k) /\ s.total = p[n] - p[m]
      /\ m > 0 => Worth(files, p, m)
      /\ s.stop => m < k /\ s.total <= LogMaxBytes /\ ~files[m + 1].old
      /\ ~s.stop => m = k
  BY <1>1 DEF GoneBy
<1>7. k \in 0..n /\ n \in 0..n /\ p[k] \in Nat /\ p[n] \in Nat /\ p[k + 1] = p[k] + z
  BY <1>1, <1>2, <1>3 DEF Sums
<1>8. m \in Nat /\ m <= k /\ m \in 0..(k + 1)
  BY <1>6
<1>9. CASE Over(s, f)
  <2>1. Rest(u.kept, files, m, k + 1)
    BY <1>2, <1>5, <1>6, <1>8, <1>9, RestGrows
  <2>2. u.stop = TRUE /\ u.total = p[n] - p[m]
    BY <1>5, <1>6, <1>9 DEF Over
  <2>3. m < k + 1 /\ u.total <= LogMaxBytes /\ ~files[m + 1].old
    <3>1. CASE s.stop
      BY <1>5, <1>6, <1>8, <1>9, <3>1
    <3>2. CASE ~s.stop
      <4>1. m = k /\ ~f.old /\ s.total <= LogMaxBytes
        BY <1>6, <1>9, <3>2 DEF Over
      <4> QED BY <1>2, <1>5, <1>8, <1>9, <4>1
    <3> QED BY <3>1, <3>2
  <2>4. GoneBy(u, files, p, m, k + 1)
    BY <1>1, <1>6, <1>8, <2>1, <2>2, <2>3 DEF GoneBy
  <2> QED BY <1>2, <1>4, <2>4
<1>10. CASE ~Over(s, f)
  <2>1. ~s.stop /\ m = k /\ (f.old \/ ~(s.total <= LogMaxBytes))
    BY <1>6, <1>10 DEF Over
  <2>2. u.stop = FALSE /\ u.kept = s.kept /\ u.total = s.total - z
    BY <1>5, <1>10 DEF Over
  <2>3. Rest(u.kept, files, k + 1, k + 1)
    <3>1. k - k = 0 /\ (k + 1) - (k + 1) = 0 /\ 1..0 = {}
      OBVIOUS
    <3> QED BY <1>6, <2>1, <2>2, <3>1 DEF Rest
  <2>4. u.total = p[n] - p[k + 1]
    BY <1>6, <1>7, <2>1, <2>2
  <2>5. Worth(files, p, k + 1)
    <3>1. (k + 1) - 1 = k
      OBVIOUS
    <3>2. f.old \/ p[n] - p[k] > LogMaxBytes
      BY <1>6, <1>7, <2>1, LogBounds
    <3> QED BY <1>1, <1>2, <3>1, <3>2 DEF Worth
  <2>6. k + 1 \in 0..(k + 1)
    OBVIOUS
  <2>7. GoneBy(u, files, p, k + 1, k + 1)
    BY <1>1, <2>2, <2>3, <2>4, <2>5, <2>6 DEF GoneBy
  <2> QED BY <1>2, <1>4, <2>7
<1> QED BY <1>9, <1>10

(* What is behind the first m fits, and would not with one more.           *)
LEMMA BytesOfTheRest ==
    ASSUME NEW files \in Seq(LogFiles), NEW p, Sums(p, files), NEW m \in 0..Len(files), NEW s,
           Rest(s, files, m, Len(files))
    PROVE  Bytes(s) = p[Len(files)] - p[m]
<1>1. s \in Seq(LogFiles) /\ Len(s) = Len(files) - m /\ \A j \in 1..Len(s) : s[j] = files[m + j]
  BY DEF Rest
<1>2. PICK g : Sums(g, s) /\ Bytes(s) = g[Len(s)]
  BY <1>1, BytesFolds
<1>3. g[Len(s)] = p[Len(files)] - p[m]
  BY <1>2, SumsOfTheRest
<1> QED BY <1>2, <1>3

LEMMA SweepIs ==
    ASSUME NEW files \in Seq(LogFiles), ByAge(files) PROVE NewestKept(files, sweep(files, {}))
<1>1. PICK n \in Nat : n = Len(files)
  OBVIOUS
<1>2. PICK p : Sums(p, files) /\ Bytes(files) = p[n]
  BY <1>1, BytesFolds
<1>3. PICK g : Loop(g, files, {}) /\ sweep(files, {}) = g[n].kept
  BY <1>1, SweepFolds
<1>4. (\A k \in 0..n : g[k] \in Turns) /\ \A k \in Nat : k < n => g[k + 1] = Unlinks(g[k], files[k + 1], TRUE)
  <2>1. \A k \in Nat : (k + 1 \notin {}) = TRUE
    OBVIOUS
  <2> QED BY <1>1, <1>3, <2>1 DEF Loop
<1> DEFINE T == {k \in Nat : k <= n => \E m : GoneBy(g[k], files, p, m, k)}
<1>5. 0 \in T
  <2>1. g[0] = [stop |-> FALSE, kept |-> <<>>, total |-> p[n]]
    BY <1>2, <1>3 DEF Loop
  <2>2. PICK e \in Seq(LogFiles) : e = <<>> /\ Len(e) = 0
    <3>1. <<>> \in Seq(LogFiles) /\ Len(<<>>) = 0
      OBVIOUS
    <3> QED BY <3>1, Zenon
  <2>3. g[0].kept = e /\ g[0].stop = FALSE /\ g[0].total = p[n]
    BY <2>1, <2>2
  <2>4. 0 - 0 = 0 /\ 1..0 = {} /\ 0 \in 0..0 /\ ~(0 > 0)
    OBVIOUS
  <2>5. Rest(g[0].kept, files, 0, 0)
    BY <2>2, <2>3, <2>4 DEF Rest
  <2>6. p[n] \in Nat /\ p[0] = 0
    BY <1>1, <1>2 DEF Sums
  <2>7. p[n] = p[n] - p[0]
    BY <2>6
  <2>8. GoneBy(g[0], files, p, 0, 0)
    BY <1>1, <2>3, <2>4, <2>5, <2>7 DEF GoneBy
  <2> QED BY <2>8
<1>6. ASSUME NEW k \in Nat, k \in T PROVE k + 1 \in T
  <2> SUFFICES ASSUME k + 1 <= n PROVE \E m : GoneBy(g[k + 1], files, p, m, k + 1)
    OBVIOUS
  <2>1. k < n /\ k <= n /\ k \in 0..n
    BY <1>1
  <2>2. PICK m : GoneBy(g[k], files, p, m, k)
    BY <1>6, <2>1
  <2> QED BY <1>1, <1>2, <1>4, <2>1, <2>2, TurnKeeps
<1>7. Nat \subseteq T
  <2> HIDE DEF T
  <2> QED BY <1>5, <1>6, Induction
<1>8. PICK m : GoneBy(g[n], files, p, m, n)
  BY <1>1, <1>7
<1>9. PICK s : s = g[n]
  OBVIOUS
<1>10. /\ m \in 0..n /\ Rest(s.kept, files, m, n) /\ s.total = p[n] - p[m]
       /\ m > 0 => Worth(files, p, m)
       /\ s.stop => m < n /\ s.total <= LogMaxBytes /\ ~files[m + 1].old
       /\ ~s.stop => m = n
  BY <1>1, <1>8, <1>9 DEF GoneBy
<1>11. /\ s.kept \in Seq(LogFiles) /\ Len(s.kept) = n - m /\ DOMAIN s.kept = 1..(n - m)
       /\ \A j \in 1..(n - m) : s.kept[j] = files[m + j]
  BY <1>10 DEF Rest
<1>12. Bytes(s.kept) = p[n] - p[m] /\ p[n] \in Nat /\ p[m] \in Nat
  <2>1. n \in 0..n
    BY <1>1
  <2>2. p[n] \in Nat /\ p[m] \in Nat
    BY <1>1, <1>2, <1>10, <2>1 DEF Sums
  <2> QED BY <1>1, <1>2, <1>10, <2>2, BytesOfTheRest
<1>13. Fits(s.kept)
  <2>1. CASE s.stop
    <3>1. ASSUME NEW j \in 1..(n - m) PROVE ~files[m + j].old
      <4>1. m + 1 \in 1..n /\ m + j \in 1..n /\ (m + 1 < m + j \/ m + 1 = m + j) /\ DOMAIN files = 1..n
        BY <1>1, <1>10
      <4>2. m + 1 < m + j /\ files[m + j].old => files[m + 1].old
        BY <4>1 DEF ByAge
      <4> QED BY <1>10, <2>1, <4>1, <4>2
    <3> QED BY <1>10, <1>11, <1>12, <2>1, <3>1 DEF Fits
  <2>2. CASE ~s.stop
    <3>1. n - m = 0 /\ p[n] - p[m] = 0 /\ 0 <= LogMaxBytes /\ 1..0 = {}
      BY <1>10, <1>12, <2>2, LogBounds
    <3> QED BY <1>11, <1>12, <3>1 DEF Fits
  <2> QED BY <2>1, <2>2
<1>14. ASSUME m > 0 PROVE ~Fits(SubSeq(files, m, n))
  <2>1. PICK l \in Nat : l = m - 1 /\ l + 1 = m /\ l \in 0..n
    BY <1>10, <1>14
  <2>2. PICK r : r = SubSeq(files, m, n)
    OBVIOUS
  <2>3. Rest(r, files, l, n)
    <3>1. /\ SubSeq(files, m, n) \in Seq(LogFiles) /\ Len(SubSeq(files, m, n)) = n - l
          /\ \A j \in 1..(n - l) : SubSeq(files, m, n)[j] = files[l + j]
      BY <1>1, <1>10, <1>14, <2>1
    <3> QED BY <2>2, <3>1 DEF Rest
  <2>4. Bytes(r) = p[n] - p[l]
    BY <1>1, <1>2, <2>1, <2>3, BytesOfTheRest
  <2>5. DOMAIN r = 1..(n - l) /\ 1 \in 1..(n - l) /\ r[1] = files[l + 1]
    BY <1>10, <2>1, <2>3 DEF Rest
  <2>6. files[m].old \/ p[n] - p[l] > LogMaxBytes
    BY <1>1, <1>10, <1>14, <2>1 DEF Worth
  <2>7. CASE files[m].old
    BY <2>1, <2>2, <2>5, <2>7 DEF Fits
  <2>8. CASE p[n] - p[l] > LogMaxBytes
    <3>1. p[l] \in Nat
      BY <1>1, <1>2, <2>1 DEF Sums
    <3>2. ~(p[n] - p[l] <= LogMaxBytes)
      BY <1>12, <2>8, <3>1, LogBounds
    <3> QED BY <2>2, <2>4, <3>2 DEF Fits
  <2> QED BY <2>6, <2>7, <2>8
<1>15. s.kept = SubSeq(files, m + 1, n)
  BY <1>1, <1>10, RestIs
<1> QED BY <1>1, <1>3, <1>9, <1>10, <1>13, <1>14, <1>15 DEF NewestKept

-----------------------------------------------------------------------------
(* The lines.                                                              *)

LEMMA ConcatIs ==
    ASSUME NEW s \in Seq(Nat), NEW t \in Seq(Nat)
    PROVE  /\ s \o t \in Seq(Nat) /\ Len(s \o t) = Len(s) + Len(t)
           /\ \A i \in 1..Len(s) : (s \o t)[i] = s[i]
           /\ \A j \in 1..Len(t) : (s \o t)[Len(s) + j] = t[j]
OBVIOUS

(* Where an item of the two is.                                            *)
LEMMA ConcatAt ==
    ASSUME NEW s \in Seq(Nat), NEW t \in Seq(Nat), NEW i \in 1..Len(s \o t)
    PROVE  \/ i \in 1..Len(s) /\ (s \o t)[i] = s[i]
           \/ \E j \in 1..Len(t) : i = Len(s) + j /\ (s \o t)[i] = t[j]
<1>1. PICK m \in Nat, n \in Nat : m = Len(s) /\ n = Len(t)
  OBVIOUS
<1>2. i \in 1..(m + n)
  BY <1>1, ConcatIs
<1>3. CASE i \in 1..m
  BY <1>1, <1>3, ConcatIs
<1>4. CASE i \notin 1..m
  <2>1. PICK j \in 1..n : i = m + j
    <3>1. i - m \in 1..n /\ i = m + (i - m)
      BY <1>2, <1>4
    <3> QED BY <3>1
  <2> QED BY <1>1, <2>1, ConcatIs
<1> QED BY <1>3, <1>4

LEMMA ConcatOf ==
    ASSUME NEW s \in Seq(Nat), NEW t \in Seq(Nat) PROVE Of(s \o t) = Of(s) \cup Of(t)
<1>1. PICK m \in Nat, n \in Nat : m = Len(s) /\ n = Len(t)
  OBVIOUS
<1>2. PICK u : u = s \o t
  OBVIOUS
<1>3. Len(u) = m + n /\ (\A i \in 1..m : u[i] = s[i]) /\ \A j \in 1..n : u[m + j] = t[j]
  BY <1>1, <1>2, ConcatIs
<1>4. Of(u) \subseteq Of(s) \cup Of(t)
  <2>1. ASSUME NEW i \in 1..Len(u) PROVE u[i] \in Of(s) \cup Of(t)
    <3>1. (i \in 1..Len(s) /\ u[i] = s[i]) \/ \E j \in 1..Len(t) : i = Len(s) + j /\ u[i] = t[j]
      BY <1>2, ConcatAt
    <3> QED BY <3>1 DEF Of
  <2> QED BY <2>1 DEF Of
<1>5. Of(s) \subseteq Of(u)
  <2>1. \A i \in 1..m : i \in 1..Len(u) /\ u[i] = s[i]
    BY <1>3
  <2> QED BY <1>1, <2>1 DEF Of
<1>6. Of(t) \subseteq Of(u)
  <2>1. \A j \in 1..n : m + j \in 1..Len(u) /\ u[m + j] = t[j]
    BY <1>3
  <2> QED BY <1>1, <2>1 DEF Of
<1> QED BY <1>2, <1>4, <1>5, <1>6

LEMMA ConcatRises ==
    ASSUME NEW s \in Seq(Nat), NEW t \in Seq(Nat), Rising(s), Rising(t), Before(s, t) PROVE Rising(s \o t)
<1>1. PICK m \in Nat, n \in Nat : m = Len(s) /\ n = Len(t)
  OBVIOUS
<1>2. PICK u : u = s \o t
  OBVIOUS
<1> SUFFICES ASSUME NEW i \in 1..Len(u), NEW j \in 1..Len(u), i < j PROVE u[i] < u[j]
  BY <1>2 DEF Rising
<1>3. \A k \in 1..Len(u) : (k \in 1..m /\ u[k] = s[k]) \/ \E b \in 1..n : k = m + b /\ u[k] = t[b]
  BY <1>1, <1>2, ConcatAt
<1>4. CASE i \in 1..m /\ u[i] = s[i]
  <2>1. CASE j \in 1..m /\ u[j] = s[j]
    BY <1>1, <1>4, <2>1 DEF Rising
  <2>2. CASE \E b \in 1..n : j = m + b /\ u[j] = t[b]
    BY <1>1, <1>4, <2>2 DEF Before
  <2> QED BY <1>3, <2>1, <2>2
<1>5. CASE \E a \in 1..n : i = m + a /\ u[i] = t[a]
  <2>1. PICK a \in 1..n : i = m + a /\ u[i] = t[a]
    BY <1>5
  <2>2. j \in Nat /\ j \notin 1..m
    <3>1. j \in Nat /\ i < j
      BY <1>2, ConcatIs
    <3> QED BY <2>1, <3>1
  <2>3. PICK b \in 1..n : j = m + b /\ u[j] = t[b]
    BY <1>3, <2>2
  <2>4. a < b
    BY <2>1, <2>3
  <2> QED BY <1>1, <2>1, <2>3, <2>4 DEF Rising
<1> QED BY <1>3, <1>4, <1>5

LEMMA ConcatBefore ==
    ASSUME NEW s \in Seq(Nat), NEW t \in Seq(Nat), NEW u, Before(s, u), Before(t, u) PROVE Before(s \o t, u)
BY ConcatAt DEF Before

(* A line that is later than all so far.                                   *)
LEMMA LaterLine ==
    ASSUME NEW s \in Seq(Nat), NEW x \in Nat, Rising(s), \A y \in Of(s) : y < x
    PROVE  /\ Append(s, x) \in Seq(Nat) /\ Rising(Append(s, x)) /\ Of(Append(s, x)) = Of(s) \cup {x}
           /\ Append(s, x) # <<>>
           /\ \A u : Before(u, s) /\ (\A y \in Of(u) : y < x) => Before(u, Append(s, x))
<1>0. PICK n \in Nat : n = Len(s)
  OBVIOUS
<1>9. PICK t : t = Append(s, x)
  OBVIOUS
<1>1. n = Len(s) /\ t = Append(s, x)
  BY <1>0, <1>9
<1>2. t \in Seq(Nat) /\ Len(t) = n + 1 /\ t # <<>> /\ (\A i \in 1..n : t[i] = s[i]) /\ t[n + 1] = x
  <2>1. Append(s, x) \in Seq(Nat) /\ Len(Append(s, x)) = Len(s) + 1 /\ Append(s, x) # <<>>
    OBVIOUS
  <2>2. (\A i \in 1..Len(s) : Append(s, x)[i] = s[i]) /\ Append(s, x)[Len(s) + 1] = x
    OBVIOUS
  <2> QED BY <1>1, <2>1, <2>2, Zenon
<1>3. \A i \in 1..(n + 1) : i \in 1..n \/ i = n + 1
  OBVIOUS
<1>4. \A i \in 1..n : s[i] < x
  BY <1>1 DEF Of
<1>5. Rising(t)
  <2> SUFFICES ASSUME NEW i \in 1..(n + 1), NEW j \in 1..(n + 1), i < j PROVE t[i] < t[j]
    BY <1>2 DEF Rising
  <2>1. i \in 1..n
    OBVIOUS
  <2>2. CASE j \in 1..n
    BY <1>1, <1>2, <2>1, <2>2 DEF Rising
  <2>3. CASE j = n + 1
    BY <1>2, <1>4, <2>1, <2>3
  <2> QED BY <1>3, <2>2, <2>3
<1>6. Of(t) = Of(s) \cup {x}
  <2>1. \A i \in 1..n : i \in 1..(n + 1)
    OBVIOUS
  <2>2. n + 1 \in 1..(n + 1)
    OBVIOUS
  <2>3. Of(t) \subseteq Of(s) \cup {x}
    BY <1>1, <1>2, <1>3 DEF Of
  <2>4. Of(s) \subseteq Of(t) /\ x \in Of(t)
    BY <1>1, <1>2, <2>1, <2>2 DEF Of
  <2> QED BY <2>3, <2>4
<1>7. ASSUME NEW u, Before(u, s), \A y \in Of(u) : y < x PROVE Before(u, t)
  <2> SUFFICES ASSUME NEW i \in 1..Len(u), NEW j \in 1..(n + 1) PROVE u[i] < t[j]
    BY <1>2 DEF Before
  <2>1. CASE j \in 1..n
    BY <1>1, <1>2, <1>7, <2>1 DEF Before
  <2>2. CASE j = n + 1
    BY <1>2, <1>7, <2>2 DEF Of
  <2> QED BY <1>3, <2>1, <2>2
<1> QED BY <1>1, <1>2, <1>5, <1>6, <1>7

LEMMA NoLines ==
    /\ <<>> \in Seq(Nat) /\ Rising(<<>>) /\ Of(<<>>) = {}
    /\ \A u : Before(u, <<>>) /\ Before(<<>>, u)
<1>1. PICK e \in Seq(Nat) : e = <<>> /\ Len(e) = 0
  <2>1. <<>> \in Seq(Nat) /\ Len(<<>>) = 0
    OBVIOUS
  <2> QED BY <2>1, Zenon
<1>2. 1..0 = {}
  OBVIOUS
<1>3. Rising(e) /\ Of(e) = {} /\ \A u : Before(u, e) /\ Before(e, u)
  BY <1>1, <1>2 DEF Rising, Of, Before
<1> QED BY <1>1, <1>3

(* A flush starts an append, unless one is on its way.                     *)
LEMMA FlushKeeps ==
    ASSUME HandsInv, NEW lines \in Seq(Nat), flush(lines),
           logged' \in 0..MaxLogged, UNCHANGED <<onDisk, unwritten>>, unwritten \subseteq 1..logged',
           Rising(lines), Before(onDisk, lines), Before(appending, lines),
           Of(onDisk) \cup Of(appending) \cup Of(lines) = (1..logged') \ unwritten
    PROVE  /\ HandsInv' /\ (lines # <<>> => flushing')
           /\ flushing => flushing'
           /\ lines = <<>> => backlog' = <<>> /\ appending' = appending
<1> USE DEF HandsInv
<1>1. CASE flushing \/ lines = <<>>
  <2>1. backlog' = lines /\ appending' = appending
    BY <1>1 DEF flush
  <2>2. HandsInv'
    BY <2>1
  <2> QED BY <1>1, <2>1, <2>2 DEF flushing
<1>2. CASE ~(flushing \/ lines = <<>>)
  <2>1. appending' = lines /\ backlog' = <<>> /\ appending = <<>> /\ lines # <<>>
    BY <1>2 DEF flush, flushing
  <2>2. Of(appending) = {}
    BY <2>1, NoLines
  <2>3. /\ backlog' \in Seq(Nat) /\ Rising(backlog') /\ Of(backlog') = {}
        /\ Before(onDisk', backlog') /\ Before(appending', backlog')
    BY <2>1, NoLines
  <2>4. HandsInv'
    BY <2>1, <2>2, <2>3
  <2> QED BY <2>1, <2>4 DEF flushing
<1> QED BY <1>1, <1>2

LEMMA LogInitInv == LogInit => LogInv
<1> SUFFICES ASSUME LogInit PROVE LogInv
  OBVIOUS
<1>1. HandsInv
  <2>1. logged = 0 /\ backlog = <<>> /\ appending = <<>> /\ onDisk = <<>> /\ unwritten = {}
    BY DEF LogInit
  <2>2. 0 \in 0..MaxLogged /\ 1..0 = {}
    BY LogBounds
  <2> QED BY <2>1, <2>2, NoLines DEF HandsInv
<1>2. DrainInv
  BY DEF LogInit, DrainInv, DrainedLogsAreEmpty
<1>3. SweptInv
  <2>1. oldLogs \in BoundedSeq(LogFiles, OldFiles) /\ ByAge(oldLogs) /\ swept = Unopened
    BY DEF LogInit
  <2>2. PICK m \in 0..OldFiles : oldLogs \in [1..m -> LogFiles]
    BY <2>1 DEF BoundedSeq, SeqOf
  <2>3. m \in Nat /\ m <= OldFiles
    BY <2>2, LogBounds
  <2>4. oldLogs \in Seq(LogFiles) /\ Len(oldLogs) = m
    BY <2>2, <2>3
  <2>5. swept.open = FALSE /\ swept.kept = <<>> /\ swept.stuck = {}
    BY <2>1 DEF Unopened
  <2>6. <<>> \in Seq(LogFiles)
    OBVIOUS
  <2> QED BY <2>1, <2>3, <2>4, <2>5, <2>6 DEF SweptInv
<1> QED BY <1>1, <1>2, <1>3 DEF LogInv

LEMMA OpenLogOK == ASSUME LogInv, NEW stuck \in SUBSET DOMAIN oldLogs, OpenLog(stuck) PROVE LogInv'
<1>1. /\ swept' = [open |-> TRUE, kept |-> sweep(oldLogs, stuck), stuck |-> stuck]
      /\ UNCHANGED <<oldLogs, level, logged, backlog, appending, onDisk, unwritten, draining>>
  BY DEF OpenLog
<1>2. oldLogs \in Seq(LogFiles) /\ ByAge(oldLogs)
  BY DEF LogInv, SweptInv
<1>3. swept'.open = TRUE /\ swept'.kept = sweep(oldLogs, stuck) /\ swept'.stuck = stuck
  BY <1>1
<1>4. sweep(oldLogs, stuck) \in Seq(LogFiles) /\ NewestKept(oldLogs, sweep(oldLogs, {}))
  BY <1>2, SweepIs, SweepIsOfFiles
<1>5. SweptInv'
  <2>1. swept'.open /\ swept'.stuck = {} => NewestKept(oldLogs', swept'.kept)
    BY <1>1, <1>3, <1>4
  <2>2. Len(oldLogs) <= OldFiles
    BY DEF LogInv, SweptInv
  <2>3. oldLogs' = oldLogs
    BY <1>1
  <2>4. swept'.open \in BOOLEAN /\ swept'.kept \in Seq(LogFiles) /\ swept'.stuck \subseteq DOMAIN oldLogs
    BY <1>3, <1>4
  <2> QED BY <1>2, <2>1, <2>2, <2>3, <2>4 DEF SweptInv
<1>6. HandsInv' /\ DrainInv'
  BY <1>1 DEF LogInv, HandsInv, DrainInv, DrainedLogsAreEmpty, flushing
<1> QED BY <1>5, <1>6 DEF LogInv

LEMMA WriteLineOK == ASSUME LogInv, NEW l \in LogLevels, WriteLine(l) PROVE LogInv'
<1>1. /\ draining # "done" /\ logged < MaxLogged /\ logged' = logged + 1 /\ flush(Append(backlog, logged + 1))
      /\ UNCHANGED <<oldLogs, swept, level, onDisk, unwritten, draining>>
  BY DEF WriteLine
<1>2. HandsInv
  BY DEF LogInv
<1>3. logged \in Nat /\ logged + 1 \in 0..MaxLogged
  BY <1>1, <1>2, LogBounds DEF HandsInv
<1>4. PICK x \in Nat : x = logged + 1
  BY <1>3
<1>5. Of(onDisk) \cup Of(appending) \cup Of(backlog) = (1..logged) \ unwritten
  BY <1>2 DEF HandsInv
<1>6. \A y \in Of(onDisk) \cup Of(appending) \cup Of(backlog) : y < x
  BY <1>3, <1>4, <1>5
<1>7. PICK lines : lines = Append(backlog, x)
  OBVIOUS
<1>8. /\ lines \in Seq(Nat) /\ Rising(lines) /\ Of(lines) = Of(backlog) \cup {x} /\ lines # <<>>
      /\ Before(onDisk, lines) /\ Before(appending, lines)
  <2>1. backlog \in Seq(Nat) /\ Rising(backlog) /\ Before(onDisk, backlog) /\ Before(appending, backlog)
    BY <1>2 DEF HandsInv
  <2> QED BY <1>6, <1>7, <2>1, LaterLine
<1>9. Of(onDisk) \cup Of(appending) \cup Of(lines) = (1..logged') \ unwritten /\ unwritten \subseteq 1..logged'
  <2>1. 1..logged' = (1..logged) \cup {x} /\ x \notin 1..logged
    BY <1>1, <1>3, <1>4
  <2>2. unwritten \subseteq 1..logged
    BY <1>2 DEF HandsInv
  <2> QED BY <1>5, <1>8, <2>1, <2>2
<1>10. HandsInv' /\ flushing'
  <2>1. flush(lines) /\ logged' \in 0..MaxLogged /\ UNCHANGED <<onDisk, unwritten>>
    BY <1>1, <1>3, <1>4, <1>7
  <2>2. HandsInv' /\ (flushing => flushing') /\ (lines # <<>> => flushing')
    BY <1>2, <1>8, <1>9, <2>1, FlushKeeps
  <2> QED BY <1>8, <2>2
<1>11. DrainInv'
  BY <1>1, <1>10 DEF LogInv, DrainInv, DrainedLogsAreEmpty
<1>12. SweptInv'
  BY <1>1 DEF LogInv, SweptInv
<1> QED BY <1>10, <1>11, <1>12 DEF LogInv

LEMMA AppendedOK == ASSUME LogInv, NEW ok \in BOOLEAN, Appended(ok) PROVE LogInv'
<1>1. /\ flushing /\ appending' = <<>> /\ backlog' = backlog
      /\ onDisk' = IF ok THEN onDisk \o appending ELSE onDisk
      /\ unwritten' = IF ok THEN unwritten ELSE unwritten \cup ToSet(appending)
      /\ draining' = IF draining = "append" THEN "loop" ELSE draining
      /\ UNCHANGED <<oldLogs, swept, level, logged>>
  BY DEF Appended, LeftQueued
<1>2. /\ logged \in 0..MaxLogged /\ onDisk \in Seq(Nat) /\ appending \in Seq(Nat) /\ backlog \in Seq(Nat)
      /\ Rising(onDisk) /\ Rising(appending) /\ Rising(backlog)
      /\ Before(onDisk, appending) /\ Before(onDisk, backlog) /\ Before(appending, backlog)
      /\ unwritten \subseteq 1..logged /\ Of(onDisk) \cup Of(appending) \cup Of(backlog) = (1..logged) \ unwritten
  BY DEF LogInv, HandsInv
<1>3. /\ appending' \in Seq(Nat) /\ Rising(appending') /\ Of(appending') = {}
      /\ \A u : Before(u, appending') /\ Before(appending', u)
  BY <1>1, NoLines
<1>4. CASE ok
  <2>1. onDisk' = onDisk \o appending /\ unwritten' = unwritten
    BY <1>1, <1>4
  <2>4. onDisk \o appending \in Seq(Nat) /\ Rising(onDisk \o appending)
    BY <1>2, ConcatIs, ConcatRises
  <2>5. Of(onDisk \o appending) = Of(onDisk) \cup Of(appending)
    BY <1>2, ConcatOf
  <2>6. Before(onDisk \o appending, backlog)
    BY <1>2, ConcatBefore
  <2>2. onDisk' \in Seq(Nat) /\ Rising(onDisk') /\ Of(onDisk') = Of(onDisk) \cup Of(appending) /\ Before(onDisk', backlog')
    BY <1>1, <2>1, <2>4, <2>5, <2>6
  <2>3. HandsInv'
    BY <1>1, <1>2, <1>3, <2>1, <2>2 DEF HandsInv
  <2> QED BY <1>1, <2>3 DEF LogInv, SweptInv, DrainInv, DrainedLogsAreEmpty
<1>5. CASE ~ok
  <2>1. onDisk' = onDisk /\ unwritten' = unwritten \cup ToSet(appending)
    BY <1>1, <1>5
  <2>2. ToSet(appending) = Of(appending)
    BY <1>2 DEF ToSet, Of
  <2>3. \A y \in Of(onDisk) \cup Of(backlog), x \in Of(appending) : y # x
    <3>1. \A i \in 1..Len(onDisk), j \in 1..Len(appending) : onDisk[i] # appending[j]
      BY <1>2 DEF Before
    <3>2. \A i \in 1..Len(appending), j \in 1..Len(backlog) : appending[i] # backlog[j]
      BY <1>2 DEF Before
    <3> QED BY <3>1, <3>2 DEF Of
  <2>4. Of(onDisk) \cup Of(backlog) = (1..logged) \ unwritten' /\ unwritten' \subseteq 1..logged
    BY <1>2, <2>1, <2>2, <2>3
  <2>5. HandsInv'
    BY <1>1, <1>2, <1>3, <2>1, <2>4 DEF HandsInv
  <2> QED BY <1>1, <2>5 DEF LogInv, SweptInv, DrainInv, DrainedLogsAreEmpty
<1> QED BY <1>4, <1>5

LEMMA DrainOK == ASSUME LogInv, Drain PROVE LogInv'
<1>1. /\ draining = "loop" /\ flush(backlog)
      /\ draining' = IF flushing THEN "sleep" ELSE IF backlog # <<>> THEN "append" ELSE "done"
      /\ UNCHANGED <<oldLogs, swept, level, logged, onDisk, unwritten>>
  BY DEF Drain
<1>2. HandsInv
  BY DEF LogInv
<1>3. /\ HandsInv' /\ (backlog # <<>> => flushing') /\ (backlog = <<>> => backlog' = <<>> /\ appending' = appending)
  <2>1. /\ backlog \in Seq(Nat) /\ logged' \in 0..MaxLogged /\ UNCHANGED <<onDisk, unwritten>> /\ unwritten \subseteq 1..logged'
        /\ Rising(backlog) /\ Before(onDisk, backlog) /\ Before(appending, backlog)
        /\ Of(onDisk) \cup Of(appending) \cup Of(backlog) = (1..logged') \ unwritten
    BY <1>1, <1>2 DEF HandsInv
  <2> QED BY <1>1, <1>2, <2>1, FlushKeeps
<1>4. DrainInv'
  <2>1. CASE flushing
    <3>1. draining' = "sleep"
      BY <1>1, <2>1 DEF flushing
    <3>2. level' \in LogLevels
      BY <1>1 DEF LogInv, DrainInv
    <3> QED BY <3>1, <3>2 DEF DrainInv, DrainedLogsAreEmpty
  <2>2. CASE ~flushing /\ backlog # <<>>
    BY <1>1, <1>3, <2>2 DEF LogInv, DrainInv, DrainedLogsAreEmpty
  <2>3. CASE ~flushing /\ backlog = <<>>
    BY <1>1, <1>3, <2>3 DEF LogInv, DrainInv, DrainedLogsAreEmpty, flushing
  <2> QED BY <2>1, <2>2, <2>3
<1>5. SweptInv'
  BY <1>1 DEF LogInv, SweptInv
<1> QED BY <1>3, <1>4, <1>5 DEF LogInv

LEMMA LogOthersOK ==
    ASSUME LogInv, (\E l \in LogLevels : SetLevel(l)) \/ StopLog \/ DrainAgain \/ UNCHANGED logVars
    PROVE  LogInv'
<1>1. UNCHANGED <<oldLogs, swept, logged, backlog, appending, onDisk, unwritten>>
  BY DEF SetLevel, StopLog, DrainAgain, logVars
<1>2. level' \in LogLevels /\ (draining' = draining \/ draining' = "loop")
  BY DEF LogInv, DrainInv, SetLevel, StopLog, DrainAgain, logVars
<1> QED BY <1>1, <1>2 DEF LogInv, HandsInv, SweptInv, DrainInv, DrainedLogsAreEmpty, flushing

LEMMA LogStepInv == ASSUME LogInv, [LogNext]_logVars PROVE LogInv'
BY OpenLogOK, WriteLineOK, AppendedOK, DrainOK, LogOthersOK DEF LogNext

LEMMA LogIsSafe == LogInv => LogSafe
<1> SUFFICES ASSUME LogInv PROVE LogSafe
  OBVIOUS
<1>1. /\ logged \in 0..MaxLogged /\ onDisk \in Seq(Nat) /\ appending \in Seq(Nat) /\ backlog \in Seq(Nat)
      /\ Rising(onDisk) /\ Rising(appending) /\ Rising(backlog)
      /\ Before(onDisk, appending) /\ Before(onDisk, backlog) /\ Before(appending, backlog)
      /\ unwritten \subseteq 1..logged /\ Of(onDisk) \cup Of(appending) \cup Of(backlog) = (1..logged) \ unwritten
  BY DEF LogInv, HandsInv
<1>2. PICK two \in Seq(Nat) : two = onDisk \o appending /\ Rising(two) /\ Before(two, backlog) /\ Of(two) = Of(onDisk) \cup Of(appending)
  BY <1>1, ConcatIs, ConcatRises, ConcatOf, ConcatBefore
<1>3. PICK lines \in Seq(Nat) : lines = two \o backlog /\ Rising(lines) /\ Of(lines) = Of(two) \cup Of(backlog)
  BY <1>1, <1>2, ConcatIs, ConcatRises, ConcatOf
<1>4. LinesKeepTheirOrder
  <2>1. DOMAIN lines = 1..Len(lines) /\ ToSet(lines) = Of(lines)
    <3>1. DOMAIN lines = 1..Len(lines)
      OBVIOUS
    <3> QED BY <3>1, Zenon DEF ToSet, Of
  <2>2. ToSet(lines) = (1..logged) \ unwritten
    BY <1>1, <1>2, <1>3, <2>1
  <2>3. \A i, j \in DOMAIN lines : i < j => lines[i] < lines[j]
    BY <1>3, <2>1 DEF Rising
  <2>4. lines = onDisk \o appending \o backlog
    BY <1>2, <1>3
  <2> QED BY <2>2, <2>3, <2>4 DEF LinesKeepTheirOrder
<1>5. backlog \in Seq(1..logged) /\ appending \in Seq(1..logged) /\ onDisk \in Seq(1..logged)
  <2>1. \A s \in Seq(Nat) : Of(s) \subseteq 1..logged => s \in Seq(1..logged)
    <3> TAKE s \in Seq(Nat)
    <3> HAVE Of(s) \subseteq 1..logged
    <3>1. \A i \in 1..Len(s) : s[i] \in 1..logged
      BY DEF Of
    <3>2. PICK n \in Nat : n = Len(s)
      OBVIOUS
    <3>3. s \in [1..n -> Nat]
      BY <3>2
    <3>4. s \in [1..n -> 1..logged]
      BY <3>1, <3>2, <3>3
    <3>5. \A S : [1..n -> S] \subseteq Seq(S)
      OBVIOUS
    <3> QED BY <3>4, <3>5
  <2>2. Of(backlog) \subseteq 1..logged /\ Of(appending) \subseteq 1..logged /\ Of(onDisk) \subseteq 1..logged
    BY <1>1
  <2> QED BY <1>1, <2>1, <2>2
<1>6. oldLogs \in BoundedSeq(LogFiles, OldFiles)
  <2>1. PICK l \in Nat : l = Len(oldLogs) /\ l <= OldFiles
    BY DEF LogInv, SweptInv
  <2>2. l \in 0..OldFiles /\ oldLogs \in [1..l -> LogFiles]
    BY <2>1, LogBounds DEF LogInv, SweptInv
  <2> QED BY <2>2 DEF BoundedSeq, SeqOf
<1>7. LogTypeOK
  BY <1>1, <1>5, <1>6 DEF LogInv, SweptInv, DrainInv, LogTypeOK
<1>8. SweepKeepsTheNewest
  BY DEF LogInv, SweptInv, NewestKept, SweepKeepsTheNewest
<1> QED BY <1>4, <1>7, <1>8 DEF LogInv, DrainInv, LogSafe

-----------------------------------------------------------------------------
(* Together.  A part that stays still keeps what it promises.              *)

HandedOverInv == ShellInv /\ LogInv /\ FormInv

LEMMA ProcessesInitInv == ProcessesInit => HandedOverInv
BY ShellInitInv, LogInitInv, FormInitInv DEF ProcessesInit, HandedOverInv

LEMMA PartsStep ==
    ASSUME [ProcessesNext]_processesVars
    PROVE  [ShellNext]_shellVars /\ [LogNext]_logVars /\ [FormNext]_formVars
BY DEF ProcessesNext, processesVars

LEMMA ProcessesNextInv == HandedOverInv /\ [ProcessesNext]_processesVars => HandedOverInv'
BY PartsStep, ShellStepInv, LogStepInv, FormStepInv DEF HandedOverInv

(* The lines a shell waits with foresee what each of them will meet, the   *)
(* log's lines are in three hands in order, and a submission that was made *)
(* belongs to a panel there was (shell.ts:78-107, log.ts:64-114 and        *)
(* connectionForm.ts:61-156).                                              *)
THEOREM HandingOverInductive == ProcessesSpec => []HandedOverInv
BY ProcessesInitInv, ProcessesNextInv, PTL DEF ProcessesSpec

(* However the lines piped in, the statements they end, the flushes of the *)
(* log, the sweeps of its files and the saves of a form come to lie: no    *)
(* line of a shell is lost or run on another connection than it was typed  *)
(* for, the log's lines keep their order and its sweep the newest files,   *)
(* and a stored password has an entry (shell.ts:97-107, log.ts:64-114,     *)
(* connectionForm.ts:109-125).                                             *)
THEOREM NothingHandedOverIsLost == ProcessesSpec => []HandedOverSafe
<1>1. HandedOverInv => HandedOverSafe
  BY ShellIsSafe, LogIsSafe, FormIsSafe DEF HandedOverInv, HandedOverSafe
<1> QED BY <1>1, HandingOverInductive, PTL
=============================================================================
