------------------------------- MODULE Server -------------------------------
(***************************************************************************)
(* The socket server and the life of a query (daemon/src/server.ts), with  *)
(* the inline connections of the registry (daemon/src/connections.ts) and  *)
(* the interruption of a running query (daemon/src/providers/interrupt.ts).*)
(* Code between two awaits is one action.  The pool is seen from outside:  *)
(* a connection has a live session, numbered, or none.                     *)
(***************************************************************************)
EXTENDS Naturals, FiniteSets

CONSTANTS Clients,      \* sockets; one that has closed may be followed by another
          Workspaces,
          Requests,     \* queries; one result at most each
          Humans,       \* clients that greet as ui or tty, the others as agents
          Texts,        \* what an inline connection may be defined as
          Nothing,      \* no workspace, no definition, no client
          Failures,     \* error codes a driver reports by itself
          MaxSessions   \* bound: sessions in use at once

ASSUME ServerAssumption ==
    /\ Nothing \notin Clients \cup Workspaces \cup Texts
    /\ Clients \cap Workspaces = {}
    /\ MaxSessions \in Nat /\ Humans \subseteq Clients
    /\ Failures \subseteq {"cancelled", "timeout", "network", "query"}

VARIABLES
    greeted,   \* clients connected
    ws,        \* ws[c]: what its hello and useWorkspace said
    inline,    \* inline[s]: the connection the files of scope s define
    live,      \* live[k]: the open session of k, 0 for none
    req,       \* req[r]: where request r is
    running,   \* requests in their client's `running` map
    aborted,   \* requests whose AbortController has fired
    results,   \* stored results
    screen,    \* screen[c]: the result c was told to show last
    deserted,  \* scopes a client has left by useWorkspace (history)
    unheard    \* requests cancelled, or left, before they were registered (history)

conns == <<greeted, ws, inline, deserted>>
views == <<results, screen>>
vars == <<conns, live, views, req, running, aborted, unheard>>

Scopes == Clients \cup Workspaces
Codes == {"none", "ok", "cancelled", "timeout", "network", "query", "internal", "not_found"}
Stages == {"idle", "acquiring", "running", "saving", "saved", "aborting", "closing", "done"}
Unsent == [stage |-> "idle", by |-> Nothing, left |-> FALSE, key |-> Nothing, on |-> 0,
           why |-> "none", code |-> "none"]

At(r, stage) == req[r].stage = stage

TypeOK ==
    /\ greeted \subseteq Clients
    /\ ws \in [Clients -> Workspaces \cup {Nothing}]
    /\ inline \in [Scopes -> Texts \cup {Nothing}]
    /\ live \in [Scopes -> 0..MaxSessions]
    /\ req \in [Requests -> [stage : Stages, by : Clients \cup {Nothing}, left : BOOLEAN,
                             key : Scopes \cup {Nothing}, on : 0..MaxSessions, why : Codes, code : Codes]]
    /\ running \subseteq Requests /\ aborted \subseteq Requests
    /\ aborted \subseteq running /\ \A r \in Requests : At(r, "running") => req[r].on # 0
    /\ results \subseteq Requests /\ unheard \subseteq Requests
    /\ screen \in [Clients -> Requests \cup {Nothing}]
    /\ deserted \subseteq Scopes

Init ==
    /\ greeted = {}
    /\ ws = [c \in Clients |-> Nothing]
    /\ inline = [s \in Scopes |-> Nothing]
    /\ live = [k \in Scopes |-> 0]
    /\ req = [r \in Requests |-> Unsent]
    /\ running = {} /\ aborted = {} /\ results = {} /\ unheard = {}
    /\ screen = [c \in Clients |-> Nothing]
    /\ deserted = {}

Greeted(c) == c \in greeted
inlineScope(c) == IF ws[c] = Nothing THEN c ELSE ws[c]
Of(c) == {r \in Requests : req[r].by = c /\ ~req[r].left}

(* display: to whoever has a screen, if the result is still stored.        *)
Display(shown) ==
    screen' = [c \in Clients |-> IF Greeted(c) /\ c \in Humans /\ shown \in results
                                 THEN shown ELSE screen[c]]

-----------------------------------------------------------------------------
(* Clients come, say who they are, and go.                                 *)

(* accept and hello, which is the first thing a client sends: what comes   *)
(* before it is refused and changes nothing.                               *)
Hello(c, w) ==
    /\ ~Greeted(c)
    /\ greeted' = greeted \cup {c}
    /\ ws' = [ws EXCEPT ![c] = w]
    /\ UNCHANGED <<inline, deserted, live, views, req, running, aborted, unheard>>

(* Nothing is released: the scope it leaves keeps its connections.         *)
UseWorkspace(c, w) ==
    /\ Greeted(c) /\ ws[c] # w
    /\ ws' = [ws EXCEPT ![c] = w]
    /\ deserted' = IF inline[inlineScope(c)] = Nothing THEN deserted
                   ELSE deserted \cup {inlineScope(c)}
    /\ UNCHANGED <<greeted, inline, live, views, req, running, aborted, unheard>>

Shares(d, s) == Greeted(d) /\ inlineScope(d) = s

(* Mutant of AbortAll: the queries of a client that leaves go on.          *)
AbortNone(c) == aborted' = aborted

AbortAll(c) == aborted' = aborted \cup (running \cap Of(c))

(* Mutant of releaseScope: the sessions go, the connections stay.          *)
releaseSessions(s) == /\ live' = [live EXCEPT ![s] = 0]
                      /\ deserted' = deserted \ {s} /\ UNCHANGED inline

(* releaseScope, and the sessions of what it returns.                      *)
releaseScope(s) ==
    /\ inline' = [inline EXCEPT ![s] = Nothing]
    /\ live' = IF inline[s] = Nothing THEN live ELSE [live EXCEPT ![s] = 0]
    /\ deserted' = deserted \ {s}

(* The socket closes.  The last client of a scope takes its connections    *)
(* and their sessions with it; a session being opened is in no map.        *)
Drop(c) ==
    /\ Greeted(c)
    /\ greeted' = greeted \ {c}
    /\ ws' = [ws EXCEPT ![c] = Nothing]
    /\ screen' = [screen EXCEPT ![c] = Nothing]
    /\ req' = [r \in Requests |-> [req[r] EXCEPT !.left = @ \/ r \in Of(c)]]
    /\ AbortAll(c)
    /\ unheard' = unheard \cup {r \in Of(c) : At(r, "acquiring")}
    /\ LET s == inlineScope(c)
       IN  IF \E d \in Clients \ {c} : Shares(d, s)
           THEN UNCHANGED <<inline, live, deserted>>
           ELSE releaseScope(s)
    /\ UNCHANGED <<results, running>>

-----------------------------------------------------------------------------
(* Requests served within one step.                                        *)

(* define: a definition the registry refuses changes nothing.  The session *)
(* is dropped when the definition is not the one there was.                *)
define(s, text) ==
    /\ inline' = [inline EXCEPT ![s] = text]
    /\ live' = IF inline[s] = text THEN live ELSE [live EXCEPT ![s] = 0]

(* defineConnection.                                                       *)
Define(c, text, withPassword) ==
    /\ Greeted(c) /\ (withPassword => c \in Humans)
    /\ define(inlineScope(c), text)
    /\ UNCHANGED <<greeted, ws, deserted, views, req, running, aborted, unheard>>

(* resolve, of the name the files of the client's scope define.            *)
Resolves(c) == inline[inlineScope(c)] # Nothing

SetSecret(c) ==
    /\ Greeted(c) /\ c \in Humans /\ Resolves(c)
    /\ live' = [live EXCEPT ![inlineScope(c)] = 0]
    /\ UNCHANGED <<conns, views, req, running, aborted, unheard>>

(* reloadConnections, and updateSettings of a human.                       *)
Reload(c) ==
    /\ Greeted(c)
    /\ live' = [k \in Scopes |-> 0]
    /\ UNCHANGED <<conns, views, req, running, aborted, unheard>>

DeleteResult(c, r) ==
    /\ Greeted(c) /\ r \in results
    /\ results' = results \ {r}
    /\ UNCHANGED <<conns, live, screen, req, running, aborted, unheard>>

ShowResult(c, r) ==
    /\ Greeted(c) /\ r \in results
    /\ Display(r)
    /\ UNCHANGED <<conns, live, results, req, running, aborted, unheard>>

(* cancel looks the target up in the running map of the client itself.     *)
Cancel(c, r) ==
    /\ Greeted(c) /\ r \in Of(c)
    /\ aborted' = IF r \in running THEN aborted \cup {r} ELSE aborted
    /\ unheard' = IF r \in running THEN unheard ELSE unheard \cup {r}
    /\ UNCHANGED <<conns, live, views, req, running>>

-----------------------------------------------------------------------------
(* runQuery, one action per stretch between two awaits.                    *)

(* The reply with its code; what a request holds in memory is gone.        *)
Replied(r, code) ==
    /\ req' = [req EXCEPT ![r] = [Unsent EXCEPT !.stage = "done", !.code = code]]
    /\ aborted' = aborted \ {r} /\ unheard' = unheard \ {r}

(* The reply comes after `finally`.                                        *)
Ended(r, code) == Replied(r, code) /\ running' = running \ {r}

Start(c, r) ==
    /\ Greeted(c) /\ At(r, "idle")
    /\ req' = [req EXCEPT ![r] =
                  IF Resolves(c)
                  THEN [Unsent EXCEPT !.stage = "acquiring", !.by = c, !.key = inlineScope(c)]
                  ELSE [Unsent EXCEPT !.stage = "done", !.code = "not_found"]]
    /\ UNCHANGED <<conns, live, views, running, aborted, unheard>>

(* acquire throws before anything is recorded.                             *)
AcquireFails(r) ==
    /\ At(r, "acquiring")
    /\ Ended(r, "network")
    /\ UNCHANGED <<conns, live, views>>

(* A number no session in use has.                                         *)
Unused == {n \in 1..MaxSessions : /\ \A k \in Scopes : live[k] # n
                                  /\ \A r \in Requests : req[r].on # n}

(* acquire resolves: with the open session, or with one it opened.         *)
Acquire(k) ==
    \/ live[k] # 0 /\ UNCHANGED live
    \/ /\ live[k] = 0 /\ Unused # {}
       /\ live' = [live EXCEPT ![k] = CHOOSE n \in Unused : TRUE]

(* browse and validate: nothing of them is kept but the session.           *)
Browse(c) ==
    /\ Greeted(c) /\ Resolves(c) /\ live[inlineScope(c)] = 0
    /\ Acquire(inlineScope(c))
    /\ UNCHANGED <<conns, views, req, running, aborted, unheard>>

(* The session is there: the query is registered for cancel, its writer    *)
(* begins and the statement is sent.                                       *)
Acquired(r) ==
    /\ At(r, "acquiring")
    /\ Acquire(req[r].key)
    /\ req' = [req EXCEPT ![r].stage = "running", ![r].on = live'[req[r].key]]
    /\ running' = running \cup {r}
    /\ UNCHANGED <<conns, views, aborted, unheard>>

(* store.begin throws: it comes after the registration and before the try. *)
BeginFails(r) ==
    /\ At(r, "acquiring") /\ live[req[r].key] # 0
    /\ Replied(r, "internal")
    /\ running' = running \cup {r}
    /\ UNCHANGED <<conns, live, views>>

(* armInterrupt: the first reason wins, and interrupts the stream.         *)
Fires(r, why) == req[r].why = "none" /\ req' = [req EXCEPT ![r].why = why]

(* Mutant of Hears: nothing listens to the signal.                         *)
HearsNothing(r) == FALSE

Hears(r) == r \in aborted

Interrupted(r) ==
    /\ At(r, "running")
    /\ \/ Fires(r, "timeout")
       \/ Hears(r) /\ Fires(r, "cancelled")
    /\ UNCHANGED <<conns, live, views, running, aborted, unheard>>

(* The stream throws: what interrupted it, or an error of its own.         *)
StreamFails(r, code) ==
    /\ At(r, "running")
    /\ IF req[r].why # "none" THEN code = req[r].why ELSE code \in Failures
    /\ req' = [req EXCEPT ![r].stage = "aborting", ![r].why = code]
    /\ UNCHANGED <<conns, live, views, running, aborted, unheard>>

StreamEnds(r) ==
    /\ At(r, "running")
    /\ req' = [req EXCEPT ![r].stage = "saving"]
    /\ UNCHANGED <<conns, live, views, running, aborted, unheard>>

(* writer.finish publishes and tells everyone, or throws.                  *)
Saved(r) ==
    /\ At(r, "saving")
    /\ req' = [req EXCEPT ![r].stage = "saved"]
    /\ results' = results \cup {r}
    /\ UNCHANGED <<conns, live, screen, running, aborted, unheard>>

SaveFails(r) ==
    /\ At(r, "saving")
    /\ req' = [req EXCEPT ![r].stage = "aborting", ![r].why = "internal"]
    /\ UNCHANGED <<conns, live, views, running, aborted, unheard>>

(* showAgentResults: an agent's result, if it is still there.              *)
Shown(r) == IF req[r].by \notin Humans THEN r ELSE Nothing

Finished(r) ==
    /\ At(r, "saved")
    /\ Display(Shown(r))
    /\ Ended(r, "ok")
    /\ UNCHANGED <<conns, live, results>>

(* Mutant of Broken: a query that timed out leaves its session open.       *)
BrokenByCancel(code) == code \in {"cancelled", "network"}

Broken(code) == code \in {"cancelled", "timeout", "network"}

(* Mutant of CodeOf: what the driver says.                                 *)
CodeOfDriver(r) == req[r].why

CodeOf(r) == IF r \in aborted THEN "cancelled" ELSE req[r].why

(* After writer.abort: the signal, looked at now, decides on the code, and *)
(* the session the connection has by now is dropped.                       *)
Aborted(r) ==
    /\ At(r, "aborting")
    /\ LET code == CodeOf(r)
       IN  \/ /\ Broken(code)
              /\ live' = [live EXCEPT ![req[r].key] = 0]
              /\ req' = [req EXCEPT ![r].stage = "closing", ![r].why = code]
              /\ UNCHANGED <<running, aborted, unheard>>
           \/ /\ ~Broken(code)
              /\ Ended(r, code)
              /\ UNCHANGED live
    /\ UNCHANGED <<conns, views>>

Closed(r) ==
    /\ At(r, "closing")
    /\ Ended(r, req[r].why)
    /\ UNCHANGED <<conns, live, views>>

-----------------------------------------------------------------------------
Connections ==
    \E c \in Clients :
        \/ Drop(c) \/ Browse(c) \/ SetSecret(c) \/ Reload(c)
        \/ \E w \in Workspaces \cup {Nothing} : Hello(c, w)
        \/ \E w \in Workspaces \cup {Nothing} : UseWorkspace(c, w)
        \/ \E text \in Texts, withPassword \in BOOLEAN : Define(c, text, withPassword)
        \/ \E r \in Requests :
              Start(c, r) \/ Cancel(c, r) \/ DeleteResult(c, r) \/ ShowResult(c, r)

Serving(r) ==
    \/ Acquired(r) \/ AcquireFails(r) \/ BeginFails(r) \/ Interrupted(r) \/ StreamEnds(r)
    \/ Saved(r) \/ SaveFails(r) \/ Finished(r) \/ Aborted(r) \/ Closed(r)
    \/ \E code \in Failures \cup {"cancelled", "timeout"} : StreamFails(r, code)

Next == Connections \/ \E r \in Requests : Serving(r)

Spec == Init /\ [][Next]_vars

(* A stop that is heard interrupts the stream, which ends; what follows an *)
(* await of the store or of a close runs.  Neither a statement nor a       *)
(* connect has to end, and a query need not have a timeout.                *)
Unwinds(r) ==
    \/ (Hears(r) /\ Interrupted(r)) \/ Saved(r) \/ SaveFails(r) \/ Finished(r) \/ Aborted(r) \/ Closed(r)
    \/ /\ req[r].why # "none"
       /\ \/ StreamEnds(r)
          \/ \E code \in {"cancelled", "timeout"} : StreamFails(r, code)

FairSpec == Spec /\ \A r \in Requests : WF_vars(Unwinds(r))

-----------------------------------------------------------------------------
(* The connections a scope's files define, and their sessions, are there   *)
(* only while a client of that scope is, or when one has left it for       *)
(* another workspace (server.ts:165-175, 251-267).                         *)
ScopesHaveOwners ==
    \A s \in Scopes : inline[s] # Nothing =>
        s \in deserted \/ \E c \in Clients : Greeted(c) /\ inlineScope(c) = s

(* Nobody loses a connection to the departure of somebody else: a scope is *)
(* released only when no greeted client draws from it (server.ts:165-175). *)
SharedScopesKept ==
    [][\A s \in Scopes : inline[s] # Nothing /\ inline'[s] = Nothing =>
           ~\E c \in Clients : c \in greeted' /\ inlineScope(c) = s]_vars

(* A query that runs on for a client that has left, or that was told to    *)
(* stop, was not registered yet when that happened (server.ts:164, 300,    *)
(* 392-404).                                                               *)
NobodyRunsUnheard ==
    \A r \in Requests :
        At(r, "running") /\ r \notin aborted /\ req[r].left => r \in unheard

(* The running map holds what is running; what stays in it after the reply *)
(* is a query whose writer could not begin (server.ts:403-412, 466-468).   *)
RunningIsRunning ==
    \A r \in running : At(r, "done") => req[r].code = "internal"

(* A caller that gets through to a connection after a query on it was      *)
(* answered with cancelled, timeout or network never gets that query's     *)
(* session (server.ts:459-464).                                            *)
BrokenSessionsGo ==
    [][\A r \in Requests :
           /\ At(r, "aborting") /\ req'[r].stage # "aborting"
           /\ LET spoilt == {"cancelled", "timeout", "network"}
              IN  req'[r].why \in spoilt \/ req'[r].code \in spoilt
           => \A k \in Scopes : live'[k] # req[r].on]_vars

(* A query somebody cancelled before it was answered is answered with      *)
(* cancelled, whatever the driver or the timer said first; and one nobody  *)
(* cancelled only when its own stream ended so (server.ts:450-458).        *)
FaithfulCodes ==
    [][\A r \in Requests : At(r, "aborting") /\ req'[r].stage # "aborting" =>
           LET code == IF req'[r].stage = "done" THEN req'[r].code ELSE req'[r].why
           IN  code = "cancelled" <=> r \in aborted \/ req[r].why = "cancelled"]_vars

(* When an agent's query is answered, everybody with a screen has its      *)
(* result on it, unless it was deleted in between (server.ts:432-438).     *)
AgentWorkIsSeen ==
    [][\A r \in Requests : At(r, "saved") /\ req'[r].stage = "done" /\ r \in results
               /\ req[r].by \notin Humans =>
               \A c \in Clients : Greeted(c) /\ c \in Humans => screen'[c] = r]_vars

(* A query that was cancelled, or whose client left, once it was           *)
(* registered, is answered: its writer and its session do not stay.        *)
CancelEnds == \A r \in Requests : r \in aborted ~> r \notin aborted
=============================================================================
