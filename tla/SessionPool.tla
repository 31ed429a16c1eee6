---------------------------- MODULE SessionPool ----------------------------
(***************************************************************************)
(* The session pool (daemon/src/sessions.ts): one live session per         *)
(* connection, shared by every caller, over a tunnel that connections may  *)
(* share.  Users are the attempts: one run of start, and the session it    *)
(* leads to.  Code between two awaits is one action.                       *)
(***************************************************************************)
EXTENDS Tunnels

CONSTANTS Keys,        \* pool keys: secretScope/name
          ForwardOf,   \* ForwardOf[k]: the tunnel k goes through, or Direct
          Direct,
          NoAttempt,
          Callers,     \* requests that use a session
          Reloads,     \* calls of invalidateAll
          MaxEdits     \* bound: edits of one connection

ASSUME PoolAssumption ==
    /\ ForwardOf \in [Keys -> Forwards \cup {Direct}] /\ Direct \notin Forwards
    /\ NoAttempt \notin Users /\ MaxEdits \in Nat /\ Keys # {}

VARIABLES
    def,       \* def[k]: version of the registered definition of k
    open,      \* open[k]: SessionPool.open
    opening,   \* opening[k]: SessionPool.opening
    phase,     \* phase[a]: how far attempt a has got
    akey,      \* akey[a], aver[a]: the key and the definition it opens
    aver,
    pc,        \* pc[c]: what caller c is doing
    on,        \* on[c]: the attempt c awaits or the session it uses
    cver,      \* cver[c]: the definition c was resolved against
    reload     \* reload[r]: the sessions a running invalidateAll awaits

pvars == <<def, open, opening, phase, akey, aver, pc, on, cver, reload>>
vars == <<tvars, pvars>>

Phases == {"none", "tunnel", "connect", "live", "closing", "closed", "failed"}
NotRunning == [busy |-> FALSE, left |-> {}]

TypeOK ==
    /\ TunnelsTypeOK
    /\ def \in [Keys -> 0..MaxEdits]
    /\ open \in [Keys -> Users \cup {NoAttempt}]
    /\ opening \in [Keys -> Users \cup {NoAttempt}]
    /\ phase \in [Users -> Phases]
    /\ akey \in [Users -> Keys]
    /\ aver \in [Users -> 0..MaxEdits]
    /\ pc \in [Callers -> {"idle", "waiting", "using"}]
    /\ on \in [Callers -> Users \cup {NoAttempt}]
    /\ cver \in [Callers -> 0..MaxEdits]
    /\ \A c \in Callers : pc[c] = "idle" <=> on[c] = NoAttempt
    /\ reload \in [Reloads -> [busy : BOOLEAN, left : SUBSET Users]]

Init ==
    /\ TunnelsInit
    /\ def = [k \in Keys |-> 0]
    /\ open = [k \in Keys |-> NoAttempt]
    /\ opening = [k \in Keys |-> NoAttempt]
    /\ phase = [a \in Users |-> "none"]
    /\ akey = [a \in Users |-> CHOOSE k \in Keys : TRUE]
    /\ aver = [a \in Users |-> 0]
    /\ pc = [c \in Callers |-> "idle"]
    /\ on = [c \in Callers |-> NoAttempt]
    /\ cver = [c \in Callers |-> 0]
    /\ reload = [r \in Reloads |-> NotRunning]

(* A caller's name resolves to the current definition, and it gets to pc p *)
(* with attempt a.                                                         *)
Enter(c, k, p, a) ==
    /\ pc[c] = "idle"
    /\ pc' = [pc EXCEPT ![c] = p]
    /\ on' = [on EXCEPT ![c] = a]
    /\ cver' = [cver EXCEPT ![c] = def[k]]

(* The attempts in as end: those waiting for one get to pc p.              *)
WakeWaiters(as, p) ==
    /\ pc' = [c \in Callers |-> IF pc[c] = "waiting" /\ on[c] \in as THEN p ELSE pc[c]]
    /\ on' = [c \in Callers |-> IF pc[c] = "waiting" /\ on[c] \in as /\ p = "idle"
                                THEN NoAttempt ELSE on[c]]
    /\ UNCHANGED cver

(* Mutant of OpeningOver: the in-flight map keeps attempts that are over.  *)
OpeningNeverOver(as) == UNCHANGED opening

OpeningOver(as) ==
    opening' = [k \in Keys |-> IF opening[k] \in as THEN NoAttempt ELSE opening[k]]

-----------------------------------------------------------------------------
(* acquire *)

AcquireOpen(c, k) ==
    /\ open[k] # NoAttempt
    /\ Enter(c, k, "using", open[k])
    /\ UNCHANGED <<tvars, def, open, opening, phase, akey, aver, reload>>

AcquireJoin(c, k) ==
    /\ open[k] = NoAttempt /\ opening[k] # NoAttempt
    /\ Enter(c, k, "waiting", opening[k])
    /\ UNCHANGED <<tvars, def, open, opening, phase, akey, aver, reload>>

(* Mutant of Unopened: the in-flight map is not consulted.                 *)
UnopenedOrOpening(k) == open[k] = NoAttempt

Unopened(k) == open[k] = NoAttempt /\ opening[k] = NoAttempt

(* start: through a tunnel it goes straight on to connecting when the      *)
(* tunnel is already up.                                                   *)
AcquireStart(c, k, a) ==
    /\ Unopened(k)
    /\ phase[a] = "none"
    /\ Enter(c, k, "waiting", a)
    /\ opening' = [opening EXCEPT ![k] = a]
    /\ akey' = [akey EXCEPT ![a] = k]
    /\ aver' = [aver EXCEPT ![a] = def[k]]
    /\ \/ /\ ForwardOf[k] = Direct
          /\ UNCHANGED tvars
          /\ phase' = [phase EXCEPT ![a] = "connect"]
       \/ /\ ForwardOf[k] # Direct
          /\ Acquire(a, ForwardOf[k])
          /\ phase' = [phase EXCEPT ![a] = IF handle'[a] # None THEN "connect" ELSE "tunnel"]
    /\ UNCHANGED <<def, open, reload>>

-----------------------------------------------------------------------------
(* start, after each await *)

ForwardReady(t) ==
    /\ TunnelUp(t)
    /\ phase' = [a \in Users |-> IF a \in waits[t] THEN "connect" ELSE phase[a]]
    /\ UNCHANGED <<def, open, opening, akey, aver, pc, on, cver, reload>>

(* The acquire of a tunnel throws in every attempt that awaits it.  An ssh *)
(* that nobody awaits just goes.                                           *)
ForwardLost(t) ==
    /\ TunnelTimesOut(t) \/ ChildExits(t)
    /\ phase' = [a \in Users |-> IF a \in waits[t] THEN "failed" ELSE phase[a]]
    /\ OpeningOver(waits[t])
    /\ WakeWaiters(waits[t], "idle")
    /\ UNCHANGED <<def, open, akey, aver, reload>>

(* A connect can only succeed through a forward that still carried it.     *)
Connects(a) ==
    /\ phase[a] = "connect"
    /\ handle[a] # None => child[handle[a]] \in {"up", "killed"}
    /\ phase' = [phase EXCEPT ![a] = "live"]
    /\ open' = [open EXCEPT ![akey[a]] = a]
    /\ OpeningOver({a})
    /\ WakeWaiters({a}, "using")
    /\ UNCHANGED <<tvars, def, akey, aver, reload>>

(* Mutant of Release: the tunnel is never released.                        *)
ReleaseNever(a) == UNCHANGED tvars

Release(a) == IF handle[a] # None THEN HandleClose(a) ELSE UNCHANGED tvars

ConnectFails(a) ==
    /\ phase[a] = "connect"
    /\ phase' = [phase EXCEPT ![a] = "failed"]
    /\ Release(a)
    /\ OpeningOver({a})
    /\ WakeWaiters({a}, "idle")
    /\ UNCHANGED <<def, open, akey, aver, reload>>

-----------------------------------------------------------------------------
(* invalidate, up to the await of session.close() and after it             *)

(* close of every key in ks: what is open leaves the map and starts to     *)
(* close.  A key with nothing open is left alone, opening or not.          *)
StartClosing(ks) ==
    /\ open' = [k \in Keys |-> IF k \in ks THEN NoAttempt ELSE open[k]]
    /\ phase' = [a \in Users |-> IF \E k \in ks : open[k] = a THEN "closing" ELSE phase[a]]

CloseDone(a) ==
    /\ phase[a] = "closing"
    /\ phase' = [phase EXCEPT ![a] = "closed"]
    /\ Release(a)
    /\ reload' = [r \in Reloads |-> [reload[r] EXCEPT !.left = @ \ {a}]]
    /\ UNCHANGED <<def, open, opening, akey, aver, pc, on, cver>>

Leave(c) ==
    /\ pc[c] = "using"
    /\ pc' = [pc EXCEPT ![c] = "idle"]
    /\ on' = [on EXCEPT ![c] = NoAttempt]
    /\ UNCHANGED cver

UseDone(c) ==
    /\ Leave(c)
    /\ UNCHANGED <<tvars, def, open, opening, phase, akey, aver, reload>>

(* The query was cancelled, timed out or lost its connection: runQuery     *)
(* invalidates the connection it ran on.                                   *)
UseFails(c) ==
    /\ Leave(c)
    /\ StartClosing({akey[on[c]]})
    /\ UNCHANGED <<tvars, def, opening, akey, aver, reload>>

(* defineConnection with something changed, and setSecret.                 *)
Edit(k) ==
    /\ def[k] < MaxEdits
    /\ def' = [def EXCEPT ![k] = @ + 1]
    /\ StartClosing({k})
    /\ UNCHANGED <<tvars, opening, akey, aver, pc, on, cver, reload>>

(* Server.reload: the files are read again and ks have changed; then       *)
(* invalidateAll starts closing everything that is open and awaits it.     *)
Reread(ks) ==
    /\ \A k \in ks : def[k] < MaxEdits
    /\ def' = [k \in Keys |-> IF k \in ks THEN def[k] + 1 ELSE def[k]]

InPool == {open[k] : k \in Keys} \ {NoAttempt}

ReloadStart(r, ks) ==
    /\ ~reload[r].busy /\ InPool # {}
    /\ Reread(ks)
    /\ reload' = [reload EXCEPT ![r] = [busy |-> TRUE, left |-> InPool]]
    /\ StartClosing(Keys)
    /\ UNCHANGED <<tvars, opening, akey, aver, pc, on, cver>>

(* With nothing open there is nothing to await.                            *)
ReloadAtOnce(r, ks) ==
    /\ ~reload[r].busy /\ InPool = {}
    /\ Reread(ks)
    /\ CloseAll
    /\ UNCHANGED <<open, opening, phase, akey, aver, pc, on, cver, reload>>

(* Every close is over: tunnels.closeAll().                                *)
ReloadEnd(r) ==
    /\ reload[r].busy /\ reload[r].left = {}
    /\ reload' = [reload EXCEPT ![r] = NotRunning]
    /\ CloseAll
    /\ UNCHANGED <<def, open, opening, phase, akey, aver, pc, on, cver>>

Next ==
    \/ \E c \in Callers, k \in Keys :
          \/ AcquireOpen(c, k) \/ AcquireJoin(c, k)
          \/ \E a \in Users : AcquireStart(c, k, a)
    \/ \E t \in Tunnels : ForwardReady(t) \/ ForwardLost(t)
    \/ \E a \in Users : Connects(a) \/ ConnectFails(a) \/ CloseDone(a)
    \/ \E c \in Callers : UseDone(c) \/ UseFails(c)
    \/ \E k \in Keys : Edit(k)
    \/ \E r \in Reloads : ReloadEnd(r) \/ \E ks \in SUBSET Keys : ReloadStart(r, ks) \/ ReloadAtOnce(r, ks)

Spec == Init /\ [][Next]_vars

(* A tunnel start, a connect and a session close end, one way or another,  *)
(* and a reload goes on when what it awaits is done.  Queries, edits and   *)
(* deaths of an ssh that is up owe nobody anything.                        *)
FairSpec ==
    /\ Spec
    /\ \A t \in Tunnels : WF_vars(child[t] = "starting" /\ (ForwardReady(t) \/ ForwardLost(t)))
    /\ \A a \in Users : WF_vars(Connects(a) \/ ConnectFails(a)) /\ WF_vars(CloseDone(a))
    /\ \A r \in Reloads : WF_vars(ReloadEnd(r))

-----------------------------------------------------------------------------
(* Properties *)

(* No orphaned session (sessions.ts:11-13): a live one is the one its key  *)
(* has in the pool, one being opened is the one the in-flight map has.     *)
NoOrphanSession ==
    \A a \in Users :
        /\ phase[a] = "live" => open[akey[a]] = a
        /\ phase[a] \in {"tunnel", "connect"} => opening[akey[a]] = a

(* A session holds its tunnel from before it connects until after it has   *)
(* closed, and an attempt that is over holds none.                         *)
TunnelOutlivesSession ==
    \A a \in Users :
        /\ handle[a] # None => phase[a] \in {"connect", "live", "closing"}
        /\ phase[a] \in {"connect", "live", "closing"} /\ ForwardOf[akey[a]] # Direct
              => handle[a] # None

(* Whoever waits, waits for an attempt that is still under way, so that    *)
(* its end will wake them.                                                 *)
WaitersAwaitSomething ==
    \A c \in Callers :
        /\ pc[c] = "waiting" => phase[on[c]] \in {"tunnel", "connect"}
        /\ pc[c] = "using" => phase[on[c]] \in {"live", "closing", "closed"}

(* Every acquire ends, with a session or an error.                         *)
CallersServed == \A c \in Callers : pc[c] = "waiting" ~> pc[c] # "waiting"

(* invalidateAll ends, whatever opens meanwhile.                           *)
ReloadsEnd == \A r \in Reloads : reload[r].busy ~> ~reload[r].busy

(* Nobody waits for ever on the pool: not for a session, nor a reload, nor *)
(* a tunnel (sessions.ts:64-104).                                          *)
PoolSettles == CallersServed /\ ReloadsEnd /\ AcquireEnds

(* Editing the host and running again must not keep talking to the old one *)
(* (server.ts:289-290): a caller's session was opened from a definition at *)
(* least as recent as the one its name resolved to.                        *)
RunsOnWhatWasResolved ==
    \A c \in Callers : pc[c] = "using" => aver[on[c]] >= cver[c]

(* What the pool hands out is reachable: the daemon has not killed the     *)
(* tunnel under an open session.                                           *)
OpenSessionsReachable ==
    \A k \in Keys :
        open[k] # NoAttempt /\ handle[open[k]] # None => child[handle[open[k]]] # "killed"
=============================================================================
