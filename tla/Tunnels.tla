------------------------------ MODULE Tunnels ------------------------------
(***************************************************************************)
(* SSH tunnels shared by the sessions that need the same forward           *)
(* (daemon/src/tunnel.ts).  A Users member is one call of acquire and the  *)
(* handle it returns.  Code between two awaits is one action; the ssh      *)
(* child dies, and its exit event arrives, whenever they like.             *)
(***************************************************************************)
EXTENDS Naturals, FiniteSets

CONSTANTS Users,       \* calls of acquire, each with the handle it gets
          Forwards,    \* map keys: user@host:port->remote:port
          MaxTunnels   \* bound: ssh processes started

ASSUME TunnelsAssumption == MaxTunnels \in Nat /\ IsFiniteSet(Users) /\ Forwards # {}

Tunnels == 1..MaxTunnels
None == 0              \* no tunnel

VARIABLES
    topen,     \* topen[f]: TunnelManager.open
    topening,  \* topening[f]: the start the in-flight map holds
    child,     \* child[t]: what became of the ssh process
    tkey,      \* tkey[t]: Entry.key
    refs,      \* refs[t]: Entry.refs
    waits,     \* waits[t]: acquires awaiting the start of t
    handle     \* handle[u]: the tunnel u holds and has not released

tvars == <<topen, topening, child, tkey, refs, waits, handle>>

(* "killed": signalled, its exit event still to come.  "abandoned": its    *)
(* start gave up after ten seconds without killing it.                     *)
ChildStates == {"none", "starting", "up", "killed", "abandoned", "exited"}

TunnelsTypeOK ==
    /\ topen \in [Forwards -> Tunnels \cup {None}]
    /\ topening \in [Forwards -> Tunnels \cup {None}]
    /\ child \in [Tunnels -> ChildStates]
    /\ tkey \in [Tunnels -> Forwards]
    /\ refs \in [Tunnels -> Nat]
    /\ waits \in [Tunnels -> SUBSET Users]
    /\ handle \in [Users -> Tunnels \cup {None}]

TunnelsInit ==
    /\ topen = [f \in Forwards |-> None]
    /\ topening = [f \in Forwards |-> None]
    /\ child = [t \in Tunnels |-> "none"]
    /\ tkey = [t \in Tunnels |-> CHOOSE f \in Forwards : TRUE]
    /\ refs = [t \in Tunnels |-> 0]
    /\ waits = [t \in Tunnels |-> {}]
    /\ handle = [u \in Users |-> None]

Waiting(u) == \E t \in Tunnels : u \in waits[t]
Holders(t) == {u \in Users : handle[u] = t}

(* acquire finds an open tunnel: one more reference.                       *)
JoinOpen(u, f) ==
    /\ topen[f] # None
    /\ refs' = [refs EXCEPT ![topen[f]] = @ + 1]
    /\ handle' = [handle EXCEPT ![u] = topen[f]]
    /\ UNCHANGED <<topen, topening, child, tkey, waits>>

(* acquire finds a start in flight and awaits the same promise.            *)
JoinOpening(u, f) ==
    /\ topen[f] = None /\ topening[f] # None
    /\ waits' = [waits EXCEPT ![topening[f]] = @ \cup {u}]
    /\ UNCHANGED <<topen, topening, child, tkey, refs, handle>>

(* Mutant of NoTunnelYet: the in-flight map is not consulted.              *)
NoTunnelOpen(f) == topen[f] = None

NoTunnelYet(f) == topen[f] = None /\ topening[f] = None

(* acquire finds neither: start picks a port and spawns ssh.               *)
Spawn(u, f, t) ==
    /\ NoTunnelYet(f)
    /\ child[t] = "none" /\ \A s \in 1..(t - 1) : child[s] # "none"
    /\ tkey' = [tkey EXCEPT ![t] = f]
    /\ child' = [child EXCEPT ![t] = "starting"]
    /\ topening' = [topening EXCEPT ![f] = t]
    /\ waits' = [waits EXCEPT ![t] = {u}]
    /\ UNCHANGED <<topen, refs, handle>>

Acquire(u, f) == JoinOpen(u, f) \/ JoinOpening(u, f) \/ \E t \in Tunnels : Spawn(u, f, t)

(* The start of t is over, its promise leaves the in-flight map.           *)
StartOver(t) == topening' = [topening EXCEPT ![tkey[t]] = None]

(* waitForPort connects: the tunnel is recorded, then every awaiting       *)
(* acquire takes its reference, all before another event is handled.       *)
TunnelUp(t) ==
    /\ child[t] = "starting"
    /\ child' = [child EXCEPT ![t] = "up"]
    /\ topen' = [topen EXCEPT ![tkey[t]] = t]
    /\ StartOver(t)
    /\ refs' = [refs EXCEPT ![t] = Cardinality(waits[t])]
    /\ handle' = [u \in Users |-> IF u \in waits[t] THEN t ELSE handle[u]]
    /\ waits' = [waits EXCEPT ![t] = {}]
    /\ UNCHANGED tkey

(* waitForPort gives up: the awaiting acquires fail, ssh runs on.          *)
TunnelTimesOut(t) ==
    /\ child[t] = "starting"
    /\ child' = [child EXCEPT ![t] = "abandoned"]
    /\ StartOver(t)
    /\ waits' = [waits EXCEPT ![t] = {}]
    /\ UNCHANGED <<topen, tkey, refs, handle>>

(* The map after the entry of t's key is deleted, whoever it belongs to.   *)
Forgotten(t) == [topen EXCEPT ![tkey[t]] = None]

(* The exit event of a child; a start still in flight fails.               *)
ChildExits(t) ==
    /\ child[t] \in {"starting", "up", "killed", "abandoned"}
    /\ child' = [child EXCEPT ![t] = "exited"]
    /\ topen' = Forgotten(t)
    /\ IF child[t] = "starting" THEN StartOver(t) ELSE UNCHANGED topening
    /\ waits' = [waits EXCEPT ![t] = {}]
    /\ UNCHANGED <<tkey, refs, handle>>

Signalled(c) == IF c = "up" THEN "killed" ELSE c

LastReference(t) == refs[t] <= 1

(* A handle is closed, once: the last reference takes the entry of the key *)
(* out of the map and kills ssh.                                           *)
HandleClose(u) ==
    LET t == handle[u] IN
    /\ t # None
    /\ handle' = [handle EXCEPT ![u] = None]
    /\ refs' = [refs EXCEPT ![t] = @ - 1]
    /\ IF LastReference(t)
       THEN /\ topen' = Forgotten(t)
            /\ child' = [child EXCEPT ![t] = Signalled(@)]
       ELSE UNCHANGED <<topen, child>>
    /\ UNCHANGED <<topening, tkey, waits>>

(* Kill what the map holds and clear it; handles stay with their holders.  *)
CloseAll ==
    /\ child' = [t \in Tunnels |-> IF \E f \in Forwards : topen[f] = t
                                   THEN Signalled(child[t]) ELSE child[t]]
    /\ topen' = [f \in Forwards |-> None]
    /\ UNCHANGED <<topening, tkey, refs, waits, handle>>

TunnelsNext ==
    \/ \E u \in Users, f \in Forwards : handle[u] = None /\ ~Waiting(u) /\ Acquire(u, f)
    \/ \E t \in Tunnels : TunnelUp(t) \/ TunnelTimesOut(t) \/ ChildExits(t)
    \/ \E u \in Users : HandleClose(u)
    \/ CloseAll

TunnelsSpec == TunnelsInit /\ [][TunnelsNext]_tvars

(* The poll of waitForPort ends, one way or the other.                     *)
TunnelsFairSpec ==
    TunnelsSpec /\ \A t \in Tunnels : WF_tvars(TunnelUp(t) \/ TunnelTimesOut(t))

-----------------------------------------------------------------------------
(* Properties *)

(* The reference count of a tunnel is the number of handles not yet        *)
(* released, those of a tunnel that died or was closed from above included.*)
RefsCountHandles == \A t \in Tunnels : refs[t] = Cardinality(Holders(t))

(* acquire never joins a tunnel known to be dead: what the map holds for a *)
(* key is that key's tunnel, and it is up.                                 *)
MappedIsUp == \A f \in Forwards : topen[f] # None => child[topen[f]] = "up" /\ tkey[topen[f]] = f

(* No ssh process is left behind by a race (tunnel.ts:9-12): one that is   *)
(* starting is in flight with somebody awaiting it, one that is up has a   *)
(* handle whose release will kill it, in the map or not.                   *)
NoIdleTunnel ==
    \A t \in Tunnels :
        /\ child[t] = "starting" => waits[t] # {} /\ topening[tkey[t]] = t
        /\ child[t] = "up" => Holders(t) # {}

(* Releasing one handle never kills the tunnel under another.              *)
ReleaseSparesSharers ==
    [][\A u \in Users, t \in Tunnels :
          HandleClose(u) /\ child[t] = "up" /\ child'[t] # "up" => Holders(t)' = {}]_tvars

(* Racing connects share one start (tunnel.ts:9-12).                       *)
OneStartPerForward ==
    \A s, t \in Tunnels : child[s] = "starting" /\ child[t] = "starting" /\ tkey[s] = tkey[t] => s = t

(* acquire joins the tunnel that is there (tunnel.ts:59): one live ssh per *)
(* forward.                                                                *)
OneTunnelPerForward ==
    \A s, t \in Tunnels : child[s] = "up" /\ child[t] \in {"starting", "up"} /\ tkey[s] = tkey[t] => s = t

(* An acquire ends, with a tunnel or an error.                             *)
AcquireEnds == \A u \in Users : Waiting(u) ~> ~Waiting(u)

(* What a forward promises its sessions: it is counted, up while it is    *)
(* held, started once and gone when nobody holds it (tunnel.ts:56-140).    *)
TunnelsSound == RefsCountHandles /\ MappedIsUp /\ NoIdleTunnel /\ OneStartPerForward
=============================================================================
