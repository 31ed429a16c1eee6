------------------------- MODULE SessionPoolProofs -------------------------
(***************************************************************************)
(* Proofs about SessionPool and the Tunnels it composes, for any           *)
(* connections, callers, reloads, edits, forwards and ssh processes.       *)
(*                                                                         *)
(* TInv says what the tunnel properties rest on: an acquire that waits     *)
(* holds nothing and waits for one start only, a start in flight has a     *)
(* starting child, and no handle points at a child that never came up.     *)
(* Its lemmas are stated per operation, so that the pool, which performs   *)
(* the same operations, can use them.                                      *)
(*                                                                         *)
(* PInv pairs each map of the pool with the phase of what it holds, in     *)
(* both directions: an entry of open is live, an entry of opening is on    *)
(* its way, and every attempt that is live or on its way is the entry of   *)
(* its key.                                                                *)
(***************************************************************************)
EXTENDS SessionPool, FiniteSetTheorems, TLAPS

WaitInv ==
    /\ \A u \in Users, t \in Tunnels : u \in waits[t] => child[t] = "starting" /\ handle[u] = None
    /\ \A u \in Users, s, t \in Tunnels : u \in waits[s] /\ u \in waits[t] => s = t

StartInv ==
    \A f \in Forwards :
        topening[f] # None => child[topening[f]] = "starting" /\ tkey[topening[f]] = f

HandleInv ==
    \A u \in Users : handle[u] # None => child[handle[u]] \in {"up", "killed", "exited"}

TInv ==
    /\ TunnelsTypeOK /\ RefsCountHandles /\ MappedIsUp /\ NoIdleTunnel
    /\ WaitInv /\ StartInv /\ HandleInv

-----------------------------------------------------------------------------
LEMMA HoldersFinite == ASSUME NEW t PROVE IsFiniteSet(Holders(t))
BY TunnelsAssumption, FS_Subset DEF Holders

LEMMA TunnelsInitInv == TunnelsInit => TInv
<1> SUFFICES ASSUME TunnelsInit PROVE TInv
  OBVIOUS
<1> USE TunnelsAssumption DEF TunnelsInit, None
<1>1. TunnelsTypeOK
  BY DEF TunnelsTypeOK, ChildStates
<1>2. \A t \in Tunnels : Holders(t) = {}
  BY DEF Holders, Tunnels
<1>3. RefsCountHandles
  BY <1>2, FS_EmptySet DEF RefsCountHandles
<1> QED BY <1>1, <1>3 DEF TInv, MappedIsUp, NoIdleTunnel, WaitInv, StartInv, HandleInv

(* One more handle on a tunnel the map holds, hence on one that is up.     *)
LEMMA JoinOpenInv ==
    ASSUME TInv, NEW u \in Users, NEW f \in Forwards, JoinOpen(u, f),
           handle[u] = None, \A t \in Tunnels : u \notin waits[t]
    PROVE  TInv'
<1> USE DEF TInv, JoinOpen
<1> DEFINE t == topen[f]
<1>1. t \in Tunnels /\ child[t] = "up"
  BY DEF TunnelsTypeOK, MappedIsUp
<1>2. TunnelsTypeOK'
  BY <1>1 DEF TunnelsTypeOK
<1>3. /\ Holders(t)' = Holders(t) \cup {u} /\ u \notin Holders(t)
      /\ \A s \in Tunnels : s # t => Holders(s)' = Holders(s)
  BY <1>1 DEF Holders, TunnelsTypeOK, Tunnels, None
<1>4. RefsCountHandles'
  <2>0. Cardinality(Holders(t) \cup {u}) = Cardinality(Holders(t)) + 1
    BY <1>3, HoldersFinite, FS_AddElement
  <2>1. refs'[t] = Cardinality(Holders(t)')
    BY <1>1, <1>3, <2>0 DEF RefsCountHandles, TunnelsTypeOK
  <2>2. \A s \in Tunnels : s # t => refs'[s] = Cardinality(Holders(s)')
    BY <1>1, <1>3 DEF RefsCountHandles, TunnelsTypeOK
  <2> QED BY <2>1, <2>2 DEF RefsCountHandles
<1>5. NoIdleTunnel'
  BY <1>3 DEF NoIdleTunnel
<1>6. MappedIsUp' /\ StartInv'
  BY DEF MappedIsUp, StartInv
<1>7. WaitInv'
  BY DEF WaitInv, TunnelsTypeOK
<1>8. HandleInv'
  BY <1>1 DEF HandleInv, TunnelsTypeOK
<1> QED BY <1>2, <1>4, <1>5, <1>6, <1>7, <1>8

LEMMA JoinOpeningInv ==
    ASSUME TInv, NEW u \in Users, NEW f \in Forwards, JoinOpening(u, f),
           handle[u] = None, \A t \in Tunnels : u \notin waits[t]
    PROVE  TInv'
<1> USE DEF TInv, JoinOpening
<1>1. topening[f] \in Tunnels /\ child[topening[f]] = "starting"
  BY DEF TunnelsTypeOK, StartInv
<1>2. TunnelsTypeOK'
  BY <1>1 DEF TunnelsTypeOK
<1>3. \A t : Holders(t)' = Holders(t)
  BY DEF Holders
<1>4. RefsCountHandles'
  BY <1>3 DEF RefsCountHandles
<1>5. NoIdleTunnel'
  BY <1>3 DEF NoIdleTunnel, TunnelsTypeOK
<1>6. MappedIsUp' /\ StartInv' /\ HandleInv'
  BY DEF MappedIsUp, StartInv, HandleInv
<1>7. WaitInv'
  BY <1>1 DEF WaitInv, TunnelsTypeOK
<1> QED BY <1>2, <1>4, <1>5, <1>6, <1>7

(* A fresh child: nothing refers to it yet, so giving it a key changes no  *)
(* other tunnel's.                                                         *)
LEMMA SpawnInv ==
    ASSUME TInv, NEW u \in Users, NEW f \in Forwards, NEW t \in Tunnels, Spawn(u, f, t),
           handle[u] = None, \A s \in Tunnels : u \notin waits[s]
    PROVE  TInv'
<1> USE DEF TInv, Spawn, NoTunnelYet
<1>1. TunnelsTypeOK'
  BY DEF TunnelsTypeOK, ChildStates
<1>2. \A s : Holders(s)' = Holders(s)
  BY DEF Holders
<1>3. RefsCountHandles'
  BY <1>2 DEF RefsCountHandles
<1>4. t # None
  BY DEF Tunnels, None
<1>5. \A g \in Forwards : topen[g] # t /\ topening[g] # t
  BY <1>4 DEF MappedIsUp, StartInv
<1>6. MappedIsUp'
  BY <1>5 DEF MappedIsUp, TunnelsTypeOK
<1>7. StartInv'
  BY <1>4, <1>5 DEF StartInv, TunnelsTypeOK
<1>8. NoIdleTunnel'
  <2>1. \A s \in Tunnels : s # None
    BY DEF Tunnels, None
  <2>2. ASSUME NEW s \in Tunnels, child'[s] = "starting", s # t
        PROVE  waits'[s] # {} /\ topening'[tkey'[s]] = s
    BY <2>1, <2>2 DEF NoIdleTunnel, TunnelsTypeOK
  <2>3. waits'[t] # {} /\ topening'[tkey'[t]] = t
    BY DEF TunnelsTypeOK
  <2>4. \A s \in Tunnels : child'[s] = "up" => Holders(s)' # {}
    BY <1>2 DEF NoIdleTunnel, TunnelsTypeOK
  <2> QED BY <2>2, <2>3, <2>4 DEF NoIdleTunnel
<1>9. HandleInv'
  BY DEF HandleInv, TunnelsTypeOK
<1>10. WaitInv'
  BY DEF WaitInv, TunnelsTypeOK
<1> QED BY <1>1, <1>3, <1>6, <1>7, <1>8, <1>9, <1>10

LEMMA AcquireInv ==
    ASSUME TInv, NEW u \in Users, NEW f \in Forwards, Acquire(u, f),
           handle[u] = None, \A t \in Tunnels : u \notin waits[t]
    PROVE  TInv'
BY JoinOpenInv, JoinOpeningInv, SpawnInv DEF Acquire

(* The tunnel comes up: its waiters become exactly its holders.            *)
LEMMA TunnelUpInv ==
    ASSUME TInv, NEW t \in Tunnels, TunnelUp(t)
    PROVE  TInv'
<1> USE DEF TInv, TunnelUp, StartOver
<1>1. IsFiniteSet(waits[t]) /\ Cardinality(waits[t]) \in Nat
  BY TunnelsAssumption, FS_Subset, FS_CardinalityType DEF TunnelsTypeOK
<1>2. t # None /\ tkey[t] \in Forwards
  BY DEF Tunnels, None, TunnelsTypeOK
<1>3. TunnelsTypeOK'
  BY <1>1, <1>2 DEF TunnelsTypeOK, ChildStates
<1>4. Holders(t) = {}
  BY <1>2 DEF Holders, HandleInv
<1>5. Holders(t)' = waits[t]
  BY <1>4 DEF Holders, TunnelsTypeOK
<1>6. \A s \in Tunnels : s # t => Holders(s)' = Holders(s)
  BY DEF Holders, WaitInv, Tunnels, None
<1>7. RefsCountHandles'
  BY <1>5, <1>6 DEF RefsCountHandles, TunnelsTypeOK
<1>8. MappedIsUp'
  BY <1>2 DEF MappedIsUp, TunnelsTypeOK
<1>9. NoIdleTunnel'
  BY <1>2, <1>5, <1>6 DEF NoIdleTunnel, TunnelsTypeOK
<1>10. StartInv'
  <2> SUFFICES ASSUME NEW f \in Forwards, topening'[f] # None
               PROVE  child'[topening'[f]] = "starting" /\ tkey'[topening'[f]] = f
    BY DEF StartInv
  <2>1. f # tkey[t] /\ topening'[f] = topening[f]
    BY <1>2 DEF TunnelsTypeOK
  <2>2. topening[f] # t
    BY <1>2, <2>1 DEF StartInv
  <2> QED BY <2>1, <2>2 DEF StartInv, TunnelsTypeOK
<1>11. HandleInv'
  BY DEF HandleInv, TunnelsTypeOK
<1>12. WaitInv'
  BY DEF WaitInv, TunnelsTypeOK
<1> QED BY <1>3, <1>7, <1>8, <1>9, <1>10, <1>11, <1>12

LEMMA TunnelTimesOutInv ==
    ASSUME TInv, NEW t \in Tunnels, TunnelTimesOut(t)
    PROVE  TInv'
<1> USE DEF TInv, TunnelTimesOut, StartOver
<1>1. t # None /\ tkey[t] \in Forwards
  BY DEF Tunnels, None, TunnelsTypeOK
<1>2. TunnelsTypeOK'
  BY DEF TunnelsTypeOK, ChildStates
<1>3. \A s : Holders(s)' = Holders(s)
  BY DEF Holders
<1>4. RefsCountHandles' /\ NoIdleTunnel'
  BY <1>3 DEF RefsCountHandles, NoIdleTunnel, TunnelsTypeOK, StartInv
<1>5. MappedIsUp'
  BY DEF MappedIsUp, TunnelsTypeOK
<1>6. StartInv'
  <2> SUFFICES ASSUME NEW f \in Forwards, topening'[f] # None
               PROVE  child'[topening'[f]] = "starting" /\ tkey'[topening'[f]] = f
    BY DEF StartInv
  <2>1. f # tkey[t] /\ topening'[f] = topening[f] /\ topening[f] # t
    BY <1>1 DEF TunnelsTypeOK, StartInv
  <2> QED BY <2>1 DEF StartInv, TunnelsTypeOK
<1>7. HandleInv' /\ WaitInv'
  BY DEF HandleInv, WaitInv, TunnelsTypeOK
<1> QED BY <1>2, <1>4, <1>5, <1>6, <1>7

(* The exit event only ever removes from the map; in particular the entry  *)
(* of a child that exits is gone afterwards.                               *)
LEMMA ChildExitsInv ==
    ASSUME TInv, NEW t \in Tunnels, ChildExits(t)
    PROVE  TInv'
<1> USE DEF TInv, ChildExits, StartOver, Forgotten
<1>1. t # None /\ tkey[t] \in Forwards
  BY DEF Tunnels, None, TunnelsTypeOK
<1>2. TunnelsTypeOK'
  BY DEF TunnelsTypeOK, ChildStates
<1>3. \A s : Holders(s)' = Holders(s)
  BY DEF Holders
<1>4. RefsCountHandles'
  BY <1>3 DEF RefsCountHandles
<1>5. \A f \in Forwards : topening'[f] # None => topening'[f] = topening[f] /\ topening[f] # t
  BY <1>1 DEF TunnelsTypeOK, StartInv
<1>6. \A s \in Tunnels : child'[s] = "starting" =>
          s # t /\ child[s] = "starting" /\ topening'[tkey[s]] = s
  BY <1>1 DEF TunnelsTypeOK, NoIdleTunnel
<1>7. NoIdleTunnel'
  BY <1>3, <1>6 DEF NoIdleTunnel, TunnelsTypeOK
<1>8. MappedIsUp'
  BY DEF MappedIsUp, TunnelsTypeOK
<1>9. StartInv'
  BY <1>5 DEF StartInv, TunnelsTypeOK
<1>10. HandleInv' /\ WaitInv'
  BY DEF HandleInv, WaitInv, TunnelsTypeOK
<1> QED BY <1>2, <1>4, <1>7, <1>8, <1>9, <1>10

LEMMA HandleCloseInv ==
    ASSUME TInv, NEW u \in Users, HandleClose(u)
    PROVE  TInv'
<1> USE DEF TInv
<1>1. PICK t \in Tunnels : t = handle[u]
  BY DEF HandleClose, TunnelsTypeOK
<1>a. tkey[t] \in Forwards /\ u \in Holders(t) /\ t # None
  BY <1>1 DEF TunnelsTypeOK, Holders, Tunnels, None
<1>b. /\ handle' = [handle EXCEPT ![u] = None]
      /\ refs' = [refs EXCEPT ![t] = @ - 1]
      /\ UNCHANGED <<topening, tkey, waits>>
  BY <1>1 DEF HandleClose
<1>c. IF refs[t] <= 1
      THEN /\ topen' = [topen EXCEPT ![tkey[t]] = None]
           /\ child' = [child EXCEPT ![t] = IF @ = "up" THEN "killed" ELSE @]
      ELSE UNCHANGED <<topen, child>>
  BY <1>1 DEF HandleClose, LastReference, Forgotten, Signalled
<1>2. /\ Holders(t)' = Holders(t) \ {u}
      /\ \A s \in Tunnels : s # t => Holders(s)' = Holders(s)
  BY <1>1, <1>a, <1>b DEF Holders, TunnelsTypeOK, Tunnels, None
<1>3. Cardinality(Holders(t) \ {u}) = Cardinality(Holders(t)) - 1
  BY <1>a, HoldersFinite, FS_RemoveElement
<1>4. IsFiniteSet(Holders(t))
  BY HoldersFinite
<1>5. Cardinality(Holders(t)) \in Nat /\ Cardinality(Holders(t)) # 0
  BY <1>a, <1>4, FS_CardinalityType, FS_EmptySet
<1>6. refs[t] = Cardinality(Holders(t)) /\ refs[t] \in Nat \ {0}
  BY <1>5 DEF RefsCountHandles
<1>7. /\ refs'[t] = refs[t] - 1 /\ refs'[t] \in Nat
      /\ \A s \in Tunnels : s # t => refs'[s] = refs[s]
  BY <1>b, <1>6 DEF TunnelsTypeOK
<1>8. /\ child'[t] = child[t] \/ (child[t] = "up" /\ child'[t] = "killed")
      /\ child'[t] = "up" => child[t] = "up" /\ ~(refs[t] <= 1)
      /\ \A s \in Tunnels : s # t => child'[s] = child[s]
      /\ child' \in [Tunnels -> ChildStates]
  <2>0. child \in [Tunnels -> ChildStates] /\ "killed" \in ChildStates
    BY DEF TunnelsTypeOK, ChildStates
  <2>1. CASE refs[t] <= 1
    <3>1. child' = [child EXCEPT ![t] = IF child[t] = "up" THEN "killed" ELSE child[t]]
      BY <1>c, <2>1
    <3> QED BY <2>0, <2>1, <3>1
  <2>2. CASE ~(refs[t] <= 1)
    BY <1>c, <2>0, <2>2
  <2> QED BY <2>1, <2>2
<1>9. TunnelsTypeOK'
  <2>1. handle' \in [Users -> Tunnels \cup {None}] /\ refs' \in [Tunnels -> Nat]
    BY <1>b, <1>7 DEF TunnelsTypeOK
  <2>2. topen' \in [Forwards -> Tunnels \cup {None}]
    BY <1>c, <1>a DEF TunnelsTypeOK
  <2> QED BY <1>b, <1>8, <2>1, <2>2 DEF TunnelsTypeOK
<1>10. RefsCountHandles'
  <2>1. refs'[t] = Cardinality(Holders(t)')
    BY <1>2, <1>3, <1>6, <1>7
  <2>2. \A s \in Tunnels : s # t => refs'[s] = Cardinality(Holders(s)')
    BY <1>2, <1>7 DEF RefsCountHandles
  <2> QED BY <2>1, <2>2 DEF RefsCountHandles
<1>11. child'[t] = "up" => Holders(t)' # {}
  <2>1. Holders(t)' = {} => Cardinality(Holders(t)) - 1 = 0
    BY <1>2, <1>3, FS_EmptySet
  <2> QED BY <2>1, <1>6, <1>8
<1>12. \A s \in Tunnels : child'[s] = "starting" <=> child[s] = "starting"
  BY <1>8
<1>13. NoIdleTunnel'
  <2>1. \A s \in Tunnels : child'[s] = "up" => Holders(s)' # {}
    BY <1>2, <1>8, <1>11 DEF NoIdleTunnel
  <2> QED BY <2>1, <1>b, <1>12 DEF NoIdleTunnel
<1>14. MappedIsUp'
  <2> SUFFICES ASSUME NEW f \in Forwards, topen'[f] # None
               PROVE  child'[topen'[f]] = "up" /\ tkey'[topen'[f]] = f
    BY DEF MappedIsUp
  <2>1. topen'[f] = topen[f] /\ topen[f] \in Tunnels
    BY <1>c DEF TunnelsTypeOK
  <2>2. child[topen[f]] = "up" /\ tkey[topen[f]] = f
    BY <2>1 DEF MappedIsUp
  <2>3. CASE refs[t] <= 1
    <3>1. topen[f] # t
      BY <1>a, <1>c, <2>2, <2>3 DEF TunnelsTypeOK
    <3> QED BY <1>b, <1>8, <2>1, <2>2, <3>1
  <2>4. CASE ~(refs[t] <= 1)
    BY <1>b, <1>c, <2>1, <2>2, <2>4
  <2> QED BY <2>3, <2>4
<1>15. StartInv' /\ WaitInv'
  BY <1>b, <1>12 DEF StartInv, WaitInv, TunnelsTypeOK
<1>16. HandleInv'
  BY <1>b, <1>8 DEF HandleInv, TunnelsTypeOK
<1> QED BY <1>9, <1>10, <1>13, <1>14, <1>15, <1>16

LEMMA CloseAllInv ==
    ASSUME TInv, CloseAll
    PROVE  TInv'
<1> USE DEF TInv, CloseAll, Signalled
<1>1. TunnelsTypeOK'
  BY DEF TunnelsTypeOK, ChildStates
<1>2. \A s : Holders(s)' = Holders(s)
  BY DEF Holders
<1>3. \A s \in Tunnels : /\ child'[s] = "starting" <=> child[s] = "starting"
                         /\ child'[s] = "up" => child[s] = "up"
  BY DEF TunnelsTypeOK
<1>4. RefsCountHandles' /\ NoIdleTunnel'
  BY <1>2, <1>3 DEF RefsCountHandles, NoIdleTunnel
<1>5. MappedIsUp'
  BY DEF MappedIsUp
<1>6. StartInv' /\ WaitInv'
  BY <1>3 DEF StartInv, WaitInv, TunnelsTypeOK
<1>7. HandleInv'
  BY DEF HandleInv, TunnelsTypeOK
<1> QED BY <1>1, <1>4, <1>5, <1>6, <1>7

LEMMA TunnelsNextInv == TInv /\ [TunnelsNext]_tvars => TInv'
<1> SUFFICES ASSUME TInv, [TunnelsNext]_tvars PROVE TInv'
  OBVIOUS
<1>1. ASSUME NEW u \in Users, NEW f \in Forwards, handle[u] = None, ~Waiting(u), Acquire(u, f)
      PROVE  TInv'
  BY <1>1, AcquireInv DEF Waiting
<1>2. ASSUME NEW t \in Tunnels, TunnelUp(t) \/ TunnelTimesOut(t) \/ ChildExits(t)
      PROVE  TInv'
  BY <1>2, TunnelUpInv, TunnelTimesOutInv, ChildExitsInv
<1>3. CASE UNCHANGED tvars
  BY <1>3 DEF tvars, TInv, TunnelsTypeOK, RefsCountHandles, MappedIsUp, NoIdleTunnel, WaitInv,
              StartInv, HandleInv, Holders
<1> QED BY <1>1, <1>2, <1>3, HandleCloseInv, CloseAllInv DEF TunnelsNext

LEMMA TunnelsInductive == TunnelsSpec => []TInv
BY TunnelsInitInv, TunnelsNextInv, PTL DEF TunnelsSpec

-----------------------------------------------------------------------------
(* Every variable keeps to the values tunnel.ts gives it.                  *)
THEOREM TunnelsTypeCorrect == TunnelsSpec => []TunnelsTypeOK
<1>1. TInv => TunnelsTypeOK
  BY DEF TInv
<1> QED BY <1>1, TunnelsInductive, PTL

(* The count by which close decides to kill ssh is the number of handles.  *)
THEOREM RefsCorrect == TunnelsSpec => []RefsCountHandles
<1>1. TInv => RefsCountHandles
  BY DEF TInv
<1> QED BY <1>1, TunnelsInductive, PTL

(* acquire never hands out a tunnel that is known to be dead.              *)
THEOREM MappedCorrect == TunnelsSpec => []MappedIsUp
<1>1. TInv => MappedIsUp
  BY DEF TInv
<1> QED BY <1>1, TunnelsInductive, PTL

(* No ssh that is starting or up is without somebody whose release, or     *)
(* whose wait, will end it.                                                *)
THEOREM NoTunnelLeftBehind == TunnelsSpec => []NoIdleTunnel
<1>1. TInv => NoIdleTunnel
  BY DEF TInv
<1> QED BY <1>1, TunnelsInductive, PTL

(* Two ssh processes are never starting for one forward: each would be the *)
(* one in flight for its key.                                              *)
THEOREM StartsShared == TunnelsSpec => []OneStartPerForward
<1>1. TInv => OneStartPerForward
  BY DEF TInv, NoIdleTunnel, OneStartPerForward
<1> QED BY <1>1, TunnelsInductive, PTL

(* What a forward promises its sessions holds in every instance: the four *)
(* parts above, which the run checks together (tunnel.ts:56-140).          *)
THEOREM TunnelsSoundCorrect == TunnelsSpec => []TunnelsSound
<1>1. TInv => TunnelsSound
  BY DEF TInv, NoIdleTunnel, OneStartPerForward, TunnelsSound
<1> QED BY <1>1, TunnelsInductive, PTL

(* Releasing a handle kills ssh only when no handle on it is left.         *)
THEOREM SharersSpared == TunnelsSpec => ReleaseSparesSharers
<1> DEFINE Spares == \A u \in Users, t \in Tunnels :
              HandleClose(u) /\ child[t] = "up" /\ child'[t] # "up" => Holders(t)' = {}
<1>1. TInv /\ [TunnelsNext]_tvars => [Spares]_tvars
  <2> SUFFICES ASSUME TInv, NEW u \in Users, NEW t \in Tunnels, HandleClose(u),
                      child[t] = "up", child'[t] # "up"
               PROVE  Holders(t)' = {}
    OBVIOUS
  <2>1. t = handle[u] /\ refs[t] <= 1
    BY DEF HandleClose, LastReference, TInv, TunnelsTypeOK
  <2>2. refs'[t] = refs[t] - 1 /\ refs[t] \in Nat
    BY <2>1 DEF HandleClose, TInv, TunnelsTypeOK
  <2>3. TInv'
    BY HandleCloseInv
  <2>4. refs'[t] \in Nat /\ refs'[t] = Cardinality(Holders(t)')
    BY <2>3 DEF TInv, TunnelsTypeOK, RefsCountHandles
  <2>5. IsFiniteSet(Holders(t)')
    BY TunnelsAssumption, FS_Subset DEF Holders
  <2> QED BY <2>2, <2>1, <2>4, <2>5, FS_EmptySet
<1>2. ReleaseSparesSharers <=> [][Spares]_tvars
  BY DEF ReleaseSparesSharers
<1> QED BY <1>1, <1>2, TunnelsInductive, PTL DEF TunnelsSpec

-----------------------------------------------------------------------------
MapInv ==
    \A k \in Keys :
        /\ open[k] # NoAttempt => phase[open[k]] = "live" /\ akey[open[k]] = k
        /\ opening[k] # NoAttempt =>
              phase[opening[k]] \in {"tunnel", "connect"} /\ akey[opening[k]] = k
        /\ open[k] = NoAttempt \/ opening[k] = NoAttempt

(* An attempt is in phase "tunnel" exactly while it awaits one.            *)
TunnelPhase == \A a \in Users : Waiting(a) <=> phase[a] = "tunnel"

PInv ==
    /\ TInv /\ TypeOK /\ MapInv /\ TunnelPhase
    /\ NoOrphanSession /\ TunnelOutlivesSession /\ WaitersAwaitSomething

LEMMA PoolInitInv == Init => PInv
<1> SUFFICES ASSUME Init PROVE PInv
  OBVIOUS
<1> USE TunnelsAssumption, PoolAssumption DEF Init
<1>1. TInv
  BY TunnelsInitInv
<1>2. \A a \in Users : handle[a] = None /\ ~Waiting(a)
  BY DEF TunnelsInit, Waiting
<1>3. TypeOK
  <2>1. Keys # {} => (CHOOSE k \in Keys : TRUE) \in Keys
    OBVIOUS
  <2> QED BY <1>1, <2>1 DEF TypeOK, TInv, Phases, NotRunning
<1> QED BY <1>1, <1>2, <1>3 DEF PInv, MapInv, TunnelPhase, NoOrphanSession,
           TunnelOutlivesSession, WaitersAwaitSomething, None

-----------------------------------------------------------------------------
(* What the operations on tunnels mean for the attempts: who holds a       *)
(* tunnel and who awaits one.                                              *)
Untouched(b) == handle'[b] = handle[b] /\ (Waiting(b)' <=> Waiting(b))

LEMMA AcquireEffect ==
    ASSUME TInv, NEW a \in Users, NEW f \in Forwards, Acquire(a, f), handle[a] = None, ~Waiting(a)
    PROVE  /\ TInv'
           /\ \A b \in Users : b # a => Untouched(b)
           /\ Waiting(a)' <=> handle'[a] = None
<1>1. TInv'
  BY AcquireInv DEF Waiting
<1>2. CASE JoinOpen(a, f)
  <2>1. handle'[a] # None /\ \A b \in Users : b # a => handle'[b] = handle[b]
    BY <1>2 DEF JoinOpen, TInv, TunnelsTypeOK
  <2>2. \A b \in Users : Waiting(b)' <=> Waiting(b)
    BY <1>2 DEF JoinOpen, Waiting
  <2> QED BY <1>1, <2>1, <2>2 DEF Untouched
<1>3. CASE JoinOpening(a, f)
  <2>1. topening[f] \in Tunnels
    BY <1>3 DEF JoinOpening, TInv, TunnelsTypeOK
  <2>2. handle' = handle
    BY <1>3 DEF JoinOpening
  <2>3. waits' = [waits EXCEPT ![topening[f]] = waits[topening[f]] \cup {a}]
    BY <1>3 DEF JoinOpening
  <2>4. a \in waits'[topening[f]] /\ \A b \in Users, t \in Tunnels : b # a => (b \in waits'[t] <=> b \in waits[t])
    BY <2>1, <2>3 DEF TInv, TunnelsTypeOK
  <2> QED BY <1>1, <2>1, <2>2, <2>4 DEF Untouched, Waiting
<1>4. ASSUME NEW t \in Tunnels, Spawn(a, f, t)
      PROVE  /\ \A b \in Users : b # a => Untouched(b)
             /\ Waiting(a)' <=> handle'[a] = None
  <2>1. waits[t] = {}
    BY <1>4 DEF Spawn, TInv, WaitInv, TunnelsTypeOK
  <2> QED BY <1>4, <2>1 DEF Spawn, Untouched, Waiting, TInv, TunnelsTypeOK
<1> QED BY <1>1, <1>2, <1>3, <1>4 DEF Acquire

LEMMA UpEffect ==
    ASSUME TInv, NEW t \in Tunnels, TunnelUp(t)
    PROVE  /\ TInv'
           /\ \A b \in Users : IF b \in waits[t] THEN Waiting(b) /\ ~Waiting(b)' /\ handle'[b] # None
                                                 ELSE Untouched(b)
<1>1. t # None
  BY DEF Tunnels, None
<1> QED BY <1>1, TunnelUpInv DEF TunnelUp, Untouched, Waiting, TInv, WaitInv, TunnelsTypeOK

LEMMA LostEffect ==
    ASSUME TInv, NEW t \in Tunnels, TunnelTimesOut(t) \/ ChildExits(t)
    PROVE  /\ TInv'
           /\ \A b \in Users : IF b \in waits[t] THEN /\ Waiting(b) /\ ~Waiting(b)'
                                                      /\ handle[b] = None /\ handle'[b] = None
                                                 ELSE Untouched(b)
<1>1. TInv'
  BY TunnelTimesOutInv, ChildExitsInv
<1>2. handle' = handle /\ waits' = [waits EXCEPT ![t] = {}]
  BY DEF TunnelTimesOut, ChildExits
<1> QED BY <1>1, <1>2 DEF Untouched, Waiting, TInv, WaitInv, TunnelsTypeOK

LEMMA ReleaseEffect ==
    ASSUME TInv, NEW a \in Users, Release(a)
    PROVE  /\ TInv' /\ handle'[a] = None
           /\ \A b \in Users : (b # a => Untouched(b)) /\ (Waiting(b)' <=> Waiting(b))
<1>1. CASE handle[a] # None
  BY <1>1, HandleCloseInv DEF Release, HandleClose, Untouched, Waiting, TInv, TunnelsTypeOK
<1>2. CASE handle[a] = None
  BY <1>2, TunnelsNextInv DEF Release, tvars, Untouched, Waiting
<1> QED BY <1>1, <1>2

LEMMA SameEffect ==
    ASSUME TInv, UNCHANGED tvars \/ CloseAll
    PROVE  TInv' /\ \A b \in Users : Untouched(b)
BY TunnelsNextInv, CloseAllInv DEF tvars, CloseAll, Untouched, Waiting

-----------------------------------------------------------------------------
(* acquire *)

LEMMA AcquireOpenInv ==
    ASSUME PInv, NEW c \in Callers, NEW k \in Keys, AcquireOpen(c, k) \/ AcquireJoin(c, k)
    PROVE  PInv'
<1>1. /\ UNCHANGED <<tvars, def, open, opening, phase, akey, aver, reload>>
      /\ pc[c] = "idle" /\ cver' = [cver EXCEPT ![c] = def[k]]
  BY DEF AcquireOpen, AcquireJoin, Enter
<1>2. PICK a \in Users, p \in {"waiting", "using"} :
          /\ pc' = [pc EXCEPT ![c] = p] /\ on' = [on EXCEPT ![c] = a]
          /\ p = "waiting" => phase[a] \in {"tunnel", "connect"}
          /\ p = "using" => phase[a] = "live"
  BY DEF AcquireOpen, AcquireJoin, Enter, PInv, MapInv, TypeOK
<1>3. TInv' /\ \A b \in Users : Untouched(b)
  BY <1>1, SameEffect DEF PInv
<1>4. TypeOK'
  BY <1>1, <1>2, <1>3, PoolAssumption DEF PInv, TypeOK, TInv
<1>5. WaitersAwaitSomething'
  BY <1>1, <1>2 DEF PInv, TypeOK, WaitersAwaitSomething
<1>6. MapInv' /\ NoOrphanSession'
  BY <1>1 DEF PInv, MapInv, NoOrphanSession
<1>7. TunnelPhase' /\ TunnelOutlivesSession'
  BY <1>1, <1>3 DEF PInv, TunnelPhase, TunnelOutlivesSession, Untouched
<1> QED BY <1>3, <1>4, <1>5, <1>6, <1>7 DEF PInv

LEMMA AcquireStartInv ==
    ASSUME PInv, NEW c \in Callers, NEW k \in Keys, NEW a \in Users, AcquireStart(c, k, a)
    PROVE  PInv'
<1> USE DEF AcquireStart, Unopened, Enter
<1>1. phase[a] = "none" /\ handle[a] = None /\ ~Waiting(a)
  BY DEF PInv, TunnelPhase, TunnelOutlivesSession
<1>2. PICK p \in {"tunnel", "connect"} :
          /\ phase' = [phase EXCEPT ![a] = p]
          /\ Waiting(a)' <=> p = "tunnel"
          /\ p = "tunnel" => handle'[a] = None
          /\ p = "connect" /\ ForwardOf[k] # Direct => handle'[a] # None
          /\ TInv' /\ \A b \in Users : b # a => Untouched(b)
  <2>1. CASE ForwardOf[k] = Direct
    <3>1. UNCHANGED tvars /\ phase' = [phase EXCEPT ![a] = "connect"]
      BY <2>1
    <3>2. TInv' /\ \A b \in Users : Untouched(b)
      BY <3>1, SameEffect DEF PInv
    <3> QED BY <1>1, <2>1, <3>1, <3>2 DEF Untouched
  <2>2. CASE ForwardOf[k] # Direct
    <3>1. Acquire(a, ForwardOf[k]) /\ ForwardOf[k] \in Forwards
      BY <2>2, PoolAssumption
    <3>2. /\ TInv' /\ \A b \in Users : b # a => Untouched(b)
          /\ Waiting(a)' <=> handle'[a] = None
      BY <1>1, <3>1, AcquireEffect DEF PInv
    <3>3. phase' = [phase EXCEPT ![a] = IF handle'[a] # None THEN "connect" ELSE "tunnel"]
      BY <2>2
    <3> QED BY <3>2, <3>3
  <2> QED BY <2>1, <2>2
<1>3. /\ opening' = [opening EXCEPT ![k] = a] /\ akey' = [akey EXCEPT ![a] = k]
      /\ aver' = [aver EXCEPT ![a] = def[k]]
      /\ pc' = [pc EXCEPT ![c] = "waiting"] /\ on' = [on EXCEPT ![c] = a]
      /\ cver' = [cver EXCEPT ![c] = def[k]]
      /\ open[k] = NoAttempt /\ opening[k] = NoAttempt
      /\ UNCHANGED <<def, open, reload>>
  OBVIOUS
<1> HIDE DEF AcquireStart
<1>t. TypeOK /\ a # NoAttempt
  BY PoolAssumption DEF PInv
<1>4. TypeOK'
  BY <1>2, <1>3, <1>t DEF TypeOK, TInv, Phases
<1>5. MapInv'
  BY <1>1, <1>2, <1>3, <1>t DEF PInv, MapInv, TypeOK
<1>6. NoOrphanSession'
  <2>1. phase'[a] = p /\ akey'[a] = k /\ opening'[k] = a
    BY <1>2, <1>3, <1>t DEF TypeOK
  <2>2. ASSUME NEW b \in Users, b # a
        PROVE  /\ phase'[b] = "live" => open'[akey'[b]] = b
               /\ phase'[b] \in {"tunnel", "connect"} => opening'[akey'[b]] = b
    <3>1. phase'[b] = phase[b] /\ akey'[b] = akey[b] /\ akey[b] \in Keys /\ b # NoAttempt
      BY <1>2, <1>3, <1>t, <2>2, PoolAssumption DEF TypeOK
    <3>2. phase[b] \in {"tunnel", "connect"} => akey[b] # k
      BY <1>3, <3>1 DEF PInv, NoOrphanSession
    <3> QED BY <1>3, <1>t, <3>1, <3>2 DEF PInv, NoOrphanSession, TypeOK
  <2> QED BY <2>1, <2>2 DEF NoOrphanSession
<1>7. TunnelPhase'
  BY <1>2, <1>t DEF PInv, TunnelPhase, TypeOK, Untouched
<1>8. TunnelOutlivesSession'
  BY <1>2, <1>3, <1>t DEF PInv, TunnelOutlivesSession, TypeOK, Untouched
<1>9. WaitersAwaitSomething'
  BY <1>1, <1>2, <1>3, <1>t DEF PInv, WaitersAwaitSomething, TypeOK
<1> QED BY <1>2, <1>4, <1>5, <1>6, <1>7, <1>8, <1>9 DEF PInv

-----------------------------------------------------------------------------
(* start, after each await.  Attempts that end are taken out of the        *)
(* in-flight map and leave no caller waiting.                              *)

LEMMA EndEffect ==
    ASSUME TypeOK, NEW as \in SUBSET Users, NEW p \in {"idle", "using"},
           OpeningOver(as), WakeWaiters(as, p)
    PROVE  /\ opening' \in [Keys -> Users \cup {NoAttempt}]
           /\ \A k \in Keys : IF opening[k] \in as THEN opening'[k] = NoAttempt
                                                   ELSE opening'[k] = opening[k]
           /\ pc' \in [Callers -> {"idle", "waiting", "using"}]
           /\ on' \in [Callers -> Users \cup {NoAttempt}]
           /\ cver' = cver
           /\ \A c \in Callers :
                 \/ pc'[c] = pc[c] /\ on'[c] = on[c] /\ (pc[c] = "waiting" => on[c] \notin as)
                 \/ pc'[c] = "idle" /\ on'[c] = NoAttempt /\ p = "idle"
                 \/ pc'[c] = "using" /\ on'[c] = on[c] /\ on[c] \in as /\ p = "using"
BY DEF TypeOK, OpeningOver, WakeWaiters

LEMMA ForwardReadyInv ==
    ASSUME PInv, NEW t \in Tunnels, ForwardReady(t)
    PROVE  PInv'
<1> USE DEF PInv
<1>1. /\ TInv'
      /\ \A b \in Users : IF b \in waits[t] THEN Waiting(b) /\ ~Waiting(b)' /\ handle'[b] # None
                                            ELSE Untouched(b)
  BY UpEffect DEF ForwardReady
<1>2. /\ phase' = [a \in Users |-> IF a \in waits[t] THEN "connect" ELSE phase[a]]
      /\ UNCHANGED <<def, open, opening, akey, aver, pc, on, cver, reload>>
  BY DEF ForwardReady
<1>3. \A b \in waits[t] : phase[b] = "tunnel"
  BY <1>1 DEF TunnelPhase, TypeOK, TunnelsTypeOK
<1>4. TypeOK'
  BY <1>1, <1>2 DEF TypeOK, TInv, Phases
<1>5. MapInv' /\ NoOrphanSession'
  BY <1>2, <1>3, PoolAssumption DEF MapInv, NoOrphanSession, TypeOK
<1>6. TunnelPhase' /\ TunnelOutlivesSession'
  BY <1>1, <1>2, <1>3 DEF TunnelPhase, TunnelOutlivesSession, Untouched
<1>7. WaitersAwaitSomething'
  BY <1>2, <1>3, PoolAssumption DEF WaitersAwaitSomething, TypeOK
<1> QED BY <1>1, <1>4, <1>5, <1>6, <1>7

LEMMA ForwardLostInv ==
    ASSUME PInv, NEW t \in Tunnels, ForwardLost(t)
    PROVE  PInv'
<1> USE DEF PInv
<1>1. /\ TInv'
      /\ \A b \in Users : IF b \in waits[t] THEN /\ Waiting(b) /\ ~Waiting(b)'
                                                 /\ handle[b] = None /\ handle'[b] = None
                                            ELSE Untouched(b)
  BY LostEffect DEF ForwardLost
<1>2. /\ phase' = [a \in Users |-> IF a \in waits[t] THEN "failed" ELSE phase[a]]
      /\ UNCHANGED <<def, open, akey, aver, reload>>
      /\ OpeningOver(waits[t]) /\ WakeWaiters(waits[t], "idle")
  BY DEF ForwardLost
<1>3. \A b \in waits[t] : phase[b] = "tunnel"
  BY <1>1 DEF TunnelPhase, TypeOK, TunnelsTypeOK
<1>4. /\ opening' \in [Keys -> Users \cup {NoAttempt}]
      /\ \A k \in Keys : IF opening[k] \in waits[t] THEN opening'[k] = NoAttempt
                                                    ELSE opening'[k] = opening[k]
      /\ pc' \in [Callers -> {"idle", "waiting", "using"}]
      /\ on' \in [Callers -> Users \cup {NoAttempt}]
      /\ cver' = cver
      /\ \A c \in Callers :
            \/ pc'[c] = pc[c] /\ on'[c] = on[c] /\ (pc[c] = "waiting" => on[c] \notin waits[t])
            \/ pc'[c] = "idle" /\ on'[c] = NoAttempt
  <2>1. waits[t] \in SUBSET Users
    BY DEF TypeOK, TunnelsTypeOK
  <2> QED BY <1>2, <2>1, EndEffect
<1>5. TypeOK'
  BY <1>1, <1>2, <1>4 DEF TypeOK, TInv, Phases
<1>6. MapInv'
  BY <1>2, <1>3, <1>4, PoolAssumption DEF MapInv, TypeOK
<1>7. NoOrphanSession'
  BY <1>2, <1>3, <1>4 DEF NoOrphanSession, TypeOK
<1>8. TunnelPhase' /\ TunnelOutlivesSession'
  BY <1>1, <1>2, <1>3 DEF TunnelPhase, TunnelOutlivesSession, Untouched
<1>9. WaitersAwaitSomething'
  BY <1>2, <1>3, <1>4, PoolAssumption DEF WaitersAwaitSomething, TypeOK
<1> QED BY <1>1, <1>5, <1>6, <1>7, <1>8, <1>9

LEMMA ConnectsInv ==
    ASSUME PInv, NEW a \in Users, Connects(a)
    PROVE  PInv'
<1> USE DEF PInv
<1>1. TInv' /\ \A b \in Users : Untouched(b)
  BY SameEffect DEF Connects
<1>2. /\ phase[a] = "connect"
      /\ phase' = [phase EXCEPT ![a] = "live"]
      /\ open' = [open EXCEPT ![akey[a]] = a]
      /\ UNCHANGED <<def, akey, aver, reload>>
      /\ OpeningOver({a}) /\ WakeWaiters({a}, "using")
  BY DEF Connects
<1>3. /\ opening' \in [Keys -> Users \cup {NoAttempt}]
      /\ \A k \in Keys : IF opening[k] = a THEN opening'[k] = NoAttempt
                                           ELSE opening'[k] = opening[k]
      /\ pc' \in [Callers -> {"idle", "waiting", "using"}]
      /\ on' \in [Callers -> Users \cup {NoAttempt}]
      /\ cver' = cver
      /\ \A c \in Callers :
            \/ pc'[c] = pc[c] /\ on'[c] = on[c] /\ (pc[c] = "waiting" => on[c] # a)
            \/ pc'[c] = "using" /\ on'[c] = on[c] /\ on[c] = a
  <2>1. {a} \in SUBSET Users
    OBVIOUS
  <2> QED BY <1>2, <2>1, EndEffect
<1>4. akey[a] \in Keys /\ opening[akey[a]] = a /\ open[akey[a]] = NoAttempt /\ a # NoAttempt
  BY <1>2, PoolAssumption DEF NoOrphanSession, MapInv, TypeOK
<1>5. TypeOK'
  BY <1>1, <1>2, <1>3, <1>4 DEF TypeOK, TInv, Phases
<1>6. MapInv'
  <2>1. \A k \in Keys : k # akey[a] => open'[k] = open[k] /\ open[k] # a /\ opening[k] # a
    BY <1>2, <1>4 DEF MapInv, TypeOK
  <2>2. open'[akey[a]] = a /\ opening'[akey[a]] = NoAttempt
    BY <1>2, <1>3, <1>4 DEF TypeOK
  <2> QED BY <1>2, <1>3, <1>4, <2>1, <2>2 DEF MapInv, TypeOK
<1>7. NoOrphanSession'
  <2> SUFFICES ASSUME NEW b \in Users
               PROVE  /\ phase'[b] = "live" => open'[akey'[b]] = b
                      /\ phase'[b] \in {"tunnel", "connect"} => opening'[akey'[b]] = b
    BY DEF NoOrphanSession
  <2>1. CASE b = a
    BY <1>2, <1>4, <2>1 DEF TypeOK
  <2>2. CASE b # a
    <3>1. phase'[b] = phase[b] /\ akey'[b] = akey[b] /\ akey[b] \in Keys /\ b # NoAttempt
      BY <1>2, <2>2, PoolAssumption DEF TypeOK
    <3>2. phase[b] = "live" => open'[akey[b]] = b
      BY <1>2, <1>4, <3>1 DEF NoOrphanSession, TypeOK
    <3>3. phase[b] \in {"tunnel", "connect"} => opening'[akey[b]] = b
      BY <1>3, <2>2, <3>1 DEF NoOrphanSession
    <3> QED BY <3>1, <3>2, <3>3
  <2> QED BY <2>1, <2>2
<1>8. TunnelPhase' /\ TunnelOutlivesSession'
  BY <1>1, <1>2 DEF TunnelPhase, TunnelOutlivesSession, Untouched, TypeOK
<1>9. WaitersAwaitSomething'
  BY <1>2, <1>3, PoolAssumption DEF WaitersAwaitSomething, TypeOK
<1> QED BY <1>1, <1>5, <1>6, <1>7, <1>8, <1>9

LEMMA ConnectFailsInv ==
    ASSUME PInv, NEW a \in Users, ConnectFails(a)
    PROVE  PInv'
<1> USE DEF PInv
<1>1. /\ TInv' /\ handle'[a] = None
      /\ \A b \in Users : (b # a => Untouched(b)) /\ (Waiting(b)' <=> Waiting(b))
  BY ReleaseEffect DEF ConnectFails
<1>2. /\ phase[a] = "connect"
      /\ phase' = [phase EXCEPT ![a] = "failed"]
      /\ UNCHANGED <<def, open, akey, aver, reload>>
      /\ OpeningOver({a}) /\ WakeWaiters({a}, "idle")
  BY DEF ConnectFails
<1>3. /\ opening' \in [Keys -> Users \cup {NoAttempt}]
      /\ \A k \in Keys : IF opening[k] = a THEN opening'[k] = NoAttempt
                                           ELSE opening'[k] = opening[k]
      /\ pc' \in [Callers -> {"idle", "waiting", "using"}]
      /\ on' \in [Callers -> Users \cup {NoAttempt}]
      /\ cver' = cver
      /\ \A c \in Callers :
            \/ pc'[c] = pc[c] /\ on'[c] = on[c] /\ (pc[c] = "waiting" => on[c] # a)
            \/ pc'[c] = "idle" /\ on'[c] = NoAttempt
  <2>1. {a} \in SUBSET Users
    OBVIOUS
  <2> QED BY <1>2, <2>1, EndEffect
<1>4. TypeOK'
  BY <1>1, <1>2, <1>3 DEF TypeOK, TInv, Phases
<1>5. MapInv'
  BY <1>2, <1>3, PoolAssumption DEF MapInv, TypeOK
<1>6. NoOrphanSession'
  BY <1>2, <1>3 DEF NoOrphanSession, TypeOK
<1>7. TunnelPhase' /\ TunnelOutlivesSession'
  BY <1>1, <1>2 DEF TunnelPhase, TunnelOutlivesSession, Untouched, TypeOK
<1>8. WaitersAwaitSomething'
  BY <1>2, <1>3, PoolAssumption DEF WaitersAwaitSomething, TypeOK
<1> QED BY <1>1, <1>4, <1>5, <1>6, <1>7, <1>8

-----------------------------------------------------------------------------
(* invalidate: whatever leaves open starts to close in the same step, and  *)
(* nothing else changes phase.                                             *)

LEMMA ClosingEffect ==
    ASSUME PInv, NEW ks \in SUBSET Keys, StartClosing(ks),
           UNCHANGED <<opening, akey, aver>>
    PROVE  /\ open' \in [Keys -> Users \cup {NoAttempt}] /\ phase' \in [Users -> Phases]
           /\ MapInv' /\ NoOrphanSession'
           /\ \A a \in Users : \/ phase'[a] = phase[a]
                               \/ phase[a] = "live" /\ phase'[a] = "closing"
<1> USE DEF PInv
<1>1. /\ \A k \in Keys : open'[k] = IF k \in ks THEN NoAttempt ELSE open[k]
      /\ open' \in [Keys -> Users \cup {NoAttempt}]
      /\ phase' = [a \in Users |-> IF \E k \in ks : open[k] = a THEN "closing" ELSE phase[a]]
  BY DEF StartClosing, TypeOK
<1>2. phase' \in [Users -> Phases]
  BY <1>1 DEF TypeOK, Phases
<1>3. \A a \in Users : \/ phase'[a] = phase[a] /\ \A k \in ks : open[k] # a
                       \/ phase[a] = "live" /\ phase'[a] = "closing"
  BY <1>1, PoolAssumption DEF MapInv
<1>4. MapInv'
  <2> SUFFICES ASSUME NEW k \in Keys
               PROVE  /\ open'[k] # NoAttempt => phase'[open'[k]] = "live" /\ akey'[open'[k]] = k
                      /\ opening'[k] # NoAttempt =>
                            phase'[opening'[k]] \in {"tunnel", "connect"} /\ akey'[opening'[k]] = k
                      /\ open'[k] = NoAttempt \/ opening'[k] = NoAttempt
    BY DEF MapInv
  <2>1. ASSUME open'[k] # NoAttempt
        PROVE  phase'[open'[k]] = "live" /\ akey'[open'[k]] = k
    <3>1. k \notin ks /\ open'[k] = open[k] /\ open[k] \in Users
      BY <1>1, <2>1 DEF TypeOK
    <3>2. \A j \in ks : open[j] # open[k]
      BY <2>1, <3>1 DEF MapInv
    <3> QED BY <1>1, <2>1, <3>1, <3>2 DEF MapInv
  <2>2. ASSUME opening'[k] # NoAttempt
        PROVE  phase'[opening'[k]] \in {"tunnel", "connect"} /\ akey'[opening'[k]] = k
    BY <1>3, <2>2 DEF MapInv, TypeOK
  <2> QED BY <1>1, <2>1, <2>2 DEF MapInv
<1>5. NoOrphanSession'
  <2> SUFFICES ASSUME NEW a \in Users
               PROVE  /\ phase'[a] = "live" => open'[akey'[a]] = a
                      /\ phase'[a] \in {"tunnel", "connect"} => opening'[akey'[a]] = a
    BY DEF NoOrphanSession
  <2>1. akey[a] \in Keys
    BY DEF TypeOK
  <2> QED BY <1>1, <1>3, <2>1 DEF NoOrphanSession
<1> QED BY <1>1, <1>2, <1>3, <1>4, <1>5

LEMMA CloseDoneInv ==
    ASSUME PInv, NEW a \in Users, CloseDone(a)
    PROVE  PInv'
<1> USE DEF PInv
<1>1. /\ TInv' /\ handle'[a] = None
      /\ \A b \in Users : (b # a => Untouched(b)) /\ (Waiting(b)' <=> Waiting(b))
  BY ReleaseEffect DEF CloseDone
<1>2. /\ phase[a] = "closing"
      /\ phase' = [phase EXCEPT ![a] = "closed"]
      /\ reload' = [r \in Reloads |-> [reload[r] EXCEPT !.left = @ \ {a}]]
      /\ UNCHANGED <<def, open, opening, akey, aver, pc, on, cver>>
  BY DEF CloseDone
<1>3. TypeOK'
  <2>1. reload' \in [Reloads -> [busy : BOOLEAN, left : SUBSET Users]]
    BY <1>2 DEF TypeOK
  <2> QED BY <1>1, <1>2, <2>1 DEF TypeOK, TInv, Phases
<1>4. MapInv' /\ NoOrphanSession'
  BY <1>2 DEF MapInv, NoOrphanSession, TypeOK
<1>5. TunnelPhase' /\ TunnelOutlivesSession'
  BY <1>1, <1>2 DEF TunnelPhase, TunnelOutlivesSession, Untouched, TypeOK
<1>6. WaitersAwaitSomething'
  BY <1>2, PoolAssumption DEF WaitersAwaitSomething, TypeOK
<1> QED BY <1>1, <1>3, <1>4, <1>5, <1>6

LEMMA UseInv ==
    ASSUME PInv, NEW c \in Callers, UseDone(c) \/ UseFails(c)
    PROVE  PInv'
<1> USE DEF PInv
<1>1. TInv' /\ \A b \in Users : Untouched(b)
  BY SameEffect DEF UseDone, UseFails
<1>2. /\ pc[c] = "using" /\ pc' = [pc EXCEPT ![c] = "idle"]
      /\ on' = [on EXCEPT ![c] = NoAttempt]
      /\ UNCHANGED <<cver, def, opening, akey, aver, reload>>
  BY DEF UseDone, UseFails, Leave
<1>3. /\ open' \in [Keys -> Users \cup {NoAttempt}] /\ phase' \in [Users -> Phases]
      /\ MapInv' /\ NoOrphanSession'
      /\ \A a \in Users : \/ phase'[a] = phase[a]
                          \/ phase[a] = "live" /\ phase'[a] = "closing"
  <2>1. CASE UseDone(c)
    BY <1>2, <2>1 DEF UseDone, MapInv, NoOrphanSession, TypeOK
  <2>2. CASE UseFails(c)
    <3>1. {akey[on[c]]} \in SUBSET Keys
      BY <1>2 DEF TypeOK
    <3> QED BY <1>2, <2>2, <3>1, ClosingEffect DEF UseFails
  <2> QED BY <2>1, <2>2
<1>4. TypeOK'
  BY <1>1, <1>2, <1>3 DEF TypeOK, TInv
<1>5. TunnelPhase' /\ TunnelOutlivesSession'
  BY <1>1, <1>2, <1>3 DEF TunnelPhase, TunnelOutlivesSession, Untouched
<1>6. WaitersAwaitSomething'
  BY <1>2, <1>3, PoolAssumption DEF WaitersAwaitSomething, TypeOK
<1> QED BY <1>1, <1>3, <1>4, <1>5, <1>6

(* Edit, the two starts of a reload: only def and reload differ.           *)
LEMMA DropInv ==
    ASSUME PInv, NEW ks \in SUBSET Keys, StartClosing(ks),
           UNCHANGED tvars, UNCHANGED <<opening, akey, aver, pc, on, cver>>,
           def' \in [Keys -> 0..MaxEdits],
           reload' \in [Reloads -> [busy : BOOLEAN, left : SUBSET Users]]
    PROVE  PInv'
<1> USE DEF PInv
<1>1. TInv' /\ \A b \in Users : Untouched(b)
  BY SameEffect
<1>2. /\ open' \in [Keys -> Users \cup {NoAttempt}] /\ phase' \in [Users -> Phases]
      /\ MapInv' /\ NoOrphanSession'
      /\ \A a \in Users : \/ phase'[a] = phase[a]
                          \/ phase[a] = "live" /\ phase'[a] = "closing"
  BY ClosingEffect
<1>3. TypeOK'
  BY <1>1, <1>2 DEF TypeOK, TInv
<1>4. TunnelPhase' /\ TunnelOutlivesSession'
  BY <1>1, <1>2 DEF TunnelPhase, TunnelOutlivesSession, Untouched
<1>5. WaitersAwaitSomething'
  BY <1>2, PoolAssumption DEF WaitersAwaitSomething, TypeOK
<1> QED BY <1>1, <1>2, <1>3, <1>4, <1>5

LEMMA CloseTunnelsInv ==
    ASSUME PInv, CloseAll \/ UNCHANGED tvars,
           UNCHANGED <<open, opening, phase, akey, aver, pc, on, cver>>,
           def' \in [Keys -> 0..MaxEdits],
           reload' \in [Reloads -> [busy : BOOLEAN, left : SUBSET Users]]
    PROVE  PInv'
<1> USE DEF PInv
<1>1. TInv' /\ \A b \in Users : Untouched(b)
  BY SameEffect
<1>2. TypeOK'
  BY <1>1 DEF TypeOK, TInv
<1>3. MapInv' /\ NoOrphanSession' /\ WaitersAwaitSomething'
  BY DEF MapInv, NoOrphanSession, WaitersAwaitSomething
<1>4. TunnelPhase' /\ TunnelOutlivesSession'
  BY <1>1 DEF TunnelPhase, TunnelOutlivesSession, Untouched
<1> QED BY <1>1, <1>2, <1>3, <1>4

LEMMA ReloadInv ==
    ASSUME PInv, NEW r \in Reloads, NEW ks \in SUBSET Keys,
           ReloadStart(r, ks) \/ ReloadAtOnce(r, ks) \/ ReloadEnd(r)
    PROVE  PInv'
<1>1. TypeOK
  BY DEF PInv
<1>2. Reread(ks) => def' \in [Keys -> 0..MaxEdits]
  BY <1>1, PoolAssumption DEF Reread, TypeOK
<1>3. CASE ReloadStart(r, ks)
  <2>1. InPool \in SUBSET Users
    BY <1>1 DEF InPool, TypeOK
  <2>2. reload' \in [Reloads -> [busy : BOOLEAN, left : SUBSET Users]]
    BY <1>1, <1>3, <2>1 DEF ReloadStart, TypeOK
  <2>3. Keys \in SUBSET Keys
    OBVIOUS
  <2> QED BY <1>2, <1>3, <2>2, <2>3, DropInv DEF ReloadStart
<1>4. CASE ReloadAtOnce(r, ks)
  BY <1>1, <1>2, <1>4, CloseTunnelsInv DEF ReloadAtOnce, TypeOK
<1>5. CASE ReloadEnd(r)
  <2>1. reload' \in [Reloads -> [busy : BOOLEAN, left : SUBSET Users]]
    BY <1>1, <1>5 DEF ReloadEnd, NotRunning, TypeOK
  <2> QED BY <1>1, <1>5, <2>1, CloseTunnelsInv DEF ReloadEnd, TypeOK
<1> QED BY <1>3, <1>4, <1>5

LEMMA PoolNextInv == PInv /\ [Next]_vars => PInv'
<1> SUFFICES ASSUME PInv, [Next]_vars PROVE PInv'
  OBVIOUS
<1>1. ASSUME NEW k \in Keys, Edit(k) PROVE PInv'
  <2>1. {k} \in SUBSET Keys /\ def' \in [Keys -> 0..MaxEdits]
    BY <1>1, PoolAssumption DEF Edit, PInv, TypeOK
  <2> QED BY <1>1, <2>1, DropInv DEF Edit, PInv, TypeOK
<1>2. CASE UNCHANGED vars
  BY <1>2, CloseTunnelsInv DEF vars, pvars, PInv, TypeOK
<1>3. ASSUME NEW c \in Callers, NEW k \in Keys,
             AcquireOpen(c, k) \/ AcquireJoin(c, k) \/ \E a \in Users : AcquireStart(c, k, a)
      PROVE  PInv'
  BY <1>3, AcquireOpenInv, AcquireStartInv
<1>4. ASSUME NEW t \in Tunnels, ForwardReady(t) \/ ForwardLost(t) PROVE PInv'
  BY <1>4, ForwardReadyInv, ForwardLostInv
<1>5. ASSUME NEW a \in Users, Connects(a) \/ ConnectFails(a) \/ CloseDone(a) PROVE PInv'
  BY <1>5, ConnectsInv, ConnectFailsInv, CloseDoneInv
<1>6. ASSUME NEW c \in Callers, UseDone(c) \/ UseFails(c) PROVE PInv'
  BY <1>6, UseInv
<1>7. ASSUME NEW r \in Reloads,
             ReloadEnd(r) \/ \E ks \in SUBSET Keys : ReloadStart(r, ks) \/ ReloadAtOnce(r, ks)
      PROVE  PInv'
  <2>1. CASE ReloadEnd(r)
    <3>1. {} \in SUBSET Keys
      OBVIOUS
    <3> QED BY <2>1, <3>1, ReloadInv
  <2> QED BY <1>7, <2>1, ReloadInv
<1> QED BY <1>1, <1>2, <1>3, <1>4, <1>5, <1>6, <1>7 DEF Next

LEMMA PoolInductive == Spec => []PInv
BY PoolInitInv, PoolNextInv, PTL DEF Spec

-----------------------------------------------------------------------------
(* Every variable of the pool and of its tunnels keeps to its type.        *)
THEOREM PoolTypeCorrect == Spec => []TypeOK
<1>1. PInv => TypeOK
  BY DEF PInv
<1> QED BY <1>1, PoolInductive, PTL

(* No interleaving of connects, edits, failures and reloads leaves a live  *)
(* session, or one on its way, that the pool does not know.                *)
THEOREM NoOrphans == Spec => []NoOrphanSession
<1>1. PInv => NoOrphanSession
  BY DEF PInv
<1> QED BY <1>1, PoolInductive, PTL

(* A session's tunnel is held for exactly as long as the session needs it. *)
THEOREM TunnelHeld == Spec => []TunnelOutlivesSession
<1>1. PInv => TunnelOutlivesSession
  BY DEF PInv
<1> QED BY <1>1, PoolInductive, PTL

(* Whoever waits for a session waits for an attempt still under way.       *)
THEOREM NobodyWaitsInVain == Spec => []WaitersAwaitSomething
<1>1. PInv => WaitersAwaitSomething
  BY DEF PInv
<1> QED BY <1>1, PoolInductive, PTL

(* The pool uses its tunnels correctly: what Tunnels promises on its own   *)
(* still holds under the pool.                                             *)
THEOREM PoolTunnels == Spec => [](RefsCountHandles /\ MappedIsUp /\ NoIdleTunnel)
<1>1. PInv => RefsCountHandles /\ MappedIsUp /\ NoIdleTunnel
  BY DEF PInv, TInv
<1> QED BY <1>1, PoolInductive, PTL
=============================================================================
