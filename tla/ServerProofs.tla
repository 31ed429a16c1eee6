---------------------------- MODULE ServerProofs ----------------------------
(***************************************************************************)
(* Proofs about Server, for any clients, workspaces and requests.  The     *)
(* inductive invariant says what each stage of a query implies: which      *)
(* connection it draws from, whether it is in the running map, and that    *)
(* the session it holds belongs to its own connection and to no other.     *)
(***************************************************************************)
EXTENDS Server, TLAPS

Records == [stage : Stages, by : Clients \cup {Nothing}, left : BOOLEAN,
            key : Scopes \cup {Nothing}, on : 0..MaxSessions, why : Codes, code : Codes]

(* Where a query is, and what of it is recorded there.                     *)
Staged ==
    \A r \in Requests :
        /\ req[r].stage \notin {"idle", "done"} => req[r].key \in Scopes /\ req[r].by \in Clients
        /\ req[r].stage \in {"idle", "acquiring", "done"} => req[r].on = 0
        /\ req[r].stage \in {"running", "saving", "saved", "aborting", "closing"} => r \in running /\ req[r].on # 0
        /\ r \in running => req[r].stage \notin {"idle", "acquiring"}
        /\ req[r].stage = "acquiring" /\ req[r].left => r \in unheard

(* The open sessions differ, and the session of a query is open, if it is  *)
(* open at all, for the connection the query was sent on.                  *)
SessionsOwned ==
    /\ \A k, l \in Scopes : live[k] # 0 /\ live[k] = live[l] => k = l
    /\ \A k \in Scopes, r \in Requests : live[k] # 0 /\ live[k] = req[r].on => req[r].key = k

IInv == TypeOK /\ ScopesHaveOwners /\ Staged /\ SessionsOwned /\ NobodyRunsUnheard /\ RunningIsRunning

LEMMA ServerInitInv == Init => IInv
BY ServerAssumption DEF Init, IInv, TypeOK, ScopesHaveOwners, Staged, SessionsOwned,
   NobodyRunsUnheard, RunningIsRunning, Unsent, At, Stages, Codes, Scopes

(* A query that is answered: what is left of it is its code.               *)
LEMMA RepliedInv ==
    ASSUME IInv, NEW r \in Requests, NEW code \in Codes, Replied(r, code),
           running' \in {running \ {r}, running \cup {r}},
           r \in running' => code = "internal",
           UNCHANGED <<conns, results>>, screen' \in [Clients -> Requests \cup {Nothing}],
           \A k \in Scopes : live'[k] \in {0, live[k]}, live' \in [Scopes -> 0..MaxSessions]
    PROVE  IInv'
<1> USE ServerAssumption DEF IInv, Replied, Unsent, conns, views
<1>1. /\ \A q \in Requests : q # r => req'[q] = req[q]
      /\ req'[r] = [stage |-> "done", by |-> Nothing, left |-> FALSE, key |-> Nothing, on |-> 0,
                    why |-> "none", code |-> code]
  BY DEF TypeOK
<1>2. TypeOK'
  <2>1. [stage |-> "done", by |-> Nothing, left |-> FALSE, key |-> Nothing, on |-> 0,
         why |-> "none", code |-> code] \in Records
    <3>1. "done" \in Stages /\ "none" \in Codes /\ 0 \in 0..MaxSessions
      BY DEF Stages, Codes
    <3> QED BY <3>1 DEF Records
  <2>2. req' = [q \in Requests |-> req'[q]] /\ \A q \in Requests : req[q] \in Records
    BY DEF TypeOK, Records
  <2>3. req' \in [Requests -> Records]
    BY <1>1, <2>1, <2>2
  <2> QED BY <1>1, <2>3 DEF TypeOK, At, Records
<1>3. ScopesHaveOwners'
  BY DEF ScopesHaveOwners, Greeted, inlineScope
<1>4. Staged'
  BY <1>1 DEF Staged
<1>5. SessionsOwned'
  BY <1>1 DEF SessionsOwned, TypeOK
<1>6. NobodyRunsUnheard'
  BY <1>1 DEF NobodyRunsUnheard, At
<1>7. RunningIsRunning'
  BY <1>1 DEF RunningIsRunning, At
<1> QED BY <1>2, <1>3, <1>4, <1>5, <1>6, <1>7

-----------------------------------------------------------------------------
(* What clients do. *)

(* A step that leaves queries alone, and closes sessions or none.          *)
Aside ==
    /\ UNCHANGED <<req, running>>
    /\ live' \in [Scopes -> 0..MaxSessions] /\ \A k \in Scopes : live'[k] \in {0, live[k]}

LEMMA AsideInv ==
    ASSUME IInv, Aside, TypeOK', ScopesHaveOwners',
           aborted \subseteq aborted', unheard \subseteq unheard'
    PROVE  IInv'
<1>1. Staged' /\ RunningIsRunning'
  BY DEF Aside, IInv, Staged, RunningIsRunning, At
<1>2. SessionsOwned'
  BY ServerAssumption DEF Aside, IInv, SessionsOwned, TypeOK
<1>3. NobodyRunsUnheard'
  BY DEF Aside, IInv, NobodyRunsUnheard, At
<1> QED BY <1>1, <1>2, <1>3 DEF IInv

LEMMA ScopeIsScope == ASSUME TypeOK, NEW c \in Clients PROVE inlineScope(c) \in Scopes
BY DEF TypeOK, inlineScope, Scopes

LEMMA HelloInv ==
    ASSUME IInv, NEW c \in Clients, NEW w \in Workspaces \cup {Nothing},
           Hello(c, w) \/ UseWorkspace(c, w)
    PROVE  IInv'
<1>1. TypeOK'
  BY ScopeIsScope DEF IInv, TypeOK, Hello, UseWorkspace, views, At
<1>2. ScopesHaveOwners'
  <2>1. CASE Hello(c, w)
    BY <2>1 DEF IInv, TypeOK, Hello, Greeted, ScopesHaveOwners, inlineScope
  <2>2. CASE UseWorkspace(c, w)
    BY <2>2 DEF IInv, TypeOK, UseWorkspace, Greeted, ScopesHaveOwners, inlineScope
  <2> QED BY <2>1, <2>2
<1> QED BY <1>1, <1>2, AsideInv DEF Hello, UseWorkspace, Aside, IInv, TypeOK

LEMMA DefineInv ==
    ASSUME IInv, NEW c \in Clients, NEW text \in Texts, NEW withPassword \in BOOLEAN,
           Define(c, text, withPassword)
    PROVE  IInv'
<1> USE ServerAssumption
<1>1. live' \in [Scopes -> 0..MaxSessions] /\ \A k \in Scopes : live'[k] \in {0, live[k]}
  <2>1. CASE live' = live
    BY <2>1 DEF IInv, TypeOK
  <2>2. CASE live' = [live EXCEPT ![inlineScope(c)] = 0]
    BY <2>2, ScopeIsScope DEF IInv, TypeOK
  <2> QED BY <2>1, <2>2 DEF Define, define
<1>2. TypeOK'
  BY <1>1, ScopeIsScope DEF IInv, TypeOK, Define, define, views, At
<1>3. ScopesHaveOwners'
  BY ScopeIsScope DEF IInv, TypeOK, Define, define, Greeted, ScopesHaveOwners, inlineScope
<1> QED BY <1>1, <1>2, <1>3, AsideInv DEF Define, Aside

LEMMA ReloadInv ==
    ASSUME IInv, NEW c \in Clients, SetSecret(c) \/ Reload(c)
    PROVE  IInv'
<1> USE ServerAssumption
<1>1. live' \in [Scopes -> 0..MaxSessions] /\ \A k \in Scopes : live'[k] \in {0, live[k]}
  BY DEF SetSecret, Reload, IInv, TypeOK
<1>2. TypeOK'
  BY <1>1 DEF IInv, TypeOK, SetSecret, Reload, conns, views, At
<1>3. ScopesHaveOwners'
  BY DEF IInv, SetSecret, Reload, conns, Greeted, ScopesHaveOwners, inlineScope
<1> QED BY <1>1, <1>2, <1>3, AsideInv DEF SetSecret, Reload, Aside

LEMMA ResultInv ==
    ASSUME IInv, NEW c \in Clients, NEW r \in Requests,
           DeleteResult(c, r) \/ ShowResult(c, r) \/ Cancel(c, r)
    PROVE  IInv'
<1>1. TypeOK'
  BY DEF IInv, TypeOK, DeleteResult, ShowResult, Cancel, Display, conns, views, At
<1>2. ScopesHaveOwners'
  BY DEF IInv, DeleteResult, ShowResult, Cancel, conns, Greeted, ScopesHaveOwners, inlineScope
<1>3. aborted \subseteq aborted' /\ unheard \subseteq unheard'
  BY DEF DeleteResult, ShowResult, Cancel
<1>4. UNCHANGED <<req, running, live>>
  BY DEF DeleteResult, ShowResult, Cancel
<1> QED BY <1>1, <1>2, <1>3, <1>4, AsideInv DEF Aside, IInv, TypeOK

LEMMA DropInv ==
    ASSUME IInv, NEW c \in Clients, Drop(c)
    PROVE  IInv'
<1> USE ServerAssumption
<1> DEFINE s == inlineScope(c)
<1>0. s \in Scopes
  BY ScopeIsScope DEF IInv
<1>1. /\ live' \in [Scopes -> 0..MaxSessions] /\ \A k \in Scopes : live'[k] \in {0, live[k]}
      /\ inline' \in [Scopes -> Texts \cup {Nothing}] /\ deserted' \subseteq Scopes
  BY <1>0 DEF Drop, releaseScope, IInv, TypeOK
<1>2. \A r \in Requests : /\ req'[r] = [req[r] EXCEPT !.left = req'[r].left]
                          /\ req'[r].left \in BOOLEAN
                          /\ req'[r].left <=> req[r].left \/ r \in Of(c)
  BY DEF Drop, IInv, TypeOK
<1>3. \A r \in Requests : /\ req'[r] \in Records /\ req'[r].stage = req[r].stage
                          /\ req'[r].by = req[r].by /\ req'[r].key = req[r].key
                          /\ req'[r].on = req[r].on /\ req'[r].code = req[r].code
  <2> TAKE r \in Requests
  <2>1. req[r] \in Records
    BY DEF IInv, TypeOK, Records
  <2>2. PICK b \in BOOLEAN : req'[r] = [req[r] EXCEPT !.left = b]
    BY <1>2
  <2> QED BY <2>1, <2>2 DEF Records
<1>4. TypeOK'
  <2>1. req' \in [Requests -> Records]
    BY <1>3 DEF Drop
  <2>2. greeted' \subseteq Clients /\ ws' \in [Clients -> Workspaces \cup {Nothing}]
        /\ screen' \in [Clients -> Requests \cup {Nothing}]
    BY DEF Drop, IInv, TypeOK
  <2>3. aborted' \subseteq running' /\ running' \subseteq Requests
        /\ unheard' \subseteq Requests /\ results' \subseteq Requests
    BY DEF Drop, IInv, TypeOK, AbortAll, Of
  <2>4. \A r \in Requests : At(r, "running")' => req'[r].on # 0
    BY <1>3 DEF IInv, TypeOK, At
  <2> QED BY <1>1, <2>1, <2>2, <2>3, <2>4 DEF TypeOK, Records
<1>5. ScopesHaveOwners'
  <2>1. CASE \E d \in Clients \ {c} : Shares(d, s)
    BY <2>1 DEF Drop, IInv, TypeOK, Shares, ScopesHaveOwners, Greeted, inlineScope
  <2>2. CASE ~\E d \in Clients \ {c} : Shares(d, s)
    <3>1. releaseScope(s)
      BY <2>2 DEF Drop
    <3> QED BY <1>0, <3>1 DEF Drop, IInv, TypeOK, releaseScope, ScopesHaveOwners, Greeted, inlineScope
  <2> QED BY <2>1, <2>2
<1>6. Staged' /\ RunningIsRunning'
  <2>1. running' = running /\ unheard \subseteq unheard'
    BY DEF Drop
  <2>2. \A r \in Requests : req[r].stage = "acquiring" /\ r \in Of(c) => r \in unheard'
    BY DEF Drop, At
  <2>3. Staged'
    BY <1>2, <1>3, <2>1, <2>2 DEF IInv, Staged
  <2> QED BY <1>3, <2>1, <2>3 DEF IInv, TypeOK, RunningIsRunning, At
<1>7. SessionsOwned'
  BY <1>1, <1>3 DEF IInv, SessionsOwned, TypeOK
<1>8. NobodyRunsUnheard'
  BY <1>2, <1>3 DEF Drop, AbortAll, IInv, Staged, NobodyRunsUnheard, At
<1> QED BY <1>4, <1>5, <1>6, <1>7, <1>8 DEF IInv

-----------------------------------------------------------------------------
(* What serving a query does. *)

LEMMA StartInv ==
    ASSUME IInv, NEW c \in Clients, NEW r \in Requests, Start(c, r)
    PROVE  IInv'
<1> USE ServerAssumption DEF Start, conns, views
<1>0. inlineScope(c) \in Scopes
  BY ScopeIsScope DEF IInv
<1>1. /\ \A q \in Requests : q # r => req'[q] = req[q]
      /\ \/ req'[r] = [stage |-> "acquiring", by |-> c, left |-> FALSE, key |-> inlineScope(c), on |-> 0,
                       why |-> "none", code |-> "none"]
         \/ req'[r] = [stage |-> "done", by |-> Nothing, left |-> FALSE, key |-> Nothing, on |-> 0,
                       why |-> "none", code |-> "not_found"]
  BY DEF Unsent, IInv, TypeOK
<1>2. r \notin running
  BY DEF IInv, Staged, At
<1>3. TypeOK'
  <2>1. req'[r] \in Records
    <3>1. {"done", "acquiring"} \subseteq Stages /\ {"none", "not_found"} \subseteq Codes /\ 0 \in 0..MaxSessions
      BY DEF Stages, Codes
    <3>2. [stage |-> "acquiring", by |-> c, left |-> FALSE, key |-> inlineScope(c), on |-> 0,
           why |-> "none", code |-> "none"] \in Records
      BY <1>0, <3>1 DEF Records
    <3>3. [stage |-> "done", by |-> Nothing, left |-> FALSE, key |-> Nothing, on |-> 0,
           why |-> "none", code |-> "not_found"] \in Records
      BY <3>1 DEF Records
    <3> QED BY <1>1, <3>2, <3>3
  <2>2. req' = [q \in Requests |-> req'[q]] /\ \A q \in Requests : req[q] \in Records
    BY DEF IInv, TypeOK, Records
  <2>3. req' \in [Requests -> Records]
    BY <1>1, <2>1, <2>2
  <2> QED BY <1>1, <2>3 DEF IInv, TypeOK, At, Records
<1>4. ScopesHaveOwners'
  BY DEF IInv, ScopesHaveOwners, Greeted, inlineScope
<1>9. /\ req'[r].on = 0 /\ req'[r].stage \in {"acquiring", "done"} /\ req'[r].left = FALSE
      /\ req'[r].stage = "acquiring" => req'[r].key = inlineScope(c) /\ req'[r].by = c
  <2>1. CASE Resolves(c)
    BY <2>1 DEF Unsent, IInv, TypeOK
  <2>2. CASE ~Resolves(c)
    BY <2>2 DEF Unsent, IInv, TypeOK
  <2> QED BY <2>1, <2>2
<1>5. Staged'
  <2>1. \A q \in Requests \ {r} : req'[q] = req[q]
    BY <1>1
  <2> QED BY <1>0, <1>9, <1>2, <2>1 DEF IInv, Staged
<1>6. SessionsOwned'
  BY <1>1, <1>9 DEF IInv, SessionsOwned, TypeOK
<1>7. NobodyRunsUnheard'
  BY <1>1 DEF IInv, NobodyRunsUnheard, At
<1>8. RunningIsRunning'
  BY <1>1, <1>2 DEF IInv, TypeOK, RunningIsRunning, At
<1> QED BY <1>3, <1>4, <1>5, <1>6, <1>7, <1>8 DEF IInv

(* acquire opens a session no one has, or none.                            *)
LEMMA AcquireEffect ==
    ASSUME TypeOK, SessionsOwned, NEW k \in Scopes, Acquire(k)
    PROVE  /\ live' \in [Scopes -> 0..MaxSessions] /\ live'[k] # 0
           /\ \A l \in Scopes : l # k => live'[l] = live[l] /\ live'[l] # live'[k]
           /\ \A r \in Requests : req[r].on = live'[k] => req[r].key = k
<1> USE ServerAssumption DEF TypeOK, SessionsOwned
<1>1. CASE live[k] # 0 /\ UNCHANGED live
  BY <1>1
<1>2. CASE live[k] = 0 /\ Unused # {} /\ live' = [live EXCEPT ![k] = CHOOSE n \in Unused : TRUE]
  <2>1. PICK n \in Unused : live' = [live EXCEPT ![k] = n]
    BY <1>2
  <2>2. n \in 1..MaxSessions /\ (\A l \in Scopes : live[l] # n) /\ \A r \in Requests : req[r].on # n
    BY DEF Unused
  <2> QED BY <2>1, <2>2
<1> QED BY <1>1, <1>2 DEF Acquire

LEMMA BrowseInv ==
    ASSUME IInv, NEW c \in Clients, Browse(c)
    PROVE  IInv'
<1> USE ServerAssumption DEF Browse, conns, views
<1> DEFINE k == inlineScope(c)
<1>0. k \in Scopes
  BY ScopeIsScope DEF IInv
<1>1. /\ live' \in [Scopes -> 0..MaxSessions] /\ live'[k] # 0
      /\ \A l \in Scopes : l # k => live'[l] = live[l] /\ live'[l] # live'[k]
      /\ \A r \in Requests : req[r].on = live'[k] => req[r].key = k
  BY <1>0, AcquireEffect DEF IInv
<1>2. TypeOK'
  BY <1>1 DEF IInv, TypeOK, At
<1>3. ScopesHaveOwners'
  BY DEF IInv, ScopesHaveOwners, Greeted, inlineScope
<1>4. Staged' /\ NobodyRunsUnheard' /\ RunningIsRunning'
  BY DEF IInv, Staged, NobodyRunsUnheard, RunningIsRunning, At
<1>5. SessionsOwned'
  BY <1>0, <1>1 DEF IInv, SessionsOwned
<1> QED BY <1>2, <1>3, <1>4, <1>5 DEF IInv

LEMMA AcquiredInv ==
    ASSUME IInv, NEW r \in Requests, Acquired(r)
    PROVE  IInv'
<1> USE ServerAssumption DEF Acquired, conns, views
<1> DEFINE k == req[r].key
<1>0. k \in Scopes /\ r \notin running /\ (req[r].left => r \in unheard)
  BY DEF IInv, Staged, At
<1>1. /\ live' \in [Scopes -> 0..MaxSessions] /\ live'[k] # 0
      /\ \A l \in Scopes : l # k => live'[l] = live[l] /\ live'[l] # live'[k]
      /\ \A q \in Requests : req[q].on = live'[k] => req[q].key = k
  BY <1>0, AcquireEffect DEF IInv
<1>2. /\ \A q \in Requests : q # r => req'[q] = req[q]
      /\ req'[r] = [req[r] EXCEPT !.stage = "running", !.on = live'[k]]
  BY DEF IInv, TypeOK
<1>3. /\ req'[r] \in Records /\ req'[r].stage = "running" /\ req'[r].on = live'[k]
      /\ req'[r].by = req[r].by /\ req'[r].key = k /\ req'[r].left = req[r].left
  <2>1. req[r] \in Records /\ "running" \in Stages /\ live'[k] \in 0..MaxSessions
    BY <1>0, <1>1 DEF IInv, TypeOK, Records, Stages
  <2>2. PICK q \in Records, on \in 0..MaxSessions : q = req[r] /\ on = live'[k]
    BY <2>1
  <2>5. PICK p : p = req'[r]
    OBVIOUS
  <2>3. p = [q EXCEPT !.stage = "running", !.on = on]
    BY <1>2, <2>2, <2>5
  <2>4. /\ p \in Records /\ p.stage = "running" /\ p.on = on
        /\ p.by = q.by /\ p.key = q.key /\ p.left = q.left
    BY <2>1, <2>3 DEF Records
  <2> QED BY <2>2, <2>5, <2>4
<1>4. TypeOK'
  <2>1. req' = [q \in Requests |-> req'[q]] /\ \A q \in Requests : req[q] \in Records
    BY DEF IInv, TypeOK, Records
  <2>2. req' \in [Requests -> Records]
    BY <1>2, <1>3, <2>1
  <2> QED BY <1>1, <1>2, <1>3, <2>2 DEF IInv, TypeOK, At, Records
<1>5. ScopesHaveOwners'
  BY DEF IInv, ScopesHaveOwners, Greeted, inlineScope
<1>6. Staged'
  <2>1. \A q \in Requests \ {r} : req'[q] = req[q] /\ (q \in running' <=> q \in running)
    BY <1>2
  <2>2. req[r].by \in Clients
    BY DEF IInv, Staged, At
  <2>3. req'[r].on # 0 /\ r \in running'
    BY <1>1, <1>3
  <2> SUFFICES ASSUME NEW q \in Requests
               PROVE  /\ req'[q].stage \notin {"idle", "done"} => req'[q].key \in Scopes /\ req'[q].by \in Clients
                      /\ req'[q].stage \in {"idle", "acquiring", "done"} => req'[q].on = 0
                      /\ req'[q].stage \in {"running", "saving", "saved", "aborting", "closing"}
                            => q \in running' /\ req'[q].on # 0
                      /\ q \in running' => req'[q].stage \notin {"idle", "acquiring"}
                      /\ req'[q].stage = "acquiring" /\ req'[q].left => q \in unheard'
    BY DEF Staged
  <2>4. CASE q = r
    BY <1>0, <1>3, <2>2, <2>3, <2>4
  <2>5. CASE q # r
    BY <2>1, <2>5 DEF IInv, Staged
  <2> QED BY <2>4, <2>5
<1>7. SessionsOwned'
  <2>1. \A l \in Scopes, q \in Requests : live'[l] # 0 /\ live'[l] = req'[q].on => req'[q].key = l
    <3> TAKE l \in Scopes, q \in Requests
    <3>1. CASE l = k
      BY <1>1, <1>2, <1>3, <3>1
    <3>2. CASE l # k
      <4>1. q # r => (live[l] # 0 /\ live[l] = req[q].on => req[q].key = l) /\ req'[q] = req[q]
        BY <1>2 DEF IInv, SessionsOwned
      <4>2. live'[l] = live[l] /\ live'[l] # req'[r].on
        BY <1>1, <1>3, <3>2
      <4> QED BY <4>1, <4>2
    <3> QED BY <3>1, <3>2
  <2>2. \A l, m \in Scopes : live'[l] # 0 /\ live'[l] = live'[m] => l = m
    BY <1>0, <1>1 DEF IInv, SessionsOwned
  <2> QED BY <2>1, <2>2 DEF SessionsOwned
<1>8. NobodyRunsUnheard'
  BY <1>0, <1>2, <1>3 DEF IInv, NobodyRunsUnheard, At
<1>9. RunningIsRunning'
  BY <1>2, <1>3 DEF IInv, TypeOK, RunningIsRunning, At
<1> QED BY <1>4, <1>5, <1>6, <1>7, <1>8, <1>9 DEF IInv

(* A query that has its session moves on, and keeps it.                    *)
Moved(r, stage, why) ==
    req' = [req EXCEPT ![r].stage = stage, ![r].why = why]

LEMMA MovedInv ==
    ASSUME IInv, NEW r \in Requests, r \in running,
           NEW stage \in Stages \ {"idle", "acquiring", "done"}, NEW why \in Codes, Moved(r, stage, why),
           req[r].stage \notin {"idle", "done"}, stage = "running" => At(r, "running"),
           UNCHANGED <<conns, screen, running, aborted, unheard>>, results' \subseteq Requests,
           live' \in [Scopes -> 0..MaxSessions], \A k \in Scopes : live'[k] \in {0, live[k]}
    PROVE  IInv'
<1> USE ServerAssumption DEF conns
<1>1. /\ \A q \in Requests : q # r => req'[q] = req[q]
      /\ req'[r] = [req[r] EXCEPT !.stage = stage, !.why = why]
  BY DEF IInv, TypeOK, Moved
<1>2. /\ req'[r] \in Records /\ req'[r].stage = stage /\ req'[r].on = req[r].on
      /\ req'[r].by = req[r].by /\ req'[r].key = req[r].key /\ req'[r].left = req[r].left
  <2>1. req[r] \in Records
    BY DEF IInv, TypeOK, Records
  <2>2. PICK q, p : q \in Records /\ q = req[r] /\ p = req'[r]
    BY <2>1
  <2>3. p = [q EXCEPT !.stage = stage, !.why = why]
    BY <1>1, <2>2
  <2>4. /\ p \in Records /\ p.stage = stage /\ p.on = q.on
        /\ p.by = q.by /\ p.key = q.key /\ p.left = q.left
    BY <2>2, <2>3 DEF Records
  <2> QED BY <2>2, <2>4
<1>3. TypeOK'
  <2>1. req' = [q \in Requests |-> req'[q]] /\ \A q \in Requests : req[q] \in Records
    BY DEF IInv, TypeOK, Records, Moved
  <2>2. req' \in [Requests -> Records]
    BY <1>1, <1>2, <2>1
  <2>3. \A q \in Requests : At(q, "running")' => req'[q].on # 0
    <3>1. stage = "running" => req[r].stage = "running" /\ req[r].on # 0
      BY DEF At, IInv, TypeOK
    <3> QED BY <1>1, <1>2, <3>1 DEF IInv, TypeOK, At
  <2> QED BY <2>2, <2>3 DEF IInv, TypeOK, Records
<1>4. ScopesHaveOwners'
  BY DEF IInv, ScopesHaveOwners, Greeted, inlineScope
<1>5. Staged'
  <2>1. \A q \in Requests \ {r} : req'[q] = req[q]
    BY <1>1
  <2>2. req[r].by \in Clients /\ req[r].key \in Scopes
    BY DEF IInv, Staged
  <2>3. req[r].on # 0
    <3>1. req[r].stage \in Stages
      BY DEF IInv, TypeOK
    <3> QED BY <3>1 DEF IInv, Staged, Stages
  <2> QED BY <1>2, <2>1, <2>2, <2>3 DEF IInv, Staged
<1>6. SessionsOwned'
  <2>1. \A q \in Requests : req'[q].on = req[q].on /\ req'[q].key = req[q].key
    BY <1>1, <1>2
  <2> QED BY <2>1 DEF IInv, SessionsOwned, TypeOK
<1>7. NobodyRunsUnheard'
  BY <1>1, <1>2 DEF IInv, NobodyRunsUnheard, At
<1>8. RunningIsRunning'
  BY <1>1, <1>2 DEF IInv, TypeOK, RunningIsRunning, At
<1> QED BY <1>3, <1>4, <1>5, <1>6, <1>7, <1>8 DEF IInv

LEMMA ServingInv ==
    ASSUME IInv, NEW r \in Requests, Serving(r)
    PROVE  IInv'
<1> USE ServerAssumption DEF conns, views
<1>0. screen \in [Clients -> Requests \cup {Nothing}] /\ live \in [Scopes -> 0..MaxSessions] /\ running \ {r} \in {running \ {r}, running \cup {r}}
  BY DEF IInv, TypeOK
<1>1. CASE Acquired(r)
  BY <1>1, AcquiredInv
<1>2. CASE AcquireFails(r)
  <2>1. "network" \in Codes /\ Replied(r, "network") /\ running' = running \ {r} /\ live' = live
    BY <1>2 DEF AcquireFails, Ended, Codes
  <2> QED BY <1>0, <1>2, <2>1, RepliedInv DEF AcquireFails
<1>3. CASE BeginFails(r)
  <2>1. "internal" \in Codes /\ Replied(r, "internal") /\ running' = running \cup {r}
    BY <1>3 DEF BeginFails, Codes
  <2> QED BY <1>0, <1>3, <2>1, RepliedInv DEF BeginFails
<1>4. CASE Finished(r)
  <2>1. "ok" \in Codes /\ Replied(r, "ok") /\ running' = running \ {r}
    BY <1>4 DEF Finished, Ended, Codes
  <2>2. screen' \in [Clients -> Requests \cup {Nothing}] /\ UNCHANGED <<conns, live, results>>
    BY <1>4 DEF Finished, Display, IInv, TypeOK
  <2> QED BY <1>0, <2>1, <2>2, RepliedInv
<1>5. CASE Closed(r)
  <2>1. req[r].why \in Codes /\ Replied(r, req[r].why) /\ running' = running \ {r}
    BY <1>5 DEF Closed, Ended, IInv, TypeOK
  <2> QED BY <1>0, <1>5, <2>1, RepliedInv DEF Closed
<1>6. CASE Aborted(r)
  <2>0. CodeOf(r) \in Codes /\ req[r].key \in Scopes /\ r \in running
    BY <1>6 DEF Aborted, CodeOf, IInv, TypeOK, Staged, At, Codes
  <2>1. CASE Broken(CodeOf(r))
    <3>1. Moved(r, "closing", CodeOf(r)) /\ live' = [live EXCEPT ![req[r].key] = 0]
          /\ UNCHANGED <<conns, views, running, aborted, unheard>>
      BY <1>6, <2>1 DEF Aborted, Moved
    <3>2. "closing" \in Stages \ {"idle", "acquiring", "done"} /\ req[r].stage \notin {"idle", "done"}
      BY <1>6 DEF Stages, Aborted, At
    <3>3. live' \in [Scopes -> 0..MaxSessions] /\ (\A k \in Scopes : live'[k] \in {0, live[k]})
          /\ results' \subseteq Requests
      BY <1>0, <2>0, <3>1 DEF IInv, TypeOK
    <3> QED BY <2>0, <3>1, <3>2, <3>3, MovedInv
  <2>2. CASE ~Broken(CodeOf(r))
    <3>1. Replied(r, CodeOf(r)) /\ running' = running \ {r} /\ UNCHANGED <<conns, views, live>>
      BY <1>6, <2>2 DEF Aborted, Ended
    <3> QED BY <1>0, <2>0, <3>1, RepliedInv
  <2> QED BY <2>1, <2>2
<1>7. ASSUME NEW code \in Failures \cup {"cancelled", "timeout"},
             Interrupted(r) \/ StreamEnds(r) \/ Saved(r) \/ SaveFails(r) \/ StreamFails(r, code)
      PROVE  IInv'
  <2>1. r \in running /\ req[r].stage \notin {"idle", "done"} /\ req[r].why \in Codes
    BY <1>7 DEF IInv, TypeOK, Staged, At, Interrupted, StreamEnds, Saved, SaveFails, StreamFails
  <2>2. code \in Codes
    BY DEF Codes
  <2>3. PICK stage \in {"running", "saving", "saved", "aborting"}, why \in Codes :
            Moved(r, stage, why) /\ (stage = "running" => At(r, "running"))
    <3>1. req = [q \in Requests |-> req[q]] /\ req[r] \in Records
      BY DEF IInv, TypeOK, Records
    <3>2. CASE Interrupted(r)
      <4>1. PICK why \in {"timeout", "cancelled"} : At(r, "running") /\ req' = [req EXCEPT ![r].why = why]
        BY <3>2 DEF Interrupted, Fires
      <4>2. req' = [req EXCEPT ![r].stage = "running", ![r].why = why]
        BY <3>1, <4>1 DEF At, Records
      <4> QED BY <4>1, <4>2 DEF Moved, Codes
    <3>3. CASE StreamEnds(r)
      <4>1. req' = [req EXCEPT ![r].stage = "saving", ![r].why = req[r].why]
        BY <3>1, <3>3 DEF StreamEnds, Records
      <4> QED BY <2>1, <4>1 DEF Moved
    <3>4. CASE Saved(r)
      <4>1. req' = [req EXCEPT ![r].stage = "saved", ![r].why = req[r].why]
        BY <3>1, <3>4 DEF Saved, Records
      <4> QED BY <2>1, <4>1 DEF Moved
    <3>5. CASE SaveFails(r)
      BY <3>5 DEF SaveFails, Moved, Codes
    <3>6. CASE StreamFails(r, code)
      BY <2>2, <3>6 DEF StreamFails, Moved
    <3> QED BY <1>7, <3>2, <3>3, <3>4, <3>5, <3>6
  <2>4. /\ UNCHANGED <<conns, screen, live, running, aborted, unheard>> /\ results' \subseteq Requests
        /\ {"running", "saving", "saved", "aborting"} \subseteq Stages \ {"idle", "acquiring", "done"}
    BY <1>7 DEF Interrupted, StreamEnds, Saved, SaveFails, StreamFails, Stages, IInv, TypeOK
  <2> QED BY <1>0, <2>1, <2>3, <2>4, MovedInv
<1> QED BY <1>1, <1>2, <1>3, <1>4, <1>5, <1>6, <1>7 DEF Serving

LEMMA ServerNextInv == IInv /\ [Next]_vars => IInv'
<1> SUFFICES ASSUME IInv, [Next]_vars PROVE IInv'
  OBVIOUS
<1>1. CASE Connections
  BY <1>1, HelloInv, DefineInv, ReloadInv, ResultInv, DropInv, StartInv, BrowseInv DEF Connections
<1>2. CASE \E r \in Requests : Serving(r)
  BY <1>2, ServingInv
<1>3. CASE UNCHANGED vars
  BY <1>3 DEF vars, conns, views, IInv, TypeOK, ScopesHaveOwners, Staged, SessionsOwned,
     NobodyRunsUnheard, RunningIsRunning, Greeted, inlineScope, At
<1> QED BY <1>1, <1>2, <1>3 DEF Next

THEOREM ServerInductive == Spec => []IInv
BY ServerInitInv, ServerNextInv, PTL DEF Spec

-----------------------------------------------------------------------------
(* The state of the server has its type for any clients and requests.      *)
THEOREM ServerTypeCorrect == Spec => []TypeOK
<1>1. IInv => TypeOK
  BY DEF IInv
<1> QED BY <1>1, ServerInductive, PTL

(* A scope keeps connections only while a client draws from it, or one     *)
(* left it by useWorkspace (server.ts:165-175, 251-267).                   *)
THEOREM ScopesAreOwned == Spec => []ScopesHaveOwners
<1>1. IInv => ScopesHaveOwners
  BY DEF IInv
<1> QED BY <1>1, ServerInductive, PTL

(* Whatever runs for a client that has gone was not registered when it     *)
(* went (server.ts:164, 300, 392-404).                                     *)
THEOREM LeaversAreHeard == Spec => []NobodyRunsUnheard
<1>1. IInv => NobodyRunsUnheard
  BY DEF IInv
<1> QED BY <1>1, ServerInductive, PTL

(* Only a writer that could not begin leaves its query in the running map  *)
(* (server.ts:403-412, 466-468).                                           *)
THEOREM RunningMapIsTrue == Spec => []RunningIsRunning
<1>1. IInv => RunningIsRunning
  BY DEF IInv
<1> QED BY <1>1, ServerInductive, PTL

-----------------------------------------------------------------------------
(* A step that serves one query leaves every other as it is, and a step of *)
(* a client changes no stage but that of a query it starts.                *)
LEMMA OnlyItsQuery ==
    ASSUME IInv, NEW r \in Requests, NEW q \in Requests, q # r, Serving(q)
    PROVE  req'[r] = req[r]
BY DEF Serving, Acquired, AcquireFails, BeginFails, Interrupted, Fires, StreamEnds, Saved, SaveFails,
   Finished, Aborted, Closed, StreamFails, Ended, Replied, IInv, TypeOK

LEMMA ClientsMoveNothing ==
    ASSUME IInv, Connections, NEW r \in Requests, req[r].stage # "idle"
    PROVE  req'[r].stage = req[r].stage
<1>1. CASE req' = req
  BY <1>1
<1>2. ASSUME NEW c \in Clients, NEW q \in Requests, Start(c, q)
      PROVE  req'[r].stage = req[r].stage
  BY <1>2 DEF Start, At, IInv, TypeOK
<1>3. ASSUME NEW c \in Clients, Drop(c)
      PROVE  req'[r].stage = req[r].stage
  BY <1>3 DEF Drop, IInv, TypeOK
<1>4. req' = req \/ (\E c \in Clients, q \in Requests : Start(c, q)) \/ \E c \in Clients : Drop(c)
  BY DEF Connections, Browse, SetSecret, Reload, Hello, UseWorkspace, Define, Cancel, DeleteResult, ShowResult
<1> QED BY <1>1, <1>2, <1>3, <1>4

(* What moves a query on from where it waits for writer.abort or shows.    *)
LEMMA LeavesAborting ==
    ASSUME IInv, [Next]_vars, NEW r \in Requests, At(r, "aborting"), req'[r].stage # "aborting"
    PROVE  Aborted(r)
<1>1. ~Connections /\ ~UNCHANGED vars
  BY ClientsMoveNothing DEF vars, At
<1>2. PICK q \in Requests : Serving(q)
  BY <1>1 DEF Next
<1>3. q = r
  BY <1>2, OnlyItsQuery DEF At
<1> QED BY <1>2, <1>3 DEF Serving, At, Acquired, AcquireFails, BeginFails, Interrupted, StreamEnds, Saved,
        SaveFails, Finished, Closed, StreamFails

LEMMA LeavesSaved ==
    ASSUME IInv, [Next]_vars, NEW r \in Requests, At(r, "saved"), req'[r].stage # "saved"
    PROVE  Finished(r)
<1>1. ~Connections /\ ~UNCHANGED vars
  BY ClientsMoveNothing DEF vars, At
<1>2. PICK q \in Requests : Serving(q)
  BY <1>1 DEF Next
<1>3. q = r
  BY <1>2, OnlyItsQuery DEF At
<1> QED BY <1>2, <1>3 DEF Serving, At, Acquired, AcquireFails, BeginFails, Interrupted, StreamEnds, Saved,
        SaveFails, Aborted, Closed, StreamFails

LEMMA AbortedAnswers ==
    ASSUME IInv, NEW r \in Requests, Aborted(r)
    PROVE  \/ /\ Broken(CodeOf(r)) /\ live' = [live EXCEPT ![req[r].key] = 0]
              /\ req'[r].stage = "closing" /\ req'[r].why = CodeOf(r) /\ req'[r].code = req[r].code
           \/ /\ ~Broken(CodeOf(r)) /\ live' = live
              /\ req'[r].stage = "done" /\ req'[r].code = CodeOf(r) /\ req'[r].why = "none"
<1>1. CASE Broken(CodeOf(r))
  BY <1>1 DEF Aborted, IInv, TypeOK
<1>2. CASE ~Broken(CodeOf(r))
  <2>1. Replied(r, CodeOf(r)) /\ live' = live
    BY <1>2 DEF Aborted, Ended
  <2>2. req'[r] = [Unsent EXCEPT !.stage = "done", !.code = CodeOf(r)]
    BY <2>1 DEF Replied, IInv, TypeOK
  <2>3. req'[r].stage = "done" /\ req'[r].code = CodeOf(r) /\ req'[r].why = "none"
    BY <2>2 DEF Unsent
  <2> QED BY <1>2, <2>1, <2>3
<1> QED BY <1>1, <1>2

(* A caller that gets through after a query was answered with cancelled,   *)
(* timeout or network never gets that query's session                      *)
(* (server.ts:459-464).                                                    *)
THEOREM SessionsBreak == Spec => BrokenSessionsGo
<1> DEFINE spoilt == {"cancelled", "timeout", "network"}
           Goes ==
        \A r \in Requests :
            /\ At(r, "aborting") /\ req'[r].stage # "aborting"
            /\ req'[r].why \in spoilt \/ req'[r].code \in spoilt
            => \A k \in Scopes : live'[k] # req[r].on
<1>1. IInv /\ [Next]_vars => [Goes]_vars
  <2> SUFFICES ASSUME IInv, [Next]_vars, NEW r \in Requests,
                      At(r, "aborting"), req'[r].stage # "aborting",
                      req'[r].why \in spoilt \/ req'[r].code \in spoilt,
                      NEW k \in Scopes
               PROVE  live'[k] # req[r].on
    BY DEF Goes
  <2>1. Aborted(r)
    BY LeavesAborting
  <2>2. Broken(CodeOf(r)) /\ live' = [live EXCEPT ![req[r].key] = 0]
    BY <2>1, AbortedAnswers DEF Broken
  <2>3. req[r].on # 0 /\ req[r].key \in Scopes
    BY DEF IInv, Staged, At
  <2> QED BY <2>2, <2>3 DEF IInv, TypeOK, SessionsOwned
<1>2. Spec => [][Goes]_vars
  BY <1>1, ServerInductive, PTL DEF Spec
<1> QED BY <1>2 DEF BrokenSessionsGo

(* The signal decides on the code (server.ts:450-458).                     *)
THEOREM CodesAreFaithful == Spec => FaithfulCodes
<1> DEFINE Faithful ==
        \A r \in Requests : At(r, "aborting") /\ req'[r].stage # "aborting" =>
            LET code == IF req'[r].stage = "done" THEN req'[r].code ELSE req'[r].why
            IN  code = "cancelled" <=> r \in aborted \/ req[r].why = "cancelled"
<1>1. IInv /\ [Next]_vars => [Faithful]_vars
  <2> SUFFICES ASSUME IInv, [Next]_vars, NEW r \in Requests,
                      At(r, "aborting"), req'[r].stage # "aborting"
               PROVE  LET code == IF req'[r].stage = "done" THEN req'[r].code ELSE req'[r].why
                      IN  code = "cancelled" <=> r \in aborted \/ req[r].why = "cancelled"
    BY DEF Faithful
  <2>1. Aborted(r)
    BY LeavesAborting
  <2> QED BY <2>1, AbortedAnswers DEF CodeOf
<1>2. Spec => [][Faithful]_vars
  BY <1>1, ServerInductive, PTL DEF Spec
<1> QED BY <1>2 DEF FaithfulCodes

(* Nobody loses a connection to the departure of somebody else             *)
(* (server.ts:165-175).                                                    *)
THEOREM OthersAreSpared == Spec => SharedScopesKept
<1> DEFINE Kept ==
        \A s \in Scopes : inline[s] # Nothing /\ inline'[s] = Nothing =>
            ~\E c \in Clients : c \in greeted' /\ inlineScope(c) = s
<1>1. IInv /\ [Next]_vars => [Kept]_vars
  <2> SUFFICES ASSUME IInv, [Next]_vars, NEW s \in Scopes,
                      inline[s] # Nothing, inline'[s] = Nothing
               PROVE  ~\E c \in Clients : c \in greeted' /\ inlineScope(c) = s
    BY DEF Kept
  <2>1. inline' # inline
    OBVIOUS
  <2>2. ASSUME NEW c \in Clients, NEW text \in Texts, NEW withPassword \in BOOLEAN, Define(c, text, withPassword)
        PROVE  FALSE
    <3>1. inline' = [inline EXCEPT ![inlineScope(c)] = text] /\ text # Nothing
      BY <2>2, ServerAssumption DEF Define, define
    <3> QED BY <3>1 DEF IInv, TypeOK
  <2>3. PICK c \in Clients : Drop(c)
    <3>1. ~\E r \in Requests : Serving(r)
      BY <2>1 DEF Serving, Acquired, AcquireFails, BeginFails, Interrupted, StreamEnds, Saved, SaveFails,
         Finished, Aborted, Closed, StreamFails, conns
    <3>2. Connections
      BY <2>1, <3>1 DEF Next, vars, conns
    <3> QED BY <2>1, <2>2, <3>2 DEF Connections, Browse, SetSecret, Reload, Hello, UseWorkspace, Start, Cancel,
            DeleteResult, ShowResult, conns
  <2>4. releaseScope(inlineScope(c)) /\ ~\E d \in Clients \ {c} : Shares(d, inlineScope(c))
    BY <2>1, <2>3 DEF Drop
  <2>5. s = inlineScope(c)
    BY <2>4 DEF releaseScope, IInv, TypeOK
  <2> QED BY <2>3, <2>4, <2>5 DEF Drop, Shares, Greeted
<1>2. Spec => [][Kept]_vars
  BY <1>1, ServerInductive, PTL DEF Spec
<1> QED BY <1>2 DEF SharedScopesKept

(* When an agent's query is answered, every screen has its result, unless  *)
(* it was deleted in between (server.ts:432-438).                          *)
THEOREM AgentsAreSeen == Spec => AgentWorkIsSeen
<1> DEFINE Seen ==
        \A r \in Requests : At(r, "saved") /\ req'[r].stage = "done" /\ r \in results
                /\ req[r].by \notin Humans =>
                \A c \in Clients : Greeted(c) /\ c \in Humans => screen'[c] = r
<1>1. IInv /\ [Next]_vars => [Seen]_vars
  <2> SUFFICES ASSUME IInv, [Next]_vars, NEW r \in Requests,
                      At(r, "saved"), req'[r].stage = "done", r \in results, req[r].by \notin Humans,
                      NEW c \in Clients, Greeted(c), c \in Humans
               PROVE  screen'[c] = r
    BY DEF Seen
  <2>1. Finished(r)
    BY LeavesSaved
  <2> QED BY <2>1 DEF Finished, Shown, Display
<1>2. Spec => [][Seen]_vars
  BY <1>1, ServerInductive, PTL DEF Spec
<1> QED BY <1>2 DEF AgentWorkIsSeen
=============================================================================
